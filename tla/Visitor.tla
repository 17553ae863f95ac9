------------------------------- MODULE Visitor -------------------------------
(***************************************************************************)
(* A signed-out visitor: the tries they are remembered by                  *)
(* (internal/lessons/attempts.go, handler.go) and the token their forms    *)
(* are accepted by (internal/shared/middleware/csrf.go).  The server keeps *)
(* nothing about a visitor; both live in the browser's cookies, which      *)
(* several tabs send and several answers set.  A request carries the       *)
(* cookies as they were when it was sent, and its answer may arrive after  *)
(* other answers, or never.                                                *)
(***************************************************************************)
EXTENDS Naturals, FiniteSets, Functions

CONSTANTS
    Tabs,               \* tabs of the browser, with one request each
    Lessons,            \* lessons with an exercise, a hint and a solution
    HintAfter,          \* hintAfterFailures
    SolutionAfter,      \* solutionAfterFailures
    MaxTracked,         \* maxTrackedLessons
    MaxTokens,          \* bound: tokens drawn
    MaxGraded           \* bound: submissions graded

ASSUME VisitorAssumption ==
    /\ IsFiniteSet(Lessons)
    /\ HintAfter \in Nat \ {0} /\ SolutionAfter \in Nat /\ HintAfter <= SolutionAfter
    /\ MaxTracked \in Nat \ {0}
    /\ MaxTokens \in Nat /\ MaxGraded \in Nat

VARIABLES
    token,      \* the csrf cookie, 0 when there is none
    tries,      \* the tries cookie: the count of each lesson it names
    request,    \* what each tab waits for the answer of
    page,       \* the token each tab's page was rendered with
    drawn,      \* tokens drawn
    \* History variables:
    failed,     \* wrong answers to each lesson, ever
    since,      \* and since it was last passed
    graded,     \* submissions graded
    help,       \* the help that was offered or given
    raced,      \* two first visits overlapped
    blurred     \* submissions overlapped, or a count was lost on the way

browser == <<token, tries, request, page, drawn>>
history == <<failed, since, graded, help, raced, blurred>>
vars == <<browser, history>>

Kinds == {"open", "check", "hint", "solution"}
NoRequest == [kind |-> "none"]

\* A request as the browser sends it: with its cookies, and with the token of the
\* page it is sent from.
Sending(kind, l, form) ==
    [kind |-> kind, lesson |-> l, token |-> token, tries |-> tries, form |-> form]

InFlight(kinds) == {t \in Tabs : request[t].kind \in kinds}

Init ==
    /\ token = 0 /\ tries = << >> /\ drawn = 0
    /\ request = [t \in Tabs |-> NoRequest]
    /\ page = [t \in Tabs |-> 0]
    /\ failed = [l \in Lessons |-> 0] /\ since = [l \in Lessons |-> 0]
    /\ graded = 0 /\ help = {} /\ raced = FALSE /\ blurred = FALSE

-----------------------------------------------------------------------------
\* The browser.

Send(t, kind, l) ==
    /\ request[t] = NoRequest
    /\ kind = "open" \/ page[t] # 0
    /\ request' = [request EXCEPT ![t] = Sending(kind, l, page[t])]
    /\ raced' = \/ raced
                \/ token = 0 /\ \E u \in InFlight(Kinds) : request[u].token = 0
    /\ blurred' = (blurred \/ (kind = "check" /\ InFlight({"check"}) # {}))
    /\ UNCHANGED <<token, tries, page, drawn, failed, since, graded, help>>

\* The browser is closed: the csrf cookie is a session's and the tries are not.
Restart ==
    /\ token' = 0
    /\ request' = [t \in Tabs |-> NoRequest]
    /\ page' = [t \in Tabs |-> 0]
    /\ raced' = FALSE
    /\ blurred' = (blurred \/ InFlight({"check"}) # {})
    /\ UNCHANGED <<tries, drawn, failed, since, graded, help>>

\* The tries cookie has reached its MaxAge.
Expire ==
    /\ tries # << >>
    /\ tries' = << >> /\ blurred' = TRUE
    /\ UNCHANGED <<token, request, page, drawn, failed, since, graded, help, raced>>

-----------------------------------------------------------------------------
\* attempts.go.

\* Slip: the count is kept as it was written.
ParsedAsWritten(cookie) == cookie

\* parseFailures: capped on read.
ParseFailures(cookie) ==
    [l \in DOMAIN cookie |-> IF cookie[l] < SolutionAfter THEN cookie[l] ELSE SolutionAfter]

\* guestFailures.
Failures(cookie, l) == IF l \in DOMAIN cookie THEN ParseFailures(cookie)[l] ELSE 0

\* writeFailures: the newest first, and others as the map hands them out until
\* the cookie is full.
Trimmed(counts, newest) ==
    {Restrict(counts, kept) : kept \in
        {k \in SUBSET DOMAIN counts :
            /\ newest \in k
            /\ Cardinality(k) =
                 IF Cardinality(DOMAIN counts) < MaxTracked
                 THEN Cardinality(DOMAIN counts) ELSE MaxTracked}}

\* recordGuestFailure.
Incremented(cookie, l) ==
    [k \in DOMAIN cookie \cup {l} |->
        IF k = l THEN Failures(cookie, l) + 1 ELSE ParseFailures(cookie)[k]]

\* clearGuestFailures: the cookie is left alone when it does not name the lesson.
Cleared(cookie, l) ==
    IF l \in DOMAIN cookie
    THEN [k \in DOMAIN cookie \ {l} |-> ParseFailures(cookie)[k]]
    ELSE tries

-----------------------------------------------------------------------------
\* The server, and the answer's way back.

\* Slip: every answer carries a token of its own.
TokenAfresh(r) == drawn < MaxTokens /\ drawn' = drawn + 1 /\ token' = drawn'

\* CSRF: a request without the cookie is given a token, which the answer sets.
Token(r) ==
    IF r.token = 0
    THEN drawn < MaxTokens /\ drawn' = drawn + 1 /\ token' = drawn'
    ELSE UNCHANGED <<drawn, token>>

\* A write is refused unless the form echoes the cookie.
Accepted(r) == r.form = r.token /\ r.token # 0

\* Slip: the answer being given is counted twice.
HelpOneEarly(l, n) ==
    {h \in {"hint", "solution"} \X {l} :
        n + 1 >= IF h[1] = "hint" THEN HintAfter ELSE SolutionAfter}

\* helpFor.
HelpFor(l, n) ==
    {h \in {"hint", "solution"} \X {l} :
        n >= IF h[1] = "hint" THEN HintAfter ELSE SolutionAfter}

\* The request of t is over, with whatever else its answer brings.
Answered(t) ==
    /\ request' = [request EXCEPT ![t] = NoRequest]
    /\ Token(request[t])

Open(t) ==
    /\ request[t].kind = "open"
    /\ Answered(t)
    /\ page' = [page EXCEPT ![t] = IF request[t].token = 0 THEN drawn' ELSE request[t].token]
    /\ UNCHANGED <<tries, history>>

\* The answer shows and changes nothing: to a form that is refused by its token
\* or by the quota, to a submission that is left pending or finds the grader busy
\* or broken, to a request for help that is not earned or comes to nothing.
Nothing(t) ==
    /\ request[t].kind \in Kinds \ {"open"}
    /\ Answered(t)
    /\ UNCHANGED <<tries, page, history>>

\* A submission is graded and found wrong.
Wrong(t) == LET r == request[t] IN
    /\ r.kind = "check" /\ Accepted(r) /\ graded < MaxGraded
    /\ Answered(t)
    /\ tries' \in Trimmed(Incremented(r.tries, r.lesson), r.lesson)
    /\ help' = help \cup HelpFor(r.lesson, Incremented(r.tries, r.lesson)[r.lesson])
    /\ failed' = [failed EXCEPT ![r.lesson] = @ + 1]
    /\ since' = [since EXCEPT ![r.lesson] = @ + 1]
    /\ graded' = graded + 1
    /\ blurred' = \/ blurred
                  \/ DOMAIN tries' # DOMAIN Incremented(r.tries, r.lesson)
    /\ UNCHANGED <<page, raced>>

\* Or right.
Right(t) == LET r == request[t] IN
    /\ r.kind = "check" /\ Accepted(r) /\ graded < MaxGraded
    /\ Answered(t)
    /\ tries' = Cleared(r.tries, r.lesson)
    /\ since' = [since EXCEPT ![r.lesson] = 0]
    /\ graded' = graded + 1
    /\ UNCHANGED <<page, failed, help, raced, blurred>>

\* The hint, and the solution with the hint, once the cookie says so.
Help(t) == LET r == request[t] IN
    /\ r.kind \in {"hint", "solution"}
    /\ r.kind = "solution" => Accepted(r)
    /\ <<r.kind, r.lesson>> \in HelpFor(r.lesson, Failures(r.tries, r.lesson))
    /\ Answered(t)
    /\ help' = help \cup HelpFor(r.lesson, Failures(r.tries, r.lesson))
    /\ UNCHANGED <<tries, page, failed, since, graded, raced, blurred>>

\* The answer is lost; a submission may have been graded.
Lost(t) ==
    /\ request[t] # NoRequest
    /\ request' = [request EXCEPT ![t] = NoRequest]
    /\ \/ UNCHANGED <<failed, since, graded, blurred>>
       \/ /\ request[t].kind = "check" /\ Accepted(request[t]) /\ graded < MaxGraded
          /\ \/ failed' = [failed EXCEPT ![request[t].lesson] = @ + 1] /\ UNCHANGED since
             \/ since' = [since EXCEPT ![request[t].lesson] = 0] /\ UNCHANGED failed
          /\ graded' = graded + 1 /\ blurred' = TRUE
    /\ UNCHANGED <<token, tries, page, drawn, help, raced>>

Next ==
    \/ \E t \in Tabs :
         \/ \E l \in Lessons, kind \in Kinds : Send(t, kind, l)
         \/ Open(t) \/ Nothing(t) \/ Wrong(t) \/ Right(t) \/ Help(t) \/ Lost(t)
    \/ Restart \/ Expire

Spec == Init /\ [][Next]_vars

-----------------------------------------------------------------------------
\* What a visitor may rely on.

Cookies == UNION {[D -> 1..(SolutionAfter + 1)] : D \in SUBSET Lessons}

TypeOK ==
    /\ token \in 0..MaxTokens /\ drawn \in 0..MaxTokens
    /\ tries \in Cookies /\ Cardinality(DOMAIN tries) <= MaxTracked
    /\ request \in [Tabs -> {NoRequest} \cup
          [kind : Kinds, lesson : Lessons, token : 0..MaxTokens, tries : Cookies,
           form : 0..MaxTokens]]
    /\ page \in [Tabs -> 0..MaxTokens]
    /\ failed \in [Lessons -> Nat] /\ since \in [Lessons -> Nat]
    /\ help \subseteq {"hint", "solution"} \X Lessons
    /\ raced \in BOOLEAN /\ blurred \in BOOLEAN

\* Help is offered and given only to who has been wrong as often as it takes, in
\* whatever order the tabs ask and the answers come back: an old cookie that
\* overwrites a newer one may cost a try and never adds one
\* (handler.go:120-196, attempts.go:42-55).
HelpIsEarned ==
    \A h \in help : failed[h[2]] >= IF h[1] = "hint" THEN HintAfter ELSE SolutionAfter

\* "the hint would arrive one failure later than intended" and "returning to
\* revise does not open on an offer of the answer": for a visitor who submits one
\* answer at a time and loses none, on no more lessons than are tracked, the
\* cookie counts each lesson's wrong answers since its last pass, as far
\* as the solution takes (attempts.go:43-55, 118-125, handler.go:526-536).
TriesAreExact ==
    ~blurred /\ InFlight({"check"}) = {} =>
        \A l \in Lessons :
            Failures(tries, l) = IF since[l] <= SolutionAfter THEN since[l] ELSE SolutionAfter

\* "every form is rendered server-side with the token already in a hidden field":
\* unless two first visits overlapped, every open page can still post its form
\* (csrf.go:29-47).
FormsStayGood ==
    ~raced => \A t \in Tabs : page[t] # 0 => page[t] = token
=============================================================================
