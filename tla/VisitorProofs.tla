---------------------------- MODULE VisitorProofs ----------------------------
(***************************************************************************)
(* What Visitor promises, for any number of tabs and lessons, whatever the *)
(* thresholds of help and however small the cookie: help is earned, the    *)
(* tries of one request at a time are counted exactly, and open pages keep *)
(* a token their forms are accepted by.                                    *)
(***************************************************************************)
EXTENDS Visitor, FiniteSetTheorems, TLAPS

Requests ==
    [kind : Kinds, lesson : Lessons, token : 0..MaxTokens, tries : Cookies, form : 0..MaxTokens]

\* A cookie that counts no more than there was to count.
Sound(cookie) == \A l \in DOMAIN cookie : cookie[l] <= failed[l]

Waiting(t) == request[t] # NoRequest

\* Every cookie under way is sound, those of requests that were sent before the
\* browser's changed too.
Counts ==
    /\ Sound(tries)
    /\ \A t \in Tabs : Waiting(t) => Sound(request[t].tries)

\* Unless two first visits overlapped, the browser has had one token since it was
\* started: everything that carries one carries that, and as long as it has none
\* at most one request is under way.
OneToken ==
    ~raced =>
        /\ \A t \in Tabs : page[t] \in {0, token}
        /\ \A t \in Tabs : Waiting(t) => request[t].token = token
        /\ token = 0 => \A t, u \in Tabs : Waiting(t) /\ Waiting(u) => t = u

\* Nor does any of them name more lessons than are tracked.
Fits ==
    /\ Cardinality(DOMAIN tries) <= MaxTracked
    /\ \A t \in Tabs : Waiting(t) => Cardinality(DOMAIN request[t].tries) <= MaxTracked

IInv == TypeOK /\ Counts /\ Fits /\ HelpIsEarned /\ OneToken

LEMMA Numbers ==
    /\ HintAfter \in Nat /\ SolutionAfter \in Nat /\ SolutionAfter > 0
    /\ MaxTracked \in Nat /\ MaxTracked > 0 /\ MaxTokens \in Nat /\ MaxGraded \in Nat
    /\ IsFiniteSet(Lessons)
  BY VisitorAssumption

LEMMA NotARequest == NoRequest \notin Requests
  BY DEF NoRequest, Requests, Kinds

\* A cookie is a count for some of the lessons.
LEMMA CookieFacts ==
    ASSUME NEW c
    PROVE  c \in Cookies <=> /\ DOMAIN c \subseteq Lessons
                             /\ c \in [DOMAIN c -> 1..(SolutionAfter + 1)]
  BY DEF Cookies

\* parseFailures keeps the lessons and raises no count.
LEMMA ParseFacts ==
    ASSUME NEW c \in Cookies
    PROVE  /\ ParseFailures(c) \in Cookies /\ DOMAIN ParseFailures(c) = DOMAIN c
           /\ \A l \in DOMAIN c : ParseFailures(c)[l] \in 1..SolutionAfter /\ ParseFailures(c)[l] <= c[l]
<1>1. DOMAIN c \subseteq Lessons /\ c \in [DOMAIN c -> 1..(SolutionAfter + 1)]
  BY CookieFacts
<1>2. DOMAIN ParseFailures(c) = DOMAIN c
  BY DEF ParseFailures
<1>3. ASSUME NEW l \in DOMAIN c
      PROVE ParseFailures(c)[l] \in 1..SolutionAfter /\ ParseFailures(c)[l] <= c[l]
  BY <1>1, Numbers DEF ParseFailures
<1>4. ParseFailures(c) \in [DOMAIN c -> 1..(SolutionAfter + 1)]
  BY <1>3, Numbers DEF ParseFailures
<1> QED
  BY <1>1, <1>2, <1>3, <1>4, CookieFacts

\* A lesson the cookie does not name has no failures.
LEMMA FailuresFacts ==
    ASSUME NEW c \in Cookies, NEW l \in Lessons
    PROVE  /\ Failures(c, l) \in 0..SolutionAfter
           /\ l \in DOMAIN c => Failures(c, l) <= c[l]
           /\ l \notin DOMAIN c => Failures(c, l) = 0
<1>1. CASE l \in DOMAIN c
  BY <1>1, ParseFacts, Numbers DEF Failures
<1>2. CASE l \notin DOMAIN c
  BY <1>2, Numbers DEF Failures
<1> QED
  BY <1>1, <1>2

\* One more for the lesson that was failed, and no more for any other.
LEMMA IncrementedFacts ==
    ASSUME NEW c \in Cookies, NEW l \in Lessons
    PROVE  /\ Incremented(c, l) \in Cookies
           /\ DOMAIN Incremented(c, l) = DOMAIN c \cup {l}
           /\ Incremented(c, l)[l] = Failures(c, l) + 1
           /\ \A k \in DOMAIN c \ {l} : Incremented(c, l)[k] <= c[k]
<1>1. DOMAIN Incremented(c, l) = DOMAIN c \cup {l} /\ DOMAIN c \subseteq Lessons
  BY CookieFacts DEF Incremented
<1>2. Incremented(c, l)[l] = Failures(c, l) + 1 /\ Failures(c, l) + 1 \in 1..(SolutionAfter + 1)
  BY FailuresFacts, Numbers DEF Incremented
<1>3. ASSUME NEW k \in DOMAIN c \ {l}
      PROVE Incremented(c, l)[k] \in 1..(SolutionAfter + 1) /\ Incremented(c, l)[k] <= c[k]
  <2>1. Incremented(c, l)[k] = ParseFailures(c)[k]
    BY DEF Incremented
  <2> QED
    BY <2>1, ParseFacts, Numbers
<1>4. Incremented(c, l) \in [DOMAIN c \cup {l} -> 1..(SolutionAfter + 1)]
  <2>1. \A k \in DOMAIN c \cup {l} : Incremented(c, l)[k] \in 1..(SolutionAfter + 1)
    BY <1>2, <1>3
  <2> QED
    BY <2>1 DEF Incremented
<1> QED
  BY <1>1, <1>2, <1>3, <1>4, CookieFacts

\* What is dropped from a cookie changes nothing else in it, and what is left
\* fits.
LEMMA TrimmedFacts ==
    ASSUME NEW c \in Cookies, NEW l \in Lessons, NEW x \in Trimmed(c, l)
    PROVE  /\ x \in Cookies /\ DOMAIN x \subseteq DOMAIN c
           /\ \A k \in DOMAIN x : x[k] = c[k]
           /\ Cardinality(DOMAIN x) <= MaxTracked
<1>1. PICK kept \in SUBSET DOMAIN c :
        /\ x = Restrict(c, kept)
        /\ Cardinality(kept) = IF Cardinality(DOMAIN c) < MaxTracked
                               THEN Cardinality(DOMAIN c) ELSE MaxTracked
  BY DEF Trimmed
<1>2. DOMAIN x = kept /\ \A k \in kept : x[k] = c[k]
  BY <1>1 DEF Restrict
<1>3. DOMAIN c \subseteq Lessons /\ c \in [DOMAIN c -> 1..(SolutionAfter + 1)]
  BY CookieFacts
<1>4. Cardinality(DOMAIN c) \in Nat
  BY <1>3, Numbers, FS_Subset, FS_CardinalityType
<1>5. x \in [DOMAIN x -> 1..(SolutionAfter + 1)]
  BY <1>1, <1>2, <1>3 DEF Restrict
<1> QED
  BY <1>1, <1>2, <1>3, <1>4, <1>5, Numbers, CookieFacts

\* Clearing takes the lesson out of the request's cookie, or leaves the browser's.
LEMMA ClearedFacts ==
    ASSUME NEW c \in Cookies, NEW l \in Lessons, l \in DOMAIN c
    PROVE  /\ Cleared(c, l) \in Cookies /\ DOMAIN Cleared(c, l) = DOMAIN c \ {l}
           /\ \A k \in DOMAIN c \ {l} : Cleared(c, l)[k] <= c[k]
<1>1. DOMAIN c \subseteq Lessons /\ DOMAIN Cleared(c, l) = DOMAIN c \ {l}
  BY CookieFacts DEF Cleared
<1>2. ASSUME NEW k \in DOMAIN c \ {l}
      PROVE Cleared(c, l)[k] \in 1..(SolutionAfter + 1) /\ Cleared(c, l)[k] <= c[k]
  <2>1. Cleared(c, l)[k] = ParseFailures(c)[k]
    BY DEF Cleared
  <2> QED
    BY <2>1, ParseFacts, Numbers
<1>3. Cleared(c, l) \in [DOMAIN c \ {l} -> 1..(SolutionAfter + 1)]
  BY <1>2 DEF Cleared
<1> QED
  BY <1>1, <1>2, <1>3, CookieFacts

LEMMA RequestFacts ==
    ASSUME TypeOK, NEW t \in Tabs, Waiting(t)
    PROVE  /\ request[t] \in Requests
           /\ request[t].lesson \in Lessons /\ request[t].tries \in Cookies
           /\ request[t].token \in 0..MaxTokens /\ request[t].kind \in Kinds
  BY DEF TypeOK, Waiting, Requests

\* A request that has a kind is a request.
LEMMA KindFacts ==
    ASSUME TypeOK, NEW t \in Tabs, request[t].kind \in Kinds
    PROVE  Waiting(t)
  BY DEF Waiting, NoRequest, Kinds

-----------------------------------------------------------------------------
\* The token.

\* An answer to the only request without a token, or one that sets none.
LEMMA AnsweredToken ==
    ASSUME TypeOK, OneToken, NEW t \in Tabs, Waiting(t), Answered(t), raced' = raced,
           \/ page' = page
           \/ page' = [page EXCEPT ![t] = IF request[t].token = 0 THEN drawn' ELSE request[t].token]
    PROVE  OneToken' /\ token' \in 0..MaxTokens /\ drawn' \in 0..MaxTokens
                     /\ page' \in [Tabs -> 0..MaxTokens]
<1>1. request' = [request EXCEPT ![t] = NoRequest] /\ Token(request[t])
  BY DEF Answered
<1>2. /\ token \in 0..MaxTokens /\ drawn \in 0..MaxTokens /\ page \in [Tabs -> 0..MaxTokens]
      /\ request[t].token \in 0..MaxTokens
  BY RequestFacts DEF TypeOK
<1>3. DOMAIN request = Tabs
  BY DEF TypeOK
<1>4. \A u \in Tabs : Waiting(u)' => Waiting(u) /\ request'[u] = request[u] /\ u # t
  BY <1>1, <1>3 DEF Waiting
<1>5. CASE request[t].token = 0
  <2>1. drawn < MaxTokens /\ drawn' = drawn + 1 /\ token' = drawn + 1
    BY <1>1, <1>5 DEF Token
  <2>2. token' \in 1..MaxTokens /\ drawn' \in 0..MaxTokens
    BY <1>2, <2>1, Numbers
  <2>3. page' \in [Tabs -> 0..MaxTokens]
    BY <1>2, <1>5, <2>1, <2>2
  <2>4. ASSUME ~raced
        PROVE  /\ \A u \in Tabs : page'[u] \in {0, token'}
               /\ \A u \in Tabs : ~Waiting(u)'
    <3>1. token = 0 /\ \A u \in Tabs : page[u] = 0
      BY <1>5, <2>4 DEF OneToken
    <3>2. \A u \in Tabs : Waiting(u) => u = t
      BY <2>4, <3>1 DEF OneToken
    <3> QED
      BY <1>2, <1>4, <1>5, <2>1, <3>1, <3>2
  <2>5. OneToken'
    BY <2>2, <2>4 DEF OneToken
  <2> QED
    BY <2>2, <2>3, <2>5
<1>6. CASE request[t].token # 0
  <2>1. drawn' = drawn /\ token' = token
    BY <1>1, <1>6 DEF Token
  <2>2. page' \in [Tabs -> 0..MaxTokens]
    BY <1>2, <1>6
  <2>3. ASSUME ~raced
        PROVE  /\ \A u \in Tabs : page'[u] \in {0, token}
               /\ \A u \in Tabs : Waiting(u)' => request'[u].token = token
               /\ token # 0
    <3>1. request[t].token = token
      BY <2>3 DEF OneToken
    <3>2. \A u \in Tabs : page[u] \in {0, token}
      BY <2>3 DEF OneToken
    <3>3. \A u \in Tabs : page'[u] \in {0, token}
      BY <1>2, <1>6, <3>1, <3>2
    <3> QED
      BY <1>4, <1>6, <2>3, <3>1, <3>3 DEF OneToken
  <2>4. OneToken'
    BY <2>1, <2>3 DEF OneToken
  <2> QED
    BY <1>2, <2>1, <2>2, <2>4
<1> QED
  BY <1>5, <1>6

\* A request carries the token there is; a second one without any is a race.
LEMMA SendToken ==
    ASSUME TypeOK, OneToken, NEW t \in Tabs, NEW kind \in Kinds, NEW l \in Lessons,
           Send(t, kind, l)
    PROVE  OneToken'
<1>1. /\ request' = [request EXCEPT ![t] = Sending(kind, l, page[t])]
      /\ UNCHANGED <<token, page>> /\ request[t] = NoRequest
      /\ raced' = \/ raced
                  \/ token = 0 /\ \E u \in InFlight(Kinds) : request[u].token = 0
  BY DEF Send
<1>2. DOMAIN request = Tabs /\ request'[t].token = token
  BY <1>1 DEF TypeOK, Sending
<1>3. \A u \in Tabs : u # t => request'[u] = request[u] /\ (Waiting(u)' <=> Waiting(u))
  BY <1>1, <1>2 DEF Waiting
<1>4. ASSUME ~raced' PROVE \A u \in Tabs : Waiting(u)' => request'[u].token = token
  BY <1>1, <1>2, <1>3, <1>4 DEF OneToken
<1>5. ASSUME ~raced', token = 0, NEW u \in Tabs, Waiting(u)' PROVE u = t
  <2>1. SUFFICES ASSUME u # t PROVE FALSE
    OBVIOUS
  <2>2. Waiting(u) /\ request[u].token = 0
    BY <1>1, <1>3, <1>5, <2>1 DEF OneToken
  <2>3. u \in InFlight(Kinds)
    BY <2>2, RequestFacts DEF InFlight
  <2> QED
    BY <1>1, <1>5, <2>2, <2>3
<1> QED
  BY <1>1, <1>4, <1>5 DEF OneToken

LEMMA LostToken ==
    ASSUME TypeOK, OneToken, NEW t \in Tabs, Lost(t)
    PROVE  OneToken'
<1>1. request' = [request EXCEPT ![t] = NoRequest] /\ UNCHANGED <<token, page, raced>>
  BY DEF Lost
<1>2. \A u \in Tabs : Waiting(u)' => Waiting(u) /\ request'[u] = request[u]
  BY <1>1 DEF Waiting, TypeOK
<1> QED
  BY <1>1, <1>2 DEF OneToken
-----------------------------------------------------------------------------
\* The counts and the help.

\* When requests only end and failures only grow, what was counted stays sound
\* and what was earned stays earned.
LEMMA CountsKept ==
    ASSUME TypeOK, Counts, Fits, HelpIsEarned,
           \A t \in Tabs : Waiting(t)' => Waiting(t) /\ request'[t] = request[t],
           failed' \in [Lessons -> Nat], \A l \in Lessons : failed[l] <= failed'[l],
           tries' \in Cookies, Cardinality(DOMAIN tries') <= MaxTracked,
           \A l \in DOMAIN tries' : tries'[l] <= failed'[l],
           \A h \in help' \ help :
               failed'[h[2]] >= IF h[1] = "hint" THEN HintAfter ELSE SolutionAfter
    PROVE  Counts' /\ Fits' /\ HelpIsEarned'
<1>1. Sound(tries)'
  BY DEF Sound
<1>2. ASSUME NEW t \in Tabs, Waiting(t)'
      PROVE  Sound(request[t].tries)' /\ Cardinality(DOMAIN request'[t].tries) <= MaxTracked
  <2>1. Waiting(t) /\ request'[t] = request[t]
    BY <1>2
  <2>2. request[t].tries \in Cookies /\ Sound(request[t].tries)
    BY <2>1, RequestFacts DEF Counts
  <2>3. ASSUME NEW l \in DOMAIN request[t].tries PROVE request[t].tries[l] <= failed'[l]
    <3>1. l \in Lessons /\ request[t].tries[l] \in 1..(SolutionAfter + 1)
      BY <2>2, <2>3, CookieFacts
    <3>2. request[t].tries[l] <= failed[l]
      BY <2>2, <2>3 DEF Sound
    <3>3. request[t].tries[l] \in Int /\ failed[l] \in Int /\ failed'[l] \in Int /\ failed[l] <= failed'[l]
      BY <3>1, Numbers DEF TypeOK
    <3> QED
      BY <3>2, <3>3
  <2> QED
    BY <2>1, <2>3 DEF Sound, Fits
<1>3. Counts' /\ Fits'
  BY <1>1, <1>2 DEF Counts, Fits
<1>4. ASSUME NEW h \in help'
      PROVE  failed'[h[2]] >= IF h[1] = "hint" THEN HintAfter ELSE SolutionAfter
  <2>1. CASE h \in help
    <3>1. h[2] \in Lessons /\ failed[h[2]] >= IF h[1] = "hint" THEN HintAfter ELSE SolutionAfter
      BY <2>1 DEF TypeOK, HelpIsEarned
    <3>2. failed[h[2]] \in Nat /\ failed'[h[2]] \in Nat /\ failed[h[2]] <= failed'[h[2]]
      BY <3>1 DEF TypeOK
    <3> QED
      BY <3>1, <3>2, Numbers
  <2> QED
    BY <2>1, <1>4
<1> QED
  BY <1>3, <1>4 DEF HelpIsEarned

\* The tab's request is over and the others' are what they were.
LEMMA OverFacts ==
    ASSUME TypeOK, NEW t \in Tabs, request' = [request EXCEPT ![t] = NoRequest]
    PROVE  /\ request' \in [Tabs -> {NoRequest} \cup Requests]
           /\ \A u \in Tabs : Waiting(u)' => Waiting(u) /\ request'[u] = request[u]
  BY DEF TypeOK, Waiting, Requests

\* Help is offered for the failures a sound cookie counts.
LEMMA HelpFacts ==
    ASSUME NEW l \in Lessons, NEW n \in Nat, NEW m \in Nat, n <= m, NEW h \in HelpFor(l, n)
    PROVE  /\ h \in {"hint", "solution"} \X Lessons /\ h[2] = l
           /\ m >= IF h[1] = "hint" THEN HintAfter ELSE SolutionAfter
<1>1. h \in {"hint", "solution"} \X {l} /\ n >= IF h[1] = "hint" THEN HintAfter ELSE SolutionAfter
  BY DEF HelpFor
<1>2. h[2] = l /\ h \in {"hint", "solution"} \X Lessons
  BY <1>1
<1>3. CASE h[1] = "hint"
  BY <1>1, <1>3, Numbers
<1>4. CASE h[1] # "hint"
  BY <1>1, <1>4, Numbers
<1> QED
  BY <1>2, <1>3, <1>4

\* What the request's cookie counts, there was.
LEMMA FailuresSound ==
    ASSUME TypeOK, Counts, NEW t \in Tabs, Waiting(t)
    PROVE  LET l == request[t].lesson IN
               Failures(request[t].tries, l) \in Nat /\ Failures(request[t].tries, l) <= failed[l]
<1> DEFINE l == request[t].lesson
           c == request[t].tries
<1>1. l \in Lessons /\ c \in Cookies /\ Sound(c)
  BY RequestFacts DEF Counts
<1>2. Failures(c, l) \in Nat /\ failed[l] \in Nat
  BY <1>1, FailuresFacts, Numbers DEF TypeOK
<1>3. CASE l \in DOMAIN c
  <2>1. Failures(c, l) <= c[l] /\ c[l] <= failed[l] /\ c[l] \in Nat
    BY <1>1, <1>3, FailuresFacts, CookieFacts, Numbers DEF Sound
  <2> QED
    BY <1>2, <2>1
<1>4. CASE l \notin DOMAIN c
  BY <1>1, <1>2, <1>4, FailuresFacts
<1> QED
  BY <1>2, <1>3, <1>4

-----------------------------------------------------------------------------
\* Every step keeps the invariant.

LEMMA InitIInv == Init => IInv
<1> SUFFICES ASSUME Init PROVE IInv
  OBVIOUS
<1>1. DOMAIN tries = {} /\ tries \in [{} -> 1..(SolutionAfter + 1)]
  BY DEF Init
<1>2. tries \in Cookies
  BY <1>1, CookieFacts
<1>3. Cardinality(DOMAIN tries) = 0
  BY <1>1, FS_EmptySet
<1>4. TypeOK
  <2>1. token \in 0..MaxTokens /\ drawn \in 0..MaxTokens /\ Cardinality(DOMAIN tries) <= MaxTracked
    BY <1>3, Numbers DEF Init
  <2>2. page \in [Tabs -> 0..MaxTokens] /\ failed \in [Lessons -> Nat] /\ since \in [Lessons -> Nat]
    BY Numbers DEF Init
  <2>3. request \in [Tabs -> {NoRequest} \cup Requests]
    BY DEF Init
  <2>4. help = {} /\ raced \in BOOLEAN /\ blurred \in BOOLEAN
    BY DEF Init
  <2> QED
    BY <1>2, <2>1, <2>2, <2>3, <2>4 DEF TypeOK, Requests
<1>5. Counts /\ Fits /\ HelpIsEarned /\ OneToken
  BY <1>1, <1>3, Numbers DEF Init, Counts, Fits, Sound, HelpIsEarned, OneToken, Waiting
<1> QED
  BY <1>4, <1>5 DEF IInv
LEMMA SendIInv ==
    ASSUME IInv, NEW t \in Tabs, NEW kind \in Kinds, NEW l \in Lessons, Send(t, kind, l)
    PROVE  IInv'
<1>1. /\ request' = [request EXCEPT ![t] = Sending(kind, l, page[t])]
      /\ UNCHANGED <<token, tries, page, drawn, failed, since, graded, help>>
  BY DEF Send
<1>2. TypeOK /\ Counts /\ Fits /\ HelpIsEarned /\ OneToken
  BY DEF IInv
<1>3. Sending(kind, l, page[t]) \in Requests /\ Sending(kind, l, page[t]).tries = tries
  BY <1>2 DEF Sending, Requests, TypeOK
<1>4. raced' \in BOOLEAN /\ blurred' \in BOOLEAN
  BY <1>2 DEF Send, TypeOK
<1>5. request' \in [Tabs -> {NoRequest} \cup Requests]
  BY <1>1, <1>2, <1>3 DEF TypeOK, Requests
<1>6. TypeOK'
  BY <1>1, <1>2, <1>4, <1>5 DEF TypeOK, Requests
<1>7. ASSUME NEW u \in Tabs, Waiting(u)'
      PROVE  \/ request'[u].tries = tries
             \/ Waiting(u) /\ request'[u] = request[u]
  <2>1. CASE u = t
    BY <1>1, <1>2, <1>3, <2>1 DEF TypeOK
  <2>2. CASE u # t
    BY <1>1, <1>2, <1>7, <2>2 DEF TypeOK, Waiting
  <2> QED
    BY <2>1, <2>2
<1>8. Counts' /\ Fits' /\ HelpIsEarned'
  BY <1>1, <1>2, <1>7 DEF Counts, Fits, Sound, HelpIsEarned
<1>9. OneToken'
  BY <1>2, SendToken
<1> QED
  BY <1>6, <1>8, <1>9 DEF IInv

LEMMA RestartIInv == ASSUME IInv, Restart PROVE IInv'
<1>1. /\ token' = 0 /\ request' = [t \in Tabs |-> NoRequest] /\ page' = [t \in Tabs |-> 0]
      /\ raced' = FALSE /\ UNCHANGED <<tries, drawn, failed, since, graded, help>>
  BY DEF Restart
<1>2. TypeOK /\ Counts /\ Fits /\ HelpIsEarned
  BY DEF IInv
<1>3. blurred' \in BOOLEAN /\ 0 \in 0..MaxTokens
  BY <1>2, Numbers DEF Restart, TypeOK
<1>4. TypeOK'
  BY <1>1, <1>2, <1>3 DEF TypeOK
<1>5. \A t \in Tabs : ~Waiting(t)'
  BY <1>1 DEF Waiting
<1> QED
  BY <1>1, <1>2, <1>4, <1>5 DEF IInv, Counts, Fits, Sound, HelpIsEarned, OneToken

LEMMA ExpireIInv == ASSUME IInv, Expire PROVE IInv'
<1>1. tries' = << >> /\ blurred' = TRUE
      /\ UNCHANGED <<token, request, page, drawn, failed, since, graded, help, raced>>
  BY DEF Expire
<1>2. TypeOK /\ Counts /\ Fits /\ HelpIsEarned /\ OneToken
  BY DEF IInv
<1>3. DOMAIN tries' = {} /\ tries' \in [{} -> 1..(SolutionAfter + 1)]
  BY <1>1
<1>4. tries' \in Cookies /\ Cardinality(DOMAIN tries') <= MaxTracked
  <2>1. tries' \in Cookies
    BY <1>3 DEF Cookies
  <2>2. Cardinality(DOMAIN tries') = 0
    BY <1>3, FS_EmptySet
  <2> QED
    BY <2>1, <2>2, Numbers
<1>5. TypeOK'
  BY <1>1, <1>2, <1>4 DEF TypeOK
<1>6. Counts' /\ Fits' /\ HelpIsEarned' /\ OneToken'
  BY <1>1, <1>2, <1>3, <1>4 DEF Counts, Fits, Sound, HelpIsEarned, OneToken, Waiting
<1> QED
  BY <1>5, <1>6 DEF IInv

\* An answer that changes no count.
LEMMA OpenIInv ==
    ASSUME IInv, NEW t \in Tabs, Open(t) \/ Nothing(t)
    PROVE  IInv'
<1>1. TypeOK /\ Counts /\ Fits /\ HelpIsEarned /\ OneToken
  BY DEF IInv
<1>2. /\ Answered(t) /\ UNCHANGED <<tries, history>> /\ Waiting(t)
      /\ \/ page' = page
         \/ page' = [page EXCEPT ![t] = IF request[t].token = 0 THEN drawn' ELSE request[t].token]
  <2>1. request[t].kind \in Kinds
    BY DEF Open, Nothing, Kinds
  <2> QED
    BY <1>1, <2>1, KindFacts DEF Open, Nothing
<1>3. UNCHANGED <<tries, failed, since, graded, help, raced, blurred>>
  BY <1>2 DEF history
<1>4. /\ request' = [request EXCEPT ![t] = NoRequest]
      /\ OneToken' /\ token' \in 0..MaxTokens /\ drawn' \in 0..MaxTokens
      /\ page' \in [Tabs -> 0..MaxTokens]
  BY <1>1, <1>2, <1>3, AnsweredToken DEF Answered
<1>5. TypeOK'
  BY <1>1, <1>3, <1>4, OverFacts DEF TypeOK, Requests
<1>6. Counts' /\ Fits' /\ HelpIsEarned'
  BY <1>1, <1>3, <1>4, OverFacts DEF Counts, Fits, Sound, HelpIsEarned
<1> QED
  BY <1>1, <1>4, <1>5, <1>6 DEF IInv

LEMMA WrongIInv == ASSUME IInv, NEW t \in Tabs, Wrong(t) PROVE IInv'
<1> DEFINE l == request[t].lesson
           c == request[t].tries
<1>1. TypeOK /\ Counts /\ Fits /\ HelpIsEarned /\ OneToken
  BY DEF IInv
<1>2. Waiting(t) /\ Answered(t) /\ raced' = raced /\ page' = page
  BY <1>1, KindFacts DEF Wrong, Kinds
<1>3. /\ tries' \in Trimmed(Incremented(c, l), l)
      /\ help' = help \cup HelpFor(l, Incremented(c, l)[l])
      /\ failed' = [failed EXCEPT ![l] = @ + 1] /\ since' = [since EXCEPT ![l] = @ + 1]
  BY DEF Wrong
<1>4. l \in Lessons /\ c \in Cookies /\ Sound(c)
  BY <1>1, <1>2, RequestFacts DEF Counts
<1>5. /\ failed' \in [Lessons -> Nat] /\ since' \in [Lessons -> Nat]
      /\ failed'[l] = failed[l] + 1 /\ \A k \in Lessons : failed[k] <= failed'[k]
      /\ blurred' \in BOOLEAN
  BY <1>1, <1>3, <1>4 DEF TypeOK, Wrong
<1>6. /\ request' = [request EXCEPT ![t] = NoRequest]
      /\ OneToken' /\ token' \in 0..MaxTokens /\ drawn' \in 0..MaxTokens
      /\ page' \in [Tabs -> 0..MaxTokens]
  BY <1>1, <1>2, AnsweredToken DEF Answered
<1>7. /\ Incremented(c, l) \in Cookies /\ DOMAIN Incremented(c, l) = DOMAIN c \cup {l}
      /\ Incremented(c, l)[l] = Failures(c, l) + 1
      /\ \A k \in DOMAIN c \ {l} : Incremented(c, l)[k] <= c[k]
  BY <1>4, IncrementedFacts
<1>8. /\ tries' \in Cookies /\ DOMAIN tries' \subseteq DOMAIN c \cup {l}
      /\ \A k \in DOMAIN tries' : tries'[k] = Incremented(c, l)[k]
      /\ Cardinality(DOMAIN tries') <= MaxTracked
  BY <1>3, <1>4, <1>7, TrimmedFacts
<1>9. Failures(c, l) \in Nat /\ Failures(c, l) <= failed[l] /\ failed[l] \in Nat
  BY <1>1, <1>2, <1>4, FailuresSound DEF TypeOK
<1>10. ASSUME NEW k \in DOMAIN tries' PROVE tries'[k] <= failed'[k]
  <2>1. CASE k = l
    BY <1>5, <1>7, <1>8, <1>9, <2>1
  <2>2. CASE k # l
    <3>1. k \in DOMAIN c /\ k \in Lessons
      BY <1>4, <1>8, <2>2, CookieFacts
    <3>2. tries'[k] <= c[k] /\ c[k] <= failed[k] /\ failed[k] <= failed'[k]
      BY <1>4, <1>5, <1>7, <1>8, <2>2, <3>1 DEF Sound
    <3>3. tries'[k] \in 1..(SolutionAfter + 1) /\ c[k] \in 1..(SolutionAfter + 1)
      BY <1>4, <1>8, <3>1, CookieFacts
    <3>4. failed[k] \in Nat /\ failed'[k] \in Nat
      BY <1>1, <1>5, <3>1 DEF TypeOK
    <3> QED
      BY <3>2, <3>3, <3>4, Numbers
  <2> QED
    BY <2>1, <2>2
<1>11. \A h \in HelpFor(l, Incremented(c, l)[l]) :
         /\ h \in {"hint", "solution"} \X Lessons
         /\ failed'[h[2]] >= IF h[1] = "hint" THEN HintAfter ELSE SolutionAfter
  <2>1. Incremented(c, l)[l] \in Nat /\ failed'[l] \in Nat /\ Incremented(c, l)[l] <= failed'[l]
    BY <1>5, <1>7, <1>9
  <2> QED
    BY <1>4, <2>1, HelpFacts
<1>12. Counts' /\ Fits' /\ HelpIsEarned'
  BY <1>1, <1>3, <1>5, <1>6, <1>8, <1>10, <1>11, OverFacts, CountsKept
<1>13. help' \subseteq {"hint", "solution"} \X Lessons
  BY <1>1, <1>3, <1>11 DEF TypeOK
<1>14. TypeOK'
  BY <1>1, <1>2, <1>5, <1>6, <1>8, <1>13, OverFacts DEF TypeOK, Requests
<1> QED
  BY <1>6, <1>12, <1>14 DEF IInv

LEMMA RightIInv == ASSUME IInv, NEW t \in Tabs, Right(t) PROVE IInv'
<1> DEFINE l == request[t].lesson
           c == request[t].tries
<1>1. TypeOK /\ Counts /\ Fits /\ HelpIsEarned /\ OneToken
  BY DEF IInv
<1>2. Waiting(t) /\ Answered(t) /\ raced' = raced /\ page' = page
  BY <1>1, KindFacts DEF Right, Kinds
<1>3. /\ tries' = Cleared(c, l) /\ since' = [since EXCEPT ![l] = 0]
      /\ UNCHANGED <<failed, help, blurred>>
  BY DEF Right
<1>4. l \in Lessons /\ c \in Cookies /\ Sound(c) /\ Cardinality(DOMAIN c) <= MaxTracked
  BY <1>1, <1>2, RequestFacts DEF Counts, Fits
<1>5. /\ request' = [request EXCEPT ![t] = NoRequest]
      /\ OneToken' /\ token' \in 0..MaxTokens /\ drawn' \in 0..MaxTokens
      /\ page' \in [Tabs -> 0..MaxTokens]
  BY <1>1, <1>2, AnsweredToken DEF Answered
<1>6. /\ tries' \in Cookies /\ Cardinality(DOMAIN tries') <= MaxTracked
      /\ \A k \in DOMAIN tries' : tries'[k] <= failed[k]
  <2>1. CASE l \notin DOMAIN c
    BY <1>1, <1>3, <2>1 DEF Cleared, TypeOK, Counts, Sound
  <2>2. CASE l \in DOMAIN c
    <3>1. /\ tries' \in Cookies /\ DOMAIN tries' = DOMAIN c \ {l}
          /\ \A k \in DOMAIN c \ {l} : tries'[k] <= c[k]
      BY <1>3, <1>4, <2>2, ClearedFacts
    <3>2. Cardinality(DOMAIN tries') <= MaxTracked
      <4>1. IsFiniteSet(DOMAIN c) /\ DOMAIN tries' \subseteq DOMAIN c
        BY <1>4, <3>1, CookieFacts, Numbers, FS_Subset
      <4>2. /\ Cardinality(DOMAIN tries') <= Cardinality(DOMAIN c)
            /\ Cardinality(DOMAIN tries') \in Nat /\ Cardinality(DOMAIN c) \in Nat
        BY <4>1, FS_Subset, FS_CardinalityType
      <4> QED
        BY <1>4, <4>2, Numbers
    <3>3. ASSUME NEW k \in DOMAIN tries' PROVE tries'[k] <= failed[k]
      <4>1. k \in DOMAIN c \ {l} /\ k \in Lessons
        BY <1>4, <3>1, CookieFacts
      <4>2. tries'[k] <= c[k] /\ c[k] <= failed[k]
        BY <1>4, <3>1, <4>1 DEF Sound
      <4>3. tries'[k] \in 1..(SolutionAfter + 1) /\ c[k] \in 1..(SolutionAfter + 1) /\ failed[k] \in Nat
        BY <1>1, <1>4, <3>1, <4>1, CookieFacts DEF TypeOK
      <4> QED
        BY <4>2, <4>3, Numbers
    <3> QED
      BY <3>1, <3>2, <3>3
  <2> QED
    BY <2>1, <2>2
<1>7. failed \in [Lessons -> Nat] /\ failed' = failed /\ \A k \in Lessons : failed[k] <= failed'[k]
  BY <1>1, <1>3 DEF TypeOK
<1>8. Counts' /\ Fits' /\ HelpIsEarned'
  BY <1>1, <1>3, <1>5, <1>6, <1>7, OverFacts, CountsKept
<1>9. since' \in [Lessons -> Nat]
  BY <1>1, <1>3 DEF TypeOK
<1>10. TypeOK'
  BY <1>1, <1>2, <1>3, <1>5, <1>6, <1>9, OverFacts DEF TypeOK, Requests
<1> QED
  BY <1>5, <1>8, <1>10 DEF IInv

LEMMA HelpIInv == ASSUME IInv, NEW t \in Tabs, Help(t) PROVE IInv'
<1> DEFINE l == request[t].lesson
           c == request[t].tries
<1>1. TypeOK /\ Counts /\ Fits /\ HelpIsEarned /\ OneToken
  BY DEF IInv
<1>2. Waiting(t) /\ Answered(t) /\ raced' = raced /\ page' = page
  BY <1>1, KindFacts DEF Help, Kinds
<1>3. /\ help' = help \cup HelpFor(l, Failures(c, l))
      /\ UNCHANGED <<tries, failed, since, blurred>>
  BY DEF Help
<1>4. /\ request' = [request EXCEPT ![t] = NoRequest]
      /\ OneToken' /\ token' \in 0..MaxTokens /\ drawn' \in 0..MaxTokens
      /\ page' \in [Tabs -> 0..MaxTokens]
  BY <1>1, <1>2, AnsweredToken DEF Answered
<1>5. l \in Lessons /\ Failures(c, l) \in Nat /\ failed[l] \in Nat /\ Failures(c, l) <= failed[l]
  BY <1>1, <1>2, RequestFacts, FailuresSound DEF TypeOK
<1>6. \A h \in HelpFor(l, Failures(c, l)) :
         /\ h \in {"hint", "solution"} \X Lessons
         /\ failed[h[2]] >= IF h[1] = "hint" THEN HintAfter ELSE SolutionAfter
  BY <1>5, HelpFacts
<1>7. help' \subseteq {"hint", "solution"} \X Lessons
  BY <1>1, <1>3, <1>6 DEF TypeOK
<1>8. TypeOK'
  BY <1>1, <1>2, <1>3, <1>4, <1>7, OverFacts DEF TypeOK, Requests
<1>9. Counts' /\ Fits'
  BY <1>1, <1>3, <1>4, OverFacts DEF Counts, Fits, Sound
<1>10. HelpIsEarned'
  BY <1>1, <1>3, <1>6 DEF HelpIsEarned
<1> QED
  BY <1>4, <1>8, <1>9, <1>10 DEF IInv

LEMMA LostIInv == ASSUME IInv, NEW t \in Tabs, Lost(t) PROVE IInv'
<1> DEFINE l == request[t].lesson
<1>1. TypeOK /\ Counts /\ Fits /\ HelpIsEarned /\ OneToken
  BY DEF IInv
<1>2. /\ Waiting(t) /\ request' = [request EXCEPT ![t] = NoRequest]
      /\ UNCHANGED <<token, tries, page, drawn, help, raced>>
  BY DEF Lost, Waiting
<1>3. l \in Lessons
  BY <1>1, <1>2, RequestFacts
<1>4. \/ failed' = failed \/ failed' = [failed EXCEPT ![l] = @ + 1]
  BY DEF Lost
<1>5. \/ since' = since \/ since' = [since EXCEPT ![l] = 0]
  BY DEF Lost
<1>6. blurred' \in BOOLEAN
  BY <1>1 DEF Lost, TypeOK
<1>7. failed' \in [Lessons -> Nat] /\ \A k \in Lessons : failed[k] <= failed'[k]
  BY <1>1, <1>3, <1>4 DEF TypeOK
<1>8. since' \in [Lessons -> Nat]
  BY <1>1, <1>5 DEF TypeOK
<1>9. TypeOK'
  BY <1>1, <1>2, <1>6, <1>7, <1>8, OverFacts DEF TypeOK, Requests
<1>10. \A k \in DOMAIN tries' : tries'[k] <= failed'[k]
  <2>1. SUFFICES ASSUME NEW k \in DOMAIN tries PROVE tries[k] <= failed'[k]
    BY <1>2
  <2>2. k \in Lessons /\ tries[k] \in 1..(SolutionAfter + 1) /\ tries[k] <= failed[k]
    BY <1>1, CookieFacts DEF TypeOK, Counts, Sound
  <2>3. failed[k] \in Nat /\ failed'[k] \in Nat /\ failed[k] <= failed'[k]
    BY <1>1, <1>7, <2>2 DEF TypeOK
  <2> QED
    BY <2>2, <2>3, Numbers
<1>11. tries' \in Cookies /\ Cardinality(DOMAIN tries') <= MaxTracked
  BY <1>1, <1>2 DEF TypeOK
<1>12. Counts' /\ Fits' /\ HelpIsEarned'
  BY <1>1, <1>2, <1>7, <1>10, <1>11, OverFacts, CountsKept
<1>13. OneToken'
  BY <1>1, LostToken
<1> QED
  BY <1>9, <1>12, <1>13 DEF IInv

LEMMA StepIInv == IInv /\ [Next]_vars => IInv'
<1> SUFFICES ASSUME IInv, [Next]_vars PROVE IInv'
  OBVIOUS
<1>1. ASSUME NEW t \in Tabs, NEW l \in Lessons, NEW kind \in Kinds, Send(t, kind, l) PROVE IInv'
  BY <1>1, SendIInv
<1>2. ASSUME NEW t \in Tabs, Open(t) \/ Nothing(t) PROVE IInv'
  BY <1>2, OpenIInv
<1>3. ASSUME NEW t \in Tabs, Wrong(t) PROVE IInv'
  BY <1>3, WrongIInv
<1>4. ASSUME NEW t \in Tabs, Right(t) PROVE IInv'
  BY <1>4, RightIInv
<1>5. ASSUME NEW t \in Tabs, Help(t) PROVE IInv'
  BY <1>5, HelpIInv
<1>6. ASSUME NEW t \in Tabs, Lost(t) PROVE IInv'
  BY <1>6, LostIInv
<1>7. CASE Restart
  BY <1>7, RestartIInv
<1>8. CASE Expire
  BY <1>8, ExpireIInv
<1>9. CASE UNCHANGED vars
  BY <1>9 DEF vars, browser, history, IInv, TypeOK, Counts, Sound, Fits, HelpIsEarned, OneToken, Waiting
<1> QED
  BY <1>1, <1>2, <1>3, <1>4, <1>5, <1>6, <1>7, <1>8, <1>9 DEF Next

-----------------------------------------------------------------------------
\* What the cookie counts of a visitor who submits one answer at a time.

Checking(t) == request[t].kind = "check"

\* At most one submission is under way, it carries the browser's cookie as that
\* still is, and the cookie counts every lesson's failures since its last pass.
Exact ==
    ~blurred =>
        /\ \A t, u \in Tabs : Checking(t) /\ Checking(u) => t = u
        /\ \A t \in Tabs : Checking(t) => request[t].tries = tries
        /\ \A l \in Lessons :
             Failures(tries, l) = IF since[l] <= SolutionAfter THEN since[l] ELSE SolutionAfter

LEMMA FailuresIs ==
    ASSUME NEW c, NEW l
    PROVE  Failures(c, l) =
             IF l \in DOMAIN c THEN IF c[l] < SolutionAfter THEN c[l] ELSE SolutionAfter ELSE 0
  BY DEF Failures, ParseFailures

\* Requests only end, and nothing that is counted changes.
LEMMA ExactKept ==
    ASSUME TypeOK, Exact, NEW t \in Tabs, request' = [request EXCEPT ![t] = NoRequest],
           UNCHANGED <<tries, since>>, blurred' = blurred
    PROVE  Exact'
<1>1. \A u \in Tabs : Checking(u)' => Checking(u) /\ request'[u] = request[u]
  BY DEF TypeOK, Checking, NoRequest
<1> QED
  BY <1>1 DEF Exact

\* A cookie that was counted right counts one more failure right.
LEMMA OneMore ==
    ASSUME NEW n \in Nat, NEW f, f = IF n <= SolutionAfter THEN n ELSE SolutionAfter
    PROVE  (IF f + 1 < SolutionAfter THEN f + 1 ELSE SolutionAfter)
             = IF n + 1 <= SolutionAfter THEN n + 1 ELSE SolutionAfter
  BY Numbers

LEMMA WrongExact ==
    ASSUME IInv, Exact, NEW t \in Tabs, Wrong(t)
    PROVE  Exact'
<1> DEFINE l == request[t].lesson
           c == request[t].tries
           inc == Incremented(c, l)
<1> SUFFICES ASSUME ~blurred' PROVE Exact'
  BY DEF Exact
<1>0. TypeOK /\ Checking(t) /\ Waiting(t)
  BY KindFacts DEF IInv, Wrong, Checking, Kinds
<1>1. l \in Lessons /\ c \in Cookies
  BY <1>0, RequestFacts
<1>2. /\ tries' \in Trimmed(inc, l) /\ since' = [since EXCEPT ![l] = @ + 1]
      /\ request' = [request EXCEPT ![t] = NoRequest]
      /\ ~blurred /\ DOMAIN tries' = DOMAIN inc
  BY DEF Wrong, Answered
<1>3. c = tries /\ \A u \in Tabs : Checking(u) => u = t
  BY <1>0, <1>2 DEF Exact
<1>4. \A u \in Tabs : ~Checking(u)'
  BY <1>0, <1>2, <1>3 DEF Checking, NoRequest, TypeOK
<1>5. inc \in Cookies /\ DOMAIN inc = DOMAIN c \cup {l} /\ inc[l] = Failures(c, l) + 1
  BY <1>1, IncrementedFacts
<1>6. \A k \in DOMAIN c \ {l} : inc[k] = ParseFailures(c)[k]
  BY DEF Incremented
<1> HIDE DEF inc
<1>7. \A k \in DOMAIN inc : tries'[k] = inc[k]
  BY <1>1, <1>2, <1>5, TrimmedFacts
<1>8. ASSUME NEW k \in Lessons
      PROVE  Failures(tries', k) = IF since'[k] <= SolutionAfter THEN since'[k] ELSE SolutionAfter
  <2>1. /\ Failures(c, k) = IF since[k] <= SolutionAfter THEN since[k] ELSE SolutionAfter
        /\ since[k] \in Nat
    BY <1>0, <1>2, <1>3 DEF Exact, TypeOK
  <2>2. CASE k = l
    <3>1. tries'[k] = Failures(c, k) + 1 /\ k \in DOMAIN tries'
      BY <1>2, <1>5, <1>7, <2>2
    <3>2. since'[k] = since[k] + 1
      BY <1>0, <1>1, <1>2, <2>2 DEF TypeOK
    <3>3. Failures(tries', k) = IF Failures(c, k) + 1 < SolutionAfter THEN Failures(c, k) + 1 ELSE SolutionAfter
      BY <3>1, FailuresIs
    <3> QED
      BY <2>1, <3>2, <3>3, OneMore
  <2>3. CASE k # l
    <3>1. since'[k] = since[k]
      BY <1>0, <1>2, <2>3 DEF TypeOK
    <3>2. CASE k \in DOMAIN c
      <4>1. tries'[k] = ParseFailures(c)[k] /\ k \in DOMAIN tries'
        BY <1>2, <1>5, <1>6, <1>7, <2>3, <3>2
      <4>2. ParseFailures(c)[k] \in 1..SolutionAfter
        BY <1>1, <3>2, ParseFacts
      <4>3. Failures(tries', k) = ParseFailures(c)[k]
        BY <4>1, <4>2, FailuresIs, Numbers
      <4>4. Failures(c, k) = ParseFailures(c)[k]
        BY <3>2 DEF Failures
      <4> QED
        BY <2>1, <3>1, <4>3, <4>4
    <3>3. CASE k \notin DOMAIN c
      <4>1. k \notin DOMAIN tries'
        BY <1>2, <1>5, <2>3, <3>3
      <4>2. Failures(tries', k) = 0 /\ Failures(c, k) = 0
        BY <3>3, <4>1, FailuresIs
      <4> QED
        BY <2>1, <3>1, <4>2
    <3> QED
      BY <3>2, <3>3
  <2> QED
    BY <2>2, <2>3
<1> QED
  BY <1>4, <1>8 DEF Exact

LEMMA RightExact ==
    ASSUME IInv, Exact, NEW t \in Tabs, Right(t)
    PROVE  Exact'
<1> DEFINE l == request[t].lesson
           c == request[t].tries
<1> SUFFICES ASSUME ~blurred' PROVE Exact'
  BY DEF Exact
<1>0. TypeOK /\ Checking(t) /\ Waiting(t)
  BY KindFacts DEF IInv, Right, Checking, Kinds
<1>1. l \in Lessons /\ c \in Cookies
  BY <1>0, RequestFacts
<1>2. /\ tries' = Cleared(c, l) /\ since' = [since EXCEPT ![l] = 0]
      /\ request' = [request EXCEPT ![t] = NoRequest] /\ ~blurred
  BY DEF Right, Answered
<1>3. c = tries /\ \A u \in Tabs : Checking(u) => u = t
  BY <1>0, <1>2 DEF Exact
<1>4. \A u \in Tabs : ~Checking(u)'
  BY <1>0, <1>2, <1>3 DEF Checking, NoRequest, TypeOK
<1>5. /\ l \notin DOMAIN tries' /\ DOMAIN tries' = DOMAIN c \ {l}
      /\ \A k \in DOMAIN c \ {l} : Failures(tries', k) = Failures(c, k)
  <2>1. CASE l \notin DOMAIN c
    <3>1. tries' = c
      BY <1>2, <1>3, <2>1 DEF Cleared
    <3> QED
      BY <2>1, <3>1
  <2>2. CASE l \in DOMAIN c
    <3>1. tries' = [k \in DOMAIN c \ {l} |-> ParseFailures(c)[k]]
      BY <1>2, <2>2 DEF Cleared
    <3>2. ASSUME NEW k \in DOMAIN c \ {l} PROVE Failures(tries', k) = Failures(c, k)
      <4>1. tries'[k] = ParseFailures(c)[k] /\ k \in DOMAIN tries'
        BY <3>1
      <4>2. ParseFailures(c)[k] \in 1..SolutionAfter
        BY <1>1, ParseFacts
      <4>3. Failures(tries', k) = ParseFailures(c)[k]
        BY <4>1, <4>2, FailuresIs, Numbers
      <4> QED
        BY <4>3 DEF Failures
    <3> QED
      BY <3>1, <3>2
  <2> QED
    BY <2>1, <2>2
<1>6. ASSUME NEW k \in Lessons
      PROVE  Failures(tries', k) = IF since'[k] <= SolutionAfter THEN since'[k] ELSE SolutionAfter
  <2>1. Failures(c, k) = IF since[k] <= SolutionAfter THEN since[k] ELSE SolutionAfter
    BY <1>2, <1>3 DEF Exact
  <2>2. CASE k = l
    <3>1. since'[k] = 0 /\ Failures(tries', k) = 0
      BY <1>0, <1>1, <1>2, <1>5, <2>2, FailuresIs DEF TypeOK
    <3> QED
      BY <3>1, Numbers
  <2>3. CASE k # l
    <3>1. since'[k] = since[k]
      BY <1>0, <1>2, <2>3 DEF TypeOK
    <3>2. Failures(tries', k) = Failures(c, k)
      <4>1. CASE k \in DOMAIN c
        BY <1>5, <2>3, <4>1
      <4>2. CASE k \notin DOMAIN c
        BY <1>5, <4>2, FailuresIs
      <4> QED
        BY <4>1, <4>2
    <3> QED
      BY <2>1, <3>1, <3>2
  <2> QED
    BY <2>2, <2>3
<1> QED
  BY <1>4, <1>6 DEF Exact

LEMMA SendExact ==
    ASSUME IInv, Exact, NEW t \in Tabs, NEW kind \in Kinds, NEW l \in Lessons, Send(t, kind, l)
    PROVE  Exact'
<1> SUFFICES ASSUME ~blurred' PROVE Exact'
  BY DEF Exact
<1>1. /\ request' = [request EXCEPT ![t] = Sending(kind, l, page[t])]
      /\ UNCHANGED <<tries, since>> /\ ~blurred
      /\ kind = "check" => InFlight({"check"}) = {}
  BY DEF Send
<1>2. request'[t].kind = kind /\ request'[t].tries = tries
  BY <1>1 DEF IInv, TypeOK, Sending
<1>3. \A u \in Tabs \ {t} : request'[u] = request[u]
  BY <1>1 DEF IInv, TypeOK
<1>4. kind = "check" => \A u \in Tabs : ~Checking(u)
  BY <1>1 DEF InFlight, Checking
<1>5. ASSUME NEW u \in Tabs, NEW v \in Tabs, Checking(u)', Checking(v)' PROVE u = v
  BY <1>1, <1>2, <1>3, <1>4, <1>5 DEF Exact, Checking
<1>6. ASSUME NEW u \in Tabs, Checking(u)' PROVE request'[u].tries = tries'
  BY <1>1, <1>2, <1>3, <1>6 DEF Exact, Checking
<1>7. \A k \in Lessons :
        Failures(tries, k) = IF since[k] <= SolutionAfter THEN since[k] ELSE SolutionAfter
  BY <1>1 DEF Exact
<1> QED
  BY <1>1, <1>5, <1>6, <1>7 DEF Exact

LEMMA StepExact == IInv /\ Exact /\ [Next]_vars => Exact'
<1> SUFFICES ASSUME IInv, Exact, [Next]_vars PROVE Exact'
  OBVIOUS
<1>0. TypeOK
  BY DEF IInv
<1>1. ASSUME NEW t \in Tabs, NEW l \in Lessons, NEW kind \in Kinds, Send(t, kind, l) PROVE Exact'
  BY <1>1, SendExact
<1>2. ASSUME NEW t \in Tabs, Open(t) \/ Nothing(t) \/ Help(t) PROVE Exact'
  BY <1>0, <1>2, ExactKept DEF Open, Nothing, Help, Answered, history
<1>3. ASSUME NEW t \in Tabs, Wrong(t) PROVE Exact'
  BY <1>3, WrongExact
<1>4. ASSUME NEW t \in Tabs, Right(t) PROVE Exact'
  BY <1>4, RightExact
<1>5. ASSUME NEW t \in Tabs, Lost(t) PROVE Exact'
  <2>1. CASE blurred'
    BY <2>1 DEF Exact
  <2>2. CASE ~blurred'
    <3>1. request' = [request EXCEPT ![t] = NoRequest] /\ UNCHANGED <<tries, since, blurred>>
      BY <1>5, <2>2 DEF Lost
    <3> QED
      BY <1>0, <3>1, ExactKept
  <2> QED
    BY <2>1, <2>2
<1>6. CASE Restart
  <2>1. UNCHANGED <<tries, since>> /\ (blurred => blurred') /\ \A t \in Tabs : ~Checking(t)'
    BY <1>6 DEF Restart, Checking, NoRequest
  <2> QED
    BY <2>1 DEF Exact
<1>7. CASE Expire
  BY <1>7 DEF Expire, Exact
<1>8. CASE UNCHANGED vars
  BY <1>8 DEF vars, browser, history, Exact, Checking
<1> QED
  BY <1>1, <1>2, <1>3, <1>4, <1>5, <1>6, <1>7, <1>8 DEF Next

LEMMA InitExact == Init => Exact
<1> SUFFICES ASSUME Init PROVE Exact
  OBVIOUS
<1>1. \A t \in Tabs : ~Checking(t)
  BY DEF Init, Checking, NoRequest
<1>2. \A l \in Lessons : Failures(tries, l) = 0 /\ since[l] = 0
  BY FailuresIs DEF Init
<1> QED
  BY <1>1, <1>2, Numbers DEF Exact

-----------------------------------------------------------------------------
\* Visitor is type correct: a cookie never names more lessons than are tracked,
\* and no count in it is larger than the last one written
\* (attempts.go:55-118).
THEOREM VisitorTypes == Spec => []TypeOK
<1>1. Spec => []IInv
  BY InitIInv, StepIInv, PTL DEF Spec
<1>2. IInv => TypeOK
  BY DEF IInv
<1> QED
  BY <1>1, <1>2, PTL

\* No help without the failures it takes, in however many tabs, whatever answers
\* arrive out of order or not at all, and however often the cookie was trimmed
\* (handler.go:120-196, attempts.go:42-118).
THEOREM VisitorHelpIsEarned == Spec => []HelpIsEarned
<1>1. Spec => []IInv
  BY InitIInv, StepIInv, PTL DEF Spec
<1>2. IInv => HelpIsEarned
  BY DEF IInv
<1> QED
  BY <1>1, <1>2, PTL

\* Unless two first visits overlapped, no open page holds a token that its form
\* would be refused for, after any number of restarts of the browser
\* (csrf.go:29-64).
THEOREM VisitorFormsStayGood == Spec => []FormsStayGood
<1>1. Spec => []IInv
  BY InitIInv, StepIInv, PTL DEF Spec
<1>2. IInv => FormsStayGood
  BY DEF IInv, OneToken, FormsStayGood
<1> QED
  BY <1>1, <1>2, PTL

\* For however many lessons, tabs and thresholds: while answers are submitted one
\* at a time and none is lost, the cookie neither forgets a wrong answer nor
\* counts one twice, and a pass starts the count again (attempts.go:43-125).
THEOREM VisitorTriesAreExact == Spec => []TriesAreExact
<1>1. Spec => []IInv
  BY InitIInv, StepIInv, PTL DEF Spec
<1>2. Spec => []Exact
  BY <1>1, InitExact, StepExact, PTL DEF Spec
<1>3. Exact => TriesAreExact
  BY DEF Exact, TriesAreExact
<1> QED
  BY <1>2, <1>3, PTL
=============================================================================
