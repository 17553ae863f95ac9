----------------------------- MODULE Leaderboard -----------------------------
(***************************************************************************)
(* internal/leaderboard: learners who asked to be ranked, the two boards   *)
(* they are ranked on, and the page that shows them to a viewer.  A page   *)
(* is put together from two queries, and anybody may join, rename or leave *)
(* between them.  A view writes nothing, so two of them do not meet: one   *)
(* is followed at a time, with the writes of everybody else around it.     *)
(* What a learner has solved is two counts here; which lesson goes to      *)
(* which count is in module Submissions.                                   *)
(***************************************************************************)
EXTENDS Integers, FiniteSets, Sequences, Functions, SequencesExt

CONSTANTS
    Learners,       \* accounts
    Names,          \* display names, numbered in the order they sort
    Lower,          \* the number of a name's lower-case form
    BoardLimit,     \* boardLimit
    Guest,          \* a viewer who is not signed in
    NoName,         \* the empty string
    Malformed,      \* whatever cleanDisplayName refuses
    MaxSolved,      \* bound: lessons a learner solves
    MaxMeanwhile    \* bound: writes explored while a page is put together

ASSUME LeaderboardAssumption ==
    /\ IsFiniteSet(Learners)
    /\ Names \subseteq Int
    /\ Lower \in [Names -> Int]
    /\ BoardLimit \in Nat \ {0}
    /\ Guest \notin Learners
    /\ NoName \notin Names /\ Malformed \notin Names /\ Malformed # NoName
    /\ MaxSolved \in Nat /\ MaxMeanwhile \in Nat

VARIABLES
    optin,      \* leaderboard_optin: the name of each learner with a row
    solved,     \* each learner's solo and assisted lessons
    step,       \* how far the view has come
    viewer,     \* who it is for
    typed,      \* the refused name it is to echo, if any
    rows,       \* what Boards read
    page,       \* what was rendered
    \* History variables:
    asked,      \* what each learner was last told they are listed as
    listed,     \* asked when Boards read
    steady,     \* the viewer neither joined, left nor renamed during the view
    meanwhile   \* writes during the view

tables == <<optin, solved, asked>>
view == <<step, viewer, typed, rows, page, listed, steady, meanwhile>>
vars == <<tables, view>>

NoPage == [name |-> NoName, solo |-> << >>, assisted |-> << >>]

Init ==
    /\ optin = << >>
    /\ solved = [u \in Learners |-> [solo |-> 0, assisted |-> 0]]
    /\ step = "none" /\ viewer = Guest /\ typed = NoName
    /\ rows = << >> /\ page = NoPage
    /\ asked = [u \in Learners |-> NoName]
    /\ listed = asked /\ steady = TRUE /\ meanwhile = 0

-----------------------------------------------------------------------------
\* The writes.

\* Whatever a write changes, it is a write of u's beside the view.
Beside(u) ==
    /\ IF step = "none"
       THEN UNCHANGED <<steady, meanwhile>>
       ELSE /\ meanwhile < MaxMeanwhile
            /\ meanwhile' = meanwhile + 1
            /\ steady' = (steady /\ (viewer = u => UNCHANGED asked))
    /\ UNCHANGED <<step, viewer, typed, rows, page, listed>>

\* The unique index on lower(display_name).
Taken(u, n) == \E v \in DOMAIN optin \ {u} : Lower[optin[v]] = Lower[n]

\* Slip: ON CONFLICT DO NOTHING.
KeptName(u, n) ==
    [v \in DOMAIN optin \cup {u} |-> IF v \in DOMAIN optin THEN optin[v] ELSE n]

\* The upsert.
Named(u, n) == [v \in DOMAIN optin \cup {u} |-> IF v = u THEN n ELSE optin[v]]

\* POST /leaderboard/opt-in with a name that is well-formed and free.
OptIn(u, n) ==
    /\ ~Taken(u, n)
    /\ optin' = Named(u, n)
    /\ asked' = [asked EXCEPT ![u] = n]
    /\ UNCHANGED solved
    /\ Beside(u)

\* The DELETE, of a row or of none.
Left(u) == [v \in DOMAIN optin \ {u} |-> optin[v]]

\* POST /leaderboard/opt-out.
OptOut(u) ==
    /\ optin' = Left(u)
    /\ asked' = [asked EXCEPT ![u] = NoName]
    /\ UNCHANGED solved
    /\ Beside(u)

\* A lesson is passed for the first time, or its solution is revealed after a
\* pass that was solo.
Solve(u) ==
    /\ \/ /\ solved[u].solo + solved[u].assisted < MaxSolved
          /\ \/ solved' = [solved EXCEPT ![u].solo = @ + 1]
             \/ solved' = [solved EXCEPT ![u].assisted = @ + 1]
       \/ /\ solved[u].solo > 0
          /\ solved' = [solved EXCEPT ![u].solo = @ - 1, ![u].assisted = @ + 1]
    /\ UNCHANGED <<optin, asked>>
    /\ Beside(u)

-----------------------------------------------------------------------------
\* The boards.

\* One line for every learner with a row, whatever they have solved.
Standings ==
    {[name |-> optin[u], solo |-> solved[u].solo, assisted |-> solved[u].assisted] :
        u \in DOMAIN optin}

Same(a, b) == a.solo = b.solo /\ a.assisted = b.assisted

\* Slip: the board is read the other way round first.
AssistedFirst(a, b) ==
    \/ a.assisted > b.assisted
    \/ a.assisted = b.assisted /\ a.solo > b.solo
    \/ Same(a, b) /\ a.name < b.name

\* ORDER BY solo DESC, assisted DESC, display_name.
SoloAhead(a, b) ==
    \/ a.solo > b.solo
    \/ a.solo = b.solo /\ a.assisted > b.assisted
    \/ Same(a, b) /\ a.name < b.name

\* The comparison of SortStableFunc.
AssistedAhead(a, b) ==
    \/ a.assisted > b.assisted
    \/ a.assisted = b.assisted /\ a.name < b.name

\* The ordering of the query, and the other one of the same rows.
BySolo(S) ==
    CHOOSE l \in SetToSeqs(S) : \A i, j \in DOMAIN l : i < j => SoloAhead(l[i], l[j])

ByAssisted(S) ==
    CHOOSE l \in SetToSeqs(S) : \A i, j \in DOMAIN l : i < j => AssistedAhead(l[i], l[j])

\* LIMIT.
Cut(l, n) == [i \in {j \in DOMAIN l : j <= n} |-> l[i]]

-----------------------------------------------------------------------------
\* The page.

\* Slip: no place is left out after a tie.
PlaceDense(l, i) == Cardinality({j \in 1..i : j > 1 => ~Same(l[j - 1], l[j])})

\* A line whose counts are those of the line before it shares its place, and so
\* the place of the first of its run.
Place(l, i) ==
    CHOOSE p \in 1..i :
        /\ \A j \in p..i : Same(l[j], l[i])
        /\ p > 1 => ~Same(l[p - 1], l[i])

\* rank.
Ranked(l, name) ==
    [i \in DOMAIN l |-> [place |-> Place(l, i), of |-> l[i],
                         you |-> name # NoName /\ l[i].name = name]]

\* A view begins: GET /leaderboard, or an opt-in that is refused for its form or
\* because somebody uses the name, which is answered with the page and the name.
Begin(v, echo) ==
    /\ step = "none"
    /\ step' = "boards" /\ viewer' = v /\ typed' = echo
    /\ steady' = TRUE /\ meanwhile' = 0
    /\ UNCHANGED <<tables, rows, page, listed>>

Show(v) == Begin(v, NoName)

\* cleanDisplayName or the index refuses the name.
RefuseName(u, n) == (n \in Names => Taken(u, n)) /\ Begin(u, n)

\* Boards: one query, two orderings.
ReadBoards ==
    /\ step = "boards"
    /\ step' = "standing"
    /\ rows' = Cut(BySolo(Standings), BoardLimit)
    /\ listed' = asked
    /\ UNCHANGED <<tables, viewer, typed, page, steady, meanwhile>>

\* The view is over.
Over ==
    /\ step' = "none" /\ viewer' = Guest /\ typed' = NoName
    /\ rows' = << >> /\ page' = NoPage
    /\ listed' = [u \in Learners |-> NoName] /\ steady' = TRUE /\ meanwhile' = 0
    /\ UNCHANGED tables

\* Boards fails and the answer is an error.
BoardsFail == step = "boards" /\ Over

\* Standing: the viewer's name, none when they have no row, are a guest, or the
\* query fails.
StandingNames ==
    {NoName} \cup {optin[v] : v \in {viewer} \cap DOMAIN optin}

\* Slip: the refused name is put into the view before the boards are ranked.
EchoedFirst(name) ==
    LET marked == IF typed # NoName THEN typed ELSE name
    IN  page' = [name |-> marked, solo |-> Ranked(rows, marked),
                 assisted |-> Ranked(ByAssisted(Range(rows)), marked)]

\* The rest of view, and optIn's echo of what was typed.
Rendered(name) ==
    page' = [name |-> IF typed # NoName THEN typed ELSE name,
             solo |-> Ranked(rows, name),
             assisted |-> Ranked(ByAssisted(Range(rows)), name)]

ReadStanding ==
    /\ step = "standing"
    /\ step' = "page"
    /\ \E name \in StandingNames : Rendered(name)
    /\ UNCHANGED <<tables, viewer, typed, rows, listed, steady, meanwhile>>

\* The page has been sent.
Sent == step = "page" /\ Over

Next ==
    \/ \E u \in Learners :
         \/ OptOut(u) \/ Solve(u)
         \/ \E n \in Names : OptIn(u, n)
         \/ \E n \in Names \cup {Malformed} : RefuseName(u, n)
    \/ \E v \in Learners \cup {Guest} : Show(v)
    \/ ReadBoards \/ BoardsFail \/ ReadStanding \/ Sent

Spec == Init /\ [][Next]_vars

-----------------------------------------------------------------------------
\* What the boards promise.

TypeOK ==
    /\ DOMAIN optin \subseteq Learners /\ optin \in [DOMAIN optin -> Names]
    /\ solved \in [Learners -> [solo : Nat, assisted : Nat]]
    /\ step \in {"none", "boards", "standing", "page"}
    /\ viewer \in Learners \cup {Guest}
    /\ typed \in Names \cup {NoName, Malformed}
    /\ asked \in [Learners -> Names \cup {NoName}]
    /\ listed \in [Learners -> Names \cup {NoName}]
    /\ steady \in BOOLEAN /\ meanwhile \in 0..MaxMeanwhile

\* A page lists the learners who are on the board by their own last word, under
\* the names they chose, and all of them as far as it reaches; no two of the
\* names differ in case only
\* (leaderboard.go:95-126, db/queries.sql.go:14-37, 92-132).
Asking == {u \in Learners : listed[u] # NoName}
ListsThoseWhoAsked ==
    step \in {"standing", "page"} =>
        /\ \A i \in DOMAIN rows : \E u \in Asking : listed[u] = rows[i].name
        /\ \A i, j \in DOMAIN rows : i # j => Lower[rows[i].name] # Lower[rows[j].name]
        /\ Cardinality(DOMAIN rows) =
             IF Cardinality(Asking) < BoardLimit THEN Cardinality(Asking) ELSE BoardLimit

\* "marks the viewer's own line": unless the viewer changed their own name while
\* the page was put together, no line but theirs is marked, whoever takes a name
\* or gives one up meanwhile (handler.go:91-119, 121-147).
MarkedLineIsYours ==
    step = "page" /\ steady =>
        \A line \in Range(page.solo) \cup Range(page.assisted) :
            line.you => viewer # Guest /\ listed[viewer] = line.of.name

\* "two learners on nine solves are both second, and the next is fourth": on the
\* solo board a place is one more than the number of lines that are ahead
\* (handler.go:121-147).
SoloPlacesCountThoseAhead ==
    \A i \in DOMAIN page.solo :
        page.solo[i].place =
            1 + Cardinality({j \in DOMAIN page.solo :
                    ~Same(page.solo[j].of, page.solo[i].of)
                    /\ SoloAhead(page.solo[j].of, page.solo[i].of)})

\* "Long enough that nobody who belongs on it is cut off": whoever the limit
\* leaves out has solved no more alone than anybody it lets in
\* (leaderboard.go:33-36, 67-68).
CutSparesTheBestSolo ==
    [][step' = "standing" /\ step = "boards" =>
        \A u \in DOMAIN optin :
            \/ \E i \in DOMAIN rows' : rows'[i].name = optin[u]
            \/ \A i \in DOMAIN rows' : rows'[i].solo >= solved[u].solo]_vars
=============================================================================
