-------------------------- MODULE LeaderboardProofs --------------------------
(***************************************************************************)
(* For any number of learners, names and lines: whom a board lists, which  *)
(* line it marks, and which places it gives, whoever joins, renames or     *)
(* leaves while the page is put together.                                  *)
(***************************************************************************)
EXTENDS Leaderboard, FiniteSetTheorems, TLAPS

-----------------------------------------------------------------------------
\* Sorting: a finite set on which R is a strict order, and total, can be listed
\* in that order.

StrictOrder(S, R) ==
  /\ \A a \in S : <<a, a>> \notin R
  /\ \A a, b, c \in S : <<a, b>> \in R /\ <<b, c>> \in R => <<a, c>> \in R
  /\ \A a, b \in S : a # b => <<a, b>> \in R \/ <<b, a>> \in R

\* Every element's place is one more than how many are before it.
LEMMA Sorting ==
  ASSUME NEW S, IsFiniteSet(S), NEW R, StrictOrder(S, R)
  PROVE  \E l \in SetToSeqs(S) : \A i, j \in DOMAIN l : i < j => <<l[i], l[j]>> \in R
<1> DEFINE n == Cardinality(S)
           D == 1..n
           before(a) == {b \in S : <<b, a>> \in R}
           place == [a \in S |-> Cardinality(before(a)) + 1]
<1>1. n \in Nat
  BY FS_CardinalityType
<1>2. IsFiniteSet(D) /\ Cardinality(D) = n
  BY <1>1, FS_Interval
<1>3. ASSUME NEW a \in S PROVE IsFiniteSet(before(a)) /\ Cardinality(before(a)) \in 0..(n - 1)
  <2>1. before(a) \in SUBSET S /\ a \notin before(a)
    BY DEF StrictOrder
  <2> HIDE DEF before
  <2>2. IsFiniteSet(before(a)) /\ Cardinality(before(a)) <= n /\ Cardinality(before(a)) # n
    BY <2>1, FS_Subset
  <2>3. Cardinality(before(a)) \in Nat
    BY <2>2, FS_CardinalityType
  <2> QED BY <1>1, <2>2, <2>3
<1>4. place \in [S -> D]
  <2> HIDE DEF before
  <2> QED BY <1>1, <1>3
<1>5. ASSUME NEW a \in S, NEW b \in S, <<a, b>> \in R PROVE place[a] < place[b]
  <2>1. before(a) \in SUBSET before(b)
    BY <1>5 DEF StrictOrder
  <2>2. a \in before(b) /\ a \notin before(a)
    BY <1>5 DEF StrictOrder
  <2> HIDE DEF before
  <2>3. Cardinality(before(a)) <= Cardinality(before(b)) /\ Cardinality(before(a)) # Cardinality(before(b))
    BY <1>3, <2>1, <2>2, FS_Subset
  <2> QED BY <1>1, <1>3, <2>3
<1> HIDE DEF place
<1>6. ASSUME NEW a \in S, NEW b \in S, place[a] = place[b] PROVE a = b
  <2>1. place[a] \in D /\ place[b] \in D
    BY <1>4
  <2>2. ~(place[a] < place[b]) /\ ~(place[b] < place[a])
    BY <1>1, <1>6, <2>1
  <2>3. <<a, b>> \notin R /\ <<b, a>> \notin R
    BY <1>5, <2>2
  <2> QED BY <2>3 DEF StrictOrder
<1>7. place \in Injection(S, D)
  BY <1>4, <1>6 DEF Injection, IsInjective
<1>8. place \in Surjection(S, D)
  BY <1>2, <1>7, FS_Injection
<1> DEFINE l == [k \in D |-> CHOOSE a \in S : place[a] = k]
<1>9. \A k \in D : l[k] \in S /\ place[l[k]] = k
  BY <1>8 DEF Surjection
<1> HIDE DEF l
<1>10. l \in SetToSeqs(S)
  <2>1. l \in [D -> S]
    BY <1>9 DEF l
  <2>2. \A i, j \in D : i # j => l[i] # l[j]
    BY <1>9
  <2> QED BY <2>1, <2>2 DEF SetToSeqs
<1>11. DOMAIN l = D
  BY DEF l
<1>12. ASSUME NEW i \in D, NEW j \in D, i < j PROVE <<l[i], l[j]>> \in R
  <2>1. ~(place[l[j]] < place[l[i]]) /\ l[i] # l[j]
    BY <1>9, <1>12
  <2>2. <<l[j], l[i]>> \notin R
    BY <1>5, <1>9, <2>1
  <2> QED BY <1>9, <2>1, <2>2 DEF StrictOrder
<1> QED BY <1>10, <1>11, <1>12

\* A sequence that holds every element of a finite set once.
LEMMA SeqsFacts ==
  ASSUME NEW S, IsFiniteSet(S), NEW l \in SetToSeqs(S)
  PROVE  /\ Cardinality(S) \in Nat /\ DOMAIN l = 1..Cardinality(S)
         /\ \A i \in DOMAIN l : l[i] \in S
         /\ \A a \in S : \E i \in DOMAIN l : l[i] = a
<1> DEFINE D == 1..Cardinality(S)
<1>1. Cardinality(S) \in Nat
  BY FS_CardinalityType
<1>2. l \in [D -> S] /\ \A i, j \in D : i # j => l[i] # l[j]
  BY DEF SetToSeqs
<1>3. l \in Injection(D, S)
  BY <1>2 DEF Injection, IsInjective
<1>4. IsFiniteSet(D) /\ Cardinality(D) = Cardinality(S)
  BY <1>1, FS_Interval
<1>5. l \in Surjection(D, S)
  BY <1>3, <1>4, FS_Injection
<1> QED BY <1>1, <1>2, <1>5 DEF Surjection

-----------------------------------------------------------------------------
\* The lines of a board.

Lines == [name : Names, solo : Nat, assisted : Nat]

LEMMA LineFacts ==
  ASSUME NEW a \in Lines
  PROVE  a.name \in Names /\ a.name \in Int /\ a.solo \in Nat /\ a.assisted \in Nat
<1>1. a.name \in Names /\ a.solo \in Nat /\ a.assisted \in Nat
  BY DEF Lines
<1> QED BY <1>1, LeaderboardAssumption

\* No two lines of one name.
Apart(S) == \A a, b \in S : a.name = b.name => a = b

LEMMA SoloOrder ==
  ASSUME NEW S \in SUBSET Lines, IsFiniteSet(S), Apart(S)
  PROVE  /\ BySolo(S) \in SetToSeqs(S)
         /\ \A i, j \in DOMAIN BySolo(S) : i < j => SoloAhead(BySolo(S)[i], BySolo(S)[j])
<1> DEFINE R == {p \in S \X S : SoloAhead(p[1], p[2])}
<1>0. \A a \in S : a.name \in Int /\ a.solo \in Int /\ a.assisted \in Int
  BY LineFacts
<1>1. ASSUME NEW a \in S PROVE ~SoloAhead(a, a)
  BY <1>0 DEF SoloAhead, Same
<1>2. ASSUME NEW a \in S, NEW b \in S, NEW c \in S, SoloAhead(a, b), SoloAhead(b, c)
      PROVE  SoloAhead(a, c)
  BY <1>0, <1>2 DEF SoloAhead, Same
<1>3. ASSUME NEW a \in S, NEW b \in S, a # b PROVE SoloAhead(a, b) \/ SoloAhead(b, a)
  <2>1. a.name # b.name
    BY <1>3 DEF Apart
  <2> QED BY <1>0, <2>1 DEF SoloAhead, Same
<1>4. StrictOrder(S, R)
  BY <1>1, <1>2, <1>3 DEF StrictOrder
<1>5. \A a, b : <<a, b>> \in R => SoloAhead(a, b)
  OBVIOUS
<1>6. \E l \in SetToSeqs(S) : \A i, j \in DOMAIN l : i < j => <<l[i], l[j]>> \in R
  <2> HIDE DEF R
  <2> QED BY <1>4, Sorting
<1>7. \E l \in SetToSeqs(S) : \A i, j \in DOMAIN l : i < j => SoloAhead(l[i], l[j])
  <2> HIDE DEF R
  <2> QED BY <1>5, <1>6
<1> QED BY <1>7 DEF BySolo

\* The place of a line on a board in solo order.
LEMMA PlaceCounts ==
  ASSUME NEW n \in Nat, NEW l \in [1..n -> Lines],
         \A i, j \in 1..n : i < j => SoloAhead(l[i], l[j]),
         NEW i \in 1..n
  PROVE  Place(l, i) = 1 + Cardinality({j \in 1..n : ~Same(l[j], l[i]) /\ SoloAhead(l[j], l[i])})
<1>0. \A j \in 1..n : l[j].name \in Int /\ l[j].solo \in Int /\ l[j].assisted \in Int
  BY LineFacts
<1> DEFINE run == {q \in 1..i : \A j \in q..i : Same(l[j], l[i])}
           Is(p) == /\ \A j \in p..i : Same(l[j], l[i])
                    /\ p > 1 => ~Same(l[p - 1], l[i])
<1>1. \E p \in 1..i : Is(p)
  <2>1. i \in run
    BY DEF Same
  <2>2. \E p \in run : \A q \in run : p <= q
    <3> DEFINE Less == {q \in Nat \X Nat : q[1] < q[2]}
    <3>1. IsWellFoundedOn(Less, Nat)
      BY NatLessThanWellFounded DEF OpToRel
    <3>2. run \in SUBSET Nat
      OBVIOUS
    <3> HIDE DEF run
    <3>3. PICK p \in run : \A q \in run : <<q, p>> \notin Less
      BY <2>1, <3>1, <3>2, WFMin
    <3>4. ASSUME NEW q \in run PROVE p <= q
      <4>1. q \in Nat /\ p \in Nat /\ ~(q < p)
        BY <3>2, <3>3
      <4> QED BY <4>1
    <3> QED BY <3>4
  <2>3. PICK p \in run : \A q \in run : p <= q
    BY <2>2
  <2>4. ASSUME p > 1 PROVE ~Same(l[p - 1], l[i])
    <3>1. p - 1 \in 1..i /\ p - 1 \notin run
      BY <2>3, <2>4
    <3>2. PICK j \in (p - 1)..i : ~Same(l[j], l[i])
      BY <3>1
    <3>3. j \notin p..i
      BY <2>3, <3>2
    <3>4. j = p - 1
      BY <2>3, <3>2, <3>3
    <3> QED BY <3>2, <3>4
  <2> QED BY <2>3, <2>4
<1> DEFINE p == Place(l, i)
<1>2. p \in 1..i /\ Is(p)
  BY <1>1 DEF Place
<1> HIDE DEF p
<1>3. ASSUME NEW j \in 1..n
      PROVE  ~Same(l[j], l[i]) /\ SoloAhead(l[j], l[i]) <=> j \in 1..(p - 1)
  <2>1. CASE j \in p..i
    <3>1. Same(l[j], l[i])
      BY <1>2, <2>1
    <3> QED BY <1>2, <2>1, <3>1
  <2>2. CASE j > i
    <3>1. SoloAhead(l[i], l[j])
      BY <2>2
    <3>2. ~SoloAhead(l[j], l[i])
      BY <1>0, <3>1 DEF SoloAhead, Same
    <3> QED BY <1>2, <2>2, <3>2
  <2>3. CASE j < p
    <3>1. p - 1 \in 1..n /\ p - 1 < i /\ j < i /\ p > 1 /\ ~Same(l[p - 1], l[i])
      BY <1>2, <2>3
    <3>2. SoloAhead(l[j], l[i]) /\ SoloAhead(l[p - 1], l[i])
      BY <3>1
    <3>3. j = p - 1 \/ SoloAhead(l[j], l[p - 1])
      BY <1>2, <2>3, <3>1
    <3>4. ~Same(l[j], l[i])
      BY <1>0, <3>1, <3>2, <3>3 DEF SoloAhead, Same
    <3> QED BY <1>2, <2>3, <3>2, <3>4
  <2> QED BY <1>2, <2>1, <2>2, <2>3
<1>4. {j \in 1..n : ~Same(l[j], l[i]) /\ SoloAhead(l[j], l[i])} = 1..(p - 1)
  BY <1>2, <1>3
<1>5. Cardinality(1..(p - 1)) = p - 1
  BY <1>2, FS_Interval
<1>6. Place(l, i) = 1 + (p - 1)
  BY <1>2 DEF p
<1> QED BY <1>4, <1>5, <1>6

-----------------------------------------------------------------------------
\* The invariant that is inductive.

\* The rows are what their learners last asked for, and no two share a name.
RowsAreAsked ==
  /\ \A u \in Learners : asked[u] = IF u \in DOMAIN optin THEN optin[u] ELSE NoName
  /\ \A u, v \in DOMAIN optin : u # v => Lower[optin[u]] # Lower[optin[v]]

\* What Boards read is in the order of the query.
RowsInOrder ==
  step \in {"standing", "page"} =>
    \E n \in Nat :
      /\ rows \in [1..n -> Lines]
      /\ \A i, j \in 1..n : i < j => SoloAhead(rows[i], rows[j])

\* A viewer who did nothing meanwhile is listed as they were asked to be.
ViewerIsListed ==
  step = "standing" /\ steady /\ viewer # Guest => listed[viewer] = asked[viewer]

\* The page marks one name, which is the viewer's own unless they changed it.
PageMarksOneName ==
  /\ step = "page" =>
       \E name \in Names \cup {NoName} :
         /\ page.solo = Ranked(rows, name)
         /\ page.assisted = Ranked(ByAssisted(Range(rows)), name)
         /\ (steady /\ name # NoName) => viewer # Guest /\ listed[viewer] = name
  /\ step # "page" => page = NoPage

IInv ==
  /\ TypeOK /\ RowsAreAsked /\ RowsInOrder /\ ListsThoseWhoAsked
  /\ ViewerIsListed /\ PageMarksOneName

LEMMA InitHolds == Init => IInv
<1> SUFFICES ASSUME Init PROVE IInv
  OBVIOUS
<1> USE DEF Init
<1>1. TypeOK
  <2>1. DOMAIN optin = {} /\ optin \in [DOMAIN optin -> Names]
    OBVIOUS
  <2>2. solved \in [Learners -> [solo : Nat, assisted : Nat]]
    OBVIOUS
  <2> QED BY <2>1, <2>2, LeaderboardAssumption DEF TypeOK
<1>2. RowsAreAsked
  BY DEF RowsAreAsked
<1>3. RowsInOrder /\ ListsThoseWhoAsked /\ ViewerIsListed /\ PageMarksOneName
  BY DEF RowsInOrder, ListsThoseWhoAsked, ViewerIsListed, PageMarksOneName
<1> QED BY <1>1, <1>2, <1>3 DEF IInv

\* A write beside the view leaves what the view holds as it was.
LEMMA BesideHolds ==
  ASSUME IInv, NEW u \in Learners, Beside(u), TypeOK', RowsAreAsked',
         \A v \in Learners \ {u} : asked'[v] = asked[v]
  PROVE  IInv'
<1>1. UNCHANGED <<step, viewer, typed, rows, page, listed>>
  BY DEF Beside
<1>2. RowsInOrder'
  BY <1>1 DEF IInv, RowsInOrder
<1>3. ListsThoseWhoAsked'
  BY <1>1 DEF IInv, ListsThoseWhoAsked, Asking
<1>4. step # "none" => (steady' => steady /\ (viewer = u => asked' = asked))
  BY DEF Beside
<1>5. ViewerIsListed'
  <2> SUFFICES ASSUME step = "standing", steady', viewer # Guest PROVE listed[viewer] = asked'[viewer]
    BY <1>1 DEF ViewerIsListed
  <2>1. steady /\ (viewer = u => asked' = asked) /\ viewer \in Learners
    BY <1>4 DEF IInv, TypeOK
  <2>2. listed[viewer] = asked[viewer]
    BY <2>1 DEF IInv, ViewerIsListed
  <2> QED BY <2>1, <2>2
<1>6. PageMarksOneName'
  <2>1. CASE step = "page"
    <3>1. PICK name \in Names \cup {NoName} :
            /\ page.solo = Ranked(rows, name)
            /\ page.assisted = Ranked(ByAssisted(Range(rows)), name)
            /\ (steady /\ name # NoName) => viewer # Guest /\ listed[viewer] = name
      BY <2>1 DEF IInv, PageMarksOneName
    <3>2. steady' => steady
      BY <1>4, <2>1
    <3> QED BY <1>1, <2>1, <3>1, <3>2 DEF PageMarksOneName
  <2>2. CASE step # "page"
    BY <1>1, <2>2 DEF IInv, PageMarksOneName
  <2> QED BY <2>1, <2>2
<1> QED BY <1>2, <1>3, <1>5, <1>6 DEF IInv

\* The parts of the type invariant that a write beside the view keeps.
LEMMA BesideTypes ==
  ASSUME TypeOK, NEW u, Beside(u),
         DOMAIN optin' \subseteq Learners, optin' \in [DOMAIN optin' -> Names],
         solved' \in [Learners -> [solo : Nat, assisted : Nat]],
         asked' \in [Learners -> Names \cup {NoName}]
  PROVE  TypeOK'
<1>1. steady' \in BOOLEAN
  BY DEF TypeOK, Beside
<1>2. meanwhile' \in 0..MaxMeanwhile
  BY LeaderboardAssumption DEF TypeOK, Beside
<1>3. UNCHANGED <<step, viewer, typed, rows, page, listed>>
  BY DEF Beside
<1> QED BY <1>1, <1>2, <1>3 DEF TypeOK

LEMMA OptInHolds ==
  ASSUME IInv, NEW u \in Learners, NEW n \in Names, OptIn(u, n)
  PROVE  IInv'
<1>1. /\ optin' = Named(u, n) /\ asked' = [asked EXCEPT ![u] = n]
      /\ ~Taken(u, n) /\ solved' = solved /\ Beside(u)
  BY DEF OptIn
<1>2. /\ DOMAIN optin' = DOMAIN optin \cup {u} /\ optin'[u] = n
      /\ \A v \in DOMAIN optin \ {u} : optin'[v] = optin[v]
  BY <1>1 DEF Named
<1>3. DOMAIN optin' \subseteq Learners /\ optin' \in [DOMAIN optin' -> Names]
  BY <1>1, <1>2 DEF IInv, TypeOK, Named
<1>4. /\ asked' \in [Learners -> Names \cup {NoName}] /\ asked'[u] = n
      /\ \A v \in Learners \ {u} : asked'[v] = asked[v]
  BY <1>1 DEF IInv, TypeOK
<1>5. TypeOK'
  BY <1>1, <1>3, <1>4, BesideTypes DEF IInv, TypeOK
<1>6. RowsAreAsked'
  <2>1. \A v \in Learners : asked'[v] = IF v \in DOMAIN optin' THEN optin'[v] ELSE NoName
    BY <1>2, <1>4 DEF IInv, RowsAreAsked
  <2>2. ASSUME NEW v \in DOMAIN optin', NEW w \in DOMAIN optin', v # w
        PROVE  Lower[optin'[v]] # Lower[optin'[w]]
    BY <1>1, <1>2, <2>2 DEF IInv, RowsAreAsked, Taken
  <2> QED BY <2>1, <2>2 DEF RowsAreAsked
<1> QED BY <1>1, <1>4, <1>5, <1>6, BesideHolds

LEMMA OptOutHolds ==
  ASSUME IInv, NEW u \in Learners, OptOut(u)
  PROVE  IInv'
<1>1. /\ optin' = Left(u) /\ asked' = [asked EXCEPT ![u] = NoName]
      /\ solved' = solved /\ Beside(u)
  BY DEF OptOut
<1>2. /\ DOMAIN optin' = DOMAIN optin \ {u}
      /\ \A v \in DOMAIN optin \ {u} : optin'[v] = optin[v]
  BY <1>1 DEF Left
<1>3. DOMAIN optin' \subseteq Learners /\ optin' \in [DOMAIN optin' -> Names]
  BY <1>1, <1>2 DEF IInv, TypeOK, Left
<1>4. /\ asked' \in [Learners -> Names \cup {NoName}] /\ asked'[u] = NoName
      /\ \A v \in Learners \ {u} : asked'[v] = asked[v]
  BY <1>1 DEF IInv, TypeOK
<1>5. TypeOK'
  BY <1>1, <1>3, <1>4, BesideTypes DEF IInv, TypeOK
<1>6. RowsAreAsked'
  BY <1>2, <1>4 DEF IInv, RowsAreAsked
<1> QED BY <1>1, <1>4, <1>5, <1>6, BesideHolds

LEMMA SolveHolds ==
  ASSUME IInv, NEW u \in Learners, Solve(u)
  PROVE  IInv'
<1>1. UNCHANGED <<optin, asked>> /\ Beside(u)
  BY DEF Solve
<1>2. solved' \in [Learners -> [solo : Nat, assisted : Nat]]
  <2>0. solved \in [Learners -> [solo : Nat, assisted : Nat]]
    BY DEF IInv, TypeOK
  <2>1. solved[u] \in [solo : Nat, assisted : Nat]
    BY <2>0
  <2>2. CASE solved' = [solved EXCEPT ![u].solo = @ + 1]
    BY <2>0, <2>1, <2>2
  <2>3. CASE solved' = [solved EXCEPT ![u].assisted = @ + 1]
    BY <2>0, <2>1, <2>3
  <2>4. CASE solved[u].solo > 0 /\ solved' = [solved EXCEPT ![u].solo = @ - 1, ![u].assisted = @ + 1]
    BY <2>0, <2>1, <2>4
  <2> QED BY <2>2, <2>3, <2>4 DEF Solve
<1>3. TypeOK'
  BY <1>1, <1>2, BesideTypes DEF IInv, TypeOK
<1>4. RowsAreAsked'
  BY <1>1 DEF IInv, RowsAreAsked
<1> QED BY <1>1, <1>3, <1>4, BesideHolds

LEMMA BeginHolds ==
  ASSUME IInv, NEW v \in Learners \cup {Guest}, NEW echo \in Names \cup {NoName, Malformed},
         Begin(v, echo)
  PROVE  IInv'
<1> USE DEF Begin, tables
<1>1. TypeOK'
  BY LeaderboardAssumption DEF IInv, TypeOK
<1>2. RowsAreAsked'
  BY DEF IInv, RowsAreAsked
<1>3. RowsInOrder' /\ ListsThoseWhoAsked' /\ ViewerIsListed' /\ PageMarksOneName'
  BY DEF IInv, RowsInOrder, ListsThoseWhoAsked, ViewerIsListed, PageMarksOneName
<1> QED BY <1>1, <1>2, <1>3 DEF IInv

LEMMA OverHolds ==
  ASSUME IInv, Over
  PROVE  IInv'
<1> USE DEF Over, tables
<1>1. TypeOK'
  BY LeaderboardAssumption DEF IInv, TypeOK
<1>2. RowsAreAsked'
  BY DEF IInv, RowsAreAsked
<1>3. RowsInOrder' /\ ListsThoseWhoAsked' /\ ViewerIsListed' /\ PageMarksOneName'
  BY DEF IInv, RowsInOrder, ListsThoseWhoAsked, ViewerIsListed, PageMarksOneName
<1> QED BY <1>1, <1>2, <1>3 DEF IInv

\* The lines there are to rank: one for each row, no two of a name.
LEMMA StandingsFacts ==
  ASSUME TypeOK, RowsAreAsked
  PROVE  /\ Standings \in SUBSET Lines /\ IsFiniteSet(Standings) /\ Apart(Standings)
         /\ IsFiniteSet(DOMAIN optin) /\ Cardinality(Standings) = Cardinality(DOMAIN optin)
<1> DEFINE line(u) == [name |-> optin[u], solo |-> solved[u].solo, assisted |-> solved[u].assisted]
           f == [u \in DOMAIN optin |-> line(u)]
<1>1. \A u \in DOMAIN optin : line(u) \in Lines
  BY DEF TypeOK, Lines
<1>2. Standings = {line(u) : u \in DOMAIN optin}
  BY DEF Standings
<1>3. \A u, v \in DOMAIN optin : optin[u] = optin[v] => u = v
  BY DEF RowsAreAsked
<1>4. \A u \in DOMAIN optin : line(u).name = optin[u]
  OBVIOUS
<1>5. IsFiniteSet(DOMAIN optin)
  BY LeaderboardAssumption, FS_Subset DEF TypeOK
<1> HIDE DEF line
<1>6. Apart(Standings)
  BY <1>2, <1>3, <1>4 DEF Apart
<1>7. f \in Bijection(DOMAIN optin, Standings)
  BY <1>2, <1>3, <1>4 DEF Bijection, Injection, Surjection, IsInjective
<1>8. ExistsBijection(DOMAIN optin, Standings)
  BY <1>7 DEF ExistsBijection
<1>9. IsFiniteSet(Standings) /\ Cardinality(Standings) = Cardinality(DOMAIN optin)
  BY <1>5, <1>8, FS_Bijection
<1> QED BY <1>1, <1>2, <1>5, <1>6, <1>9

\* What Boards reads: the lines that come first in the order of the query.
LEMMA BoardFacts ==
  ASSUME TypeOK, RowsAreAsked
  PROVE  LET l == BySolo(Standings)
             n == Cardinality(DOMAIN optin)
             m == IF n < BoardLimit THEN n ELSE BoardLimit
             cut == Cut(l, BoardLimit)
         IN  /\ n \in Nat /\ l \in [1..n -> Lines] /\ m \in 0..n
             /\ \A i, j \in 1..n : i < j => SoloAhead(l[i], l[j])
             /\ \A i \in 1..n : l[i] \in Standings
             /\ \A a \in Standings : \E i \in 1..n : l[i] = a
             /\ \A i, j \in 1..n : i # j => l[i] # l[j]
             /\ cut \in [1..m -> Lines] /\ \A i \in 1..m : cut[i] = l[i]
<1> DEFINE l == BySolo(Standings)
           n == Cardinality(DOMAIN optin)
           m == IF n < BoardLimit THEN n ELSE BoardLimit
           cut == Cut(l, BoardLimit)
<1>1. /\ Standings \in SUBSET Lines /\ IsFiniteSet(Standings) /\ Apart(Standings)
      /\ Cardinality(Standings) = n
  BY StandingsFacts
<1>2. l \in SetToSeqs(Standings) /\ \A i, j \in DOMAIN l : i < j => SoloAhead(l[i], l[j])
  BY <1>1, SoloOrder
<1>3. \A i, j \in 1..n : i # j => l[i] # l[j]
  BY <1>1, <1>2 DEF SetToSeqs
<1>4. l = [i \in DOMAIN l |-> l[i]]
  BY <1>1, <1>2 DEF SetToSeqs
<1> HIDE DEF l, n
<1>5. /\ n \in Nat /\ DOMAIN l = 1..n /\ \A i \in DOMAIN l : l[i] \in Standings
      /\ \A a \in Standings : \E i \in DOMAIN l : l[i] = a
  BY <1>1, <1>2, SeqsFacts
<1>6. l \in [1..n -> Lines]
  BY <1>1, <1>4, <1>5
<1>7. m \in 0..n /\ {j \in 1..n : j <= BoardLimit} = 1..m
  BY <1>5, LeaderboardAssumption
<1>8. cut \in [1..m -> Lines] /\ \A i \in 1..m : cut[i] = l[i]
  <2>1. cut = [i \in 1..m |-> l[i]]
    BY <1>5, <1>7 DEF Cut
  <2>2. \A i \in 1..m : l[i] \in Lines
    BY <1>5, <1>6, <1>7
  <2> HIDE DEF m, cut
  <2> QED BY <2>1, <2>2
<1> HIDE DEF m, cut
<1> QED BY <1>2, <1>3, <1>5, <1>6, <1>7, <1>8 DEF l, n, m, cut

LEMMA ReadBoardsHolds ==
  ASSUME IInv, ReadBoards
  PROVE  IInv'
<1> DEFINE l == BySolo(Standings)
           n == Cardinality(DOMAIN optin)
           m == IF n < BoardLimit THEN n ELSE BoardLimit
<1>1. /\ step' = "standing" /\ rows' = Cut(l, BoardLimit) /\ listed' = asked
      /\ UNCHANGED <<optin, solved, asked, viewer, typed, page, steady, meanwhile>>
  BY DEF ReadBoards, tables
<1>2. /\ n \in Nat /\ l \in [1..n -> Lines] /\ m \in 0..n
      /\ \A i, j \in 1..n : i < j => SoloAhead(l[i], l[j])
      /\ \A i \in 1..n : l[i] \in Standings
      /\ \A i, j \in 1..n : i # j => l[i] # l[j]
      /\ rows' \in [1..m -> Lines] /\ \A i \in 1..m : rows'[i] = l[i]
  BY <1>1, BoardFacts DEF IInv
<1>3. m = IF n < BoardLimit THEN n ELSE BoardLimit
  OBVIOUS
<1>4. n = Cardinality(DOMAIN optin)
  OBVIOUS
<1> HIDE DEF l, n, m
<1>5. TypeOK'
  BY <1>1 DEF IInv, TypeOK
<1>6. RowsAreAsked'
  BY <1>1 DEF IInv, RowsAreAsked
<1>7. RowsInOrder'
  <2>1. \A i, j \in 1..m : i < j => SoloAhead(rows'[i], rows'[j])
    BY <1>2
  <2>2. m \in Nat
    BY <1>2
  <2> QED BY <1>2, <2>1, <2>2 DEF RowsInOrder
<1>8. ListsThoseWhoAsked'
  <2>1. Asking' = DOMAIN optin
    <3>1. Asking' = {u \in Learners : asked[u] # NoName}
      BY <1>1 DEF Asking
    <3>2. \A u \in DOMAIN optin : u \in Learners /\ optin[u] # NoName
      BY LeaderboardAssumption DEF IInv, TypeOK
    <3> QED BY <3>1, <3>2 DEF IInv, RowsAreAsked
  <2>2. ASSUME NEW i \in 1..m
        PROVE  \E u \in DOMAIN optin :
                 rows'[i] = [name |-> optin[u], solo |-> solved[u].solo, assisted |-> solved[u].assisted]
    <3>1. rows'[i] \in Standings
      BY <1>2
    <3> QED BY <3>1 DEF Standings
  <2>3. ASSUME NEW i \in 1..m PROVE \E u \in Asking' : listed'[u] = rows'[i].name
    <3>1. PICK u \in DOMAIN optin : rows'[i].name = optin[u]
      <4>1. PICK u \in DOMAIN optin :
              rows'[i] = [name |-> optin[u], solo |-> solved[u].solo, assisted |-> solved[u].assisted]
        BY <2>2
      <4>2. rows'[i].name = optin[u]
        BY <4>1
      <4> QED BY <4>2
    <3>2. u \in Learners /\ asked[u] = optin[u]
      BY DEF IInv, RowsAreAsked, TypeOK
    <3> QED BY <1>1, <2>1, <3>1, <3>2
  <2>4. ASSUME NEW i \in 1..m, NEW j \in 1..m, i # j PROVE Lower[rows'[i].name] # Lower[rows'[j].name]
    <3>1. PICK u \in DOMAIN optin :
            rows'[i] = [name |-> optin[u], solo |-> solved[u].solo, assisted |-> solved[u].assisted]
      BY <2>2
    <3>2. PICK v \in DOMAIN optin :
            rows'[j] = [name |-> optin[v], solo |-> solved[v].solo, assisted |-> solved[v].assisted]
      BY <2>2
    <3>3. rows'[i] # rows'[j]
      BY <1>2, <2>4
    <3>4. u # v
      BY <3>1, <3>2, <3>3
    <3> QED BY <3>1, <3>2, <3>4 DEF IInv, RowsAreAsked
  <2>5. DOMAIN rows' = 1..m
    BY <1>2
  <2>6. Cardinality(1..m) = m
    BY <1>2, FS_Interval
  <2> QED BY <1>3, <1>4, <2>1, <2>3, <2>4, <2>5, <2>6 DEF ListsThoseWhoAsked
<1>9. ViewerIsListed' /\ PageMarksOneName'
  BY <1>1 DEF IInv, ViewerIsListed, PageMarksOneName, ReadBoards
<1> QED BY <1>5, <1>6, <1>7, <1>8, <1>9 DEF IInv

LEMMA ReadStandingHolds ==
  ASSUME IInv, ReadStanding
  PROVE  IInv'
<1>1. /\ step = "standing" /\ step' = "page"
      /\ UNCHANGED <<optin, solved, asked, viewer, typed, rows, listed, steady, meanwhile>>
  BY DEF ReadStanding, tables
<1>2. PICK name \in StandingNames :
        page.solo' = Ranked(rows, name) /\ page.assisted' = Ranked(ByAssisted(Range(rows)), name)
  BY DEF ReadStanding, Rendered
<1>3. TypeOK'
  BY <1>1 DEF IInv, TypeOK
<1>4. RowsAreAsked' /\ RowsInOrder'
  BY <1>1 DEF IInv, RowsAreAsked, RowsInOrder
<1>5. ListsThoseWhoAsked' /\ ViewerIsListed'
  BY <1>1 DEF IInv, ListsThoseWhoAsked, Asking, ViewerIsListed
<1>6. PageMarksOneName'
  <2>1. name \in Names \cup {NoName}
    BY DEF StandingNames, IInv, TypeOK
  <2>2. ASSUME steady, name # NoName PROVE viewer # Guest /\ listed[viewer] = name
    <3>1. viewer \in DOMAIN optin /\ name = optin[viewer]
      BY <2>2 DEF StandingNames
    <3>2. viewer \in Learners /\ viewer # Guest /\ asked[viewer] = name
      BY <3>1, LeaderboardAssumption DEF IInv, TypeOK, RowsAreAsked
    <3> QED BY <1>1, <2>2, <3>2 DEF IInv, ViewerIsListed
  <2> QED BY <1>1, <1>2, <2>1, <2>2 DEF PageMarksOneName
<1> QED BY <1>3, <1>4, <1>5, <1>6 DEF IInv

LEMMA NextHolds == IInv /\ [Next]_vars => IInv'
<1> SUFFICES ASSUME IInv, [Next]_vars PROVE IInv'
  OBVIOUS
<1>1. ASSUME NEW u \in Learners, OptOut(u) \/ Solve(u) PROVE IInv'
  BY <1>1, OptOutHolds, SolveHolds
<1>2. ASSUME NEW u \in Learners, NEW n \in Names, OptIn(u, n) PROVE IInv'
  BY <1>2, OptInHolds
<1>3. ASSUME NEW u \in Learners, NEW n \in Names \cup {Malformed}, RefuseName(u, n) PROVE IInv'
  BY <1>3, BeginHolds DEF RefuseName
<1>4. ASSUME NEW v \in Learners \cup {Guest}, Show(v) PROVE IInv'
  BY <1>4, BeginHolds DEF Show
<1>5. CASE ReadBoards
  BY <1>5, ReadBoardsHolds
<1>6. CASE BoardsFail \/ Sent
  BY <1>6, OverHolds DEF BoardsFail, Sent
<1>7. CASE ReadStanding
  BY <1>7, ReadStandingHolds
<1>8. CASE UNCHANGED vars
  <2> USE <1>8 DEF vars, tables, view
  <2>1. TypeOK'
    BY DEF IInv, TypeOK
  <2>2. RowsAreAsked' /\ RowsInOrder' /\ ListsThoseWhoAsked'
    BY DEF IInv, RowsAreAsked, RowsInOrder, ListsThoseWhoAsked, Asking
  <2>3. ViewerIsListed' /\ PageMarksOneName'
    BY DEF IInv, ViewerIsListed, PageMarksOneName
  <2> QED BY <2>1, <2>2, <2>3 DEF IInv
<1> QED BY <1>1, <1>2, <1>3, <1>4, <1>5, <1>6, <1>7, <1>8 DEF Next

-----------------------------------------------------------------------------
\* The theorems.

\* In every reachable state the page under way is made of rows of learners who
\* asked, in order, with the viewer among them and one line marked at most
\* (leaderboard.go:67-137, leaderboard/db/queries.sql:21-62).
THEOREM LeaderboardInvariant == Spec => []IInv
<1> QED BY InitHolds, NextHolds, PTL DEF Spec

\* Everybody who is on the board by their own last word is a line of it, as far
\* as it reaches, and nobody else is (leaderboard.go:95-126).
THEOREM BoardListsThoseWhoAsked == Spec => []ListsThoseWhoAsked
<1>1. IInv => ListsThoseWhoAsked
  BY DEF IInv
<1> QED BY <1>1, LeaderboardInvariant, PTL

\* However many take or give up a name between the two queries, a viewer who
\* does not sees no other line marked as theirs (handler.go:91-119).
THEOREM OnlyYourLineIsMarked == Spec => []MarkedLineIsYours
<1>1. ASSUME IInv PROVE MarkedLineIsYours
  <2> SUFFICES ASSUME step = "page", steady,
                      NEW line \in Range(page.solo) \cup Range(page.assisted), line.you
               PROVE  viewer # Guest /\ listed[viewer] = line.of.name
    BY DEF MarkedLineIsYours
  <2>1. PICK name \in Names \cup {NoName} :
          /\ page.solo = Ranked(rows, name)
          /\ page.assisted = Ranked(ByAssisted(Range(rows)), name)
          /\ (steady /\ name # NoName) => viewer # Guest /\ listed[viewer] = name
    BY <1>1 DEF IInv, PageMarksOneName
  <2>2. ASSUME NEW l, line \in Range(Ranked(l, name)) PROVE name # NoName /\ line.of.name = name
    <3>1. PICK i \in DOMAIN l : line = [place |-> Place(l, i), of |-> l[i],
                                       you |-> name # NoName /\ l[i].name = name]
      BY <2>2, Zenon DEF Range, Ranked
    <3>2. line.of = l[i]
      BY <3>1
    <3>3. line.you = (name # NoName /\ l[i].name = name)
      BY <3>1, Zenon
    <3>4. name # NoName /\ l[i].name = name
      BY <3>3, Zenon
    <3> QED BY <3>2, <3>4
  <2>3. name # NoName /\ line.of.name = name
    <3>1. CASE line \in Range(page.solo)
      BY <2>1, <2>2, <3>1
    <3>2. CASE line \in Range(page.assisted)
      <4> DEFINE l == ByAssisted(Range(rows))
      <4>1. page.assisted = Ranked(l, name)
        BY <2>1
      <4> HIDE DEF l
      <4> QED BY <2>2, <3>2, <4>1
    <3> QED BY <3>1, <3>2
  <2> QED BY <2>1, <2>3
<1> QED BY <1>1, LeaderboardInvariant, PTL

\* "Two learners on nine solves are both second, and the next is fourth", for a
\* board of any length (handler.go:121-147).
THEOREM PlacesCountThoseAhead == Spec => []SoloPlacesCountThoseAhead
<1>1. ASSUME IInv PROVE SoloPlacesCountThoseAhead
  <2>1. CASE step = "page"
    <3>1. PICK name \in Names \cup {NoName} : page.solo = Ranked(rows, name)
      BY <1>1, <2>1 DEF IInv, PageMarksOneName
    <3>2. PICK n \in Nat : /\ rows \in [1..n -> Lines]
                           /\ \A i, j \in 1..n : i < j => SoloAhead(rows[i], rows[j])
      BY <1>1, <2>1 DEF IInv, RowsInOrder
    <3>3. DOMAIN page.solo = 1..n
      BY <3>1, <3>2 DEF Ranked
    <3>4. \A i \in 1..n : page.solo[i].place = Place(rows, i) /\ page.solo[i].of = rows[i]
      BY <3>1, <3>2 DEF Ranked
    <3>5. ASSUME NEW i \in 1..n
          PROVE  page.solo[i].place =
                   1 + Cardinality({j \in 1..n : ~Same(page.solo[j].of, page.solo[i].of)
                                                  /\ SoloAhead(page.solo[j].of, page.solo[i].of)})
      <4>1. Place(rows, i) = 1 + Cardinality({j \in 1..n : ~Same(rows[j], rows[i])
                                                           /\ SoloAhead(rows[j], rows[i])})
        BY <3>2, PlaceCounts
      <4>2. {j \in 1..n : ~Same(rows[j], rows[i]) /\ SoloAhead(rows[j], rows[i])}
              = {j \in 1..n : ~Same(page.solo[j].of, page.solo[i].of)
                              /\ SoloAhead(page.solo[j].of, page.solo[i].of)}
        BY <3>4
      <4> QED BY <3>4, <4>1, <4>2
    <3> QED BY <3>3, <3>5 DEF SoloPlacesCountThoseAhead
  <2>2. CASE step # "page"
    <3>1. DOMAIN page.solo = {}
      BY <1>1, <2>2 DEF IInv, PageMarksOneName, NoPage
    <3> QED BY <3>1 DEF SoloPlacesCountThoseAhead
  <2> QED BY <2>1, <2>2
<1> QED BY <1>1, LeaderboardInvariant, PTL

\* Whoever is cut off has solved no more alone than anybody who is not, for any
\* limit (leaderboard.go:33-36).
THEOREM NobodyBetterIsCut == Spec => CutSparesTheBestSolo
<1> DEFINE Spared ==
      step' = "standing" /\ step = "boards" =>
        \A u \in DOMAIN optin :
            \/ \E i \in DOMAIN rows' : rows'[i].name = optin[u]
            \/ \A i \in DOMAIN rows' : rows'[i].solo >= solved[u].solo
<1>1. ASSUME IInv, [Next]_vars PROVE [Spared]_vars
  <2> SUFFICES ASSUME step' = "standing", step = "boards", NEW u \in DOMAIN optin,
                      ~\E i \in DOMAIN rows' : rows'[i].name = optin[u]
               PROVE  \A i \in DOMAIN rows' : rows'[i].solo >= solved[u].solo
    OBVIOUS
  <2>1. ReadBoards
    BY <1>1 DEF Next, OptIn, OptOut, Solve, Beside, RefuseName, Show, Begin, ReadStanding,
       BoardsFail, Sent, Over, vars, view
  <2> DEFINE l == BySolo(Standings)
             n == Cardinality(DOMAIN optin)
             m == IF n < BoardLimit THEN n ELSE BoardLimit
             mine == [name |-> optin[u], solo |-> solved[u].solo, assisted |-> solved[u].assisted]
  <2>2. rows' = Cut(l, BoardLimit)
    BY <2>1 DEF ReadBoards
  <2>3. /\ n \in Nat /\ m \in 0..n /\ l \in [1..n -> Lines]
        /\ \A i, j \in 1..n : i < j => SoloAhead(l[i], l[j])
        /\ \A a \in Standings : \E i \in 1..n : l[i] = a
        /\ rows' \in [1..m -> Lines] /\ \A i \in 1..m : rows'[i] = l[i]
    BY <1>1, <2>2, BoardFacts DEF IInv
  <2>4. mine \in Standings
    BY DEF Standings
  <2> HIDE DEF l, n, m
  <2>5. PICK k \in 1..n : l[k] = mine
    BY <2>3, <2>4
  <2>6. k \notin 1..m
    BY <2>3, <2>5
  <2>7. ASSUME NEW i \in 1..m PROVE rows'[i].solo >= solved[u].solo
    <3>1. i \in 1..n /\ i < k
      BY <2>3, <2>6
    <3>2. SoloAhead(l[i], l[k])
      BY <2>3, <3>1
    <3>3. l[i].solo \in Nat /\ l[k].solo \in Nat
      BY <2>3, <3>1, LineFacts
    <3>4. l[i].solo >= l[k].solo
      BY <3>2, <3>3 DEF SoloAhead, Same
    <3> QED BY <2>3, <2>5, <3>4
  <2> QED BY <2>3, <2>7
<1>2. Spec => [][Spared]_vars
  BY <1>1, LeaderboardInvariant, PTL DEF Spec
<1> QED BY <1>2 DEF CutSparesTheBestSolo
=============================================================================
