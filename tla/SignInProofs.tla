---------------------------- MODULE SignInProofs ----------------------------
(***************************************************************************)
(* For every limit, window and number of keys: a key gets at most twice    *)
(* its limit in the length of a window, and no entry outlives a sweep.  A  *)
(* sign-in is a caller like any other of its limiter, whatever else goes   *)
(* on around it, so what is proved of the limiter holds of the composition *)
(* too; and the wait a refused visitor is told covers every window that    *)
(* refused them.                                                           *)
(***************************************************************************)
EXTENDS SignIn, TLAPS

Admissions == [at : Nat, opens : BOOLEAN]

\* The admissions g of a key up to the instant t are in order, the openings of
\* windows further than a window's length apart, and of any Limit admissions
\* after one, one opens a window.
InOrder(g, t) ==
    /\ \A i \in 1..Len(g) : g[i].at <= t
    /\ \A i, j \in 1..Len(g) : i <= j => g[i].at <= g[j].at

OpeningsApart(g) ==
    \A i, j \in 1..Len(g) :
        i < j /\ g[i].opens /\ g[j].opens => g[j].at > g[i].at + Window

OneOpensInLimit(g) ==
    \A i \in 1..Len(g) :
        i + Limit <= Len(g) => \E j \in (i + 1)..(i + Limit) : g[j].opens

\* Every window g opened ends by the instant e, or ended before t.
EndBy(g, e) == \A i \in 1..Len(g) : g[i].opens => g[i].at + Window <= e
EndedBefore(g, t) == \A i \in 1..Len(g) : g[i].opens => g[i].at + Window < t

\* c or more calls were counted since some window opened.
CountedSinceOpening(g, c) ==
    \E p \in 1..Len(g) : g[p].opens /\ Len(g) - p + 1 <= c

\* The history of a key, and the last window: its entry while there is one.
History(g, t) == InOrder(g, t) /\ OpeningsApart(g) /\ OneOpensInLimit(g)

KeySound(k) ==
    /\ History(grants[k], now)
    /\ k \in Counted =>
         /\ CountedSinceOpening(grants[k], attempts[k].count)
         /\ EndBy(grants[k], attempts[k].resets)
    /\ k \notin Counted => EndedBefore(grants[k], now)

\* The inductive invariant.
IInv ==
    /\ TypeOK
    /\ lastSweep <= now
    /\ NothingOutlivesASweep
    /\ \A k \in Keys : KeySound(k)

-----------------------------------------------------------------------------
\* The elements of a history.
LEMMA AdmissionFacts ==
  ASSUME NEW g \in Seq(Admissions)
  PROVE  /\ Len(g) \in Nat
         /\ \A i \in 1..Len(g) : g[i].at \in Nat /\ g[i].opens \in BOOLEAN
<1>1. Len(g) \in Nat /\ \A i \in 1..Len(g) : g[i] \in Admissions
  OBVIOUS
<1> QED BY <1>1 DEF Admissions

\* A history with an admission more.
LEMMA LongerHistory ==
  ASSUME NEW g \in Seq(Admissions), NEW e \in Admissions
  PROVE  /\ Append(g, e) \in Seq(Admissions)
         /\ Len(Append(g, e)) = Len(g) + 1
         /\ Append(g, e)[Len(g) + 1] = e
         /\ \A i \in 1..Len(g) : Append(g, e)[i] = g[i]
OBVIOUS

\* An admission that opens a window after the last one ended, or that falls
\* within the Limit of the window that is open, keeps a history sound.
LEMMA AdmissionKeepsHistory ==
  ASSUME NEW t \in Nat, NEW g \in Seq(Admissions), History(g, t),
         NEW opens \in BOOLEAN,
         opens => EndedBefore(g, t),
         ~opens => CountedSinceOpening(g, Limit - 1),
         NEW e \in Admissions, e.at = t, e.opens = opens
  PROVE  History(Append(g, e), t)
<1> DEFINE n == Len(g)
           h == Append(g, e)
<1>0. Len(h) = n + 1 /\ h[n + 1] = e /\ \A i \in 1..n : h[i] = g[i]
  BY LongerHistory
<1>1. /\ n \in Nat
      /\ \A i \in 1..n : g[i].at \in Nat /\ g[i].opens \in BOOLEAN
      /\ Len(h) = n + 1
      /\ h[n + 1] = e
      /\ \A i \in 1..n : h[i] = g[i]
  BY <1>0, AdmissionFacts
<1>2. Window \in Nat /\ Limit \in Nat /\ Limit >= 1
  BY LimiterAssumption
<1> HIDE DEF h
<1>3. InOrder(h, t)
  BY <1>1 DEF InOrder, History
<1>4. OpeningsApart(h)
  <2> SUFFICES ASSUME NEW i \in 1..(n + 1), NEW j \in 1..(n + 1),
                      i < j, h[i].opens, h[j].opens
               PROVE  h[j].at > h[i].at + Window
    BY <1>1 DEF OpeningsApart
  <2>1. CASE j <= n
    BY <1>1, <2>1 DEF History, OpeningsApart
  <2>2. CASE j = n + 1
    <3>1. EndedBefore(g, t)
      BY <1>1, <2>2
    <3>2. g[i].opens /\ i \in 1..n
      BY <1>1, <2>2
    <3>3. g[i].at + Window < t
      BY <3>1, <3>2 DEF EndedBefore
    <3> QED BY <1>1, <1>2, <2>2, <3>2, <3>3
  <2> QED BY <1>1, <2>1, <2>2
<1>5. OneOpensInLimit(h)
  <2> SUFFICES ASSUME NEW i \in 1..(n + 1), i + Limit <= n + 1
               PROVE  \E j \in (i + 1)..(i + Limit) : h[j].opens
    BY <1>1 DEF OneOpensInLimit
  <2>1. CASE i + Limit <= n
    <3>1. PICK j \in (i + 1)..(i + Limit) : g[j].opens
      BY <1>1, <1>2, <2>1 DEF History, OneOpensInLimit
    <3> QED BY <1>1, <1>2, <2>1, <3>1
  <2>2. CASE i + Limit = n + 1 /\ opens
    <3>1. n + 1 \in (i + 1)..(i + Limit)
      BY <1>1, <1>2, <2>2
    <3>2. h[n + 1].opens
      BY <1>1, <2>2
    <3> QED BY <3>1, <3>2
  <2>3. CASE i + Limit = n + 1 /\ ~opens
    <3>1. PICK p \in 1..n : g[p].opens /\ n - p + 1 <= Limit - 1
      BY <2>3 DEF CountedSinceOpening
    <3>2. p \in (i + 1)..(i + Limit)
      BY <1>1, <1>2, <2>3, <3>1
    <3>3. h[p].opens
      BY <1>1, <3>1
    <3> QED BY <3>2, <3>3
  <2>4. i + Limit <= n \/ i + Limit = n + 1
    BY <1>1, <1>2
  <2> QED BY <2>1, <2>2, <2>3, <2>4
<1> QED BY <1>3, <1>4, <1>5 DEF History, h

\* A history stays sound as time passes.
LEMMA TimeKeepsHistory ==
  ASSUME NEW g \in Seq(Admissions), NEW t \in Nat, NEW u \in Nat, t <= u, History(g, t)
  PROVE  History(g, u)
<1> QED BY AdmissionFacts DEF History, InOrder

\* Four instants, the middle two more than w apart.
LEMMA FarApart ==
  ASSUME NEW a \in Nat, NEW b \in Nat, NEW c \in Nat, NEW d \in Nat, NEW w \in Nat,
         a <= b, c > b + w, c <= d
  PROVE  d - a > w
OBVIOUS

\* What a sound history promises.
LEMMA HistoryMeansTwiceTheLimit ==
  ASSUME NEW g \in Seq(Admissions), NEW t \in Nat, History(g, t),
         NEW i \in 1..Len(g), i + 2 * Limit <= Len(g)
  PROVE  g[i + 2 * Limit].at - g[i].at > Window
<1>1. Len(g) \in Nat /\ Window \in Nat /\ Limit \in Nat /\ Limit >= 1
  BY LimiterAssumption
<1>2. \A x \in 1..Len(g) : g[x].at \in Nat
  BY AdmissionFacts
<1>3. i + Limit <= Len(g)
  BY <1>1
<1>4. PICK j \in (i + 1)..(i + Limit) : g[j].opens
  BY <1>3 DEF History, OneOpensInLimit
<1>5. j \in 1..Len(g) /\ j + Limit <= Len(g)
  BY <1>1, <1>3, <1>4
<1>6. PICK l \in (j + 1)..(j + Limit) : g[l].opens
  BY <1>5 DEF History, OneOpensInLimit
<1>7. i + 2 * Limit \in 1..Len(g) /\ l \in 1..Len(g) /\ i < j /\ j < l /\ l <= i + 2 * Limit
  BY <1>1, <1>4, <1>5, <1>6
<1>8. g[l].at > g[j].at + Window
  BY <1>4, <1>5, <1>6, <1>7 DEF History, OpeningsApart
<1>9. g[i].at <= g[j].at
  BY <1>5, <1>7 DEF History, InOrder
<1>10. g[l].at <= g[i + 2 * Limit].at
  BY <1>7 DEF History, InOrder
<1>11. g[i].at \in Nat /\ g[j].at \in Nat /\ g[l].at \in Nat /\ g[i + 2 * Limit].at \in Nat
  BY <1>2, <1>5, <1>7
<1> QED BY <1>1, <1>8, <1>9, <1>10, <1>11, FarApart
-----------------------------------------------------------------------------
\* What Allow leaves of the map: an entry that goes has expired.
LEMMA SweptEntries ==
  ASSUME TypeOK, lastSweep <= now, NothingOutlivesASweep, Sweep
  PROVE  /\ Swept \subseteq Counted
         /\ \A k \in Counted \ Swept : attempts[k].resets < now
         /\ \A k \in Swept : attempts[k].resets >= lastSweep'
         /\ lastSweep' \in Int
         /\ lastSweep' <= now
<1>1. \A k \in Counted : attempts[k].resets \in Nat
  <2>1. \A k \in Counted : attempts[k] \in [count : Nat, resets : Nat]
    BY DEF TypeOK
  <2> QED BY <2>1
<1>2. now \in Int /\ lastSweep \in Int
  BY DEF TypeOK
<1> QED BY <1>1, <1>2 DEF Swept, Sweep, SweepDue, Expired, NothingOutlivesASweep

\* A key whose admissions do not change stays sound when its entry stays, when
\* an expired one is swept, when it is counted again and when time passes.
LEMMA UntouchedKeyStaysSound ==
  ASSUME TypeOK, NEW j \in Keys, KeySound(j), grants'[j] = grants[j],
         now' \in Nat, now' >= now,
         j \in Counted' =>
            /\ j \in Counted
            /\ attempts'[j].count \in Nat
            /\ attempts'[j].count >= attempts[j].count
            /\ attempts'[j].resets = attempts[j].resets,
         j \in Counted \ Counted' => attempts[j].resets < now'
  PROVE  KeySound(j)'
<1> DEFINE g == grants[j]
<1>1. /\ g \in Seq(Admissions)
      /\ now \in Nat /\ Window \in Nat
      /\ j \in Counted => attempts[j] \in [count : Nat, resets : Nat]
  BY LimiterAssumption DEF TypeOK, Admissions
<1>2. j \in Counted => attempts[j].count \in Nat /\ attempts[j].resets \in Nat
  BY <1>1
<1>3. Len(g) \in Nat /\ \A i \in 1..Len(g) : g[i].at \in Nat
  BY <1>1, AdmissionFacts
<1>4. History(g, now')
  BY <1>1, TimeKeepsHistory DEF KeySound
<1>5. CASE j \in Counted'
  <2>1. CountedSinceOpening(g, attempts'[j].count)
    <3> DEFINE c == attempts[j].count
               d == attempts'[j].count
    <3>1. c \in Nat /\ d \in Nat /\ d >= c
      BY <1>2, <1>5
    <3>2. CountedSinceOpening(g, c)
      BY <1>5 DEF KeySound
    <3>3. PICK p \in 1..Len(g) : g[p].opens /\ Len(g) - p + 1 <= c
      BY <3>2 DEF CountedSinceOpening
    <3> HIDE DEF c, d, g
    <3>4. Len(g) - p + 1 <= d
      BY <1>3, <3>1, <3>3
    <3>5. CountedSinceOpening(g, d)
      BY <3>3, <3>4 DEF CountedSinceOpening
    <3> QED BY <3>5 DEF d
  <2>2. EndBy(g, attempts'[j].resets)
    BY <1>5 DEF KeySound
  <2> QED BY <1>4, <1>5, <2>1, <2>2 DEF KeySound
<1>6. CASE j \notin Counted'
  <2>1. EndedBefore(g, now')
    <3>1. CASE j \in Counted
      BY <1>1, <1>2, <1>3, <1>6, <3>1 DEF KeySound, EndBy, EndedBefore
    <3>2. CASE j \notin Counted
      BY <1>1, <1>3, <1>6, <3>2 DEF KeySound, EndedBefore
    <3> QED BY <3>1, <3>2
  <2> QED BY <1>4, <1>6, <2>1 DEF KeySound
<1> QED BY <1>5, <1>6
-----------------------------------------------------------------------------
\* The limiter starts with no history.
LEMMA InitIInv == Init => IInv
<1> SUFFICES ASSUME Init PROVE IInv
  OBVIOUS
<1>1. 0 \in 0..Horizon /\ Window \in Nat
  BY LimiterAssumption
<1>2. TypeOK
  BY <1>1 DEF Init, TypeOK, Counted
<1>3. lastSweep <= now /\ NothingOutlivesASweep
  BY <1>1 DEF Init, NothingOutlivesASweep, Counted
<1>4. ASSUME NEW k \in Keys PROVE KeySound(k)
  <2>1. grants[k] = << >> /\ Len(grants[k]) = 0 /\ k \notin Counted
    BY DEF Init, Counted
  <2>2. 1..Len(grants[k]) = {}
    BY <2>1
  <2>3. History(grants[k], now) /\ EndedBefore(grants[k], now)
    BY <2>2 DEF History, InOrder, OpeningsApart, OneOpensInLimit, EndedBefore
  <2> QED BY <2>1, <2>3 DEF KeySound
<1> QED BY <1>2, <1>3, <1>4 DEF IInv

LEMMA TickKeepsIInv == IInv /\ Tick => IInv'
<1> SUFFICES ASSUME IInv, Tick PROVE IInv'
  OBVIOUS
<1>1. now \in Nat /\ now' \in 0..Horizon /\ now' >= now /\ lastSweep \in Int
  BY LimiterAssumption DEF IInv, TypeOK, Tick
<1>2. TypeOK'
  BY <1>1 DEF IInv, TypeOK, Tick, Counted
<1>3. (lastSweep <= now)' /\ NothingOutlivesASweep'
  BY <1>1 DEF IInv, Tick, NothingOutlivesASweep, Counted
<1>4. ASSUME NEW j \in Keys PROVE KeySound(j)'
  <2>1. Counted' = Counted /\ grants'[j] = grants[j]
    BY DEF Tick, Counted
  <2>2. \A k \in Counted : attempts[k] \in [count : Nat, resets : Nat]
    BY DEF IInv, TypeOK
  <2>3. j \in Counted => /\ attempts'[j].count \in Nat
                         /\ attempts'[j].count >= attempts[j].count
                         /\ attempts'[j].resets = attempts[j].resets
    BY <2>2 DEF Tick
  <2>4. TypeOK /\ KeySound(j)
    BY DEF IInv
  <2> QED BY <1>1, <2>1, <2>3, <2>4, UntouchedKeyStaysSound
<1> QED BY <1>2, <1>3, <1>4 DEF IInv

\* A call on a key leaves the others sound.
LEMMA RecordKeepsOthers ==
  ASSUME IInv, Sweep, UNCHANGED now, NEW k \in Keys, NEW a, Record(k, a),
         NEW j \in Keys, j # k, grants'[j] = grants[j]
  PROVE  KeySound(j)'
<1>1. /\ Swept \subseteq Counted
      /\ \A x \in Counted \ Swept : attempts[x].resets < now
  BY SweptEntries DEF IInv
<1>2. \A x \in Counted : attempts[x].count \in Nat
  <2>1. \A x \in Counted : attempts[x] \in [count : Nat, resets : Nat]
    BY DEF IInv, TypeOK
  <2> QED BY <2>1
<1>3. Counted' = Swept \cup {k} /\ \A x \in Swept \ {k} : attempts'[x] = attempts[x]
  BY DEF Record, Counted
<1>4. now' \in Nat /\ now' >= now
  BY LimiterAssumption DEF IInv, TypeOK
<1>5. j \in Counted' => /\ j \in Counted
                        /\ attempts'[j].count \in Nat
                        /\ attempts'[j].count >= attempts[j].count
                        /\ attempts'[j].resets = attempts[j].resets
  BY <1>1, <1>2, <1>3
<1>6. j \in Counted \ Counted' => attempts[j].resets < now'
  BY <1>1, <1>3
<1>7. TypeOK /\ KeySound(j)
  BY DEF IInv
<1> QED BY <1>4, <1>5, <1>6, <1>7, UntouchedKeyStaysSound

\* What a call keeps of the map and of its sweeping, whatever it records.
LEMMA RecordKeepsMap ==
  ASSUME IInv, Sweep, UNCHANGED now, NEW k \in Keys,
         NEW a \in [count : Nat, resets : Nat], a.resets >= now, Record(k, a)
  PROVE  /\ Counted' \subseteq Keys
         /\ attempts' \in [Counted' -> [count : Nat, resets : Nat]]
         /\ lastSweep' \in Int
         /\ (lastSweep <= now)'
         /\ NothingOutlivesASweep'
<1>1. /\ Swept \subseteq Counted
      /\ \A x \in Swept : attempts[x].resets >= lastSweep'
      /\ lastSweep' \in Int
      /\ lastSweep' <= now
  BY SweptEntries DEF IInv
<1>2. Counted' = Swept \cup {k}
  BY DEF Record, Counted
<1>3. attempts' \in [Counted' -> [count : Nat, resets : Nat]]
  <2>1. \A x \in Swept : attempts[x] \in [count : Nat, resets : Nat]
    BY <1>1 DEF IInv, TypeOK
  <2> QED BY <1>2, <2>1 DEF Record
<1>4. NothingOutlivesASweep'
  <2> SUFFICES ASSUME NEW x \in Counted' PROVE attempts'[x].resets >= lastSweep'
    BY DEF NothingOutlivesASweep
  <2>1. CASE x = k
    <3>1. attempts'[x] = a
      BY <1>2, <2>1 DEF Record
    <3>2. now \in Int /\ a.resets \in Int
      BY DEF IInv, TypeOK
    <3> QED BY <1>1, <3>1, <3>2
  <2>2. CASE x # k
    BY <1>1, <1>2, <2>2 DEF Record
  <2> QED BY <2>1, <2>2
<1>5. Counted' \subseteq Keys
  BY <1>1, <1>2 DEF IInv, TypeOK
<1> QED BY <1>1, <1>3, <1>4, <1>5
\* An admission is appended to the history of its key alone.
LEMMA AdmittedFacts ==
  ASSUME TypeOK, NEW k \in Keys, NEW opens \in BOOLEAN, Admitted(k, opens)
  PROVE  /\ Grant(opens) \in Admissions
         /\ Grant(opens).at = now /\ Grant(opens).opens = opens
         /\ grants[k] \in Seq(Admissions)
         /\ grants'[k] = Append(grants[k], Grant(opens))
         /\ \A j \in Keys \ {k} : grants'[j] = grants[j]
         /\ grants' \in [Keys -> Seq(Admissions)]
<1>1. now \in Nat
  BY LimiterAssumption DEF TypeOK
<1>2. grants \in [Keys -> Seq(Admissions)]
  BY DEF TypeOK, Admissions
<1>3. Grant(opens) \in Admissions /\ Grant(opens).at = now /\ Grant(opens).opens = opens
  BY <1>1 DEF Grant, Admissions
<1>4. Append(grants[k], Grant(opens)) \in Seq(Admissions)
  BY <1>2, <1>3, LongerHistory
<1> QED BY <1>2, <1>3, <1>4 DEF Admitted

LEMMA OpenWindowKeepsIInv ==
  ASSUME IInv, NEW k \in Keys, Sweep, OpenWindow(k), UNCHANGED now
  PROVE  IInv'
<1> DEFINE a == Attempt(1, now + Window)
           g == grants[k]
<1>1. now \in Nat /\ Window \in Nat /\ TypeOK /\ Horizon \in Nat
  BY LimiterAssumption DEF IInv, TypeOK
<1>2. /\ a \in [count : Nat, resets : Nat]
      /\ a.count = 1 /\ a.resets = now + Window /\ a.resets >= now
  BY <1>1 DEF Attempt
<1>3. Record(k, a) /\ Admitted(k, TRUE) /\ (k \in Swept => Expired(k))
  BY DEF OpenWindow
<1> HIDE DEF a
<1>4. /\ Counted' \subseteq Keys
      /\ attempts' \in [Counted' -> [count : Nat, resets : Nat]]
      /\ lastSweep' \in Int
      /\ (lastSweep <= now)'
      /\ NothingOutlivesASweep'
  BY <1>2, <1>3, RecordKeepsMap
<1>5. /\ Grant(TRUE) \in Admissions
      /\ Grant(TRUE).at = now /\ Grant(TRUE).opens
      /\ g \in Seq(Admissions)
      /\ grants'[k] = Append(g, Grant(TRUE))
      /\ \A j \in Keys \ {k} : grants'[j] = grants[j]
      /\ grants' \in [Keys -> Seq(Admissions)]
  BY <1>1, <1>3, AdmittedFacts
<1>6. TypeOK'
  BY <1>1, <1>4, <1>5 DEF IInv, TypeOK, OpenWindow, Admissions
<1>7. ASSUME NEW j \in Keys, j # k PROVE KeySound(j)'
  BY <1>3, <1>5, <1>7, RecordKeepsOthers
<1>8. EndedBefore(g, now)
  <2>1. KeySound(k)
    BY DEF IInv
  <2>2. k \in Counted => attempts[k].resets \in Nat /\ attempts[k].resets < now
    <3>1. \A x \in Counted \ Swept : attempts[x].resets < now
      BY SweptEntries DEF IInv
    <3>2. k \in Counted => attempts[k] \in [count : Nat, resets : Nat]
      BY <1>1 DEF TypeOK
    <3> QED BY <1>1, <1>3, <3>1, <3>2 DEF Expired
  <2>3. \A i \in 1..Len(g) : g[i].at \in Nat
    BY <1>5, AdmissionFacts
  <2> QED BY <1>1, <2>1, <2>2, <2>3 DEF KeySound, EndBy, EndedBefore
<1>9. KeySound(k)'
  <2>1. /\ Len(g) \in Nat
        /\ \A i \in 1..Len(g) : g[i].at \in Nat
        /\ Len(grants'[k]) = Len(g) + 1
        /\ grants'[k][Len(g) + 1] = Grant(TRUE)
        /\ \A i \in 1..Len(g) : grants'[k][i] = g[i]
    <3>1. Len(g) \in Nat /\ \A i \in 1..Len(g) : g[i].at \in Nat
      BY <1>5, AdmissionFacts
    <3>2. /\ Len(Append(g, Grant(TRUE))) = Len(g) + 1
          /\ Append(g, Grant(TRUE))[Len(g) + 1] = Grant(TRUE)
          /\ \A i \in 1..Len(g) : Append(g, Grant(TRUE))[i] = g[i]
      BY <1>5, LongerHistory
    <3> QED BY <1>5, <3>1, <3>2
  <2>2. History(grants'[k], now')
    BY <1>1, <1>5, <1>8, AdmissionKeepsHistory DEF IInv, KeySound
  <2>3. k \in Counted' /\ attempts'[k] = a
    BY <1>3 DEF Record, Counted
  <2> HIDE DEF g
  <2>4. CountedSinceOpening(grants'[k], attempts'[k].count)
    <3>1. Len(g) + 1 \in 1..Len(grants'[k])
      BY <2>1
    <3>2. Len(grants'[k]) - (Len(g) + 1) + 1 <= attempts'[k].count
      BY <1>2, <2>1, <2>3
    <3>3. grants'[k][Len(g) + 1].opens
      BY <1>5, <2>1
    <3> QED BY <3>1, <3>2, <3>3 DEF CountedSinceOpening
  <2>5. EndBy(grants'[k], attempts'[k].resets)
    <3> SUFFICES ASSUME NEW i \in 1..(Len(g) + 1), grants'[k][i].opens
                 PROVE  grants'[k][i].at + Window <= now + Window
      BY <1>2, <2>1, <2>3 DEF EndBy
    <3>1. CASE i = Len(g) + 1
      <4>1. grants'[k][i].at = now
        BY <1>5, <2>1, <3>1
      <4> QED BY <1>1, <4>1
    <3>2. CASE i \in 1..Len(g)
      BY <1>1, <1>8, <2>1, <3>2 DEF EndedBefore
    <3>3. i = Len(g) + 1 \/ i \in 1..Len(g)
      BY <2>1
    <3> QED BY <3>1, <3>2, <3>3
  <2> QED BY <2>2, <2>3, <2>4, <2>5 DEF KeySound
<1> QED BY <1>4, <1>6, <1>7, <1>9 DEF IInv

LEMMA CountAgainstKeepsIInv ==
  ASSUME IInv, NEW k \in Keys, Sweep, CountAgainst(k), UNCHANGED now
  PROVE  IInv'
<1> DEFINE c == OneMore(attempts[k].count)
           a == Attempt(c, attempts[k].resets)
           g == grants[k]
<1>1. now \in Nat /\ Window \in Nat /\ TypeOK /\ Limit \in Nat /\ MaxCount \in Nat /\ MaxCount > Limit
  BY LimiterAssumption DEF IInv, TypeOK
<1>2. Swept \subseteq Counted /\ k \in Swept /\ k \in Counted
  BY SweptEntries DEF IInv, CountAgainst
<1>3. /\ attempts[k].count \in Nat /\ attempts[k].resets \in Nat
      /\ attempts[k].resets >= now
  <2>1. attempts[k] \in [count : Nat, resets : Nat]
    BY <1>1, <1>2 DEF TypeOK
  <2> QED BY <1>1, <2>1 DEF CountAgainst, Expired
<1>4. /\ c \in Nat
      /\ c >= attempts[k].count
      /\ c <= Limit => c = attempts[k].count + 1
  BY <1>1, <1>3 DEF OneMore
<1>5. Record(k, a) /\ a.count = c /\ a.resets = attempts[k].resets
      /\ a \in [count : Nat, resets : Nat] /\ a.resets >= now
  BY <1>3, <1>4 DEF CountAgainst, Attempt
<1>6. Counted' = Swept \cup {k} /\ attempts'[k] = a
  BY DEF Record, CountAgainst, Counted
<1> HIDE DEF a, c
<1>7. /\ Counted' \subseteq Keys
      /\ attempts' \in [Counted' -> [count : Nat, resets : Nat]]
      /\ lastSweep' \in Int
      /\ (lastSweep <= now)'
      /\ NothingOutlivesASweep'
  BY <1>5, RecordKeepsMap
<1>8. CASE c <= Limit
  <2>1. Admitted(k, FALSE)
    BY <1>8 DEF CountAgainst, c
  <2>2. /\ Grant(FALSE) \in Admissions
        /\ Grant(FALSE).at = now /\ Grant(FALSE).opens = FALSE
        /\ g \in Seq(Admissions)
        /\ grants'[k] = Append(g, Grant(FALSE))
        /\ \A j \in Keys \ {k} : grants'[j] = grants[j]
        /\ grants' \in [Keys -> Seq(Admissions)]
    BY <1>1, <2>1, AdmittedFacts
  <2>3. TypeOK'
    BY <1>1, <1>7, <2>1, <2>2 DEF IInv, TypeOK, Admissions
  <2>4. ASSUME NEW j \in Keys, j # k PROVE KeySound(j)'
    BY <1>5, <2>2, <2>4, RecordKeepsOthers
  <2>5. /\ Len(g) \in Nat
        /\ Len(grants'[k]) = Len(g) + 1
        /\ grants'[k][Len(g) + 1] = Grant(FALSE)
        /\ \A i \in 1..Len(g) : grants'[k][i] = g[i]
    <3>1. Len(g) \in Nat
      BY <2>2, AdmissionFacts
    <3>2. /\ Len(Append(g, Grant(FALSE))) = Len(g) + 1
          /\ Append(g, Grant(FALSE))[Len(g) + 1] = Grant(FALSE)
          /\ \A i \in 1..Len(g) : Append(g, Grant(FALSE))[i] = g[i]
      BY <2>2, LongerHistory
    <3> QED BY <2>2, <3>1, <3>2
  <2>6. KeySound(k)
    BY DEF IInv
  <2>7. PICK p \in 1..Len(g) : g[p].opens /\ Len(g) - p + 1 <= attempts[k].count
    BY <1>2, <2>6 DEF KeySound, CountedSinceOpening
  <2>8. CountedSinceOpening(g, Limit - 1)
    BY <1>1, <1>3, <1>4, <1>8, <2>5, <2>7 DEF CountedSinceOpening
  <2>9. History(grants'[k], now')
    BY <1>1, <2>2, <2>6, <2>8, AdmissionKeepsHistory DEF KeySound
  <2> HIDE DEF g
  <2>10. CountedSinceOpening(grants'[k], attempts'[k].count)
    <3>1. p \in 1..Len(grants'[k])
      BY <2>5
    <3>2. Len(grants'[k]) - p + 1 <= attempts'[k].count
      BY <1>3, <1>4, <1>5, <1>6, <1>8, <2>5, <2>7
    <3>3. grants'[k][p].opens
      BY <2>5, <2>7
    <3> QED BY <3>1, <3>2, <3>3 DEF CountedSinceOpening
  <2>11. EndBy(grants'[k], attempts'[k].resets)
    <3> SUFFICES ASSUME NEW i \in 1..(Len(g) + 1), grants'[k][i].opens
                 PROVE  grants'[k][i].at + Window <= attempts[k].resets
      BY <1>5, <1>6, <2>5 DEF EndBy
    <3>1. i # Len(g) + 1
      BY <2>2, <2>5
    <3>2. i \in 1..Len(g)
      BY <2>5, <3>1
    <3> QED BY <1>2, <2>5, <2>6, <3>2 DEF KeySound, EndBy, g
  <2>12. KeySound(k)'
    BY <1>6, <2>9, <2>10, <2>11 DEF KeySound
  <2> QED BY <1>7, <2>3, <2>4, <2>12 DEF IInv
<1>9. CASE ~(c <= Limit)
  <2>1. UNCHANGED grants
    BY <1>9 DEF CountAgainst, c
  <2>2. TypeOK'
    BY <1>1, <1>3, <1>7, <2>1 DEF IInv, TypeOK
  <2>3. ASSUME NEW j \in Keys, j # k PROVE KeySound(j)'
    BY <1>5, <2>1, <2>3, RecordKeepsOthers
  <2>4. KeySound(k)'
    BY <1>1, <1>2, <1>4, <1>5, <1>6, <2>1, UntouchedKeyStaysSound DEF IInv
  <2> QED BY <1>7, <2>2, <2>3, <2>4 DEF IInv
<1> QED BY <1>8, <1>9

LEMMA ResetKeepsIInv ==
  ASSUME IInv, NEW k \in Keys, Reset(k)
  PROVE  IInv'
<1>1. /\ now' = now /\ now \in Nat /\ TypeOK /\ UNCHANGED lastSweep
      /\ Counted' = Counted \ {k}
      /\ \A x \in Counted \ {k} : attempts'[x] = attempts[x]
      /\ grants' = [grants EXCEPT ![k] = << >>]
      /\ attempts' = [j \in Counted \ {k} |-> attempts[j]]
  BY LimiterAssumption DEF IInv, TypeOK, Reset, Counted
<1>2. \A x \in Counted : attempts[x] \in [count : Nat, resets : Nat]
  BY <1>1 DEF TypeOK
<1>3. TypeOK'
  BY <1>1, <1>2 DEF TypeOK
<1>4. (lastSweep <= now)' /\ NothingOutlivesASweep'
  BY <1>1 DEF IInv, NothingOutlivesASweep
<1>5. ASSUME NEW j \in Keys, j # k PROVE KeySound(j)'
  <2>1. grants'[j] = grants[j]
    BY <1>1, <1>5 DEF TypeOK
  <2>2. j \in Counted' => /\ j \in Counted
                          /\ attempts'[j].count \in Nat
                          /\ attempts'[j].count >= attempts[j].count
                          /\ attempts'[j].resets = attempts[j].resets
    BY <1>1, <1>2
  <2>3. j \notin Counted \ Counted'
    BY <1>1, <1>5
  <2>4. KeySound(j) /\ now' >= now /\ now' \in Nat
    BY <1>1 DEF IInv
  <2> QED BY <1>1, <2>1, <2>2, <2>3, <2>4, UntouchedKeyStaysSound
<1>6. KeySound(k)'
  <2>1. grants'[k] = << >> /\ Len(grants'[k]) = 0 /\ k \notin Counted'
    BY <1>1 DEF TypeOK
  <2>2. 1..Len(grants'[k]) = {}
    BY <2>1
  <2>3. History(grants'[k], now') /\ EndedBefore(grants'[k], now')
    BY <2>2 DEF History, InOrder, OpeningsApart, OneOpensInLimit, EndedBefore
  <2> QED BY <2>1, <2>3 DEF KeySound
<1> QED BY <1>3, <1>4, <1>5, <1>6 DEF IInv

\* A step that changes nothing.
LEMMA StutterKeepsIInv ==
  ASSUME IInv, UNCHANGED vars PROVE IInv'
<1>1. TypeOK'
  BY DEF IInv, TypeOK, Counted, vars
<1>2. (lastSweep <= now)' /\ NothingOutlivesASweep'
  BY DEF IInv, NothingOutlivesASweep, Counted, vars
<1>3. \A j \in Keys : KeySound(j)'
  BY DEF IInv, KeySound, Counted, vars
<1> QED BY <1>1, <1>2, <1>3 DEF IInv

LEMMA NextKeepsIInv == IInv /\ [Next]_vars => IInv'
<1> SUFFICES ASSUME IInv, [Next]_vars PROVE IInv'
  OBVIOUS
<1>1. CASE Tick
  BY <1>1, TickKeepsIInv
<1>2. ASSUME NEW k \in Keys, Allow(k) PROVE IInv'
  BY <1>2, OpenWindowKeepsIInv, CountAgainstKeepsIInv DEF Allow
<1>3. ASSUME NEW k \in Keys, Reset(k) PROVE IInv'
  BY <1>3, ResetKeepsIInv
<1>4. CASE UNCHANGED vars
  BY <1>4, StutterKeepsIInv
<1> QED BY <1>1, <1>2, <1>3, <1>4 DEF Next

-----------------------------------------------------------------------------
\* Every state of the limiter is sound: each entry of the map covers what its
\* key was admitted since the window opened (ratelimit.go:53-111).
THEOREM LimiterInvariant == Spec => []IInv
<1> QED BY InitIInv, NextKeepsIInv, PTL DEF Spec

\* Counters and deadlines stay naturals (ratelimit.go:18-37).
THEOREM LimiterTypeCorrect == Spec => []TypeOK
<1>1. IInv => TypeOK
  BY DEF IInv
<1> QED BY <1>1, LimiterInvariant, PTL

\* No more than twice the limit in the length of a window, whatever expires, is
\* swept or is refused in between (ratelimit.go:20-22).
THEOREM NeverOverTwiceTheLimit == Spec => []AtMostTwiceTheLimit
<1>1. IInv => AtMostTwiceTheLimit
  <2> SUFFICES ASSUME IInv, NEW k \in Keys, NEW i \in 1..Len(grants[k]),
                      i + 2 * Limit <= Len(grants[k])
               PROVE  grants[k][i + 2 * Limit].at - grants[k][i].at > Window
    BY DEF AtMostTwiceTheLimit
  <2>1. grants[k] \in Seq(Admissions) /\ now \in Nat /\ History(grants[k], now)
    BY LimiterAssumption DEF IInv, TypeOK, KeySound, Admissions
  <2> QED BY <2>1, HistoryMeansTwiceTheLimit
<1> QED BY <1>1, LimiterInvariant, PTL

\* The map holds no entry that ended before the last sweep (ratelimit.go:94-111).
THEOREM SweepsLeaveNothingOld == Spec => []NothingOutlivesASweep
<1>1. IInv => NothingOutlivesASweep
  BY DEF IInv
<1> QED BY <1>1, LimiterInvariant, PTL

\* The instant a window ends is fixed when it opens (ratelimit.go:50-52, 61-67).
THEOREM WindowsNeverStretch == Spec => WindowsDoNotStretch
<1> DEFINE P == \A k \in Counted \cap Counted' :
                  ~Expired(k) => attempts'[k].resets = attempts[k].resets
<1>1. ASSUME IInv, Next PROVE P
  <2> SUFFICES ASSUME NEW j \in Counted, j \in Counted', ~Expired(j)
               PROVE  attempts'[j].resets = attempts[j].resets
    OBVIOUS
  <2>1. CASE Tick
    BY <2>1 DEF Tick
  <2>2. ASSUME NEW k \in Keys, Allow(k) PROVE attempts'[j].resets = attempts[j].resets
    <3>1. j \in Swept
      BY DEF Swept
    <3>2. CASE OpenWindow(k)
      BY <3>1, <3>2 DEF OpenWindow, Record
    <3>3. CASE CountAgainst(k)
      BY <3>1, <3>3 DEF CountAgainst, Record, Attempt
    <3> QED BY <2>2, <3>2, <3>3 DEF Allow
  <2>3. ASSUME NEW k \in Keys, Reset(k) PROVE attempts'[j].resets = attempts[j].resets
    BY <2>3 DEF Reset, Counted
  <2> QED BY <1>1, <2>1, <2>2, <2>3 DEF Next
<1> HIDE DEF P
<1>2. IInv /\ [Next]_vars => [P]_vars
  BY <1>1
<1>3. Spec => [][P]_vars
  BY <1>2, LimiterInvariant, PTL DEF Spec
<1> QED BY <1>3 DEF WindowsDoNotStretch, P

-----------------------------------------------------------------------------

\* Where a request can be, and which key its loop is at.
Following ==
    /\ at \in {"idle", "count", "authenticate", "refused", "welcome"}
    /\ at # "idle" => keys \in limitKeys
    /\ done \in 0..1
    /\ IF at \in {"count", "refused", "welcome"} THEN done < Len(keys) ELSE done = 0

\* A window that refused the request is over, or still as it was then.
StillClosed(k) ==
    \/ closed[k] < now
    \/ /\ k \in Counted
       /\ attempts[k].resets = closed[k]
       /\ attempts[k].count > Limit

\* What is known of the windows that refused the request: those of the keys the
\* loop has counted; and once asked, they end within the longest wait so far.  As
\* long as the request is allowed there is none.
Refusals ==
    /\ retry \in Nat
    /\ \A k \in DOMAIN closed : closed[k] \in Nat
    /\ at \in {"count", "refused"} => \A k \in DOMAIN closed : StillClosed(k)
    /\ at = "count" /\ allowed => DOMAIN closed = {}
    /\ at = "count" => \A k \in DOMAIN closed : \E i \in 1..done : k = keys[i]
    /\ at = "refused" => \A k \in DOMAIN closed : \E i \in 1..Len(keys) : k = keys[i]
    /\ at = "refused" => \A i \in 1..done : keys[i] \in DOMAIN closed => closed[keys[i]] <= now + retry
    /\ toldUntil \in Int
    /\ at # "idle" => toldUntil = Never
    /\ ToldTheLongestWait

SignInInv == IInv /\ Following /\ Refusals

-----------------------------------------------------------------------------
\* A request is counted by one key, or by two.
LEMMA OneKeyOrTwo == limitKeys = {<<EmailKey>>, <<EmailKey, AddressKey>>}
BY DEF limitKeys, ClientIP

\* The lists of keys a request is counted by.
LEMMA KeyLists ==
  ASSUME keys \in limitKeys
  PROVE  /\ Len(keys) \in 1..2
         /\ \A i \in 1..Len(keys) : keys[i] \in Resettable /\ keys[i] \in Keys
         /\ \A i, j \in 1..Len(keys) : keys[i] = keys[j] => i = j
BY SignInAssumption, LimiterAssumption, OneKeyOrTwo

\* The key a loop is at is one of the limiter's.
LEMMA KeyIsCounted ==
  ASSUME Following, at \in {"count", "refused", "welcome"}
  PROVE  /\ keys \in limitKeys /\ Len(keys) \in 1..2
         /\ done + 1 \in 1..Len(keys)
         /\ Key \in Keys /\ Key \in Resettable
BY KeyLists DEF Following, Key

\* Each step of a sign-in is a call of the limiter, or none
\* (auth/handler.go:163-259).
LEMMA StepsAreTheLimiters == Following /\ [SignInNext]_<<vars, request>> => [Next]_vars
<1> SUFFICES ASSUME Following, [SignInNext]_<<vars, request>> PROVE [Next]_vars
  OBVIOUS
<1>1. CASE Post \/ AskKey \/ Authenticate
  BY <1>1 DEF Post, AskKey, Authenticate
<1>2. CASE CountKey
  BY <1>2, KeyIsCounted DEF CountKey, Next
<1>3. CASE ClearKey
  BY <1>3, KeyIsCounted DEF ClearKey, Next
<1>4. CASE Others
  BY <1>4 DEF Others, Next
<1> QED BY <1>1, <1>2, <1>3, <1>4 DEF SignInNext

\* A loop moves on, or is over.
LEMMA FollowingIsKept == Following /\ [SignInNext]_<<vars, request>> => Following'
<1> SUFFICES ASSUME Following, [SignInNext]_<<vars, request>> PROVE Following'
  OBVIOUS
<1>1. CASE Post
  <2>1. keys' \in limitKeys => Len(keys') \in 1..2
    BY OneKeyOrTwo
  <2> QED BY <1>1, <2>1 DEF Post, Following
<1>2. CASE CountKey \/ AskKey \/ ClearKey
  <2>1. at \in {"count", "refused", "welcome"} /\ keys' = keys
    BY <1>2 DEF CountKey, AskKey, ClearKey
  <2>2. Len(keys) \in 1..2 /\ done + 1 \in 1..Len(keys) /\ keys \in limitKeys /\ done \in 0..1
    BY <2>1, KeyIsCounted DEF Following
  <2>3. PICK p \in {"idle", "authenticate", "refused"} : GoOn(p)
    BY <1>2 DEF CountKey, AskKey, ClearKey
  <2>4. CASE LastKey
    <3>1. at' = p /\ done' = 0
      BY <2>3, <2>4 DEF GoOn
    <3> QED BY <2>1, <2>2, <3>1 DEF Following
  <2>5. CASE ~LastKey
    <3>1. at' = at /\ done' = done + 1
      BY <2>3, <2>5 DEF GoOn
    <3>2. done + 1 < Len(keys)
      BY <2>2, <2>5 DEF LastKey
    <3>3. done + 1 \in 0..1
      <4>1. Len(keys) \in 1..2 /\ done \in 0..1 /\ done + 1 < Len(keys)
        BY <2>2, <3>2
      <4>2. \A n \in 1..2, i \in 0..1 : i + 1 < n => i + 1 \in 0..1
        OBVIOUS
      <4> QED BY <4>1, <4>2
    <3>4. /\ at' \in {"count", "refused", "welcome"}
          /\ keys' \in limitKeys
          /\ done' \in 0..1
          /\ done' < Len(keys')
      BY <2>1, <2>2, <3>1, <3>2, <3>3
    <3> QED BY <3>4 DEF Following
  <2> QED BY <2>4, <2>5
<1>3. CASE Authenticate
  <2>1. keys \in limitKeys /\ Len(keys) \in 1..2 /\ done = 0
    BY <1>3, KeyLists DEF Authenticate, Following
  <2>2. PICK c \in Credentials : \E answer \in {Login(c), Register(c), "fault"} :
              at' = IF answer = "welcome" THEN "welcome" ELSE "idle"
    BY <1>3, Zenon DEF Authenticate
  <2>3. at' \in {"welcome", "idle"} /\ UNCHANGED <<keys, done>>
    <3>1. UNCHANGED <<keys, done>>
      BY <1>3 DEF Authenticate
    <3> QED BY <2>2, <3>1
  <2> QED BY <2>1, <2>3 DEF Following
<1>4. CASE Others \/ UNCHANGED <<vars, request>>
  BY <1>4 DEF Others, Following, request
<1> QED BY <1>1, <1>2, <1>3, <1>4 DEF SignInNext
-----------------------------------------------------------------------------
\* A wait told in whole seconds is short of the wait by less than a second.
LEMMA SecondsCover ==
  ASSUME NEW d \in Nat
  PROVE  Seconds(d) \in Nat /\ d < Seconds(d) * Second + Second
<1> DEFINE r == (2 * d + Second) \div (2 * Second)
<1>1. Second \in Nat /\ Second > 0
  BY SignInAssumption
<1>2. r \in Nat
  BY <1>1
<1>3. 2 * d + Second < (2 * Second) * (r + 1)
  BY <1>1
<1> HIDE DEF r
<1>4. d < r * Second + Second
  BY <1>1, <1>2, <1>3
<1>5. Seconds(d) = IF r < 1 THEN 1 ELSE r
  BY DEF Seconds, r
<1>6. CASE r < 1
  BY <1>1, <1>2, <1>4, <1>5, <1>6
<1>7. CASE ~(r < 1)
  BY <1>1, <1>2, <1>4, <1>5, <1>7
<1> QED BY <1>6, <1>7

\* What a call does to the windows that are open: each goes on as it was, counted
\* at least as often, or it was over.
LEMMA AllowLeavesWindows ==
  ASSUME IInv, NEW k \in Keys, Allow(k), NEW j \in Counted
  PROVE  \/ attempts[j].resets < now
         \/ /\ j \in Counted'
            /\ attempts'[j].resets = attempts[j].resets
            /\ attempts[j].count > Limit => attempts'[j].count > Limit
<1>1. /\ now \in Nat /\ Limit \in Nat /\ MaxCount > Limit /\ MaxCount \in Nat
      /\ attempts[j] \in [count : Nat, resets : Nat]
  BY LimiterAssumption DEF IInv, TypeOK
<1>2. SUFFICES ASSUME ~Expired(j)
               PROVE  /\ j \in Counted'
                      /\ attempts'[j].resets = attempts[j].resets
                      /\ attempts[j].count > Limit => attempts'[j].count > Limit
  BY <1>1 DEF Expired
<1>3. j \in Swept
  BY <1>2 DEF Swept
<1>4. CASE OpenWindow(k)
  BY <1>2, <1>3, <1>4 DEF OpenWindow, Record, Counted
<1>5. CASE CountAgainst(k)
  <2>1. attempts[j].count > Limit => OneMore(attempts[j].count) > Limit
    BY <1>1 DEF OneMore
  <2> QED BY <1>3, <1>5, <2>1 DEF CountAgainst, Record, Counted, Attempt
<1> QED BY <1>4, <1>5 DEF Allow

\* A call that is refused is refused by an open window, now counted over.
LEMMA RefusedByAWindow ==
  ASSUME IInv, NEW k \in Keys, Allow(k), ~Admits(k)
  PROVE  /\ k \in Counted' /\ attempts'[k].resets \in Nat
         /\ attempts'[k].count > Limit
<1>1. Limit \in Nat /\ Limit >= 1 /\ MaxCount \in Nat /\ ~(attempts'[k].count <= Limit)
  BY LimiterAssumption DEF Admits
<1>2. ~OpenWindow(k)
  <2> SUFFICES ASSUME OpenWindow(k) PROVE FALSE
    OBVIOUS
  <2>1. attempts'[k].count = 1
    BY DEF OpenWindow, Record, Attempt
  <2> QED BY <1>1, <2>1
<1>3. CountAgainst(k)
  BY <1>2 DEF Allow
<1>4. k \in Swept /\ k \in Counted
  BY <1>3 DEF CountAgainst, Swept
<1>5. attempts[k] \in [count : Nat, resets : Nat]
  BY <1>4 DEF IInv, TypeOK
<1>6. OneMore(attempts[k].count) \in Nat
  BY <1>1, <1>5 DEF OneMore
<1>7. /\ k \in Counted'
      /\ attempts'[k] = Attempt(OneMore(attempts[k].count), attempts[k].resets)
  BY <1>3 DEF CountAgainst, Record, Counted
<1>8. attempts'[k].count = OneMore(attempts[k].count) /\ attempts'[k].resets = attempts[k].resets
  BY <1>7 DEF Attempt
<1> QED BY <1>1, <1>5, <1>6, <1>7, <1>8

-----------------------------------------------------------------------------
\* A window that refused the request stays known through the calls of others.
LEMMA OthersKeepStillClosed ==
  ASSUME SignInInv, NEW k \in DOMAIN closed, StillClosed(k), closed'[k] = closed[k],
         \/ Tick
         \/ UNCHANGED vars
         \/ \E j \in Keys : Allow(j)
         \/ \E j \in Keys : j # k /\ Reset(j)
  PROVE  StillClosed(k)'
<1>1. now \in Nat /\ Limit \in Nat /\ closed[k] \in Nat
  BY LimiterAssumption DEF SignInInv, Refusals, IInv, TypeOK
<1>2. CASE Tick
  BY <1>1, <1>2 DEF Tick, StillClosed, Counted
<1>3. CASE UNCHANGED vars
  BY <1>3 DEF vars, StillClosed, Counted
<1>4. ASSUME NEW j \in Keys, Allow(j) PROVE StillClosed(k)'
  <2>1. now' = now
    BY <1>4 DEF Allow
  <2>2. CASE closed[k] < now
    BY <2>1, <2>2 DEF StillClosed
  <2>3. CASE k \in Counted /\ attempts[k].resets = closed[k] /\ attempts[k].count > Limit
    BY <1>4, <2>1, <2>3, AllowLeavesWindows DEF SignInInv, StillClosed
  <2> QED BY <2>2, <2>3 DEF StillClosed
<1>5. ASSUME NEW j \in Keys, j # k, Reset(j) PROVE StillClosed(k)'
  BY <1>5 DEF Reset, StillClosed, Counted
<1> QED BY <1>2, <1>3, <1>4, <1>5

\* The clock does not run back.
LEMMA ClockGoesOn ==
  ASSUME IInv, [Next]_vars PROVE now' \in Nat /\ now' >= now /\ now \in Nat
<1>1. now \in Nat
  BY LimiterAssumption DEF IInv, TypeOK
<1>2. now' = now \/ now' = now + 1
  BY DEF Next, vars, Tick, Allow, Reset
<1> QED BY <1>1, <1>2

LEMMA PostKeepsRefusals ==
  ASSUME SignInInv, Post PROVE Refusals'
BY DEF Post, Refusals, ToldTheLongestWait, Never, StillClosed

LEMMA AuthenticateKeepsRefusals ==
  ASSUME SignInInv, Authenticate PROVE Refusals'
<1>1. /\ at = "authenticate" /\ at' \in {"idle", "welcome"}
      /\ UNCHANGED <<vars, keys, done, allowed, retry, closed, toldUntil>>
  <2>1. PICK c \in Credentials : \E answer \in {Login(c), Register(c), "fault"} :
              at' = IF answer = "welcome" THEN "welcome" ELSE "idle"
    BY Zenon DEF Authenticate
  <2> QED BY <2>1 DEF Authenticate
<1> QED BY <1>1 DEF SignInInv, Refusals, ToldTheLongestWait

LEMMA ClearKeyKeepsRefusals ==
  ASSUME SignInInv, ClearKey PROVE Refusals'
<1>1. /\ at = "welcome" /\ at' \in {"idle", "welcome"}
      /\ UNCHANGED <<keys, allowed, retry, closed, toldUntil>>
  BY DEF ClearKey, GoOn
<1>2. toldUntil = Never
  BY <1>1 DEF SignInInv, Refusals
<1> QED BY <1>1, <1>2 DEF SignInInv, Refusals, ToldTheLongestWait

LEMMA OthersKeepRefusals ==
  ASSUME SignInInv, Others \/ UNCHANGED <<vars, request>> PROVE Refusals'
<1>1. now' \in Nat /\ now' >= now /\ now \in Nat
  <2>1. [Next]_vars
    BY DEF Others, Next
  <2> QED BY <2>1, ClockGoesOn DEF SignInInv
<1>2. /\ UNCHANGED <<at, keys, done, allowed, retry, toldUntil>>
      /\ DOMAIN closed' \subseteq DOMAIN closed
      /\ \A k \in DOMAIN closed' : closed'[k] = closed[k]
  BY DEF Others, request
<1>3. ASSUME NEW k \in DOMAIN closed', StillClosed(k) PROVE StillClosed(k)'
  <2>1. k \in DOMAIN closed /\ closed'[k] = closed[k]
    BY <1>2
  <2>2. \/ Tick \/ UNCHANGED vars \/ \E j \in Keys : Allow(j)
        \/ \E j \in Keys : j # k /\ Reset(j)
    <3>1. ASSUME NEW j \in Keys, Reset(j),
                 closed' = [i \in DOMAIN closed \ {j} |-> closed[i]]
          PROVE  j # k
      BY <3>1
    <3> QED BY <3>1 DEF Others
  <2> QED BY <1>3, <2>1, <2>2, OthersKeepStillClosed
<1>4. at' \in {"count", "refused"} => \A k \in DOMAIN closed' : StillClosed(k)'
  BY <1>2, <1>3 DEF SignInInv, Refusals
<1>5. ToldTheLongestWait'
  BY <1>2 DEF SignInInv, Refusals, ToldTheLongestWait
<1>6. at' = "refused" =>
        \A i \in 1..done' : keys'[i] \in DOMAIN closed' => closed'[keys'[i]] <= now' + retry'
  <2> SUFFICES ASSUME at = "refused", NEW i \in 1..done, keys[i] \in DOMAIN closed'
               PROVE  closed'[keys[i]] <= now' + retry
    BY <1>2
  <2>1. /\ closed'[keys[i]] = closed[keys[i]] /\ closed[keys[i]] \in Nat /\ retry \in Nat
        /\ closed[keys[i]] <= now + retry
    BY <1>2 DEF SignInInv, Refusals
  <2> QED BY <1>1, <2>1
<1> QED BY <1>2, <1>4, <1>5, <1>6 DEF SignInInv, Refusals

\* A key that refuses is counted over in a window that is open, and what other
\* keys refused with is known as before.
LEMMA CountKeyKeepsRefusals ==
  ASSUME SignInInv, CountKey PROVE Refusals'
<1>1. /\ at = "count" /\ Allow(Key) /\ Key \in Keys /\ now' = now /\ now \in Nat
      /\ keys \in limitKeys /\ Len(keys) \in 1..2 /\ done \in 0..1
      /\ UNCHANGED <<keys, retry, toldUntil>>
  BY KeyIsCounted, LimiterAssumption DEF SignInInv, CountKey, Following, Allow, IInv, TypeOK
<1>2. /\ \A k \in DOMAIN closed : closed[k] \in Nat /\ StillClosed(k) /\ \E i \in 1..done : k = keys[i]
      /\ toldUntil = Never
  BY <1>1 DEF SignInInv, Refusals
<1>3. Key \notin DOMAIN closed
  <2>1. \A i \in 1..done : keys[i] # keys[done + 1]
    BY <1>1, KeyLists, KeyIsCounted DEF SignInInv
  <2> QED BY <1>2, <2>1 DEF Key
<1>4. ASSUME NEW k \in DOMAIN closed, closed'[k] = closed[k] PROVE StillClosed(k)'
  BY <1>1, <1>2, <1>4, OthersKeepStillClosed
<1>5. /\ \A k \in DOMAIN closed' : closed'[k] \in Nat /\ StillClosed(k)'
      /\ DOMAIN closed' \subseteq DOMAIN closed \cup {Key}
  <2>1. CASE Admits(Key)
    <3>1. closed' = closed
      BY <2>1 DEF CountKey
    <3> QED BY <1>2, <1>4, <3>1
  <2>2. CASE ~Admits(Key)
    <3>1. /\ Key \in Counted' /\ attempts'[Key].resets \in Nat
          /\ attempts'[Key].count > Limit
      BY <1>1, <2>2, RefusedByAWindow DEF SignInInv
    <3>2. closed' = Closed(Key, attempts'[Key].resets)
      BY <2>2 DEF CountKey
    <3>3. /\ DOMAIN closed' = DOMAIN closed \cup {Key}
          /\ closed'[Key] = attempts'[Key].resets
          /\ \A k \in DOMAIN closed \ {Key} : closed'[k] = closed[k]
      BY <3>2 DEF Closed
    <3>4. ASSUME NEW k \in DOMAIN closed', k = Key PROVE closed'[k] \in Nat /\ StillClosed(k)'
      BY <3>1, <3>3, <3>4 DEF StillClosed
    <3>5. ASSUME NEW k \in DOMAIN closed', k # Key PROVE closed'[k] \in Nat /\ StillClosed(k)'
      BY <1>2, <1>4, <3>3, <3>5
    <3> QED BY <3>3, <3>4, <3>5
  <2> QED BY <2>1, <2>2
<1>6. allowed' => DOMAIN closed' = {}
  BY <1>1 DEF CountKey, NoneRefuses, SignInInv, Refusals
<1>7. \A k \in DOMAIN closed' : \E i \in 1..(done + 1) : k = keys[i]
  BY <1>1, <1>2, <1>5 DEF Key
<1>8. CASE LastKey
  <2>1. /\ done' = 0 /\ Len(keys) = done + 1
        /\ at' = IF allowed' THEN "authenticate" ELSE "refused"
    BY <1>1, <1>8 DEF CountKey, GoOn, LastKey
  <2> QED BY <1>1, <1>2, <1>5, <1>6, <1>7, <2>1 DEF SignInInv, Refusals, ToldTheLongestWait
<1>9. CASE ~LastKey
  <2>1. done' = done + 1 /\ at' = "count"
    BY <1>1, <1>9 DEF CountKey, GoOn
  <2> QED BY <1>1, <1>2, <1>5, <1>6, <1>7, <2>1 DEF SignInInv, Refusals, ToldTheLongestWait
<1> QED BY <1>8, <1>9

\* A key that is asked tells a wait that reaches the end of the window it refused
\* with; after the last, the longest is told.
LEMMA AskKeyKeepsRefusals ==
  ASSUME SignInInv, AskKey PROVE Refusals'
<1>1. /\ at = "refused" /\ Key \in Keys /\ now \in Nat /\ retry \in Nat
      /\ keys \in limitKeys /\ Len(keys) \in 1..2 /\ done \in 0..1 /\ done + 1 \in 1..Len(keys)
      /\ UNCHANGED <<vars, keys, closed>> /\ now' = now
  BY KeyIsCounted, LimiterAssumption DEF SignInInv, AskKey, Following, Refusals, IInv, TypeOK, vars
<1>2. /\ \A k \in DOMAIN closed : /\ closed[k] \in Nat /\ StillClosed(k)
                                  /\ \E i \in 1..Len(keys) : k = keys[i]
      /\ \A i \in 1..done : keys[i] \in DOMAIN closed => closed[keys[i]] <= now + retry
  BY <1>1 DEF SignInInv, Refusals
<1>3. RetryAfter(Key) \in Nat /\ (Key \in DOMAIN closed => closed[Key] <= now + RetryAfter(Key))
  <2>1. Key \in Counted => attempts[Key].resets \in Nat
    BY DEF SignInInv, IInv, TypeOK
  <2>2. RetryAfter(Key) \in Nat
    BY <1>1, <2>1 DEF RetryAfter
  <2>3. ASSUME Key \in DOMAIN closed PROVE closed[Key] <= now + RetryAfter(Key)
    <3>1. CASE closed[Key] < now
      BY <1>1, <1>2, <2>2, <2>3, <3>1
    <3>2. CASE Key \in Counted /\ attempts[Key].resets = closed[Key] /\ attempts[Key].count > Limit
      <4>1. ~(attempts[Key].count <= Limit)
        BY <3>2, LimiterAssumption DEF SignInInv, IInv, TypeOK
      <4> QED BY <1>1, <1>2, <2>1, <2>3, <3>2, <4>1 DEF RetryAfter
    <3> QED BY <1>2, <2>3, <3>1, <3>2 DEF StillClosed
  <2> QED BY <2>2, <2>3
<1>4. retry' \in Nat /\ retry' >= retry /\ retry' >= RetryAfter(Key)
  BY <1>1, <1>3 DEF AskKey, Longer
<1>5. \A i \in 1..(done + 1) : keys[i] \in DOMAIN closed => closed[keys[i]] <= now + retry'
  <2> SUFFICES ASSUME NEW i \in 1..(done + 1), keys[i] \in DOMAIN closed
               PROVE  closed[keys[i]] <= now + retry'
    OBVIOUS
  <2>1. closed[keys[i]] \in Nat
    BY <1>2
  <2>2. CASE i = done + 1
    BY <1>1, <1>3, <1>4, <2>1, <2>2 DEF Key
  <2>3. CASE i # done + 1
    <3>1. i \in 1..done
      BY <1>1, <2>3
    <3> QED BY <1>1, <1>2, <1>4, <2>1, <3>1
  <2> QED BY <2>2, <2>3
<1>6. CASE LastKey
  <2>1. /\ done' = 0 /\ at' = "idle" /\ Len(keys) = done + 1
        /\ toldUntil' = now + Seconds(retry') * Second
    BY <1>1, <1>6 DEF AskKey, GoOn, LastKey
  <2>2. /\ Second \in Nat /\ Seconds(retry') \in Nat
        /\ retry' < Seconds(retry') * Second + Second
    BY <1>4, SecondsCover, SignInAssumption
  <2>3. Seconds(retry') * Second \in Nat
    BY <2>2
  <2>4. ASSUME NEW k \in DOMAIN closed PROVE closed[k] < toldUntil' + Second
    <3>1. closed[k] \in Nat /\ closed[k] <= now + retry'
      BY <1>2, <1>5, <2>1, <2>4
    <3> QED BY <1>1, <1>4, <2>1, <2>2, <2>3, <3>1
  <2>5. ToldTheLongestWait'
    BY <1>1, <2>1, <2>4 DEF ToldTheLongestWait
  <2>6. toldUntil' \in Int
    BY <1>1, <2>1, <2>3
  <2> QED BY <1>1, <1>2, <1>4, <2>1, <2>5, <2>6 DEF Refusals
<1>7. CASE ~LastKey
  <2>1. done' = done + 1 /\ at' = "refused" /\ toldUntil' = Never
    BY <1>1, <1>7 DEF AskKey, GoOn
  <2>2. \A k \in DOMAIN closed : StillClosed(k)'
    BY <1>1, <1>2 DEF StillClosed, vars, Counted
  <2>3. Never \in Int
    BY DEF Never
  <2>4. ToldTheLongestWait'
    BY <2>1 DEF ToldTheLongestWait
  <2> QED BY <1>1, <1>2, <1>4, <1>5, <2>1, <2>2, <2>3, <2>4 DEF Refusals
<1> QED BY <1>6, <1>7

-----------------------------------------------------------------------------
LEMMA SignInStarts == SignInInit => SignInInv
<1> SUFFICES ASSUME SignInInit PROVE SignInInv
  OBVIOUS
<1>1. IInv
  BY InitIInv DEF SignInInit
<1>2. Following
  BY DEF SignInInit, Following
<1>3. Refusals
  BY DEF SignInInit, Refusals, ToldTheLongestWait, Never
<1> QED BY <1>1, <1>2, <1>3 DEF SignInInv

LEMMA SignInSteps == SignInInv /\ [SignInNext]_<<vars, request>> => SignInInv'
<1> SUFFICES ASSUME SignInInv, [SignInNext]_<<vars, request>> PROVE SignInInv'
  OBVIOUS
<1>1. IInv'
  BY StepsAreTheLimiters, NextKeepsIInv DEF SignInInv
<1>2. Following'
  BY FollowingIsKept DEF SignInInv
<1>3. Refusals'
  BY PostKeepsRefusals, CountKeyKeepsRefusals, AskKeyKeepsRefusals,
     AuthenticateKeepsRefusals, ClearKeyKeepsRefusals, OthersKeepRefusals DEF SignInNext
<1> QED BY <1>1, <1>2, <1>3 DEF SignInInv

\* The composition keeps what is known of each refusal
\* (auth/handler.go:181-205).
THEOREM SignInInvariant == SignInSpec => []SignInInv
<1> QED BY SignInStarts, SignInSteps, PTL DEF SignInSpec

\* Whatever sign-ins do, the limiter does what RateLimiter says it does: the
\* composition implements it (auth/handler.go:163-259, ratelimit.go:48-92).
THEOREM SignInImplementsTheLimiter == SignInSpec => Spec
<1>1. SignInInit => Init
  BY DEF SignInInit
<1>2. SignInInv /\ [SignInNext]_<<vars, request>> => [Next]_vars
  BY StepsAreTheLimiters DEF SignInInv
<1> QED BY <1>1, <1>2, SignInInvariant, PTL DEF SignInSpec, Spec

\* Whatever other requests do in between, nobody whom a key refused goes on to the
\* password, and a refused visitor who waits a second more than told is refused by
\* none of the windows that refused them (auth/handler.go:184-205).
THEOREM ToldIsLongEnough == SignInSpec => []ToldTheLongestWait
<1>1. SignInInv => ToldTheLongestWait
  BY DEF SignInInv, Refusals
<1> QED BY <1>1, SignInInvariant, PTL

\* Sign-ins that are checked are no more than twice the limit in the length of a
\* window, for each address typed and each address they come from, between two
\* that succeed (auth/handler.go:176-205, ratelimit.go:20-22).
THEOREM SignInsAreBounded == SignInSpec => []AtMostTwiceTheLimit
<1> QED BY SignInImplementsTheLimiter, NeverOverTwiceTheLimit, PTL
=============================================================================
