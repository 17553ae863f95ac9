--------------------------- MODULE SessionsProofs ---------------------------
(***************************************************************************)
(* What Sessions promises, for any number of requests, accounts, secrets   *)
(* and ticks.                                                              *)
(***************************************************************************)
EXTENDS Sessions, TLAPS

\* The two halves of TypeOK: what requests carry, and what the tables hold.
RequestTypes ==
    /\ jar \in SessionIds \cup {NoCookie}
    /\ pc \in [Requests -> {"idle", "lookup", "touch", "handle", "sign in", "answer"}]
    /\ cred \in [Requests -> Credentials \cup {NoCookie}]
    /\ as \in [Requests -> Users \cup {Nobody}] /\ who \in [Requests -> Users \cup {Nobody}]
    /\ seen \in [Requests -> Nat]
    /\ setCookie \in [Requests -> SessionIds \cup {NoCookie, Keep}]
    /\ dead \subseteq Requests

TableTypes ==
    /\ now \in 0..Horizon
    /\ users \subseteq Users
    /\ DOMAIN rows \subseteq issued
    /\ \A c \in DOMAIN rows : rows[c] \in Rows /\ rows[c].user \in users
    /\ shown \subseteq Pats
    /\ issued \subseteq Credentials /\ revoked \subseteq issued
    /\ served \in [Credentials -> Nat]

\* Every secret that anything refers to was drawn, so a fresh one is nobody's.
Drawn ==
    /\ jar \in issued \cup {NoCookie}
    /\ shown \subseteq issued
    /\ \A r \in Requests : /\ cred[r] \in issued \cup {NoCookie}
                           /\ setCookie[r] \in issued \cup {NoCookie, Keep}

\* Requests act for accounts that exist.
Accounts ==
    \A r \in Requests : /\ as[r] \in users \cup {Nobody}
                        /\ pc[r] = "sign in" => who[r] \in users

\* A request is nobody's until its credential was looked up.
Strangers ==
    \A r \in Requests : /\ pc[r] \in {"idle", "lookup"} => as[r] = Nobody
                        /\ pc[r] = "idle" => r \notin dead

\* A deleted row is not in the tables, and who presents its secret is nobody.
Gone ==
    /\ revoked \cap DOMAIN rows = {}
    /\ \A r \in dead : cred[r] \in revoked /\ as[r] = Nobody

\* The columns of a row: a session's last recorded use is less than the interval
\* behind its last use, and its expiry goes by the recorded one.
Clocked ==
    \A c \in DOMAIN rows :
        /\ c \in SessionIds => /\ rows[c].expires = rows[c].used + SessionLifetime
                               /\ rows[c].used <= served[c] /\ served[c] <= now
                               /\ served[c] - rows[c].used < TouchInterval
        /\ c \in Pats => rows[c].expires = served[c] + APITokenLifetime

\* What a request read of a row is no later than what the row says now.
SeenEarlier ==
    \A r \in Requests :
        pc[r] = "touch" /\ cred[r] \in DOMAIN rows \cap SessionIds
            => seen[r] <= rows[cred[r]].used

IInv ==
    /\ RequestTypes /\ TableTypes /\ Drawn /\ Accounts
    /\ Strangers /\ Gone /\ Clocked /\ SeenEarlier

\* The halves make the whole.
LEMMA Halves == TypeOK <=> RequestTypes /\ TableTypes
  BY DEF TypeOK, RequestTypes, TableTypes

\* Init establishes every part.
LEMMA InitIInv == Init => IInv
<1> SUFFICES ASSUME Init PROVE IInv
  OBVIOUS
<1> USE SessionsAssumption
<1>1. RequestTypes /\ TableTypes
  BY DEF Init, RequestTypes, TableTypes, Credentials
<1>2. Drawn /\ Accounts /\ Strangers /\ Gone
  BY DEF Init, Drawn, Accounts, Strangers, Gone
<1>3. Clocked /\ SeenEarlier
  BY DEF Init, Clocked, SeenEarlier
<1> QED
  BY <1>1, <1>2, <1>3 DEF IInv

-----------------------------------------------------------------------------
\* What the writes do to the tables, without saying how.

NewRow(c, u, lifetime) ==
    /\ c \notin DOMAIN rows /\ DOMAIN rows' = DOMAIN rows \cup {c}
    /\ rows'[c] = Row(u, now, now + lifetime) /\ served'[c] = now
    /\ rows'[c] \in Rows /\ rows'[c].user = u
    /\ \A d \in DOMAIN rows : rows'[d] = rows[d] /\ served'[d] = served[d]
    /\ served' \in [Credentials -> Nat]
    /\ c \notin issued /\ issued' = issued \cup {c}

FewerRows ==
    /\ DOMAIN rows' \subseteq DOMAIN rows
    /\ \A d \in DOMAIN rows' : rows'[d] = rows[d]

Slide(r, d) ==
    /\ d \in SessionIds /\ d = cred[r] /\ served'[d] = now
    /\ \/ rows'[d] = Row(rows[d].user, now, now + SessionLifetime)
       \/ rows'[d] = rows[d] /\ now - seen[r] < TouchInterval

SlidRows(r) ==
    /\ DOMAIN rows' = DOMAIN rows
    /\ served' \in [Credentials -> Nat]
    /\ \A d \in DOMAIN rows :
         (rows'[d] = rows[d] /\ served'[d] = served[d]) \/ Slide(r, d)

\* Drawing a secret adds one row and disturbs no other.
LEMMA DrawEffect ==
    ASSUME TableTypes, NEW c \in Credentials, NEW u \in users, NEW lifetime \in Nat,
           Draw(c, u, lifetime)
    PROVE  NewRow(c, u, lifetime)
<1> USE SessionsAssumption
<1>1. now \in Nat
  BY DEF TableTypes
<1>2. Row(u, now, now + lifetime) \in Rows /\ Row(u, now, now + lifetime).user = u
  BY <1>1 DEF TableTypes, Row, Rows
<1>3. DOMAIN rows' = DOMAIN rows \cup {c} /\ c \notin DOMAIN rows
  BY DEF Draw, TableTypes
<1>4. rows'[c] = Row(u, now, now + lifetime) /\ \A d \in DOMAIN rows : rows'[d] = rows[d]
  BY <1>3 DEF Draw
<1>5. served' \in [Credentials -> Nat] /\ served'[c] = now
  BY <1>1 DEF Draw, TableTypes
<1>6. \A d \in DOMAIN rows : served'[d] = served[d]
  BY <1>3 DEF Draw, TableTypes
<1> QED
  BY <1>2, <1>3, <1>4, <1>5, <1>6 DEF Draw, NewRow

\* A touch writes at most the row it was looked up in, and only of a session.
LEMMA TouchEffect ==
    ASSUME TableTypes, NEW r \in Requests, Touch(r)
    PROVE  SlidRows(r)
<1> USE SessionsAssumption DEF SlidRows, Slide
<1>1. CASE UNCHANGED <<rows, served>>
  BY <1>1 DEF TableTypes
<1>2. CASE /\ rows' = Touched(r)
           /\ served' = IF cred[r] \in SessionIds \cap DOMAIN rows
                        THEN [served EXCEPT ![cred[r]] = now] ELSE served
  <2>1. served' \in [Credentials -> Nat]
    BY <1>2 DEF TableTypes, Credentials
  <2>2. CASE now - seen[r] < TouchInterval \/ cred[r] \notin DOMAIN rows
    <3>1. rows' = rows
      BY <1>2, <2>2 DEF Touched
    <3> QED
      BY <1>2, <2>1, <2>2, <3>1 DEF TableTypes, Credentials
  <2>3. CASE ~(now - seen[r] < TouchInterval) /\ cred[r] \in DOMAIN rows
    <3>1. rows' = [rows EXCEPT ![cred[r]] = Slid(cred[r])]
      BY <1>2, <2>3 DEF Touched, Update
    <3>2. cred[r] \in Credentials
      BY <2>3 DEF TableTypes
    <3> QED
      BY <1>2, <2>1, <2>3, <3>1, <3>2 DEF TableTypes, Slid, Credentials
  <2> QED
    BY <2>2, <2>3
<1> QED
  BY <1>1, <1>2 DEF Touch

\* What each kind of handler amounts to: an answer with some cookie, and one of
\* the effects above.
AnswerWith(r) ==
    \E cookie \in SessionIds \cup {NoCookie, Keep} :
       /\ cookie \in issued' \cup {NoCookie, Keep} \/ cookie = setCookie[r]
       /\ Answering(r, cookie)

AddsRow(r) ==
    /\ UNCHANGED <<now, users, jar, revoked>>
    /\ \E u \in users :
         \/ \E c \in SessionIds : NewRow(c, u, SessionLifetime) /\ UNCHANGED shown
         \/ \E c \in Pats : /\ NewRow(c, u, APITokenLifetime)
                            /\ shown' \in {shown, shown \cup {c}}

Deleted(r) ==
    /\ UNCHANGED <<now, users, jar, shown, issued, served>>
    /\ FewerRows
    /\ \/ UNCHANGED <<rows, revoked>>
       \/ \E c \in issued : revoked' = revoked \cup {c} /\ c \notin DOMAIN rows'

\* Every handler's answer, and every write of one, is of these kinds.
LEMMA HandlerEffect ==
    ASSUME RequestTypes, TableTypes, Accounts, Drawn, NEW r \in Requests,
           \/ AnswerOnly(r) \/ Login(r) \/ Registered(r) \/ Logout(r)
           \/ CreateToken(r) \/ RevokeToken(r)
    PROVE  AnswerWith(r) /\ (AddsRow(r) \/ Deleted(r))
<1> USE SessionsAssumption
<1>1. setCookie[r] \in SessionIds \cup {NoCookie, Keep}
  BY DEF RequestTypes
<1>2. CASE Answering(r, setCookie[r]) /\ UNCHANGED <<now, jar, tables>>
  BY <1>1, <1>2 DEF AnswerWith, Deleted, FewerRows, tables
<1>3. ASSUME NEW u \in users, SignIn(r, u) PROVE AnswerWith(r) /\ AddsRow(r)
  <2>1. PICK c \in SessionIds : Draw(c, u, SessionLifetime) /\ Answering(r, c)
    BY <1>3 DEF SignIn
  <2>2. NewRow(c, u, SessionLifetime)
    BY <2>1, DrawEffect DEF Credentials
  <2>3. UNCHANGED <<now, users, jar, shown, revoked>>
    BY <1>3 DEF SignIn
  <2>4. c \in issued'
    BY <2>2 DEF NewRow
  <2> QED
    BY <2>1, <2>2, <2>3, <2>4 DEF AnswerWith, AddsRow
<1>4. CASE AnswerOnly(r)
  BY <1>2, <1>4 DEF AnswerOnly
<1>5. CASE Login(r)
  BY <1>3, <1>5 DEF Login
<1>6. CASE Registered(r)
  <2>1. who[r] \in users
    BY <1>6 DEF Registered, At, Accounts
  <2> QED
    BY <1>2, <1>3, <1>6, <2>1 DEF Registered
<1>7. CASE Logout(r)
  <2>1. AnswerWith(r)
    BY <1>7 DEF Logout, AnswerWith
  <2>2. ASSUME cred[r] \in SessionIds, rows' = Without(cred[r]),
               revoked' = revoked \cup {cred[r]}
        PROVE  FewerRows /\ cred[r] \notin DOMAIN rows' /\ cred[r] \in issued
    BY <2>2 DEF FewerRows, Without, Drawn, Credentials
  <2>3. Deleted(r)
    BY <1>7, <2>2 DEF Logout, Deleted, FewerRows
  <2> QED
    BY <2>1, <2>3
<1>8. CASE CreateToken(r)
  <2>1. AnswerWith(r)
    BY <1>1, <1>8 DEF CreateToken, AnswerWith
  <2>2. PICK c \in Pats : /\ Draw(c, as[r], APITokenLifetime)
                          /\ shown' \in {shown, shown \cup {c}}
    BY <1>8 DEF CreateToken, Create, TokensView
  <2>3. as[r] \in users
    BY <1>8 DEF CreateToken, RequireAuth, Accounts
  <2>4. NewRow(c, as[r], APITokenLifetime)
    BY <2>2, <2>3, DrawEffect DEF Credentials
  <2>5. UNCHANGED <<now, users, jar, revoked>>
    BY <1>8 DEF CreateToken
  <2> QED
    BY <2>1, <2>2, <2>3, <2>4, <2>5 DEF AddsRow
<1>9. CASE RevokeToken(r)
  <2>1. AnswerWith(r)
    BY <1>1, <1>9 DEF RevokeToken, AnswerWith
  <2>2. PICK c \in Pats : /\ Deletes(r, c)
                          /\ rows' = Without(c) /\ revoked' = revoked \cup {c}
    BY <1>9 DEF RevokeToken
  <2>3. FewerRows /\ c \notin DOMAIN rows' /\ c \in issued
    BY <2>2 DEF FewerRows, Without, Deletes, TableTypes
  <2>4. Deleted(r)
    BY <1>9, <2>2, <2>3 DEF RevokeToken, Deleted
  <2> QED
    BY <2>1, <2>4
<1> QED
  BY <1>4, <1>5, <1>6, <1>7, <1>8, <1>9

-----------------------------------------------------------------------------
\* Facts that several steps use, apart from what else is known there.

LEMMA NowNat == TableTypes => now \in Nat /\ now <= Horizon
  BY SessionsAssumption DEF TableTypes

LEMMA TickType == TableTypes /\ Tick => now' \in 0..Horizon
<1> SUFFICES ASSUME TableTypes, Tick PROVE now' \in 0..Horizon
  OBVIOUS
<1>1. now \in Nat /\ now < Horizon /\ now' = now + 1
  BY NowNat DEF Tick
<1>2. Horizon \in Nat
  BY SessionsAssumption
<1> QED
  BY <1>1, <1>2

\* An answer leaves requests well typed.
LEMMA AnsweringTypes ==
    ASSUME RequestTypes, UNCHANGED jar, NEW r \in Requests,
           NEW cookie \in SessionIds \cup {NoCookie, Keep}, Answering(r, cookie)
    PROVE  RequestTypes'
<1> USE DEF RequestTypes, Answering, Forgotten, Goto
<1>1. pc' \in [Requests -> {"idle", "lookup", "touch", "handle", "sign in", "answer"}]
  OBVIOUS
<1>2. cred' \in [Requests -> Credentials \cup {NoCookie}]
  OBVIOUS
<1>3. as' \in [Requests -> Users \cup {Nobody}] /\ who' \in [Requests -> Users \cup {Nobody}]
  OBVIOUS
<1>4. seen' \in [Requests -> Nat]
  OBVIOUS
<1>5. setCookie' \in [Requests -> SessionIds \cup {NoCookie, Keep}]
  OBVIOUS
<1>6. dead' \subseteq Requests /\ jar' \in SessionIds \cup {NoCookie}
  OBVIOUS
<1> QED
  BY <1>1, <1>2, <1>3, <1>4, <1>5, <1>6

\* A row that was touched is a row still, and its owner's.
LEMMA SlidRowTypes ==
    ASSUME TableTypes, NEW r \in Requests, SlidRows(r), NEW d \in DOMAIN rows
    PROVE  rows'[d] \in Rows /\ rows'[d].user \in users
<1>1. rows[d] \in Rows /\ rows[d].user \in users
  BY DEF TableTypes
<1>2. now \in Nat /\ now + SessionLifetime \in Nat
  BY NowNat, SessionsAssumption
<1>3. CASE rows'[d] = rows[d]
  BY <1>1, <1>3
<1>4. CASE rows'[d] = Row(rows[d].user, now, now + SessionLifetime)
  BY <1>1, <1>2, <1>4 DEF Row, Rows
<1> QED
  BY <1>3, <1>4 DEF SlidRows, Slide

\* After its touch an agent's request is over and a browser's goes on.
Passes(r) ==
    /\ UNCHANGED <<now, users, jar, shown, issued, revoked>>
    /\ \/ Over(r)
       \/ /\ Goto(r, "handle") /\ seen' = [seen EXCEPT ![r] = 0]
          /\ UNCHANGED <<cred, dead, as, who, setCookie>>

\* Every step of the specification is one of these.
Steps ==
    \/ \E r \in Requests :
         \/ Send(r) \/ Recognise(r) \/ GoOnAsGuest(r) \/ Unauthorized(r)
         \/ Register(r) \/ Answer(r)
         \/ At(r, "touch") /\ SlidRows(r) /\ Passes(r)
         \/ AnswerWith(r) /\ AddsRow(r)
         \/ AnswerWith(r) /\ Deleted(r)
    \/ FewerRows /\ UNCHANGED <<now, users, jar, shown, issued, revoked, served, request>>
    \/ Tick
    \/ UNCHANGED vars

LEMMA StepKinds == RequestTypes /\ TableTypes /\ Accounts /\ Drawn /\ [Next]_vars => Steps
<1> SUFFICES ASSUME RequestTypes, TableTypes, Accounts, Drawn, [Next]_vars PROVE Steps
  OBVIOUS
<1>1. ASSUME NEW r \in Requests, Touch(r) PROVE SlidRows(r) /\ Passes(r) /\ At(r, "touch")
  BY <1>1, TouchEffect DEF Touch, Passes
<1>2. ASSUME NEW r \in Requests,
             \/ AnswerOnly(r) \/ Login(r) \/ Registered(r) \/ Logout(r)
             \/ CreateToken(r) \/ RevokeToken(r)
      PROVE  AnswerWith(r) /\ (AddsRow(r) \/ Deleted(r))
  BY <1>2, HandlerEffect
<1>3. ASSUME NEW table, Sweep(table)
      PROVE  FewerRows /\ UNCHANGED <<now, users, jar, shown, issued, revoked, served, request>>
  BY <1>3 DEF Sweep, FewerRows
<1> QED
  BY <1>1, <1>2, <1>3 DEF Next, Steps

-----------------------------------------------------------------------------
\* Every kind of step preserves every part of the invariant.

\* What requests carry stays well typed.
LEMMA RequestTypesStep ==
    RequestTypes /\ TableTypes /\ Steps => RequestTypes'
<1> SUFFICES ASSUME RequestTypes, TableTypes, Steps PROVE RequestTypes'
  OBVIOUS
<1> USE SessionsAssumption DEF RequestTypes, TableTypes, Credentials, Rows, tables
<1>1. ASSUME NEW r \in Requests, Send(r) PROVE RequestTypes'
  <2>1. PICK c \in shown \cup {jar} :
          /\ cred' = [cred EXCEPT ![r] = c]
          /\ dead' = IF c \in revoked THEN dead \cup {r} ELSE dead
    BY <1>1 DEF Send
  <2>2. c \in Credentials \cup {NoCookie}
    OBVIOUS
  <2>3. cred' \in [Requests -> Credentials \cup {NoCookie}]
    BY <2>1, <2>2
  <2>4. dead' \subseteq Requests
    BY <2>1
  <2> QED
    BY <1>1, <2>3, <2>4 DEF Send, Goto, found
<1>2. ASSUME NEW r \in Requests, Recognise(r) PROVE RequestTypes'
  BY <1>2 DEF Recognise, SessionFor, TokenFor, Goto, At, Live
<1>3. ASSUME NEW r \in Requests, GoOnAsGuest(r) PROVE RequestTypes'
  BY <1>3 DEF GoOnAsGuest, Goto, At, found
<1>4. ASSUME NEW r \in Requests, Unauthorized(r) PROVE RequestTypes'
  BY <1>4 DEF Unauthorized, Over, Forgotten, Goto, At
<1>5. ASSUME NEW r \in Requests, Register(r) PROVE RequestTypes'
  <2>1. who' \in [Requests -> Users \cup {Nobody}]
    BY <1>5 DEF Register
  <2>2. pc' \in [Requests -> {"idle", "lookup", "touch", "handle", "sign in", "answer"}]
    BY <1>5 DEF Register, Goto
  <2> QED
    BY <1>5, <2>1, <2>2 DEF Register
<1>6. ASSUME NEW r \in Requests, Answer(r) PROVE RequestTypes'
  BY <1>6 DEF Answer, Over, Forgotten, Goto, At
<1>7. ASSUME NEW r \in Requests, At(r, "touch"), SlidRows(r), Passes(r) PROVE RequestTypes'
  <2>1. CASE Over(r)
    BY <1>7, <2>1 DEF Passes, Over, Forgotten, Goto
  <2>2. CASE /\ Goto(r, "handle") /\ seen' = [seen EXCEPT ![r] = 0]
             /\ UNCHANGED <<cred, dead, as, who, setCookie>>
    BY <1>7, <2>2 DEF Passes, Goto
  <2> QED
    BY <1>7, <2>1, <2>2 DEF Passes
<1>8. ASSUME NEW r \in Requests, AnswerWith(r), AddsRow(r) PROVE RequestTypes'
  <2>1. UNCHANGED jar
    BY <1>8 DEF AddsRow
  <2>2. PICK cookie \in SessionIds \cup {NoCookie, Keep} : Answering(r, cookie)
    BY <1>8 DEF AnswerWith
  <2> QED
    BY <2>1, <2>2, AnsweringTypes
<1>9. ASSUME NEW r \in Requests, AnswerWith(r), Deleted(r) PROVE RequestTypes'
  <2>1. UNCHANGED jar
    BY <1>9 DEF Deleted
  <2>2. PICK cookie \in SessionIds \cup {NoCookie, Keep} : Answering(r, cookie)
    BY <1>9 DEF AnswerWith
  <2> QED
    BY <2>1, <2>2, AnsweringTypes
<1>10. CASE FewerRows /\ UNCHANGED <<now, users, jar, shown, issued, revoked, served, request>>
  BY <1>10 DEF FewerRows, request, found
<1>11. CASE Tick
  BY <1>11 DEF Tick, request, found
<1>12. CASE UNCHANGED vars
  BY <1>12 DEF vars, request, found
<1> QED
  BY <1>1, <1>2, <1>3, <1>4, <1>5, <1>6, <1>7, <1>8, <1>9, <1>10, <1>11, <1>12 DEF Steps

\* What the tables hold stays well typed.
LEMMA TableTypesStep ==
    TableTypes /\ Accounts /\ Steps => TableTypes'
<1> SUFFICES ASSUME TableTypes, Accounts, Steps PROVE TableTypes'
  OBVIOUS
<1> USE SessionsAssumption DEF TableTypes, Accounts, Credentials, tables, Rows, Row
<1>1. ASSUME NEW r \in Requests, Send(r) PROVE TableTypes'
  BY <1>1 DEF Send, Goto, At, found
<1>2. ASSUME NEW r \in Requests, Recognise(r) PROVE TableTypes'
  BY <1>2 DEF Recognise, SessionFor, TokenFor, Goto, At, Live
<1>3. ASSUME NEW r \in Requests, GoOnAsGuest(r) PROVE TableTypes'
  BY <1>3 DEF GoOnAsGuest, Goto, At, found
<1>4. ASSUME NEW r \in Requests, Unauthorized(r) PROVE TableTypes'
  BY <1>4 DEF Unauthorized, Over, Forgotten, Goto, At
<1>5. ASSUME NEW r \in Requests, Register(r) PROVE TableTypes'
  BY <1>5 DEF Register, Goto, At
<1>6. ASSUME NEW r \in Requests, Answer(r) PROVE TableTypes'
  BY <1>6 DEF Answer, Over, Forgotten, Goto, At
<1>7. ASSUME NEW r \in Requests, At(r, "touch"), SlidRows(r), Passes(r) PROVE TableTypes'
  <2>1. UNCHANGED <<now, users, shown, issued, revoked>>
    BY <1>7 DEF Passes
  <2>2. ASSUME NEW d \in DOMAIN rows
        PROVE  rows'[d] \in Rows /\ rows'[d].user \in users
    BY <1>7, <2>2, SlidRowTypes
  <2> QED
    BY <1>7, <2>1, <2>2 DEF SlidRows
<1>8. ASSUME NEW r \in Requests, AnswerWith(r), AddsRow(r) PROVE TableTypes'
  BY <1>8 DEF AnswerWith, Answering, Forgotten, Goto, At, AddsRow, NewRow
<1>9. ASSUME NEW r \in Requests, AnswerWith(r), Deleted(r) PROVE TableTypes'
  BY <1>9 DEF AnswerWith, Answering, Forgotten, Goto, At, Deleted, FewerRows
<1>10. CASE FewerRows /\ UNCHANGED <<now, users, jar, shown, issued, revoked, served, request>>
  BY <1>10 DEF FewerRows, request, found
<1>11. CASE Tick
  <2>1. now' \in 0..Horizon
    BY <1>11, TickType
  <2> QED
    BY <1>11, <2>1 DEF Tick
<1>12. CASE UNCHANGED vars
  BY <1>12 DEF vars, request, found
<1> QED
  BY <1>1, <1>2, <1>3, <1>4, <1>5, <1>6, <1>7, <1>8, <1>9, <1>10, <1>11, <1>12 DEF Steps

\* Requests go on acting for accounts that exist.
LEMMA AccountsStep ==
    RequestTypes /\ TableTypes /\ Accounts /\ Steps => Accounts'
<1> SUFFICES ASSUME RequestTypes, TableTypes, Accounts, Steps PROVE Accounts'
  OBVIOUS
<1> USE SessionsAssumption DEF RequestTypes, TableTypes, Accounts, tables
<1>1. ASSUME NEW r \in Requests, Send(r) PROVE Accounts'
  BY <1>1 DEF Send, Goto, At, found
<1>2. ASSUME NEW r \in Requests, Recognise(r) PROVE Accounts'
  BY <1>2 DEF Recognise, SessionFor, TokenFor, Goto, At, Live
<1>3. ASSUME NEW r \in Requests, GoOnAsGuest(r) PROVE Accounts'
  BY <1>3 DEF GoOnAsGuest, Goto, At, found
<1>4. ASSUME NEW r \in Requests, Unauthorized(r) PROVE Accounts'
  BY <1>4 DEF Unauthorized, Over, Forgotten, Goto, At
<1>5. ASSUME NEW r \in Requests, Register(r) PROVE Accounts'
  BY <1>5 DEF Register, Goto, At
<1>6. ASSUME NEW r \in Requests, Answer(r) PROVE Accounts'
  BY <1>6 DEF Answer, Over, Forgotten, Goto, At
<1>7. ASSUME NEW r \in Requests, At(r, "touch"), SlidRows(r), Passes(r) PROVE Accounts'
  <2>1. UNCHANGED users
    BY <1>7 DEF Passes
  <2>2. CASE Over(r)
    BY <2>1, <2>2 DEF Over, Forgotten, Goto
  <2>3. CASE Goto(r, "handle") /\ UNCHANGED <<as, who>>
    BY <2>1, <2>3 DEF Goto
  <2> QED
    BY <1>7, <2>2, <2>3 DEF Passes
<1>8. ASSUME NEW r \in Requests, AnswerWith(r), AddsRow(r) PROVE Accounts'
  BY <1>8 DEF AnswerWith, Answering, Forgotten, Goto, At, AddsRow, NewRow
<1>9. ASSUME NEW r \in Requests, AnswerWith(r), Deleted(r) PROVE Accounts'
  BY <1>9 DEF AnswerWith, Answering, Forgotten, Goto, At, Deleted, FewerRows
<1>10. CASE FewerRows /\ UNCHANGED <<now, users, jar, shown, issued, revoked, served, request>>
  BY <1>10 DEF FewerRows, request, found
<1>11. CASE Tick
  BY <1>11 DEF Tick, request, found
<1>12. CASE UNCHANGED vars
  BY <1>12 DEF vars, request, found
<1> QED
  BY <1>1, <1>2, <1>3, <1>4, <1>5, <1>6, <1>7, <1>8, <1>9, <1>10, <1>11, <1>12 DEF Steps

\* Every step refers to drawn secrets only.
LEMMA DrawnStep ==
    RequestTypes /\ TableTypes /\ Drawn /\ Steps => Drawn'
<1> SUFFICES ASSUME RequestTypes, TableTypes, Drawn, Steps PROVE Drawn'
  OBVIOUS
<1> USE SessionsAssumption DEF RequestTypes, TableTypes, Drawn, tables
<1>1. ASSUME NEW r \in Requests, Send(r) PROVE Drawn'
  BY <1>1 DEF Send, Goto, At, found
<1>2. ASSUME NEW r \in Requests, Recognise(r) PROVE Drawn'
  BY <1>2 DEF Recognise, SessionFor, TokenFor, Goto, At, Live
<1>3. ASSUME NEW r \in Requests, GoOnAsGuest(r) PROVE Drawn'
  BY <1>3 DEF GoOnAsGuest, Goto, At, found
<1>4. ASSUME NEW r \in Requests, Unauthorized(r) PROVE Drawn'
  BY <1>4 DEF Unauthorized, Over, Forgotten, Goto, At
<1>5. ASSUME NEW r \in Requests, Register(r) PROVE Drawn'
  BY <1>5 DEF Register, Goto, At
<1>6. ASSUME NEW r \in Requests, Answer(r) PROVE Drawn'
  BY <1>6 DEF Answer, Over, Forgotten, Goto, At
<1>7. ASSUME NEW r \in Requests, At(r, "touch"), SlidRows(r), Passes(r) PROVE Drawn'
  <2>1. UNCHANGED <<jar, shown, issued>>
    BY <1>7 DEF Passes
  <2>2. CASE Over(r)
    BY <2>1, <2>2 DEF Over, Forgotten, Goto
  <2>3. CASE UNCHANGED <<cred, setCookie>>
    BY <2>1, <2>3
  <2> QED
    BY <1>7, <2>2, <2>3 DEF Passes
<1>8. ASSUME NEW r \in Requests, AnswerWith(r), AddsRow(r) PROVE Drawn'
  BY <1>8 DEF AnswerWith, Answering, Forgotten, Goto, At, AddsRow, NewRow
<1>9. ASSUME NEW r \in Requests, AnswerWith(r), Deleted(r) PROVE Drawn'
  BY <1>9 DEF AnswerWith, Answering, Forgotten, Goto, At, Deleted, FewerRows
<1>10. CASE FewerRows /\ UNCHANGED <<now, users, jar, shown, issued, revoked, served, request>>
  BY <1>10 DEF FewerRows, request, found
<1>11. CASE Tick
  BY <1>11 DEF Tick, request, found
<1>12. CASE UNCHANGED vars
  BY <1>12 DEF vars, request, found
<1> QED
  BY <1>1, <1>2, <1>3, <1>4, <1>5, <1>6, <1>7, <1>8, <1>9, <1>10, <1>11, <1>12 DEF Steps

\* No step brings a deleted row back or recognises its secret.
LEMMA GoneStep ==
    RequestTypes /\ TableTypes /\ Drawn /\ Strangers /\ Gone /\ Steps => Gone'
<1> SUFFICES ASSUME RequestTypes, TableTypes, Drawn, Strangers, Gone, Steps PROVE Gone'
  OBVIOUS
<1> USE SessionsAssumption DEF RequestTypes, TableTypes, Drawn, Strangers, Gone, tables
<1>1. ASSUME NEW r \in Requests, Send(r) PROVE Gone'
  <2>1. PICK c \in shown \cup {jar} :
          /\ cred' = [cred EXCEPT ![r] = c]
          /\ dead' = IF c \in revoked THEN dead \cup {r} ELSE dead
    BY <1>1 DEF Send
  <2>2. UNCHANGED <<rows, revoked, as>>
    BY <1>1 DEF Send, found
  <2>3. as[r] = Nobody /\ r \notin dead
    BY <1>1 DEF Send, At
  <2>4. ASSUME NEW q \in dead' PROVE cred'[q] \in revoked' /\ as'[q] = Nobody
    <3>1. CASE q = r
      <4>1. c \in revoked
        BY <2>1, <2>3, <2>4, <3>1
      <4>2. cred'[r] = c
        BY <2>1
      <4> QED
        BY <2>2, <2>3, <3>1, <4>1, <4>2
    <3>2. CASE q /= r
      BY <2>1, <2>2, <2>4, <3>2
    <3> QED
      BY <3>1, <3>2
  <2> QED
    BY <2>2, <2>4
<1>2. ASSUME NEW r \in Requests, Recognise(r) PROVE Gone'
  BY <1>2 DEF Recognise, SessionFor, TokenFor, Goto, At, Live
<1>3. ASSUME NEW r \in Requests, GoOnAsGuest(r) PROVE Gone'
  BY <1>3 DEF GoOnAsGuest, Goto, At, found
<1>4. ASSUME NEW r \in Requests, Unauthorized(r) PROVE Gone'
  BY <1>4 DEF Unauthorized, Over, Forgotten, Goto, At
<1>5. ASSUME NEW r \in Requests, Register(r) PROVE Gone'
  BY <1>5 DEF Register, Goto, At
<1>6. ASSUME NEW r \in Requests, Answer(r) PROVE Gone'
  BY <1>6 DEF Answer, Over, Forgotten, Goto, At
<1>7. ASSUME NEW r \in Requests, At(r, "touch"), SlidRows(r), Passes(r) PROVE Gone'
  <2>1. DOMAIN rows' = DOMAIN rows /\ UNCHANGED revoked
    BY <1>7 DEF SlidRows, Passes
  <2>2. CASE Over(r)
    BY <2>1, <2>2 DEF Over, Forgotten
  <2>3. CASE UNCHANGED <<cred, dead, as>>
    BY <2>1, <2>3
  <2> QED
    BY <1>7, <2>2, <2>3 DEF Passes
<1>8. ASSUME NEW r \in Requests, AnswerWith(r), AddsRow(r) PROVE Gone'
  <2>1. dead' = dead \ {r} /\ \A q \in dead' : cred'[q] = cred[q] /\ as'[q] = as[q]
    BY <1>8 DEF AnswerWith, Answering, Forgotten
  <2>2. revoked' \cap DOMAIN rows' = {}
    BY <1>8 DEF AddsRow, NewRow
  <2> QED
    BY <1>8, <2>1, <2>2 DEF AddsRow
<1>9. ASSUME NEW r \in Requests, AnswerWith(r), Deleted(r) PROVE Gone'
  <2>1. dead' = dead \ {r} /\ \A q \in dead' : cred'[q] = cred[q] /\ as'[q] = as[q]
    BY <1>9 DEF AnswerWith, Answering, Forgotten
  <2>2. DOMAIN rows' \subseteq DOMAIN rows
    BY <1>9 DEF Deleted, FewerRows
  <2>3. \/ UNCHANGED <<rows, revoked>>
        \/ \E c \in issued : revoked' = revoked \cup {c} /\ c \notin DOMAIN rows'
    BY <1>9 DEF Deleted
  <2>4. revoked \subseteq revoked' /\ revoked' \cap DOMAIN rows' = {}
    <3> HIDE DEF RequestTypes, TableTypes, Drawn, Strangers
    <3>1. CASE UNCHANGED <<rows, revoked>>
      BY <3>1
    <3>2. CASE \E c \in issued : revoked' = revoked \cup {c} /\ c \notin DOMAIN rows'
      BY <2>2, <3>2
    <3> QED
      BY <2>3, <3>1, <3>2
  <2> QED
    BY <2>1, <2>4
<1>10. CASE FewerRows /\ UNCHANGED <<now, users, jar, shown, issued, revoked, served, request>>
  BY <1>10 DEF FewerRows, request, found
<1>11. CASE Tick
  BY <1>11 DEF Tick, request, found
<1>12. CASE UNCHANGED vars
  BY <1>12 DEF vars, request, found
<1> QED
  BY <1>1, <1>2, <1>3, <1>4, <1>5, <1>6, <1>7, <1>8, <1>9, <1>10, <1>11, <1>12 DEF Steps

\* Nobody is recognised before the lookup.
LEMMA StrangersStep ==
    RequestTypes /\ TableTypes /\ Strangers /\ Steps => Strangers'
<1> SUFFICES ASSUME RequestTypes, TableTypes, Strangers, Steps PROVE Strangers'
  OBVIOUS
<1> USE SessionsAssumption DEF RequestTypes, TableTypes, Strangers, tables
<1>1. ASSUME NEW r \in Requests, Send(r) PROVE Strangers'
  BY <1>1 DEF Send, Goto, At, found
<1>2. ASSUME NEW r \in Requests, Recognise(r) PROVE Strangers'
  BY <1>2 DEF Recognise, SessionFor, TokenFor, Goto, At, Live
<1>3. ASSUME NEW r \in Requests, GoOnAsGuest(r) PROVE Strangers'
  BY <1>3 DEF GoOnAsGuest, Goto, At, found
<1>4. ASSUME NEW r \in Requests, Unauthorized(r) PROVE Strangers'
  BY <1>4 DEF Unauthorized, Over, Forgotten, Goto, At
<1>5. ASSUME NEW r \in Requests, Register(r) PROVE Strangers'
  BY <1>5 DEF Register, Goto, At
<1>6. ASSUME NEW r \in Requests, Answer(r) PROVE Strangers'
  BY <1>6 DEF Answer, Over, Forgotten, Goto, At
<1>7. ASSUME NEW r \in Requests, At(r, "touch"), SlidRows(r), Passes(r) PROVE Strangers'
  <2>1. CASE Over(r)
    BY <1>7, <2>1 DEF Over, Forgotten, Goto
  <2>2. CASE Goto(r, "handle") /\ UNCHANGED <<as, dead>>
    BY <2>2 DEF Goto
  <2> QED
    BY <1>7, <2>1, <2>2 DEF Passes
<1>8. ASSUME NEW r \in Requests, AnswerWith(r), AddsRow(r) PROVE Strangers'
  BY <1>8 DEF AnswerWith, Answering, Forgotten, Goto, At, AddsRow, NewRow
<1>9. ASSUME NEW r \in Requests, AnswerWith(r), Deleted(r) PROVE Strangers'
  BY <1>9 DEF AnswerWith, Answering, Forgotten, Goto, At, Deleted, FewerRows
<1>10. CASE FewerRows /\ UNCHANGED <<now, users, jar, shown, issued, revoked, served, request>>
  BY <1>10 DEF FewerRows, request, found
<1>11. CASE Tick
  BY <1>11 DEF Tick, request, found
<1>12. CASE UNCHANGED vars
  BY <1>12 DEF vars, request, found
<1> QED
  BY <1>1, <1>2, <1>3, <1>4, <1>5, <1>6, <1>7, <1>8, <1>9, <1>10, <1>11, <1>12 DEF Steps

\* Clocked of one row, and that it is kept whatever else happens to the tables.
ClockedRow(c) ==
    /\ c \in SessionIds => /\ rows[c].expires = rows[c].used + SessionLifetime
                           /\ rows[c].used <= served[c] /\ served[c] <= now
                           /\ served[c] - rows[c].used < TouchInterval
    /\ c \in Pats => rows[c].expires = served[c] + APITokenLifetime

\* Columns that did not change stay in step as the clock moves on.
LEMMA ClockedKept ==
    ASSUME TableTypes, Clocked, NEW c \in DOMAIN rows,
           rows'[c] = rows[c], served'[c] = served[c], now' \in {now, now + 1}
    PROVE  ClockedRow(c)'
<1>1. rows[c].used \in Nat /\ served[c] \in Nat /\ now \in Nat
  BY NowNat DEF TableTypes, Rows, Credentials
<1> QED
  BY <1>1 DEF Clocked, ClockedRow

\* The columns of a new row are in step.
LEMMA ClockedNew ==
    ASSUME TableTypes, NEW c \in Credentials, NEW u \in users, NEW lifetime \in Nat,
           NewRow(c, u, lifetime), UNCHANGED now,
           c \in SessionIds => lifetime = SessionLifetime,
           c \in Pats => lifetime = APITokenLifetime
    PROVE  ClockedRow(c)'
<1>1. /\ rows'[c].used = now /\ rows'[c].expires = now + lifetime
      /\ served'[c] = now /\ now \in Nat
  BY NowNat DEF NewRow, Row
<1>2. TouchInterval \in Nat /\ 0 < TouchInterval
  BY SessionsAssumption
<1> QED
  BY <1>1, <1>2 DEF ClockedRow

\* The columns of a row that was touched are in step: a touch that skips its
\* write relies on what the request read being no later than what the row says.
LEMMA ClockedSlid ==
    ASSUME TableTypes, RequestTypes, Clocked, SeenEarlier, NEW r \in Requests, At(r, "touch"),
           NEW c \in DOMAIN rows, Slide(r, c), UNCHANGED now
    PROVE  ClockedRow(c)'
<1>1. c \in SessionIds /\ c = cred[r] /\ served'[c] = now /\ c \notin Pats
  BY SessionsAssumption DEF Slide
<1>2. /\ rows[c].used \in Nat /\ served[c] \in Nat /\ now \in Nat /\ seen[r] \in Nat
      /\ TouchInterval \in Nat /\ 0 < TouchInterval /\ SessionLifetime \in Nat
  BY NowNat, SessionsAssumption DEF TableTypes, Rows, Credentials, RequestTypes
<1>3. CASE rows'[c] = Row(rows[c].user, now, now + SessionLifetime)
  BY <1>1, <1>2, <1>3 DEF ClockedRow, Row
<1>4. CASE rows'[c] = rows[c] /\ now - seen[r] < TouchInterval
  <2>1. seen[r] <= rows[c].used
    BY <1>1 DEF SeenEarlier, At
  <2>2. /\ rows[c].expires = rows[c].used + SessionLifetime
        /\ rows[c].used <= served[c] /\ served[c] <= now
    BY <1>1 DEF Clocked
  <2>3. now - rows[c].used < TouchInterval /\ rows[c].used <= now /\ now <= now
    BY <1>2, <1>4, <2>1, <2>2
  <2> QED
    BY <1>1, <1>4, <2>2, <2>3 DEF ClockedRow
<1> QED
  BY <1>3, <1>4 DEF Slide

\* The columns of the rows stay in step.
LEMMA ClockedStep ==
    RequestTypes /\ TableTypes /\ Clocked /\ SeenEarlier /\ Steps => Clocked'
<1> SUFFICES ASSUME RequestTypes, TableTypes, Clocked, SeenEarlier, Steps,
                    NEW c \in (DOMAIN rows)'
             PROVE  ClockedRow(c)'
  BY DEF Clocked, ClockedRow
<1>1. CASE UNCHANGED <<rows, served>> /\ now' \in {now, now + 1}
  BY <1>1, ClockedKept
<1>2. CASE FewerRows /\ UNCHANGED <<served, now>>
  BY <1>2, ClockedKept DEF FewerRows
<1>3. ASSUME NEW r \in Requests, At(r, "touch"), SlidRows(r), Passes(r)
      PROVE  ClockedRow(c)'
  <2>1. c \in DOMAIN rows /\ UNCHANGED now
    BY <1>3 DEF SlidRows, Passes
  <2>2. CASE Slide(r, c)
    BY <1>3, <2>1, <2>2, ClockedSlid
  <2>3. CASE rows'[c] = rows[c] /\ served'[c] = served[c]
    BY <2>1, <2>3, ClockedKept
  <2> QED
    BY <1>3, <2>1, <2>2, <2>3 DEF SlidRows
<1>4. ASSUME NEW r \in Requests, AddsRow(r)
      PROVE  ClockedRow(c)'
  <2>1. UNCHANGED now
    BY <1>4 DEF AddsRow
  <2>2. ASSUME NEW u \in users, NEW d \in Credentials, NEW lifetime \in Nat,
               NewRow(d, u, lifetime),
               d \in SessionIds => lifetime = SessionLifetime,
               d \in Pats => lifetime = APITokenLifetime
        PROVE  ClockedRow(c)'
    <3>1. CASE c = d
      BY <2>1, <2>2, <3>1, ClockedNew
    <3>2. CASE c # d
      <4>1. c \in DOMAIN rows /\ rows'[c] = rows[c] /\ served'[c] = served[c]
        BY <2>2, <3>2 DEF NewRow
      <4> QED
        BY <2>1, <4>1, ClockedKept
    <3> QED
      BY <3>1, <3>2
  <2>3. PICK u \in users :
           \/ \E d \in SessionIds : NewRow(d, u, SessionLifetime)
           \/ \E d \in Pats : NewRow(d, u, APITokenLifetime)
    BY <1>4 DEF AddsRow
  <2>4. \A d \in SessionIds : d \in Credentials /\ d \notin Pats
    BY SessionsAssumption DEF Credentials
  <2>5. \A d \in Pats : d \in Credentials /\ d \notin SessionIds
    BY SessionsAssumption DEF Credentials
  <2>6. SessionLifetime \in Nat /\ APITokenLifetime \in Nat
    BY SessionsAssumption
  <2> QED
    BY <2>2, <2>3, <2>4, <2>5, <2>6
<1>5. ASSUME NEW r \in Requests,
             \/ Send(r) \/ Recognise(r) \/ GoOnAsGuest(r) \/ Unauthorized(r)
             \/ Register(r) \/ Answer(r)
      PROVE  UNCHANGED <<rows, served>> /\ now' = now
  BY <1>5 DEF Send, Recognise, GoOnAsGuest, Unauthorized, Register, Answer, tables
<1>6. ASSUME NEW r \in Requests, Deleted(r) PROVE FewerRows /\ UNCHANGED <<served, now>>
  BY <1>6 DEF Deleted
<1>7. Tick => UNCHANGED <<rows, served>> /\ now' = now + 1
  BY DEF Tick, tables
<1>8. UNCHANGED vars => UNCHANGED <<rows, served>> /\ now' = now
  BY DEF vars, tables
<1> QED
  BY <1>1, <1>2, <1>3, <1>4, <1>5, <1>6, <1>7, <1>8 DEF Steps

\* A row is written no earlier than what requests have read of it: stale reads
\* are behind the row, never ahead of it.
LEMMA SeenStep ==
    RequestTypes /\ TableTypes /\ Drawn /\ Clocked /\ SeenEarlier /\ Steps => SeenEarlier'
<1> SUFFICES ASSUME RequestTypes, TableTypes, Drawn, Clocked, SeenEarlier, Steps,
                    NEW q \in Requests, pc'[q] = "touch",
                    cred'[q] \in DOMAIN rows' \cap SessionIds
             PROVE  seen'[q] <= rows'[cred'[q]].used
  BY DEF SeenEarlier
<1> DEFINE Reads == /\ pc[q] = "touch" /\ cred'[q] = cred[q] /\ seen'[q] = seen[q]
<1>1. CASE Reads /\ cred[q] \in DOMAIN rows /\ rows'[cred[q]] = rows[cred[q]]
  BY <1>1 DEF SeenEarlier
<1>2. ASSUME NEW r \in Requests, Recognise(r)
      PROVE  seen'[q] <= rows'[cred'[q]].used
  <2>1. UNCHANGED <<rows, cred>>
    BY <1>2 DEF Recognise, tables
  <2>2. CASE q = r
    <3>1. seen'[q] = rows[cred[q]].used
      BY <1>2, <2>2 DEF Recognise, RequestTypes
    <3>2. rows[cred[q]].used \in Nat
      BY <2>1 DEF TableTypes, Rows
    <3> QED
      BY <2>1, <3>1, <3>2
  <2>3. CASE q # r
    <3>1. Reads
      BY <1>2, <2>1, <2>3 DEF Recognise, Goto, RequestTypes
    <3> QED
      BY <1>1, <2>1, <3>1
  <2> QED
    BY <2>2, <2>3
<1>3. ASSUME NEW r \in Requests, At(r, "touch"), SlidRows(r), Passes(r)
      PROVE  seen'[q] <= rows'[cred'[q]].used
  <2>1. q # r /\ Reads
    <3>1. CASE Over(r)
      BY <3>1 DEF Over, Forgotten, Goto, RequestTypes
    <3>2. CASE /\ Goto(r, "handle") /\ seen' = [seen EXCEPT ![r] = 0]
               /\ UNCHANGED <<cred, dead, as, who, setCookie>>
      BY <3>2 DEF Goto, RequestTypes
    <3> QED
      BY <1>3, <3>1, <3>2 DEF Passes
  <2>2. cred[q] \in DOMAIN rows /\ cred[q] \in SessionIds
    BY <1>3, <2>1 DEF SlidRows
  <2>3. CASE rows'[cred[q]] = rows[cred[q]]
    BY <1>1, <2>1, <2>2, <2>3
  <2>4. CASE rows'[cred[q]] = Row(rows[cred[q]].user, now, now + SessionLifetime)
    <3>1. seen[q] <= rows[cred[q]].used
      BY <2>1, <2>2 DEF SeenEarlier
    <3>2. rows[cred[q]].used <= served[cred[q]] /\ served[cred[q]] <= now
      BY <2>2 DEF Clocked
    <3>3. /\ seen[q] \in Nat /\ rows[cred[q]].used \in Nat /\ now \in Nat
          /\ served[cred[q]] \in Nat
      BY <2>2, NowNat DEF RequestTypes, TableTypes, Rows, Credentials
    <3>4. seen[q] <= now
      BY <3>1, <3>2, <3>3
    <3> QED
      BY <2>1, <2>4, <3>4 DEF Row
  <2> QED
    BY <1>3, <2>2, <2>3, <2>4 DEF SlidRows, Slide
<1>4. ASSUME NEW r \in Requests, AnswerWith(r) PROVE Reads
  BY <1>4 DEF AnswerWith, Answering, Forgotten, Goto, RequestTypes
<1>5. ASSUME NEW r \in Requests, AnswerWith(r), AddsRow(r)
      PROVE  seen'[q] <= rows'[cred'[q]].used
  <2>1. PICK d \in Credentials : /\ d \notin issued /\ DOMAIN rows' = DOMAIN rows \cup {d}
                                 /\ \A c \in DOMAIN rows : rows'[c] = rows[c]
    BY <1>5 DEF AddsRow, NewRow, Credentials
  <2>2. cred[q] \in issued
    BY <1>4, <1>5, SessionsAssumption DEF Drawn, Credentials
  <2>3. cred[q] \in DOMAIN rows
    BY <1>4, <1>5, <2>1, <2>2
  <2> QED
    BY <1>1, <1>4, <1>5, <2>1, <2>3
<1>6. CASE FewerRows /\ Reads
  BY <1>1, <1>6 DEF FewerRows
<1>7. ASSUME NEW r \in Requests, Deleted(r) PROVE FewerRows
  BY <1>7 DEF Deleted
<1>8. ASSUME NEW r \in Requests,
             \/ Send(r) \/ GoOnAsGuest(r) \/ Unauthorized(r) \/ Register(r) \/ Answer(r)
      PROVE  UNCHANGED rows /\ Reads
  <2>1. UNCHANGED rows
    BY <1>8 DEF Send, GoOnAsGuest, Unauthorized, Register, Answer, tables
  <2>2. CASE Send(r)
    <3>1. PICK c \in shown \cup {jar} : cred' = [cred EXCEPT ![r] = c]
      BY <2>2 DEF Send
    <3>2. pc' = [pc EXCEPT ![r] = "lookup"] /\ UNCHANGED seen
      BY <2>2 DEF Send, Goto, found
    <3> QED
      BY <2>1, <3>1, <3>2 DEF RequestTypes
  <2>3. CASE GoOnAsGuest(r)
    BY <2>1, <2>3 DEF GoOnAsGuest, Goto, found, RequestTypes
  <2>4. CASE Register(r)
    BY <2>1, <2>4 DEF Register, Goto, RequestTypes
  <2>5. CASE Over(r)
    BY <2>1, <2>5 DEF Over, Forgotten, Goto, RequestTypes
  <2> QED
    BY <1>8, <2>1, <2>2, <2>3, <2>4, <2>5 DEF Unauthorized, Answer
<1>9. UNCHANGED <<rows, request>> => UNCHANGED rows /\ Reads
  BY DEF request, found
<1>10. (FewerRows /\ UNCHANGED request) => FewerRows /\ Reads
  BY DEF request, found
<1>11. CASE UNCHANGED rows /\ Reads
  BY <1>1, <1>11
<1>12. (Tick \/ UNCHANGED vars) => UNCHANGED <<rows, request>>
  BY DEF Tick, vars, tables
<1> HIDE DEF Reads
<1> QED
  BY <1>2, <1>3, <1>4, <1>5, <1>6, <1>7, <1>8, <1>9, <1>10, <1>11, <1>12 DEF Steps

-----------------------------------------------------------------------------
\* The theorems.

\* The invariant is inductive.
LEMMA StepIInv == IInv /\ [Next]_vars => IInv'
<1> SUFFICES ASSUME IInv, [Next]_vars PROVE IInv'
  OBVIOUS
<1> USE DEF IInv
<1>1. Steps
  BY StepKinds
<1>2. RequestTypes' /\ TableTypes'
  BY <1>1, RequestTypesStep, TableTypesStep
<1>3. Drawn' /\ Accounts' /\ Strangers' /\ Gone'
  BY <1>1, DrawnStep, AccountsStep, StrangersStep, GoneStep
<1>4. Clocked' /\ SeenEarlier'
  BY <1>1, ClockedStep, SeenStep
<1> QED
  BY <1>2, <1>3, <1>4

\* It is an invariant of the specification.
LEMMA Invariant == Spec => []IInv
  BY InitIInv, StepIInv, PTL DEF Spec

\* The tables of accounts, sessions and tokens, and what requests carry of them,
\* stay well typed: every row is of an account that exists, under a secret drawn.
THEOREM Types == Spec => []TypeOK
<1>1. IInv => TypeOK
  BY Halves DEF IInv
<1> QED
  BY <1>1, Invariant, PTL

\* A session signed out of, or a token revoked, is honoured for no request sent
\* afterwards, whatever requests were under way when it was deleted.
THEOREM Revocation == Spec => []RevokedStaysRevoked
<1>1. IInv => RevokedStaysRevoked
  BY DEF IInv, Gone, RevokedStaysRevoked
<1> QED
  BY <1>1, Invariant, PTL

\* A session stays good for its lifetime, less one touch interval, from its last
\* use, in whatever order the touches of several requests are written.
THEOREM Sliding == Spec => []UsedSessionsLast
<1>1. IInv => UsedSessionsLast
  <2> SUFFICES ASSUME IInv, NEW c \in DOMAIN rows \cap SessionIds
               PROVE  rows[c].expires > served[c] + SessionLifetime - TouchInterval
    BY DEF UsedSessionsLast
  <2>1. /\ rows[c].used \in Nat /\ served[c] \in Nat
        /\ SessionLifetime \in Nat /\ TouchInterval \in Nat
    BY SessionsAssumption DEF IInv, TableTypes, Rows, Credentials
  <2>2. /\ rows[c].expires = rows[c].used + SessionLifetime
        /\ served[c] - rows[c].used < TouchInterval
    BY DEF IInv, Clocked
  <2> QED
    BY <2>1, <2>2
<1> QED
  BY <1>1, Invariant, PTL

\* Only a lookup takes a request for somebody.
LEMMA OnlyRecognised ==
    ASSUME RequestTypes, TableTypes, Accounts, Drawn, [Next]_vars,
           NEW r \in Requests, as[r] = Nobody, as'[r] # Nobody
    PROVE  Recognise(r)
<1> USE DEF RequestTypes
<1>1. ASSUME NEW q \in Requests, Recognise(q) PROVE q = r
  BY <1>1 DEF Recognise
<1>2. ASSUME NEW q \in Requests,
             \/ Over(q) \/ \E cookie : Answering(q, cookie)
      PROVE  FALSE
  BY <1>2 DEF Over, Answering, Forgotten
<1>3. UNCHANGED as => FALSE
  OBVIOUS
<1>4. \/ \E q \in Requests : \/ Recognise(q) \/ Over(q)
                             \/ \E cookie : Answering(q, cookie)
      \/ UNCHANGED as
  <2>1. ASSUME NEW q \in Requests, Send(q) \/ GoOnAsGuest(q) \/ Register(q)
        PROVE  UNCHANGED as
    BY <2>1 DEF Send, GoOnAsGuest, Register, found
  <2>2. ASSUME NEW q \in Requests, Unauthorized(q) \/ Answer(q) PROVE Over(q)
    BY <2>2 DEF Unauthorized, Answer
  <2>3. ASSUME NEW q \in Requests, Passes(q) PROVE Over(q) \/ UNCHANGED as
    BY <2>3 DEF Passes
  <2>4. ASSUME NEW q \in Requests, AnswerWith(q) PROVE \E cookie : Answering(q, cookie)
    BY <2>4 DEF AnswerWith
  <2>5. UNCHANGED request \/ UNCHANGED vars \/ Tick => UNCHANGED as
    BY DEF request, found, vars, Tick
  <2> QED
    BY <2>1, <2>2, <2>3, <2>4, <2>5, StepKinds DEF Steps
<1> QED
  BY <1>1, <1>2, <1>3, <1>4

\* A request is taken for somebody only while its session is within its lifetime
\* of its last use, or its token within its lifetime of its making.
THEOREM Lapsing == Spec => CredentialsLapse
<1>1. IInv /\ [Next]_vars =>
        [\A r \in Requests : as[r] = Nobody /\ as'[r] # Nobody =>
           LET c == cred[r] IN
           now - served[c] < IF c \in Pats THEN APITokenLifetime ELSE SessionLifetime]_vars
  <2> SUFFICES ASSUME IInv, [Next]_vars,
                      NEW r \in Requests, as[r] = Nobody, as'[r] # Nobody
               PROVE  now - served[cred[r]] <
                        IF cred[r] \in Pats THEN APITokenLifetime ELSE SessionLifetime
    OBVIOUS
  <2> DEFINE c == cred[r]
  <2>1. c \in DOMAIN rows /\ rows[c].expires > now
    BY OnlyRecognised DEF IInv, Recognise, SessionFor, TokenFor, Live
  <2>2. /\ c \in SessionIds \/ c \in Pats
        /\ rows[c].used \in Nat /\ served[c] \in Nat /\ now \in Nat
    BY <2>1, NowNat DEF IInv, TableTypes, Rows, Credentials
  <2>3. /\ c \in SessionIds => /\ rows[c].expires = rows[c].used + SessionLifetime
                               /\ rows[c].used <= served[c]
        /\ c \in Pats => rows[c].expires = served[c] + APITokenLifetime
    BY <2>1 DEF IInv, Clocked
  <2>4. SessionLifetime \in Nat /\ APITokenLifetime \in Nat
    BY SessionsAssumption
  <2> HIDE DEF c
  <2>5. now - served[c] < IF c \in Pats THEN APITokenLifetime ELSE SessionLifetime
    BY <2>1, <2>2, <2>3, <2>4
  <2> QED
    BY <2>5 DEF c
<1> QED
  BY <1>1, Invariant, PTL DEF Spec, CredentialsLapse

\* Who deletes a row that is still good: a request that presented the session, or
\* one of the token's owner, and that is the end of the request.
DeletedBy(c, r) ==
    /\ At(r, "handle") /\ ~At(r, "handle")'
    /\ \/ cred[r] = c
       \/ c \in Pats /\ as[r] = rows[c].user

LEMMA LossByHandler ==
    ASSUME RequestTypes, TableTypes, NEW r \in Requests, Logout(r) \/ RevokeToken(r),
           NEW c \in DOMAIN rows \ DOMAIN rows'
    PROVE  DeletedBy(c, r)
<1>1. ASSUME NEW d, rows' = Without(d) PROVE c = d
  BY <1>1 DEF Without
<1>2. pc[r] = "handle" /\ pc'[r] = "answer"
  BY DEF Logout, RevokeToken, At, Answering, Goto, RequestTypes
<1>3. CASE Logout(r)
  <2>1. rows' = Without(cred[r])
    BY <1>3 DEF Logout
  <2> QED
    BY <1>1, <1>2, <2>1 DEF DeletedBy, At
<1>4. CASE RevokeToken(r)
  <2>1. PICK d \in Pats : Deletes(r, d) /\ rows' = Without(d)
    BY <1>4 DEF RevokeToken
  <2>2. c \in Pats /\ as[r] = rows[c].user
    BY <1>1, <2>1 DEF Deletes
  <2> QED
    BY <1>2, <2>2 DEF DeletedBy, At
<1> QED
  BY <1>3, <1>4

\* A good session or token is deleted by who holds it and by nobody else: neither a
\* sweep, nor another account, nor a touch that comes late.
THEOREM NothingLiveIsEverLost == Spec => NothingLiveIsLost
<1>1. ASSUME IInv, [Next]_vars, NEW c \in DOMAIN rows \ DOMAIN rows', Live(c)
      PROVE  \E r \in Requests : DeletedBy(c, r)
  <2>1. RequestTypes /\ TableTypes /\ Accounts /\ Drawn
    BY <1>1 DEF IInv
  <2>2. ASSUME NEW t, Sweep(t) PROVE FALSE
    <3>1. rows[c].expires <= now
      BY <1>1, <2>2 DEF Sweep, Due
    <3>2. rows[c].expires > now /\ rows[c].expires \in Nat /\ now \in Nat
      BY <1>1, <2>1, NowNat DEF Live, TableTypes, Rows
    <3> QED
      BY <3>1, <3>2
  <2>3. ASSUME NEW r \in Requests, Touch(r) PROVE FALSE
    BY <1>1, <2>1, <2>3, TouchEffect DEF SlidRows
  <2>4. ASSUME NEW r \in Requests, NEW u, SignIn(r, u) PROVE FALSE
    BY <1>1, <2>4 DEF SignIn, Draw
  <2>5. ASSUME NEW r \in Requests, CreateToken(r) PROVE FALSE
    BY <1>1, <2>5 DEF CreateToken, Create, Draw
  <2>6. ASSUME NEW r \in Requests, Login(r) \/ Registered(r) PROVE FALSE
    BY <1>1, <2>4, <2>6 DEF Login, Registered, tables
  <2>7. ASSUME NEW r \in Requests,
               \/ Send(r) \/ Recognise(r) \/ GoOnAsGuest(r) \/ Unauthorized(r)
               \/ AnswerOnly(r) \/ Register(r) \/ Answer(r)
        PROVE  FALSE
    BY <1>1, <2>7 DEF Send, Recognise, GoOnAsGuest, Unauthorized, AnswerOnly, Register,
                      Answer, tables
  <2>8. CASE Tick \/ UNCHANGED vars
    BY <1>1, <2>8 DEF Tick, vars, tables
  <2>9. CASE \E r \in Requests : Logout(r) \/ RevokeToken(r)
    BY <1>1, <2>1, <2>9, LossByHandler
  <2> QED
    BY <1>1, <2>2, <2>3, <2>5, <2>6, <2>7, <2>8, <2>9 DEF Next
<1>2. IInv /\ [Next]_vars =>
        [\A c \in DOMAIN rows \ DOMAIN rows' : Live(c) =>
           \E r \in Requests :
              /\ At(r, "handle") /\ ~At(r, "handle")'
              /\ \/ cred[r] = c
                 \/ c \in Pats /\ as[r] = rows[c].user]_vars
  BY <1>1 DEF DeletedBy
<1> QED
  BY <1>2, Invariant, PTL DEF Spec, NothingLiveIsLost
=============================================================================
