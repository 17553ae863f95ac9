------------------------------ MODULE Sessions ------------------------------
(***************************************************************************)
(* internal/auth: accounts, the sessions a browser holds by cookie and the *)
(* API tokens an agent holds by configuration.  One browser, with several  *)
(* requests on their way at once, and agents that present any token they   *)
(* were ever given.  Requests are goroutines of net/http; a database call  *)
(* is one statement, and one action, and any of them may fail.  A secret   *)
(* stands for its digest.  The limiter before signing in is RateLimiter's; *)
(* here it is one more way to be refused.                                  *)
(***************************************************************************)
EXTENDS Integers

CONSTANTS
    Requests,           \* requests in progress together
    Users,              \* addresses that can have an account
    SessionIds,         \* session tokens that can be drawn
    Pats,               \* API tokens that can be drawn
    SessionLifetime,    \* ticks a session lasts without use
    TouchInterval,      \* touchInterval
    APITokenLifetime,   \* ticks an API token lasts
    Horizon,            \* bound: the last tick explored
    Nobody,             \* no user
    NoCookie,           \* no credential
    Keep                \* an answer without a Set-Cookie

Credentials == SessionIds \cup Pats

ASSUME SessionsAssumption ==
    /\ SessionIds \cap Pats = {}
    /\ NoCookie \notin Credentials /\ Nobody \notin Users
    /\ Keep \notin Credentials \cup {NoCookie}
    /\ TouchInterval \in Nat /\ SessionLifetime \in Nat /\ APITokenLifetime \in Nat
    /\ 0 < TouchInterval /\ TouchInterval <= SessionLifetime
    /\ Horizon \in Nat

VARIABLES
    now,        \* the database's clock
    users,      \* users: the addresses registered
    rows,       \* sessions and api_token, by secret
    jar,        \* the browser's session cookie
    shown,      \* API tokens whose plaintext a learner was given
    pc,         \* where each request is
    cred,       \* the credential it was sent with
    as,         \* whom it is taken for
    seen,       \* the last_used_at that was looked up
    who,        \* whom it registers
    setCookie,  \* what its answer does to the cookie
    \* History variables:
    issued,     \* secrets ever drawn
    revoked,    \* those a learner had deleted
    served,     \* when each was last used: for a token, when it was made
    dead        \* requests sent with a secret that was deleted before

tables == <<users, rows, shown, issued, revoked, served>>
found == <<as, seen, who>>
request == <<pc, cred, dead, found, setCookie>>
vars == <<now, jar, tables, request>>

Row(u, used, expires) == [user |-> u, used |-> used, expires |-> expires]
Rows == [user : Users, used : Nat, expires : Nat]

Init ==
    /\ now = 0 /\ users = {} /\ jar = NoCookie /\ shown = {}
    /\ rows = [c \in {} |-> Row(Nobody, 0, 0)]
    /\ pc = [r \in Requests |-> "idle"]
    /\ cred = [r \in Requests |-> NoCookie] /\ dead = {}
    /\ as = [r \in Requests |-> Nobody] /\ who = [r \in Requests |-> Nobody]
    /\ seen = [r \in Requests |-> 0]
    /\ setCookie = [r \in Requests |-> Keep]
    /\ issued = {} /\ revoked = {}
    /\ served = [c \in Credentials |-> 0]

At(r, label) == pc[r] = label
Goto(r, label) == pc' = [pc EXCEPT ![r] = label]

Forgotten(r) ==
    /\ cred' = [cred EXCEPT ![r] = NoCookie] /\ dead' = dead \ {r}
    /\ as' = [as EXCEPT ![r] = Nobody] /\ who' = [who EXCEPT ![r] = Nobody]
    /\ seen' = [seen EXCEPT ![r] = 0]

\* The handler returns: its answer is on the way to the browser.  Of several
\* Set-Cookies of one name the last prevails, and a handler's is after LoadUser's.
Answering(r, cookie) ==
    /\ Goto(r, "answer") /\ Forgotten(r)
    /\ setCookie' = [setCookie EXCEPT ![r] = cookie]

\* The request is over.  An agent's answer changes nothing that it holds.
Over(r) ==
    /\ Goto(r, "idle") /\ Forgotten(r)
    /\ setCookie' = [setCookie EXCEPT ![r] = Keep]

-----------------------------------------------------------------------------
\* LoadUser and RequireToken.

Send(r) ==
    /\ At(r, "idle") /\ Goto(r, "lookup")
    /\ \E c \in shown \cup {jar} :
         /\ cred' = [cred EXCEPT ![r] = c]
         /\ dead' = IF c \in revoked THEN dead \cup {r} ELSE dead
    /\ UNCHANGED <<now, jar, tables, found, setCookie>>

Live(c) == c \in DOMAIN rows /\ rows[c].expires > now

\* The two stores' Lookup; the tokens' asks only for what bears their prefix.
SessionFor(c) == c \in SessionIds /\ Live(c)
TokenFor(c) == c \in Pats /\ Live(c)

Recognise(r) ==
    /\ At(r, "lookup") /\ Goto(r, "touch")
    /\ SessionFor(cred[r]) \/ TokenFor(cred[r])
    /\ as' = [as EXCEPT ![r] = rows[cred[r]].user]
    /\ seen' = [seen EXCEPT ![r] = rows[cred[r]].used]
    /\ UNCHANGED <<now, jar, tables, cred, dead, who, setCookie>>

\* No credential, one that names nothing, or a lookup that failed.  An agent is
\* refused; a browser goes on as a guest, and loses the cookie only where the
\* lookup says that it names nothing.
GoOnAsGuest(r) ==
    /\ At(r, "lookup") /\ cred[r] \notin Pats /\ Goto(r, "handle")
    /\ \/ /\ cred[r] \in SessionIds /\ ~Live(cred[r])
          /\ setCookie' = [setCookie EXCEPT ![r] = NoCookie]
       \/ UNCHANGED setCookie
    /\ UNCHANGED <<now, jar, tables, cred, dead, found>>

Unauthorized(r) ==
    /\ At(r, "lookup") /\ cred[r] \in Pats /\ Over(r)
    /\ UNCHANGED <<now, jar, tables>>

Update(c, row) == [rows EXCEPT ![c] = row]
\* Of a token only last_used_at moves, which nothing but its listing reads.
Slid(c) ==
    IF c \in SessionIds
    THEN Row(rows[c].user, now, now + SessionLifetime)
    ELSE rows[c]

\* Slips: an insert or update; only the stamp is written; tokens slide too.
TouchedOrInserted(r) ==
    LET c == cred[r] IN
    IF now - seen[r] < TouchInterval THEN rows
    ELSE [d \in DOMAIN rows \cup {c} |->
            IF d = c THEN Row(as[r], now, now + SessionLifetime) ELSE rows[d]]
TouchedStampOnly(r) ==
    LET c == cred[r] IN
    IF now - seen[r] < TouchInterval \/ c \notin DOMAIN rows THEN rows
    ELSE Update(c, Row(rows[c].user, now, rows[c].expires))
TouchedTokenToo(r) ==
    LET c == cred[r] IN
    IF now - seen[r] < TouchInterval \/ c \notin DOMAIN rows THEN rows
    ELSE Update(c, Row(rows[c].user, now, now + SessionLifetime))

\* Whether it is due goes by the row as it was looked up; an UPDATE of a row
\* that was deleted since changes nothing.
Touched(r) ==
    LET c == cred[r] IN
    IF now - seen[r] < TouchInterval \/ c \notin DOMAIN rows THEN rows
    ELSE Update(c, Slid(c))

Touch(r) ==
    /\ At(r, "touch")
    /\ \/ /\ rows' = Touched(r)
          /\ served' = IF cred[r] \in SessionIds \cap DOMAIN rows
                       THEN [served EXCEPT ![cred[r]] = now] ELSE served
       \/ UNCHANGED <<rows, served>>
    /\ IF cred[r] \in Pats THEN Over(r)
       ELSE /\ Goto(r, "handle") /\ seen' = [seen EXCEPT ![r] = 0]
            /\ UNCHANGED <<cred, dead, as, who, setCookie>>
    /\ UNCHANGED <<now, users, jar, shown, issued, revoked>>

-----------------------------------------------------------------------------
\* The handlers.

\* A page; or any handler that refuses, redirects or fails before it writes:
\* the limiter, a field that does not validate, a password that does not match,
\* a page that asks to sign in, an insert or delete that failed.
AnswerOnly(r) ==
    /\ At(r, "handle") /\ Answering(r, setCookie[r])
    /\ UNCHANGED <<now, jar, tables>>

\* A fresh secret and its row.
Draw(c, u, lifetime) ==
    /\ c \notin issued /\ issued' = issued \cup {c}
    /\ rows' = [d \in DOMAIN rows \cup {c} |->
                  IF d = c THEN Row(u, now, now + lifetime) ELSE rows[d]]
    /\ served' = [served EXCEPT ![c] = now]

\* SessionStore.Create for u, then SetCookie.
SignIn(r, u) ==
    /\ \E c \in SessionIds : Draw(c, u, SessionLifetime) /\ Answering(r, c)
    /\ UNCHANGED <<now, users, jar, shown, revoked>>

Login(r) == At(r, "handle") /\ \E u \in users : SignIn(r, u)

\* The unique index on lower(email) lets one registration of an address in.
Register(r) ==
    /\ At(r, "handle") /\ Goto(r, "sign in")
    /\ \E u \in Users \ users :
         /\ users' = users \cup {u}
         /\ who' = [who EXCEPT ![r] = u]
    /\ UNCHANGED <<now, rows, jar, shown, issued, revoked, served>>
    /\ UNCHANGED <<cred, dead, as, seen, setCookie>>

\* If the session cannot be created the account stays.
Registered(r) ==
    /\ At(r, "sign in")
    /\ \/ SignIn(r, who[r])
       \/ Answering(r, setCookie[r]) /\ UNCHANGED <<now, jar, tables>>

Without(c) == [d \in DOMAIN rows \ {c} |-> rows[d]]

\* The cookie is cleared whether or not the DELETE worked.
Logout(r) ==
    /\ At(r, "handle")
    /\ LET c == cred[r] IN
       \/ /\ c \in SessionIds
          /\ rows' = Without(c) /\ revoked' = revoked \cup {c}
       \/ UNCHANGED <<rows, revoked>>
    /\ Answering(r, NoCookie)
    /\ UNCHANGED <<now, users, jar, shown, issued, served>>

\* RequireAuth, before the pages of the tokens; a visitor is sent to sign in.
RequireAuth(r) == as[r] # Nobody

\* TokenStore.Create, for a label that can be displayed.
Create(r, c) == Draw(c, as[r], APITokenLifetime)

\* tokensView: the plaintext is on the page of all the tokens; when they cannot
\* be listed nobody ever sees it.
TokensView(c) == shown' \in {shown, shown \cup {c}}

CreateToken(r) ==
    /\ At(r, "handle") /\ RequireAuth(r)
    /\ \E c \in Pats : Create(r, c) /\ TokensView(c)
    /\ Answering(r, setCookie[r])
    /\ UNCHANGED <<now, users, jar, revoked>>

\* Slip: DELETE ... WHERE id = $1.
DeletesAny(r, c) == c \in DOMAIN rows \cap Pats

Deletes(r, c) == c \in DOMAIN rows \cap Pats /\ rows[c].user = as[r]

RevokeToken(r) ==
    /\ At(r, "handle") /\ RequireAuth(r)
    /\ \E c \in Pats :
         /\ Deletes(r, c)
         /\ rows' = Without(c) /\ revoked' = revoked \cup {c}
    /\ Answering(r, setCookie[r])
    /\ UNCHANGED <<now, users, jar, shown, issued, served>>

\* The browser receives the answer, or it is lost on the way.
Answer(r) ==
    /\ At(r, "answer")
    /\ jar' \in {jar, IF setCookie[r] = Keep THEN jar ELSE setCookie[r]}
    /\ Over(r)
    /\ UNCHANGED <<now, tables>>

-----------------------------------------------------------------------------
\* The hourly sweeps, one for each table.

Due(c) == rows[c].expires <= now

Sweep(table) ==
    /\ \E c \in DOMAIN rows \cap table : Due(c)
    /\ rows' = [c \in {d \in DOMAIN rows : ~(d \in table /\ Due(d))} |-> rows[c]]
    /\ UNCHANGED <<now, users, jar, shown, issued, revoked, served, request>>

Tick ==
    /\ now < Horizon /\ now' = now + 1
    /\ UNCHANGED <<jar, tables, request>>

Next ==
    \/ \E r \in Requests :
         \/ Send(r) \/ Recognise(r) \/ GoOnAsGuest(r) \/ Unauthorized(r) \/ Touch(r)
         \/ AnswerOnly(r) \/ Login(r) \/ Register(r) \/ Registered(r)
         \/ Logout(r) \/ CreateToken(r) \/ RevokeToken(r) \/ Answer(r)
    \/ Sweep(SessionIds) \/ Sweep(Pats)
    \/ Tick

Spec == Init /\ [][Next]_vars

-----------------------------------------------------------------------------
\* What signing in promises.

TypeOK ==
    /\ now \in 0..Horizon
    /\ users \subseteq Users
    /\ DOMAIN rows \subseteq issued
    /\ \A c \in DOMAIN rows : rows[c] \in Rows /\ rows[c].user \in users
    /\ jar \in SessionIds \cup {NoCookie}
    /\ shown \subseteq Pats
    /\ pc \in [Requests -> {"idle", "lookup", "touch", "handle", "sign in", "answer"}]
    /\ cred \in [Requests -> Credentials \cup {NoCookie}]
    /\ as \in [Requests -> Users \cup {Nobody}] /\ who \in [Requests -> Users \cup {Nobody}]
    /\ seen \in [Requests -> Nat]
    /\ setCookie \in [Requests -> SessionIds \cup {NoCookie, Keep}]
    /\ dead \subseteq Requests
    /\ issued \subseteq Credentials /\ revoked \subseteq issued
    /\ served \in [Credentials -> Nat]

\* Once a learner was told that a session or a token is gone, no request sent
\* with it is anyone's: nothing caches a lookup, and no write of a request that
\* was under way brings the row back (token.go:181-182, session.go:126-131,
\* db/queries.sql:34-42).
RevokedStaysRevoked ==
    \A r \in dead : as[r] = Nobody

\* A session is honoured only within its lifetime of its last use, and a token
\* only within its lifetime of its making, however much it is used
\* (auth.go:26-28, token.go:32-37, db/queries.sql:31-32, 66-67).
CredentialsLapse ==
    [][\A r \in Requests : as[r] = Nobody /\ as'[r] # Nobody =>
         LET c == cred[r] IN
         now - served[c] < IF c \in Pats THEN APITokenLifetime ELSE SessionLifetime]_vars

\* A session that was used is good for a lifetime from then, short of the
\* interval at which uses are written down, whichever of several requests wrote
\* last and however old the row it had read (session.go:111-124, auth.go:26-36).
UsedSessionsLast ==
    \A c \in DOMAIN rows \cap SessionIds :
        rows[c].expires > served[c] + SessionLifetime - TouchInterval

\* What is still good is deleted only by who holds it: a session by a request
\* that presented it, a token by its owner (db/queries.sql:83-91, sweep.go:9-13).
NothingLiveIsLost ==
    [][\A c \in DOMAIN rows \ DOMAIN rows' : Live(c) =>
         \E r \in Requests :
            /\ At(r, "handle") /\ ~At(r, "handle")'
            /\ \/ cred[r] = c
               \/ c \in Pats /\ as[r] = rows[c].user]_vars
=============================================================================
