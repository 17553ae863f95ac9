------------------------------- MODULE SignIn -------------------------------
(***************************************************************************)
(* One POST of /login or /register after another (internal/auth), each     *)
(* counted against the address typed and the address it comes from.  Sign- *)
(* in and registration have a limiter each; this is one of them, and the   *)
(* requests around the one that is followed do to it whatever RateLimiter  *)
(* lets them, between any two of its calls.                                *)
(***************************************************************************)
EXTENDS RateLimiter

CONSTANTS
    Second,     \* ticks in a second
    EmailKey,   \* "email:" and the address typed, NormalizeEmail of it
    AddressKey  \* "ip:" and where the request comes from

ASSUME SignInAssumption ==
    /\ Second \in Nat \ {0}
    /\ EmailKey \in Resettable /\ AddressKey \in Resettable
    /\ EmailKey # AddressKey

VARIABLES
    at,         \* where the request is in submit
    keys,       \* what limitKeys made of it
    done,       \* how many of them the loop it is in has been through
    allowed,    \* no key has refused the request so far
    retry,      \* the longest wait asked for so far
    \* History variables:
    closed,     \* key -> the end of the window that refused the request
    toldUntil   \* when the visitor was told to come back

request == <<at, keys, done, allowed, retry, closed, toldUntil>>

Never == -1

SignInInit ==
    /\ Init
    /\ at = "idle"
    /\ keys = << >>
    /\ done = 0
    /\ allowed = TRUE
    /\ retry = 0
    /\ closed = << >>
    /\ toldUntil = Never

Key == keys[done + 1]
LastKey == done + 1 = Len(keys)

\* A loop over the keys goes on, or is over and the request is at p.
GoOn(p) ==
    IF LastKey THEN at' = p /\ done' = 0 ELSE done' = done + 1 /\ UNCHANGED at

-----------------------------------------------------------------------------
\* The addresses a connection may come from.
ClientIP == {AddressKey}

\* A request without an address that can be read is counted by its email alone.
limitKeys == {<<EmailKey>>} \cup {<<EmailKey, ip>> : ip \in ClientIP}

Post ==
    /\ at = "idle"
    /\ at' = "count"
    /\ keys' \in limitKeys
    /\ allowed' = TRUE
    /\ retry' = 0
    /\ closed' = << >>
    /\ toldUntil' = Never
    /\ UNCHANGED <<vars, done>>

\* The request is refused by a key whose window ends then.
Closed(k, window) ==
    [j \in DOMAIN closed \cup {k} |-> IF j = k THEN window ELSE closed[j]]

\* Slip: the answer of the last key decides.
LastDecides(sofar, answer) == answer

\* One refusal is enough.
NoneRefuses(sofar, answer) == sofar /\ answer

\* Every key is recorded before any is checked, and one that refuses decides:
\* what becomes of its entry after that does not matter.
CountKey ==
    /\ at = "count"
    /\ Allow(Key)
    /\ allowed' = NoneRefuses(allowed, Admits(Key))
    /\ closed' = IF Admits(Key) THEN closed ELSE Closed(Key, attempts'[Key].resets)
    /\ GoOn(IF allowed' THEN "authenticate" ELSE "refused")
    /\ UNCHANGED <<keys, retry, toldUntil>>

\* Slip: the wait of the last key is told.
LastWait(sofar, d) == d

Longer(sofar, d) == IF d > sofar THEN d ELSE sofar

\* time.Duration.Round to whole seconds, halves up, and one at least.
Seconds(d) ==
    LET rounded == (2 * d + Second) \div (2 * Second)
    IN  IF rounded < 1 THEN 1 ELSE rounded

\* A refused request asks every key how long it is closed, and is told the
\* longest wait.
AskKey ==
    /\ at = "refused"
    /\ retry' = Longer(retry, RetryAfter(Key))
    /\ toldUntil' = IF LastKey THEN now + Seconds(retry') * Second ELSE Never
    /\ GoOn("idle")
    /\ UNCHANGED <<vars, keys, allowed, closed>>

-----------------------------------------------------------------------------
Credentials == [
    email : {"malformed", "unknown", "registered"},
    password : {"short", "long", "wrong", "right"}]

ValidateEmail(c) == c.email # "malformed"
ValidatePassword(c) == c.password \notin {"short", "long"}
CheckPassword(c) == c.password = "right"

\* The index on lower(email).
GetUserByEmail(c) == c.email = "registered"

FieldErrors(c) ==
    (IF ValidateEmail(c) THEN {} ELSE {"email"})
    \cup (IF ValidatePassword(c) THEN {} ELSE {"password"})

\* Service.Login and Service.Register, when the database and the hash do not
\* fail.
Login(c) == IF GetUserByEmail(c) /\ CheckPassword(c) THEN "welcome" ELSE "fields"

Register(c) ==
    IF FieldErrors(c) = {} /\ ~GetUserByEmail(c) THEN "welcome" ELSE "fields"

\* Field errors are shown (422), a fault is not (500), and either leaves the
\* attempt counted.
Authenticate ==
    /\ at = "authenticate"
    /\ \E c \in Credentials : \E answer \in {Login(c), Register(c), "fault"} :
         at' = IF answer = "welcome" THEN "welcome" ELSE "idle"
    /\ UNCHANGED <<vars, keys, done, allowed, retry, closed, toldUntil>>

\* Success clears the counters.
ClearKey ==
    /\ at = "welcome"
    /\ Reset(Key)
    /\ GoOn("idle")
    /\ UNCHANGED <<keys, allowed, retry, closed, toldUntil>>

-----------------------------------------------------------------------------
\* Everybody else: a key that another success resets refuses nobody any more.
Others ==
    \/ /\ Tick \/ \E k \in Keys : Allow(k)
       /\ UNCHANGED request
    \/ \E k \in Keys :
         /\ Reset(k)
         /\ closed' = [j \in DOMAIN closed \ {k} |-> closed[j]]
         /\ UNCHANGED <<at, keys, done, allowed, retry, toldUntil>>

SignInNext == Post \/ CountKey \/ AskKey \/ Authenticate \/ ClearKey \/ Others

SignInSpec == SignInInit /\ [][SignInNext]_<<vars, request>>

-----------------------------------------------------------------------------
\* "Either being over the limit refuses the attempt", and the answer covers both:
\* nobody whom a key refused goes on to the password, be its entry reset meanwhile
\* or not, and one who waits a second more than told finds every window that refused
\* them and was not reset over, whoever is counted, swept or let in between the calls
\* that refuse and those that ask
\* (auth/handler.go:139-150, 184-205, ratelimit.go:79-92).
ToldTheLongestWait ==
    /\ at \in {"authenticate", "welcome"} => allowed /\ DOMAIN closed = {}
    /\ toldUntil # Never => \A k \in DOMAIN closed : closed[k] < toldUntil + Second
=============================================================================
