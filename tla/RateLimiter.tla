----------------------------- MODULE RateLimiter -----------------------------
(***************************************************************************)
(* The fixed-window limiter of internal/shared/ratelimit, which lessons,   *)
(* sign-in, registration and the MCP server each have one of.  Every       *)
(* method holds the mutex throughout and is one action; RetryAfter changes *)
(* nothing, and module SignIn follows a caller who is refused and asks it. *)
(***************************************************************************)
EXTENDS Integers, Sequences

CONSTANTS
    Keys,       \* what callers are counted by: "ip:...", "user:...", "email:..."
    Resettable, \* those of the sign-in limiter, the only one that is ever Reset
    Limit,      \* attempts a window admits
    Window,     \* its length, in ticks
    Horizon,    \* bound: the last instant explored
    MaxCount    \* bound: calls in one window are told apart up to this many

ASSUME LimiterAssumption ==
    /\ Resettable \subseteq Keys
    /\ Limit \in Nat \ {0}
    /\ Window \in Nat \ {0}
    /\ Horizon \in Nat
    /\ MaxCount \in Nat /\ MaxCount > Limit

VARIABLES
    now,        \* the clock
    attempts,   \* key -> [count, resets]
    lastSweep,
    \* A history variable:
    grants      \* the admissions of each key since its last Reset

vars == <<now, attempts, lastSweep, grants>>

Counted == DOMAIN attempts
Attempt(count, resets) == [count |-> count, resets |-> resets]

\* An admission: when, and whether it opened a window.
Grant(opens) == [at |-> now, opens |-> opens]

-----------------------------------------------------------------------------
Init ==
    /\ now = 0
    /\ attempts = << >>
    /\ lastSweep = -Window      \* the zero time is long past
    /\ grants = [k \in Keys |-> << >>]

Tick ==
    /\ now < Horizon
    /\ now' = now + 1
    /\ UNCHANGED <<attempts, lastSweep, grants>>

Expired(k) == now > attempts[k].resets

SweepDue == now - lastSweep >= Window

\* Slip: nothing is ever swept.
NothingSwept == Counted

\* The keys that sweepLocked leaves.
Swept == IF SweepDue THEN {k \in Counted : ~Expired(k)} ELSE Counted

Sweep == lastSweep' = IF SweepDue THEN now ELSE lastSweep

\* Slip: the window is moved on with every call.
RecordMovesOn(k, a) ==
    attempts' = [j \in Swept \cup {k} |->
                   IF j = k THEN [a EXCEPT !.resets = now + Window] ELSE attempts[j]]

Record(k, a) == attempts' = [j \in Swept \cup {k} |-> IF j = k THEN a ELSE attempts[j]]

Admitted(k, opens) == grants' = [grants EXCEPT ![k] = Append(@, Grant(opens))]

\* Allow on a key with no entry, or with an expired one: a window opens.
OpenWindow(k) ==
    /\ k \in Swept => Expired(k)
    /\ Record(k, Attempt(1, now + Window))
    /\ Admitted(k, TRUE)

\* Slip: calls are counted only when a window opens.
NotCounted(count) == count

\* a.count++, past MaxCount without a difference: it is only compared to Limit.
OneMore(count) == IF count < MaxCount THEN count + 1 ELSE count

\* Allow on a key whose window is open: it is counted, admitted or not.
CountAgainst(k) ==
    /\ k \in Swept /\ ~Expired(k)
    /\ Record(k, Attempt(OneMore(attempts[k].count), attempts[k].resets))
    /\ IF OneMore(attempts[k].count) <= Limit
       THEN Admitted(k, FALSE)
       ELSE UNCHANGED grants

Allow(k) ==
    /\ Sweep
    /\ OpenWindow(k) \/ CountAgainst(k)
    /\ UNCHANGED now

\* Whether a call of Allow lets its caller go on.
Admits(k) == attempts'[k].count <= Limit

\* A sign-in that succeeds clears its keys (auth/handler.go:249-251).
Reset(k) ==
    /\ k \in Resettable
    /\ attempts' = [j \in Counted \ {k} |-> attempts[j]]
    /\ grants' = [grants EXCEPT ![k] = << >>]
    /\ UNCHANGED <<now, lastSweep>>

\* How long a key is closed for.
RetryAfter(k) ==
    IF k \notin Counted \/ attempts[k].count <= Limit \/ attempts[k].resets <= now
    THEN 0
    ELSE attempts[k].resets - now

Next ==
    \/ Tick
    \/ \E k \in Keys : Allow(k) \/ Reset(k)

Spec == Init /\ [][Next]_vars

-----------------------------------------------------------------------------
TypeOK ==
    /\ now \in 0..Horizon
    /\ Counted \subseteq Keys
    /\ attempts \in [Counted -> [count : Nat, resets : Nat]]
    /\ lastSweep \in Int
    /\ grants \in [Keys -> Seq([at : Nat, opens : BOOLEAN])]

\* "The worst case is a caller getting 2 x limit across a window boundary": of
\* any 2 x limit + 1 consecutive admissions of a key that was not reset, the
\* last is more than a window after the first, through every expiry, sweep and
\* refusal (ratelimit.go:20-22, 53-68).
AtMostTwiceTheLimit ==
    \A k \in Keys : \A i \in 1..Len(grants[k]) :
        i + 2 * Limit <= Len(grants[k]) =>
            grants[k][i + 2 * Limit].at - grants[k][i].at > Window

\* Hammering a closed window does not keep it closed: the instant it ends is
\* fixed when it opens, whatever is counted or swept meanwhile
\* (ratelimit.go:50-52, 66; ratelimit_test.go:77).
WindowsDoNotStretch ==
    [][\A k \in Counted \cap Counted' :
         ~Expired(k) => attempts'[k].resets = attempts[k].resets]_vars

\* The map does not leak: an entry that ended before the last sweep is gone
\* (ratelimit.go:94-111).
NothingOutlivesASweep == \A k \in Counted : attempts[k].resets >= lastSweep
=============================================================================
