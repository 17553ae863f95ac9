------------------------------ MODULE Executor ------------------------------
(***************************************************************************)
(* internal/executor: submissions compiled in a container, at most         *)
(* MaxConcurrentCompiles at a time, cached by content, and run in-process. *)
(* Requests are goroutines inside Executor.Run; between two actions of one *)
(* request any action of another may happen.  The container runtime is     *)
(* external and modelled from how compiler.go drives it.                   *)
(***************************************************************************)
EXTENDS ModuleCache

CONSTANTS
    Requests,               \* calls of Run that can be in progress together
    Sources,                \* texts a learner submits
    Runtimes,               \* executable runtimes: the Swift SDKs
    Compilable,             \* the submissions swiftc accepts
    MaxConcurrentCompiles,  \* config.MaxConcurrentCompiles
    MaxOrphans              \* bound: abandoned containers explored at once

Submissions == Sources \X Runtimes

\* What a compile of s gives.  A module is a whole build, or the part of one
\* that a build cut down after it began to write out.wasm left behind.
Output(s, what) == [of |-> s, what |-> what]
Builds == [of : Submissions, what : {"whole", "partial"}]
Outputs == [of : Submissions, what : {"whole", "partial", "rejected", "fault"}]

\* Slip: the runtime is left out of the digest.
CacheKeyNoRuntime(s) == <<"swift-6.3.1", s[1]>>

\* The digest of toolchain, runtime and source, taken to be injective.
CacheKey(s) == <<"swift-6.3.1", s[2], s[1]>>

CONSTANT NoSubmission
NoOutput == Output(NoSubmission, "none")

ASSUME ExecutorAssumption ==
    /\ IsFiniteSet(Requests)
    /\ MaxConcurrentCompiles \in Nat \ {0}
    /\ MaxOrphans \in Nat
    /\ Compilable \subseteq Submissions
    /\ Modules = Builds
    /\ Keys = {CacheKey(s) : s \in Submissions}
    /\ NoSubmission \notin Submissions

VARIABLES
    pc,         \* where each request is in Run
    sub,        \* the submission it carries
    out,        \* what Compile, or the cache, gave it
    gone,       \* its context is done: the client went away
    reply,      \* what Run returned to it
    slots,      \* tokens in the compileSlots channel
    orphans     \* containers still running whose docker CLI was killed

vars == <<cacheVars, pc, sub, out, gone, reply, slots, orphans>>
runVars == <<pc, sub, out, gone, reply>>

Verdicts == {"rejected", "ran", "timed out"}
Faults == {"fault", "canceled", "busy"}
Reply(kind, s) == [kind |-> kind, of |-> s]
NoReply == Reply("none", NoSubmission)

PCs == {"idle", "lookup", "admission", "compile", "container", "compiled",
        "store", "execute"}

At(r, p) == pc[r] = p
Goto(r, p) == pc' = [pc EXCEPT ![r] = p]

\* Run returns: its locals are gone and its reply stands.
Return(r, kind, s) ==
    /\ Goto(r, "idle")
    /\ out' = [out EXCEPT ![r] = NoOutput]
    /\ gone' = [gone EXCEPT ![r] = FALSE]
    /\ reply' = [reply EXCEPT ![r] = Reply(kind, s)]

-----------------------------------------------------------------------------
Init ==
    /\ CacheInit
    /\ pc = [r \in Requests |-> "idle"]
    /\ sub = [r \in Requests |-> NoSubmission]
    /\ out = [r \in Requests |-> NoOutput]
    /\ gone = [r \in Requests |-> FALSE]
    /\ reply = [r \in Requests |-> NoReply]
    /\ slots = 0
    /\ orphans = 0

\* A caller asks for a submission to be run.
Call(r, s) ==
    /\ At(r, "idle")
    /\ Goto(r, "lookup")
    /\ sub' = [sub EXCEPT ![r] = s]
    /\ reply' = [reply EXCEPT ![r] = NoReply]
    /\ UNCHANGED <<cacheVars, out, gone, slots, orphans>>

\* Executor.Cached, which callers ask before charging a quota: a lookup, with
\* a lookup's effect on the eviction order.
Cached(s) == Get(CacheKey(s)) /\ UNCHANGED <<runVars, slots, orphans>>

Hit(r) ==
    /\ At(r, "lookup")
    /\ CacheKey(sub[r]) \in Held
    /\ out' = [out EXCEPT ![r] = entries[CacheKey(sub[r])]]
    /\ Goto(r, "execute")
    /\ Get(CacheKey(sub[r]))
    /\ UNCHANGED <<sub, gone, reply, slots, orphans>>

Miss(r) ==
    /\ At(r, "lookup")
    /\ CacheKey(sub[r]) \notin Held
    /\ Goto(r, "admission")
    /\ Get(CacheKey(sub[r]))
    /\ UNCHANGED <<sub, out, gone, reply, slots, orphans>>

\* The three ways out of admit's select.  When several are ready Go picks one
\* at random: a request that has gone away, or waited its time, may still be
\* admitted.
Admit(r) ==
    /\ At(r, "admission")
    /\ slots < MaxConcurrentCompiles
    /\ slots' = slots + 1
    /\ Goto(r, "compile")
    /\ UNCHANGED <<cacheVars, sub, out, gone, reply, orphans>>

Cancelled(r) ==
    /\ At(r, "admission")
    /\ gone[r]
    /\ Return(r, "canceled", sub[r])
    /\ UNCHANGED <<cacheVars, sub, slots, orphans>>

\* Slip: the wait for a slot has no timer.
BusyNever(r) == FALSE

Busy(r) ==
    /\ At(r, "admission")
    /\ Return(r, "busy", sub[r])
    /\ UNCHANGED <<cacheVars, sub, slots, orphans>>

\* Compile starts the docker CLI, unless its context is done already or the
\* host fails first (scratch directory, missing command).
StartContainer(r) ==
    /\ At(r, "compile")
    /\ ~gone[r]
    /\ Goto(r, "container")
    /\ UNCHANGED <<cacheVars, sub, out, gone, reply, slots, orphans>>

FailToStart(r) ==
    /\ At(r, "compile")
    /\ out' = [out EXCEPT ![r] = Output(sub[r], "fault")]
    /\ Goto(r, "compiled")
    /\ UNCHANGED <<cacheVars, sub, gone, reply, slots, orphans>>

\* What Compile may answer for s once the container has ended (module
\* Compiler): only code that compiles gives a module, whole or cut short; a
\* build that dies for want of memory is reported as a rejection.
Outcomes(s) ==
    {o \in Outputs : o.of = s /\ (o \in Builds => s \in Compilable)}

\* The container ends by itself.
ContainerEnds(r) ==
    /\ At(r, "container")
    /\ ~gone[r]
    /\ \E o \in Outcomes(sub[r]) : out' = [out EXCEPT ![r] = o]
    /\ Goto(r, "compiled")
    /\ UNCHANGED <<cacheVars, sub, gone, reply, slots, orphans>>

\* The context ends first, by the 60 s timeout or the client leaving: the CLI
\* is killed and Compile returns, but the container was the daemon's child.
\* It is left running, unless it had just ended.
Abandon(r) ==
    /\ At(r, "container")
    /\ out' = [out EXCEPT ![r] = Output(sub[r], "fault")]
    /\ Goto(r, "compiled")
    /\ \/ orphans < MaxOrphans /\ orphans' = orphans + 1
       \/ UNCHANGED orphans
    /\ UNCHANGED <<cacheVars, sub, gone, reply, slots>>

OrphanEnds ==
    /\ orphans > 0
    /\ orphans' = orphans - 1
    /\ UNCHANGED <<cacheVars, runVars, slots>>

\* Slip: on an error the slot is not given back.
ReleaseForgotten(r) ==
    /\ At(r, "compiled")
    /\ IF out[r] \in Builds
       THEN slots' = slots - 1 /\ Goto(r, "store") /\ UNCHANGED <<out, gone, reply>>
       ELSE UNCHANGED slots /\ Return(r, out[r].what, sub[r])
    /\ UNCHANGED <<cacheVars, sub, orphans>>

\* The slot is given back before the module is looked at, and a fault or a
\* rejection returns at once.
Release(r) ==
    /\ At(r, "compiled")
    /\ slots' = slots - 1
    /\ IF out[r] \in Builds
       THEN Goto(r, "store") /\ UNCHANGED <<out, gone, reply>>
       ELSE Return(r, out[r].what, sub[r])
    /\ UNCHANGED <<cacheVars, sub, orphans>>

StoreModule(r) ==
    /\ At(r, "store")
    /\ Put(CacheKey(sub[r]), out[r])
    /\ Goto(r, "execute")
    /\ UNCHANGED <<sub, out, gone, reply, slots, orphans>>

\* wazero runs the module, detached from the request's context.  A partial
\* module does not load; a whole one runs, is stopped after 5 s, or fails in
\* wazero (its own 30 s compile limit, an instantiation error).
Execute(r) ==
    /\ At(r, "execute")
    /\ \E kind \in {"ran", "timed out", "fault"} :
         /\ out[r].what = "partial" => kind = "fault"
         /\ Return(r, kind, out[r].of)
    /\ UNCHANGED <<cacheVars, sub, slots, orphans>>

\* The client closes its connection.
Leave(r) ==
    /\ pc[r] # "idle"
    /\ ~gone[r]
    /\ gone' = [gone EXCEPT ![r] = TRUE]
    /\ UNCHANGED <<cacheVars, pc, sub, out, reply, slots, orphans>>

\* What a request does by itself, without waiting for anyone.
Local(r) ==
    \/ Hit(r) \/ Miss(r) \/ Release(r) \/ StoreModule(r) \/ Execute(r)
    \/ StartContainer(r) \/ FailToStart(r)

Admission(r) == Admit(r) \/ Cancelled(r) \/ Busy(r)

Container(r) == ContainerEnds(r) \/ Abandon(r)

Next ==
    \/ \E r \in Requests :
         \/ \E s \in Submissions : Call(r, s)
         \/ Local(r) \/ Admission(r) \/ Container(r) \/ Leave(r)
    \/ \E s \in Submissions : Cached(s)
    \/ OrphanEnds

Spec == Init /\ [][Next]_vars

\* A goroutine that can run does: the Go scheduler sees to it.  A wait for
\* admission ends, by its 10 s timer if by nothing else, and so does a
\* compile, by its 60 s deadline.
FairSpec ==
    /\ Spec
    /\ \A r \in Requests :
         WF_vars(Local(r)) /\ WF_vars(Admission(r)) /\ WF_vars(Container(r))

-----------------------------------------------------------------------------
\* What the executor promises.

TypeOK ==
    /\ CacheTypeOK
    /\ pc \in [Requests -> PCs]
    /\ sub \in [Requests -> Submissions \cup {NoSubmission}]
    /\ out \in [Requests -> Outputs \cup {NoOutput}]
    /\ gone \in [Requests -> BOOLEAN]
    /\ reply \in [Requests -> [kind : Verdicts \cup Faults \cup {"none"},
                                of : Submissions \cup {NoSubmission}]]
    /\ slots \in 0..MaxConcurrentCompiles
    /\ orphans \in 0..MaxOrphans

\* The requests between taking a compile slot and giving it back.
Holders == {r \in Requests : pc[r] \in {"compile", "container", "compiled"}}

\* Every token in the channel belongs to exactly one request that will give it
\* back: none is lost on an error path and none returned twice, so the ceiling
\* on concurrent compiles neither shrinks nor is exceeded
\* (executor.go:148-165, 205-215; admission_test.go:57, 101).
SlotsAreHeld ==
    /\ slots = Cardinality(Holders)
    /\ Cardinality(Holders) <= MaxConcurrentCompiles

\* Whoever compiled the module, and however the cache has been replaced and
\* evicted meanwhile, what runs for a request is what that request submitted
\* (executor.go:167-177, 199-223).
RunsWhatWasSubmitted ==
    \A r \in Requests :
        /\ At(r, "execute") => out[r] \in Builds /\ out[r].of = sub[r]
        /\ reply[r].kind \in {"ran", "timed out"} => reply[r].of = sub[r]

\* Code that swiftc refuses never runs, from the cache or otherwise: the same
\* text compiled for the other runtime must not answer for it
\* (executor.go:169-173, 216-222).
RefusedCodeNeverRuns ==
    \A r \in Requests :
        reply[r].kind \in {"ran", "timed out"} => sub[r] \in Compilable

\* Every call returns, with a reply: no slot, queue or container can hold a
\* request for good (executor.go:142-165, compiler.go:145).
EveryCallReturns ==
    \A r \in Requests : (pc[r] # "idle") ~> (pc[r] = "idle" /\ reply[r] # NoReply)

\* Stated by "compileSlots admits a bounded number of concurrent container
\* compiles ... Without this, a hundred simultaneous submissions become a
\* hundred concurrent `swiftc` containers" (executor.go:107-112).
ContainerCeiling ==
    Cardinality({r \in Requests : At(r, "container")}) + orphans <= MaxConcurrentCompiles
=============================================================================
