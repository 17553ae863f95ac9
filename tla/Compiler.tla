------------------------------ MODULE Compiler ------------------------------
(***************************************************************************)
(* One call of Compile in internal/compiler/compiler.go: the docker CLI it *)
(* starts, the script build/compiler/compile.sh in the container, and the  *)
(* reading of what they left behind.  Docker, the kernel's memory cap and  *)
(* swiftc are the environment; compiler.go's comments say which failures   *)
(* they have.                                                              *)
(***************************************************************************)
CONSTANT SDKs   \* the runtimes that have a Swift SDK

VARIABLES
    job,    \* what Compile is called with
    stage,  \* where the compile is
    cause,  \* history: what ended it
    exit,   \* the CLI's exit status, or how it failed to have one
    said,   \* the kinds of text in its output
    file,   \* out.wasm in the scratch directory
    late,   \* the context is done, by the 60 s timeout or the caller
    answer  \* what Compile returned

compileVars == <<job, stage, cause, exit, said, file, late, answer>>

\* compiles: swiftc accepts the source.  big: its module is over maxModuleBytes.
\* quotes: a diagnostic would quote a source line that contains one of the
\* runtimeFailureMarkers, a string literal say.
Jobs == [configured : BOOLEAN, runtime : SDKs \cup {"none"},
         compiles : BOOLEAN, big : BOOLEAN, quotes : BOOLEAN]

Answer(kind, shown) == [kind |-> kind, shown |-> shown]
NoAnswer == Answer("none", {})

CompileInit ==
    /\ job \in Jobs
    /\ stage = "called"
    /\ cause = "none"
    /\ exit = "none"
    /\ said = {}
    /\ file = "none"
    /\ late = FALSE
    /\ answer = NoAnswer

CompileReturns(kind, shown) == stage' = "returned" /\ answer' = Answer(kind, shown)

-----------------------------------------------------------------------------
\* Before the CLI.

\* No image configured, a runtime without an SDK, or no scratch directory.
Refuse ==
    /\ stage = "called"
    /\ \/ ~job.configured /\ CompileReturns("unavailable", {})
       \/ job.configured /\ job.runtime \notin SDKs /\ CompileReturns("fault", {})
    /\ UNCHANGED <<job, cause, exit, said, file, late>>

NoScratch ==
    /\ stage = "called" /\ job.configured /\ job.runtime \in SDKs
    /\ CompileReturns("fault", {})
    /\ UNCHANGED <<job, cause, exit, said, file, late>>

StartCLI ==
    /\ stage = "called" /\ job.configured /\ job.runtime \in SDKs
    /\ stage' = "cli"
    /\ UNCHANGED <<job, cause, exit, said, file, late, answer>>

-----------------------------------------------------------------------------
\* The CLI and the container.

Ends(why, code, text) ==
    /\ stage' = "exited"
    /\ cause' = why
    /\ exit' = code
    /\ said' = text
    /\ UNCHANGED <<job, late, answer>>

\* exec finds no docker command: Run returns an error that is no exit status,
\* and nothing was printed.
NoCLI == stage = "cli" /\ Ends("no CLI", "unstarted", {}) /\ UNCHANGED file

\* The daemon cannot be reached or cannot start the container: docker's exit
\* 125, or exit 1 with one of the listed messages.
DaemonFails ==
    /\ stage = "cli"
    /\ \/ \E text \in SUBSET {"marker"} : Ends("daemon", "125", text)
       \/ Ends("daemon", "1", {"marker"})
    /\ UNCHANGED file

ContainerStarts ==
    /\ stage = "cli"
    /\ stage' = "build"
    /\ UNCHANGED <<job, cause, exit, said, file, late, answer>>

SwiftcRefuses ==
    /\ stage = "build" /\ ~job.compiles
    /\ Ends("swiftc", "1",
            {"diagnostics", "noise"} \cup (IF job.quotes THEN {"marker"} ELSE {}))
    /\ UNCHANGED file

\* swift build is killed by a resource cap, and the script exits 1; or the
\* whole container is, and docker reports 137.
BuildDies ==
    /\ stage = "build"
    /\ \E code \in {"1", "137"} : Ends("build died", code, {"noise"})
    /\ UNCHANGED file

NoModuleFound ==
    /\ stage = "build" /\ job.compiles
    /\ Ends("no module", "2", {"noise"})
    /\ UNCHANGED file

CopyBegins ==
    /\ stage = "build" /\ job.compiles
    /\ stage' = "copy"
    /\ file' = "empty"
    /\ UNCHANGED <<job, cause, exit, said, late, answer>>

CopyGrows ==
    /\ stage = "copy" /\ file = "empty"
    /\ file' = "partial"
    /\ UNCHANGED <<job, stage, cause, exit, said, late, answer>>

CopyEnds ==
    /\ stage = "copy" /\ file = "partial"
    /\ Ends("copied", "0", {"noise"})
    /\ file' = IF job.big THEN "oversized" ELSE "whole"

\* The disk fills up, or the container is killed, in the middle of the copy.
CopyDies ==
    /\ stage = "copy"
    /\ \E code \in {"1", "137"} : Ends("copy died", code, {"noise"})
    /\ UNCHANGED file

Script ==
    \/ SwiftcRefuses \/ BuildDies \/ NoModuleFound
    \/ CopyBegins \/ CopyGrows \/ CopyEnds \/ CopyDies

\* Slip: the container is run without the context.
NoDeadline == FALSE

\* The context ends.  A running CLI is killed; one that has exited is not
\* saved by having done so.
Deadline ==
    /\ stage \in {"cli", "build", "copy", "exited"}
    /\ ~late
    /\ late' = TRUE
    /\ IF stage = "exited"
       THEN UNCHANGED <<stage, cause, exit>>
       ELSE stage' = "exited" /\ cause' = "deadline" /\ exit' = "killed"
    /\ UNCHANGED <<job, said, file, answer>>

-----------------------------------------------------------------------------
\* The reading of it.

\* Slip: only the exit status is looked at.
NoMarkers == FALSE

IsRuntimeFailure == "marker" \in said

\* CleanDiagnostics: the lines about the build environment are dropped.
CleanDiagnostics == said \ {"noise"}

\* The order of the tests is the code's: a done context first, then the file,
\* and only without one the exit status and the output.
Readable == file # "none"
\* Slip: a module of any size is accepted.
VerdictOfAnySize ==
    IF late THEN "fault"
    ELSE IF Readable THEN IF file = "empty" THEN "rejected" ELSE "module"
    ELSE IF exit = "125" \/ IsRuntimeFailure THEN "unavailable"
    ELSE IF exit = "1" THEN "rejected" ELSE "fault"

Verdict ==
    IF late THEN "fault"
    ELSE IF Readable
         THEN CASE file = "oversized" -> "fault"
                [] file = "empty" -> "rejected"     \* Result.OK() is false
                [] OTHER -> "module"
    ELSE IF exit = "0" THEN "fault"
    ELSE IF exit = "125" \/ IsRuntimeFailure THEN "unavailable"
    ELSE IF exit = "2" THEN "fault"
    ELSE "rejected"

Conclude ==
    /\ stage = "exited"
    /\ CompileReturns(Verdict, IF Verdict \in {"module", "rejected"} THEN CleanDiagnostics ELSE {})
    /\ UNCHANGED <<job, cause, exit, said, file, late>>

\* A call that has returned stays as it is.
Done == stage = "returned" /\ UNCHANGED compileVars

CompileNext ==
    \/ Refuse \/ NoScratch \/ StartCLI
    \/ NoCLI \/ DaemonFails \/ ContainerStarts \/ Script
    \/ Deadline \/ Conclude \/ Done

\* The context's timer fires, and Compile itself is never blocked.
Fairness ==
    /\ WF_compileVars(Deadline)
    /\ WF_compileVars(Refuse \/ NoScratch \/ StartCLI)
    /\ WF_compileVars(Conclude)

CompileSpec == CompileInit /\ [][CompileNext]_compileVars /\ Fairness

-----------------------------------------------------------------------------
CompileTypeOK ==
    /\ job \in Jobs
    /\ stage \in {"called", "cli", "build", "copy", "exited", "returned"}
    /\ cause \in {"none", "no CLI", "daemon", "swiftc", "build died", "no module",
                  "copied", "copy died", "deadline"}
    /\ exit \in {"none", "unstarted", "killed", "0", "1", "2", "125", "137"}
    /\ said \subseteq {"marker", "diagnostics", "noise"}
    /\ file \in {"none", "empty", "partial", "whole", "oversized"}
    /\ late \in BOOLEAN
    /\ answer \in [kind : {"none", "unavailable", "fault", "rejected", "module"},
                   shown : SUBSET {"marker", "diagnostics"}]

\* A daemon that could not start the container is never reported as code that
\* does not compile, whatever it exits with (compiler.go:230-242).
OutageIsNotARejection == cause = "daemon" => answer.kind # "rejected"

\* A module is only ever answered for code that swiftc accepts, and never an
\* oversized one: what the Executor stores under the code's key
\* (compiler.go:215-221, 78).
ModuleMeansItCompiled ==
    answer.kind = "module" => job.compiles /\ file \in {"partial", "whole"}

\* Nothing in the container can hold a request: the deadline ends the compile
\* at whatever stage it hangs (compiler.go:145-146, 211-213).
EveryCompileReturns == <>(answer # NoAnswer)

=============================================================================
