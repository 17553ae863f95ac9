----------------------------- MODULE Submissions -----------------------------
(***************************************************************************)
(* One signed-in learner and one lesson: the submissions they and their    *)
(* agents make (internal/lessons, internal/mcp), how each is admitted,     *)
(* graded and recorded (internal/grading, internal/progress), the help     *)
(* that failing earns, and what the boards make of it                      *)
(* (internal/leaderboard).  Every query is scoped to the learner and the   *)
(* lesson, so pairs of the two meet only in the cache and the quota; of    *)
(* those the cache is what ForgetfulStore promises, and the quota may      *)
(* always run out.  Requests are goroutines of net/http; a database call   *)
(* is one action and fails when the pool, or the request's context, does.  *)
(***************************************************************************)
EXTENDS Integers, Sequences, FiniteSets

CONSTANTS
    Requests,           \* requests of the learner in progress together
    Codes,              \* sources that can be submitted
    Checkable,          \* lesson.Assertions.HasStatic
    BreaksRules,        \* sources the validator finds fault with
    Compilable,         \* those swiftc accepts
    Satisfying,         \* those that print what the lesson asks for and exit 0
    Executes,           \* lesson.Assertions.NeedsExecution
    Runnable,           \* grading.CanExecute for the lesson's runtime
    HintAfter,          \* hintAfterFailures
    SolutionAfter,      \* solutionAfterFailures
    Labels,             \* provenance labels a browser sends
    DatabaseFails,      \* whether database calls are explored failing
    MaxRows             \* bound: submissions explored

ASSUME SubmissionsAssumption ==
    /\ Checkable \in BOOLEAN
    /\ BreaksRules \subseteq Codes
    /\ Compilable \subseteq Codes
    /\ Satisfying \subseteq Compilable
    /\ Executes \in BOOLEAN /\ Runnable \in BOOLEAN
    /\ HintAfter \in Nat \ {0} /\ SolutionAfter \in Nat
    /\ HintAfter <= SolutionAfter
    /\ DatabaseFails \in BOOLEAN
    /\ MaxRows \in Nat

VARIABLES
    pc,         \* where each request is
    job,        \* the submission it carries, and its verdict
    compiled,   \* sources whose module the executor's cache holds
    rows,       \* exercise_attempt
    lesson,     \* the user_lesson row
    offer,      \* what the help in each request's last answer goes by
    \* A history variable:
    given       \* the help the learner was shown

vars == <<pc, job, compiled, rows, lesson, offer, given>>

Outcomes == {"passed", "static_failed", "compile_failed", "timed_out",
             "output_mismatch", "pending"}
Provenances == {"unknown", "typed", "mixed", "pasted", "agent"}

Job(via, code, prov) ==
    [via |-> via, code |-> code, prov |-> prov, outcome |-> "none", row |-> 0]

\* What the help an answer offers goes by: the failures that were counted, and
\* how many there were up to the request's own row (0 when it has none).
Offer(failures, own) == [failures |-> failures, own |-> own]

At(r, p) == pc[r] = p
Goto(r, p) == pc' = [pc EXCEPT ![r] = p]
Learn(r, outcome) == job' = [job EXCEPT ![r].outcome = outcome]

NoJob == Job("none", "none", "unknown")
NoOffer == Offer(0, 0)

\* The handler returns: its locals are gone and what it offered stands.
Answered(r, o) ==
    /\ Goto(r, "idle")
    /\ job' = [job EXCEPT ![r] = NoJob]
    /\ offer' = [offer EXCEPT ![r] = o]

NoRow == [status |-> "absent", completedAt |-> FALSE, revealed |-> FALSE]

Init ==
    /\ pc = [r \in Requests |-> "idle"]
    /\ job = [r \in Requests |-> NoJob]
    /\ compiled = {}
    /\ rows = << >>
    /\ lesson = NoRow
    /\ offer = [r \in Requests |-> NoOffer]
    /\ given = {}

-----------------------------------------------------------------------------
\* The statements of progress/db/queries.sql.

\* Slip: EXCLUDED.status is written whatever the row says.
UpsertedBlindly(row, status) ==
    [row EXCEPT !.status = status, !.completedAt = @ \/ status = "completed"]

\* UpsertLessonProgress: completion is sticky.
Upserted(row, status) ==
    [row EXCEPT !.status = IF row.status = "completed" THEN "completed" ELSE status,
                !.completedAt = @ \/ status = "completed"]

\* Slip: a conflicting row is left alone.
RevealedIfAbsent(row) ==
    IF row.status = "absent" THEN [row EXCEPT !.status = "in_progress", !.revealed = TRUE] ELSE row

\* MarkSolutionRevealed.
Revealed(row) ==
    [row EXCEPT !.status = IF row.status = "absent" THEN "in_progress" ELSE @,
                !.revealed = TRUE]

Passes(s) == {i \in DOMAIN s : s[i].passed}
CountFailedAttempts == Cardinality(DOMAIN rows \ Passes(rows))

\* Slips: every attempt is counted; the count is taken before the attempt that
\* is being answered was recorded.
CountsEverything == {Len(rows)}
CountsBefore == {CountFailedAttempts - 1}

\* What a request that counts the failures reads: 0 when the query fails.
Counts == {CountFailedAttempts} \cup IF DatabaseFails THEN {0} ELSE {}

\* A write, or its failure.
Written(x, new) ==
    \/ x' = new
    \/ DatabaseFails /\ x' = x

\* Slip: the latest pass instead of the first.
LastPass == CHOOSE i \in Passes(rows) : \A j \in Passes(rows) : i >= j

\* Board: the first attempt that passed, typed, and no solution revealed.
FirstPass == CHOOSE i \in Passes(rows) : \A j \in Passes(rows) : i <= j
Solo ==
    /\ Passes(rows) # {}
    /\ rows[FirstPass].prov = "typed"
    /\ ~lesson.revealed

-----------------------------------------------------------------------------
\* Only what an editor can derive is taken from a form.
ProvenanceFromClient(label) ==
    IF label \in {"typed", "mixed", "pasted"} THEN label ELSE "unknown"

InFlight == Cardinality({r \in Requests : pc[r] \in {"quota", "validate", "run", "record"}})

\* POST /lessons/{slug}/check, and submit_solution called by an agent.
Submit(r, j) ==
    /\ At(r, "idle") /\ Checkable
    /\ Len(rows) + InFlight < MaxRows
    /\ Goto(r, "quota")
    /\ job' = [job EXCEPT ![r] = j]
    /\ offer' = [offer EXCEPT ![r] = NoOffer]
    /\ UNCHANGED <<compiled, rows, lesson, given>>

Check(r) == \E c \in Codes, label \in Labels :
    Submit(r, Job("web", c, ProvenanceFromClient(label)))

SubmitSolution(r) == \E c \in Codes : Submit(r, Job("mcp", c, "agent"))

\* A submission whose module is cached is admitted free, and any other when the
\* quota allows it.
Admitted(r) ==
    /\ At(r, "quota")
    /\ Goto(r, "validate")
    /\ UNCHANGED <<job, compiled, rows, lesson, offer, given>>

RefuseQuota(r) ==
    /\ At(r, "quota")
    /\ job[r].code \notin compiled
    /\ Answered(r, NoOffer)
    /\ UNCHANGED <<compiled, rows, lesson, given>>

\* grade: static checks first, and a failure there ends it; then what needs no
\* run is settled, and what cannot be run is left pending.
Static(code) ==
    IF code \in BreaksRules THEN "static_failed"
    ELSE IF ~Executes THEN "passed"
    ELSE IF ~Runnable THEN "pending"
    ELSE "none"

Validate(r) ==
    /\ At(r, "validate")
    /\ Learn(r, Static(job[r].code))
    /\ Goto(r, IF Static(job[r].code) = "none" THEN "run" ELSE "record")
    /\ UNCHANGED <<compiled, rows, lesson, offer, given>>

\* The verdicts on a module that ran.
Ran(code) ==
    {"timed_out", IF code \in Satisfying THEN "passed" ELSE "output_mismatch"}

RunCached(r) ==
    /\ At(r, "run")
    /\ job[r].code \in compiled
    /\ \E o \in Ran(job[r].code) : Learn(r, o)
    /\ Goto(r, "record")
    /\ UNCHANGED <<compiled, rows, lesson, offer, given>>

\* A container is spawned; what compiles is stored and run.
CompileAndRun(r) ==
    /\ At(r, "run")
    /\ job[r].code \in Compilable \ compiled
    /\ compiled' = compiled \cup {job[r].code}
    /\ \E o \in Ran(job[r].code) : Learn(r, o)
    /\ Goto(r, "record")
    /\ UNCHANGED <<rows, lesson, offer, given>>

\* Swiftc, or the sandbox on its behalf, refuses it.
CompileFails(r) ==
    /\ At(r, "run")
    /\ job[r].code \notin compiled
    /\ Learn(r, "compile_failed")
    /\ Goto(r, "record")
    /\ UNCHANGED <<compiled, rows, lesson, offer, given>>

\* The validator or the compiler cannot run, every slot is busy, or wazero fails
\* on a module that was compiled and stored: no verdict.
GraderFails(r) ==
    /\ pc[r] \in {"validate", "run"}
    /\ \/ UNCHANGED compiled
       \/ At(r, "run") /\ job[r].code \in Compilable /\ compiled' = compiled \cup {job[r].code}
    /\ Answered(r, NoOffer)
    /\ UNCHANGED <<rows, lesson, given>>

\* The cache makes room (ForgetfulStore, ModuleCache).
Forget ==
    /\ \E c \in compiled : compiled' = compiled \ {c}
    /\ UNCHANGED <<pc, job, rows, lesson, offer, given>>

\* record: RecordAttempt, whatever the outcome.
Passed(j) == j.outcome = "passed"

Attempt(j) == [passed |-> Passed(j), prov |-> j.prov]

RecordAttempt(r) ==
    /\ At(r, "record")
    /\ Written(rows, Append(rows, Attempt(job[r])))
    /\ job' = [job EXCEPT ![r].row = IF rows' # rows THEN Len(rows') ELSE 0]
    /\ Goto(r, IF Passed(job[r]) THEN "complete" ELSE "respond")
    /\ UNCHANGED <<compiled, lesson, offer, given>>

\* record, goes on: a pass completes the lesson.
CompleteOnPass(r) ==
    /\ At(r, "complete")
    /\ Written(lesson, Upserted(lesson, "completed"))
    /\ Goto(r, "respond")
    /\ UNCHANGED <<job, compiled, rows, offer, given>>

\* respond, for what decided nothing to hold against the learner; an agent is
\* answered without help whatever the outcome.
RespondPlainly(r) ==
    /\ At(r, "respond")
    /\ job[r].outcome \in {"passed", "pending"} \/ job[r].via = "mcp"
    /\ Answered(r, NoOffer)
    /\ UNCHANGED <<compiled, rows, lesson, given>>

\* The failures up to row i, 0 for a row that was not written.
FailuresUpTo(i) == Cardinality({j \in 1..i : ~rows[j].passed})

\* respond, for a wrong answer in the browser: the failures are counted and the
\* help they earn is offered.
RespondToFailure(r) ==
    /\ At(r, "respond")
    /\ job[r].outcome \notin {"passed", "pending"} /\ job[r].via = "web"
    /\ \E n \in Counts : Answered(r, Offer(n, FailuresUpTo(job[r].row)))
    /\ UNCHANGED <<compiled, rows, lesson, given>>

-----------------------------------------------------------------------------
\* GET /lessons/{slug}/hint.
Hint(r) ==
    /\ At(r, "idle")
    /\ \E n \in Counts :
         IF n < HintAfter
         THEN Answered(r, NoOffer) /\ UNCHANGED given
         ELSE Answered(r, Offer(n, 0)) /\ given' = given \cup {"hint"}
    /\ UNCHANGED <<compiled, rows, lesson>>

\* POST /lessons/{slug}/solution: the gate, and then the record and the answer.
Solution(r) ==
    /\ At(r, "idle")
    /\ \E n \in Counts :
         IF n < SolutionAfter
         THEN Answered(r, NoOffer)
         ELSE Goto(r, "reveal") /\ UNCHANGED <<job, offer>>
    /\ UNCHANGED <<compiled, rows, lesson, given>>

\* Whether the record was written or not, the solution is shown with the hint.
RevealSolution(r) ==
    /\ At(r, "reveal")
    /\ \/ lesson' = Revealed(lesson) /\ given' = given \cup {"hint", "solution"}
       \/ DatabaseFails /\ UNCHANGED lesson /\ given' = given \cup {"hint", "unrecorded solution"}
    /\ Answered(r, Offer(SolutionAfter, 0))
    /\ UNCHANGED <<compiled, rows>>

\* GET /lessons/{slug}: opening a lesson starts it.
Show(r) ==
    /\ At(r, "idle")
    /\ Written(lesson, Upserted(lesson, "in_progress"))
    /\ UNCHANGED <<pc, job, compiled, rows, offer, given>>

\* POST /lessons/{slug}/complete: the learner says so.
Complete(r) ==
    /\ At(r, "idle")
    /\ Written(lesson, Upserted(lesson, "completed"))
    /\ UNCHANGED <<pc, job, compiled, rows, offer, given>>

Next ==
    \/ Forget
    \/ \E r \in Requests :
         \/ Check(r) \/ SubmitSolution(r)
         \/ Admitted(r) \/ RefuseQuota(r)
         \/ Validate(r) \/ RunCached(r) \/ CompileAndRun(r) \/ CompileFails(r)
         \/ GraderFails(r)
         \/ RecordAttempt(r) \/ CompleteOnPass(r)
         \/ RespondPlainly(r) \/ RespondToFailure(r)
         \/ Hint(r) \/ Solution(r) \/ RevealSolution(r)
         \/ Show(r) \/ Complete(r)

Spec == Init /\ [][Next]_vars

-----------------------------------------------------------------------------
TypeOK ==
    /\ pc \in [Requests -> {"idle", "quota", "validate", "run", "record",
                            "complete", "respond", "reveal"}]
    /\ job \in [Requests -> [via : {"web", "mcp", "none"}, code : Codes \cup {"none"}, prov : Provenances,
                             outcome : Outcomes \cup {"none"}, row : Nat]]
    /\ compiled \subseteq Compilable
    /\ rows \in Seq([passed : BOOLEAN, prov : Provenances])
    /\ lesson \in [status : {"absent", "in_progress", "completed"},
                   completedAt : BOOLEAN, revealed : BOOLEAN]
    /\ offer \in [Requests -> [failures : Nat, own : Nat]]
    /\ given \subseteq {"hint", "solution", "unrecorded solution"}

\* The CHECK of user_lesson: completed and completed_at never disagree, in any
\* order of opening, passing, revealing and completing
\* (progress/db/queries.sql:5-21, migrations/20260822110000_lesson_progress.sql:18-23).
StatusMatchesTimestamp == (lesson.status = "completed") <=> lesson.completedAt

\* The hint and the solution reach only a learner whose recorded failures earn
\* them, whatever else they submit, open or pass meanwhile (handler.go:147-196).
HelpIsEarned ==
    \A h \in given : CountFailedAttempts >= IF h = "hint" THEN HintAfter ELSE SolutionAfter

\* "Counted after the attempt was recorded, so the submission being answered is
\* included rather than the one before it", for every request whose row was
\* written and whose count was read (handler.go:538-546).
OwnFailureCounts ==
    \A r \in Requests : offer[r].failures > 0 => offer[r].failures >= offer[r].own

\* "one who pastes it first has not earned the solo count by retyping it
\* afterwards": a lesson that counts as assisted never becomes solo
\* (leaderboard/db/queries.sql:28-33).
NoSoloByRetyping ==
    [][Passes(rows) # {} /\ ~Solo => ~Solo']_vars

\* A lesson whose answer was shown, and whose showing was recorded, is not on the
\* solo board, whatever is opened, passed or completed before and after
\* (leaderboard/db/queries.sql:34-37, handler.go:184-190).
SoloIsUnaided == Solo => "solution" \notin given
=============================================================================
