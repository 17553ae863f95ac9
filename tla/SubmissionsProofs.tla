-------------------------- MODULE SubmissionsProofs --------------------------
(***************************************************************************)
(* What Submissions promises, for any number of requests in progress, any  *)
(* codes and any thresholds of help: failing earns help and nothing else   *)
(* does, and no detour leads from an assisted lesson to the solo board.    *)
(***************************************************************************)
EXTENDS Submissions, FiniteSetTheorems, SequenceTheorems, TLAPS

Attempts == [passed : BOOLEAN, prov : Provenances]
Jobs == [via : {"web", "mcp", "none"}, code : Codes \cup {"none"}, prov : Provenances,
         outcome : Outcomes \cup {"none"}, row : Nat]
Offers == [failures : Nat, own : Nat]

Failed(s) == {i \in DOMAIN s : ~s[i].passed}

\* Where a row was written for a request it is still there.
RowsStay == \A r \in Requests : job[r].row <= Len(rows)

\* A request past the gate of the solution was past the threshold.
GateHeld == \A r \in Requests : At(r, "reveal") => CountFailedAttempts >= SolutionAfter

\* A reveal that was recorded stays recorded.
RevealKept == "solution" \in given => lesson.revealed

\* The first of the passes that Solo goes by.
IsFirstPass(s, i) == i \in Passes(s) /\ \A j \in Passes(s) : i <= j
HasFirstPass == Passes(rows) # {} => \E i \in Passes(rows) : IsFirstPass(rows, i)

IInv ==
    /\ TypeOK
    /\ StatusMatchesTimestamp
    /\ HelpIsEarned
    /\ OwnFailureCounts
    /\ RowsStay
    /\ GateHeld
    /\ RevealKept
    /\ HasFirstPass

-----------------------------------------------------------------------------
\* Counting.

LEMMA RowsFacts ==
    ASSUME TypeOK
    PROVE  /\ rows \in Seq(Attempts)
           /\ Len(rows) \in Nat
           /\ DOMAIN rows = 1..Len(rows)
<1>1. rows \in Seq(Attempts)
  BY DEF TypeOK, Attempts
<1> QED
  BY ONLY <1>1, LenProperties

LEMMA CountOf ==
    ASSUME NEW s \in Seq(Attempts)
    PROVE  /\ DOMAIN s \ Passes(s) = Failed(s)
           /\ IsFiniteSet(Failed(s))
           /\ Cardinality(Failed(s)) \in Nat
<1>1. DOMAIN s \ Passes(s) = Failed(s)
  BY DEF Passes, Failed
<1>2. DOMAIN s = 1..Len(s) /\ Len(s) \in Nat
  BY ONLY s \in Seq(Attempts), LenProperties
<1>3. 1 \in Int /\ Len(s) \in Int
  BY <1>2
<1>4. IsFiniteSet(DOMAIN s)
  <2>1. IsFiniteSet(1..Len(s))
    BY ONLY <1>3, FS_Interval
  <2> QED
    BY ONLY <1>2, <2>1
<1>5. IsFiniteSet(Failed(s))
  <2>1. Failed(s) \in SUBSET (DOMAIN s)
    BY DEF Failed
  <2> QED
    BY ONLY <1>4, <2>1, FS_Subset
<1>6. Cardinality(Failed(s)) \in Nat
  BY ONLY <1>5, FS_CardinalityType
<1> QED
  BY ONLY <1>1, <1>5, <1>6

LEMMA CountFacts ==
    ASSUME TypeOK
    PROVE  /\ CountFailedAttempts = Cardinality(Failed(rows))
           /\ IsFiniteSet(Failed(rows))
           /\ CountFailedAttempts \in Nat
  BY RowsFacts, CountOf DEF CountFailedAttempts

LEMMA CountFactsNext ==
    ASSUME TypeOK'
    PROVE  /\ CountFailedAttempts' = Cardinality(Failed(rows'))
           /\ IsFiniteSet(Failed(rows'))
           /\ CountFailedAttempts' \in Nat
<1>1. rows' \in Seq(Attempts)
  BY DEF TypeOK, Attempts
<1> QED
  BY <1>1, CountOf DEF CountFailedAttempts

\* What a request counts of its own row is among all there are.
LEMMA UpToIsCounted ==
    ASSUME TypeOK, NEW i \in Nat, i <= Len(rows)
    PROVE  FailuresUpTo(i) \in Nat /\ FailuresUpTo(i) <= CountFailedAttempts
<1>1. {j \in 1..i : ~rows[j].passed} \in SUBSET Failed(rows)
  BY RowsFacts DEF Failed
<1>2. IsFiniteSet(Failed(rows)) /\ CountFailedAttempts = Cardinality(Failed(rows))
  BY CountFacts
<1>3. IsFiniteSet({j \in 1..i : ~rows[j].passed})
  BY <1>1, <1>2, FS_Subset
<1> QED
  BY <1>1, <1>2, <1>3, FS_Subset, FS_CardinalityType DEF FailuresUpTo

LEMMA UpToIsNumber ==
    ASSUME NEW i \in Nat
    PROVE  FailuresUpTo(i) \in Nat
<1>1. 1 \in Int /\ i \in Int
  OBVIOUS
<1>2. IsFiniteSet(1..i)
  BY ONLY <1>1, FS_Interval
<1>3. {j \in 1..i : ~rows[j].passed} \in SUBSET (1..i)
  OBVIOUS
<1>4. IsFiniteSet({j \in 1..i : ~rows[j].passed})
  BY ONLY <1>2, <1>3, FS_Subset
<1> QED
  BY ONLY <1>4, FS_CardinalityType DEF FailuresUpTo

\* A count that is read is a number, and no more than there are.
LEMMA CountsFacts ==
    ASSUME TypeOK, NEW n \in Counts
    PROVE  n \in Nat /\ (n = CountFailedAttempts \/ n = 0)
  BY CountFacts DEF Counts

-----------------------------------------------------------------------------
\* What a step can do to the two tables.

\* The rows only grow, one at a time, and the statements on the lesson's row are
\* the three of queries.sql.
Grown == \E a \in Attempts : rows' = Append(rows, a)
LessonStatement ==
    \/ lesson' = lesson
    \/ lesson' = Upserted(lesson, "in_progress")
    \/ lesson' = Upserted(lesson, "completed")
    \/ lesson' = Revealed(lesson)

LEMMA AttemptFacts ==
    ASSUME TypeOK, NEW r \in Requests
    PROVE  Attempt(job[r]) \in Attempts
<1>1. job[r] \in Jobs
  BY DEF TypeOK, Jobs
<1> QED
  BY <1>1 DEF Jobs, Attempt, Attempts, Passed

LEMMA TableSteps ==
    ASSUME TypeOK, [Next]_vars
    PROVE  (rows' = rows \/ Grown) /\ LessonStatement
<1>1. CASE UNCHANGED vars
  BY <1>1 DEF vars, LessonStatement
<1>2. CASE Forget
  BY <1>2 DEF Forget, LessonStatement
<1>3. ASSUME NEW r \in Requests, RecordAttempt(r) PROVE (rows' = rows \/ Grown) /\ lesson' = lesson
  BY <1>3, AttemptFacts DEF RecordAttempt, Written, Grown
<1>4. ASSUME NEW r \in Requests, CompleteOnPass(r) \/ Show(r) \/ Complete(r)
      PROVE  rows' = rows /\ LessonStatement
  BY <1>4 DEF CompleteOnPass, Show, Complete, Written, LessonStatement
<1>5. ASSUME NEW r \in Requests, RevealSolution(r) PROVE rows' = rows /\ LessonStatement
  BY <1>5 DEF RevealSolution, LessonStatement
<1>6. ASSUME NEW r \in Requests,
             \/ Check(r) \/ SubmitSolution(r) \/ Admitted(r) \/ RefuseQuota(r)
             \/ Validate(r) \/ RunCached(r) \/ CompileAndRun(r) \/ CompileFails(r)
             \/ GraderFails(r) \/ RespondPlainly(r) \/ RespondToFailure(r)
             \/ Hint(r) \/ Solution(r)
      PROVE  rows' = rows /\ lesson' = lesson
  BY <1>6 DEF Check, SubmitSolution, Submit, Admitted, RefuseQuota, Validate, RunCached,
              CompileAndRun, CompileFails, GraderFails, RespondPlainly, RespondToFailure,
              Hint, Solution
<1> QED
  BY <1>1, <1>2, <1>3, <1>4, <1>5, <1>6 DEF Next, LessonStatement

\* An appended row leaves the others where they were.
LEMMA AppendFacts ==
    ASSUME TypeOK, NEW a \in Attempts, rows' = Append(rows, a)
    PROVE  /\ rows' \in Seq(Attempts)
           /\ Len(rows) \in Nat /\ Len(rows') = Len(rows) + 1 /\ rows' # rows
           /\ DOMAIN rows = 1..Len(rows) /\ DOMAIN rows' = 1..(Len(rows) + 1)
           /\ \A i \in 1..Len(rows) : rows'[i] = rows[i]
<1>1. rows \in Seq(Attempts) /\ Len(rows) \in Nat /\ DOMAIN rows = 1..Len(rows)
  BY RowsFacts
<1>2. /\ rows' \in Seq(Attempts) /\ Len(rows') = Len(rows) + 1
      /\ \A i \in 1..Len(rows) : rows'[i] = rows[i]
  BY ONLY <1>1, rows' = Append(rows, a), a \in Attempts, AppendProperties
<1>3. DOMAIN rows' = 1..Len(rows')
  BY ONLY <1>2, LenProperties
<1> QED
  BY ONLY <1>1, <1>2, <1>3

-----------------------------------------------------------------------------
\* Types.

Places == {"idle", "quota", "validate", "run", "record", "complete", "respond", "reveal"}
Rows == [status : {"absent", "in_progress", "completed"}, completedAt : BOOLEAN,
         revealed : BOOLEAN]

\* The locals of the requests, and the tables.
LocalsOK ==
    /\ pc \in [Requests -> Places]
    /\ job \in [Requests -> Jobs]
    /\ offer \in [Requests -> Offers]
TablesOK ==
    /\ compiled \subseteq Compilable
    /\ rows \in Seq(Attempts)
    /\ lesson \in Rows
    /\ given \subseteq {"hint", "solution", "unrecorded solution"}

LEMMA TypeParts == TypeOK <=> LocalsOK /\ TablesOK
  BY DEF TypeOK, LocalsOK, TablesOK, Places, Rows, Jobs, Offers, Attempts

LEMMA TypePartsNext == TypeOK' <=> LocalsOK' /\ TablesOK'
  BY DEF TypeOK, LocalsOK, TablesOK, Places, Rows, Jobs, Offers, Attempts

LEMMA InitIInv == Init => IInv
<1> SUFFICES ASSUME Init PROVE IInv
  OBVIOUS
<1>1. NoJob \in Jobs /\ NoJob.row = 0
  BY DEF NoJob, Job, Jobs, Provenances
<1>2. NoOffer \in Offers /\ NoOffer.failures = 0
  BY DEF NoOffer, Offer, Offers
<1>3. NoRow \in Rows /\ NoRow.status = "absent" /\ NoRow.completedAt = FALSE
  BY DEF NoRow, Rows
<1>4. rows = << >> /\ rows \in Seq(Attempts) /\ Len(rows) = 0
  BY DEF Init
<1>5. LocalsOK /\ TablesOK
  BY <1>1, <1>2, <1>3, <1>4 DEF Init, LocalsOK, TablesOK, Places
<1>6. TypeOK
  BY <1>5, TypeParts
<1>7. Passes(rows) = {}
  BY <1>4 DEF Passes
<1>8. \A r \in Requests : job[r].row = 0 /\ offer[r].failures = 0 /\ pc[r] = "idle"
  BY <1>1, <1>2 DEF Init
<1>9. RowsStay
  BY <1>4, <1>8 DEF RowsStay
<1>10. OwnFailureCounts /\ GateHeld
  BY <1>8 DEF OwnFailureCounts, GateHeld, At
<1>11. HelpIsEarned /\ RevealKept
  BY DEF Init, HelpIsEarned, RevealKept
<1>12. StatusMatchesTimestamp
  BY <1>3 DEF Init, StatusMatchesTimestamp
<1> QED
  BY <1>6, <1>7, <1>9, <1>10, <1>11, <1>12 DEF IInv, HasFirstPass

LEMMA AnsweredTypes ==
    ASSUME LocalsOK, NEW r \in Requests, NEW o \in Offers, Answered(r, o)
    PROVE  LocalsOK'
<1>1. NoJob \in Jobs
  BY DEF NoJob, Job, Jobs, Provenances
<1>2. "idle" \in Places
  BY DEF Places
<1> QED
  BY <1>1, <1>2 DEF LocalsOK, Answered, Goto

LEMMA OfferTypes ==
    /\ NoOffer \in Offers
    /\ \A n, m \in Nat : Offer(n, m) \in Offers
  BY DEF NoOffer, Offer, Offers

\* A verdict, and the row a job was given, are all that changes of it.
LEMMA LearnTypes ==
    ASSUME LocalsOK, NEW r \in Requests, NEW o \in Outcomes \cup {"none"}, NEW p \in Places,
           Learn(r, o), Goto(r, p), offer' = offer
    PROVE  LocalsOK'
<1>1. [job[r] EXCEPT !.outcome = o] \in Jobs
  BY DEF LocalsOK, Jobs
<1>2. job' = [job EXCEPT ![r] = [job[r] EXCEPT !.outcome = o]]
  BY DEF Learn, LocalsOK
<1> QED
  BY <1>1, <1>2 DEF LocalsOK, Goto

LEMMA UpsertedTypes ==
    ASSUME lesson \in Rows
    PROVE  /\ Upserted(lesson, "in_progress") \in Rows
           /\ Upserted(lesson, "completed") \in Rows
           /\ Revealed(lesson) \in Rows
  BY DEF Rows, Upserted, Revealed

LEMMA StepTables ==
    ASSUME TypeOK, [Next]_vars
    PROVE  TablesOK'
<1>1. rows' \in Seq(Attempts)
  BY TableSteps, AppendFacts, RowsFacts DEF Grown
<1>2. lesson' \in Rows
  BY TypeParts, TableSteps, UpsertedTypes DEF LessonStatement, TablesOK
<1>3. compiled \subseteq Compilable /\ given \subseteq {"hint", "solution", "unrecorded solution"}
  BY DEF TypeOK
<1>4. compiled' \subseteq Compilable
  BY <1>3 DEF Next, vars, Forget, Check, SubmitSolution, Submit, Admitted, RefuseQuota, Validate,
              RunCached, CompileAndRun, CompileFails, GraderFails, RecordAttempt,
              CompleteOnPass, RespondPlainly, RespondToFailure, Hint, Solution,
              RevealSolution, Show, Complete
<1>5. given' \subseteq {"hint", "solution", "unrecorded solution"}
  BY <1>3 DEF Next, vars, Forget, Check, SubmitSolution, Submit, Admitted, RefuseQuota, Validate,
              RunCached, CompileAndRun, CompileFails, GraderFails, RecordAttempt,
              CompleteOnPass, RespondPlainly, RespondToFailure, Hint, Solution,
              RevealSolution, Show, Complete
<1> QED
  BY <1>1, <1>2, <1>4, <1>5 DEF TablesOK

LEMMA SubmitTypes ==
    ASSUME LocalsOK, NEW r \in Requests, NEW j \in Jobs, Submit(r, j)
    PROVE  LocalsOK'
<1>1. "quota" \in Places
  BY DEF Places
<1> QED
  BY <1>1, OfferTypes DEF LocalsOK, Submit, Goto

LEMMA StepLocals ==
    ASSUME TypeOK, [Next]_vars
    PROVE  LocalsOK'
<1>1. LocalsOK
  BY TypeParts
<1>2. CASE UNCHANGED vars \/ Forget
  BY <1>1, <1>2 DEF vars, Forget, LocalsOK
<1>3. ASSUME NEW r \in Requests, Check(r) PROVE LocalsOK'
  <2>1. PICK c \in Codes, label \in Labels : Submit(r, Job("web", c, ProvenanceFromClient(label)))
    BY <1>3 DEF Check
  <2>2. Job("web", c, ProvenanceFromClient(label)) \in Jobs
    BY DEF Job, Jobs, ProvenanceFromClient, Provenances
  <2> QED
    BY <1>1, <2>1, <2>2, SubmitTypes
<1>4. ASSUME NEW r \in Requests, SubmitSolution(r) PROVE LocalsOK'
  <2>1. PICK c \in Codes : Submit(r, Job("mcp", c, "agent"))
    BY <1>4 DEF SubmitSolution
  <2>2. Job("mcp", c, "agent") \in Jobs
    BY DEF Job, Jobs, Provenances
  <2> QED
    BY <1>1, <2>1, <2>2, SubmitTypes
<1>5. ASSUME NEW r \in Requests, NEW p \in Places, Goto(r, p), job' = job, offer' = offer
      PROVE  LocalsOK'
  BY <1>1, <1>5 DEF Goto, LocalsOK
<1>6. ASSUME NEW r \in Requests, Admitted(r) PROVE LocalsOK'
  BY <1>5, <1>6 DEF Admitted, Places
<1>7. ASSUME NEW r \in Requests, CompleteOnPass(r) PROVE LocalsOK'
  BY <1>5, <1>7 DEF CompleteOnPass, Places
<1>8. ASSUME NEW r \in Requests, RefuseQuota(r) \/ GraderFails(r) \/ RespondPlainly(r)
      PROVE  LocalsOK'
  BY <1>1, <1>8, AnsweredTypes, OfferTypes DEF RefuseQuota, GraderFails, RespondPlainly
<1>9. ASSUME NEW r \in Requests, Validate(r) PROVE LocalsOK'
  <2>1. Static(job[r].code) \in Outcomes \cup {"none"}
    BY DEF Static, Outcomes
  <2>2. {"run", "record"} \subseteq Places
    BY DEF Places
  <2> QED
    BY <1>1, <1>9, <2>1, <2>2, LearnTypes DEF Validate
<1>10. ASSUME NEW r \in Requests, RunCached(r) \/ CompileAndRun(r) \/ CompileFails(r)
       PROVE  LocalsOK'
  <2>1. Ran(job[r].code) \subseteq Outcomes /\ "compile_failed" \in Outcomes
    BY DEF Ran, Outcomes
  <2>2. "record" \in Places
    BY DEF Places
  <2>3. \E o \in Outcomes : Learn(r, o)
    BY <1>10, <2>1 DEF RunCached, CompileAndRun, CompileFails
  <2> QED
    BY <1>1, <1>10, <2>2, <2>3, LearnTypes DEF RunCached, CompileAndRun, CompileFails
<1>11. ASSUME NEW r \in Requests, RecordAttempt(r) PROVE LocalsOK'
  <2>1. PICK n \in Nat : job' = [job EXCEPT ![r].row = n]
    <3>1. rows' \in Seq(Attempts)
      BY StepTables DEF TablesOK
    <3>2. Len(rows') \in Nat
      BY ONLY <3>1, LenProperties
    <3>3. (IF rows' # rows THEN Len(rows') ELSE 0) \in Nat
      BY <3>2
    <3> QED
      BY <1>11, <3>3 DEF RecordAttempt
  <2>2. [job[r] EXCEPT !.row = n] \in Jobs
    BY <1>1 DEF LocalsOK, Jobs
  <2>3. job' = [job EXCEPT ![r] = [job[r] EXCEPT !.row = n]]
    BY <1>1, <2>1 DEF LocalsOK
  <2>4. pc' \in [Requests -> Places] /\ offer' = offer
    BY <1>1, <1>11 DEF RecordAttempt, Goto, Places, LocalsOK
  <2> QED
    BY <1>1, <2>2, <2>3, <2>4 DEF LocalsOK
<1>12. ASSUME NEW r \in Requests, RespondToFailure(r) PROVE LocalsOK'
  <2>1. PICK n \in Counts : Answered(r, Offer(n, FailuresUpTo(job[r].row)))
    BY <1>12 DEF RespondToFailure
  <2>2. job[r].row \in Nat
    BY <1>1 DEF LocalsOK, Jobs
  <2>3. Offer(n, FailuresUpTo(job[r].row)) \in Offers
    BY <2>2, UpToIsNumber, CountsFacts, OfferTypes
  <2> QED
    BY <1>1, <2>1, <2>3, AnsweredTypes
<1>13. ASSUME NEW r \in Requests, Hint(r) PROVE LocalsOK'
  <2>1. \E o \in Offers : Answered(r, o)
    BY <1>13, CountsFacts, OfferTypes DEF Hint
  <2> QED
    BY <1>1, <2>1, AnsweredTypes
<1>14. ASSUME NEW r \in Requests, Solution(r) PROVE LocalsOK'
  <2>1. Answered(r, NoOffer) \/ (Goto(r, "reveal") /\ UNCHANGED <<job, offer>>)
    BY <1>14 DEF Solution
  <2>2. "reveal" \in Places
    BY DEF Places
  <2> QED
    BY <1>1, <1>5, <2>1, <2>2, AnsweredTypes, OfferTypes
<1>15. ASSUME NEW r \in Requests, RevealSolution(r) PROVE LocalsOK'
  <2>1. Offer(SolutionAfter, 0) \in Offers
    BY SubmissionsAssumption, OfferTypes
  <2> QED
    BY <1>1, <1>15, <2>1, AnsweredTypes DEF RevealSolution
<1>16. ASSUME NEW r \in Requests, Show(r) \/ Complete(r) PROVE LocalsOK'
  BY <1>1, <1>16 DEF Show, Complete, LocalsOK
<1> QED
  BY <1>2, <1>3, <1>4, <1>6, <1>7, <1>8, <1>9, <1>10, <1>11, <1>12, <1>13, <1>14, <1>15,
     <1>16 DEF Next

LEMMA StepTypes == ASSUME TypeOK, [Next]_vars PROVE TypeOK'
  BY StepLocals, StepTables, TypePartsNext

-----------------------------------------------------------------------------
\* The parts of the invariant.

\* "exercise_attempt" is only ever appended to: no failure is taken back.
LEMMA FailuresOnlyGrow ==
    ASSUME TypeOK, [Next]_vars
    PROVE  CountFailedAttempts' >= CountFailedAttempts
<1>1. TypeOK'
  BY StepTypes
<1>2. /\ CountFailedAttempts = Cardinality(Failed(rows)) /\ CountFailedAttempts \in Nat
  BY CountFacts
<1>3. /\ CountFailedAttempts' = Cardinality(Failed(rows')) /\ IsFiniteSet(Failed(rows'))
  BY <1>1, CountFactsNext
<1>4. CASE rows' = rows
  BY <1>2, <1>3, <1>4
<1>5. CASE Grown
  <2>1. Failed(rows) \in SUBSET Failed(rows')
    BY <1>5, AppendFacts DEF Grown, Failed
  <2>2. Cardinality(Failed(rows)) <= Cardinality(Failed(rows'))
    BY ONLY <1>3, <2>1, FS_Subset
  <2> QED
    BY <1>2, <1>3, <2>2
<1> QED
  BY <1>4, <1>5, TableSteps

LEMMA StepStatus ==
    ASSUME TypeOK, StatusMatchesTimestamp, [Next]_vars
    PROVE  StatusMatchesTimestamp'
<1>1. lesson \in Rows
  BY TypeParts DEF TablesOK
<1>2. ASSUME NEW new, new \in {Upserted(lesson, "in_progress"), Upserted(lesson, "completed"),
                              Revealed(lesson)}
      PROVE  (new.status = "completed") <=> new.completedAt
  BY <1>1, <1>2 DEF StatusMatchesTimestamp, Upserted, Revealed, Rows
<1> QED
  BY <1>2, TableSteps DEF LessonStatement, StatusMatchesTimestamp

LEMMA StepHelp ==
    ASSUME TypeOK, HelpIsEarned, GateHeld, [Next]_vars
    PROVE  HelpIsEarned'
<1>1. /\ CountFailedAttempts \in Nat /\ CountFailedAttempts' \in Nat
      /\ CountFailedAttempts' >= CountFailedAttempts
  BY StepTypes, CountFacts, CountFactsNext, FailuresOnlyGrow
<1>2. HintAfter \in Nat \ {0} /\ SolutionAfter \in Nat /\ HintAfter <= SolutionAfter
  BY SubmissionsAssumption
<1>3. SUFFICES \A h \in given' : CountFailedAttempts >= IF h = "hint" THEN HintAfter ELSE SolutionAfter
  BY <1>1, <1>2 DEF HelpIsEarned
<1>4. CASE given' = given
  BY <1>4 DEF HelpIsEarned
<1>5. ASSUME NEW r \in Requests, Hint(r)
      PROVE  given' = given \/ (given' = given \cup {"hint"} /\ CountFailedAttempts >= HintAfter)
  BY <1>1, <1>2, <1>5, CountsFacts DEF Hint
<1>6. ASSUME NEW r \in Requests, RevealSolution(r)
      PROVE  /\ given' \subseteq given \cup {"hint", "solution", "unrecorded solution"}
             /\ CountFailedAttempts >= SolutionAfter
  BY <1>6 DEF RevealSolution, GateHeld
<1>7. \/ given' = given
      \/ \E r \in Requests : Hint(r) \/ RevealSolution(r)
  BY DEF Next, vars, Forget, Check, SubmitSolution, Submit, Admitted, RefuseQuota, Validate,
         RunCached, CompileAndRun, CompileFails, GraderFails, RecordAttempt,
         CompleteOnPass, RespondPlainly, RespondToFailure, Solution, Show, Complete
<1>8. ASSUME NEW r \in Requests, Hint(r), NEW h \in given'
      PROVE  CountFailedAttempts >= IF h = "hint" THEN HintAfter ELSE SolutionAfter
  <2>1. CASE h \in given
    BY <2>1 DEF HelpIsEarned
  <2>2. CASE h \notin given
    <3>1. h = "hint" /\ CountFailedAttempts >= HintAfter
      BY <1>5, <1>8, <2>2
    <3> QED
      BY <3>1
  <2> QED
    BY <2>1, <2>2
<1>9. ASSUME NEW r \in Requests, RevealSolution(r), NEW h \in given'
      PROVE  CountFailedAttempts >= IF h = "hint" THEN HintAfter ELSE SolutionAfter
  <2>1. CountFailedAttempts >= SolutionAfter
    BY <1>6, <1>9
  <2>2. CountFailedAttempts >= HintAfter
    BY <1>1, <1>2, <2>1
  <2> QED
    BY <2>1, <2>2
<1> QED
  BY <1>4, <1>7, <1>8, <1>9

\* An answer offers help by no number that leaves out the request's own failure.
LEMMA OfferSteps ==
    ASSUME TypeOK, RowsStay, [Next]_vars
    PROVE  \/ offer' = offer
           \/ \E r \in Requests, o \in Offers :
                /\ offer' = [offer EXCEPT ![r] = o]
                /\ o.failures > 0 => o.failures >= o.own
<1> DEFINE Fair(o) == o \in Offers /\ (o.failures > 0 => o.failures >= o.own)
<1>1. Fair(NoOffer)
  BY OfferTypes DEF NoOffer, Offer
<1>2. ASSUME NEW n \in Nat PROVE Fair(Offer(n, 0))
  BY OfferTypes DEF Offer
<1>3. ASSUME NEW r \in Requests, RespondToFailure(r)
      PROVE  \E o : Fair(o) /\ offer' = [offer EXCEPT ![r] = o]
  <2>1. PICK n \in Counts : Answered(r, Offer(n, FailuresUpTo(job[r].row)))
    BY <1>3 DEF RespondToFailure
  <2>2. job[r].row \in Nat /\ job[r].row <= Len(rows)
    BY TypeParts DEF LocalsOK, Jobs, RowsStay
  <2>3. FailuresUpTo(job[r].row) \in Nat /\ FailuresUpTo(job[r].row) <= CountFailedAttempts
    BY <2>2, UpToIsCounted
  <2>4. n \in Nat /\ (n = CountFailedAttempts \/ n = 0)
    BY CountsFacts
  <2>5. Fair(Offer(n, FailuresUpTo(job[r].row)))
    BY <2>3, <2>4, OfferTypes DEF Offer
  <2> QED
    BY <2>1, <2>5 DEF Answered
<1>4. ASSUME NEW r \in Requests, Hint(r)
      PROVE  \E o : Fair(o) /\ offer' = [offer EXCEPT ![r] = o]
  <2>1. \E n \in Counts : Answered(r, NoOffer) \/ Answered(r, Offer(n, 0))
    BY <1>4 DEF Hint
  <2> QED
    BY <1>1, <1>2, <2>1, CountsFacts DEF Answered
<1>5. ASSUME NEW r \in Requests, Solution(r)
      PROVE  offer' = offer \/ offer' = [offer EXCEPT ![r] = NoOffer]
  BY <1>5 DEF Solution, Answered
<1>6. ASSUME NEW r \in Requests, RevealSolution(r)
      PROVE  \E o : Fair(o) /\ offer' = [offer EXCEPT ![r] = o]
  BY <1>2, <1>6, SubmissionsAssumption DEF RevealSolution, Answered
<1>7. ASSUME NEW r \in Requests,
             \/ Check(r) \/ SubmitSolution(r) \/ RefuseQuota(r) \/ GraderFails(r)
             \/ RespondPlainly(r)
      PROVE  offer' = [offer EXCEPT ![r] = NoOffer]
  BY <1>7 DEF Check, SubmitSolution, Submit, RefuseQuota, GraderFails, RespondPlainly, Answered
<1>8. ASSUME NEW r \in Requests,
             \/ Admitted(r) \/ Validate(r) \/ RunCached(r) \/ CompileAndRun(r)
             \/ CompileFails(r) \/ RecordAttempt(r) \/ CompleteOnPass(r) \/ Show(r)
             \/ Complete(r)
      PROVE  offer' = offer
  BY <1>8 DEF Admitted, Validate, RunCached, CompileAndRun, CompileFails, RecordAttempt,
              CompleteOnPass, Show, Complete
<1>9. CASE UNCHANGED vars \/ Forget
  BY <1>9 DEF vars, Forget
<1> QED
  BY <1>1, <1>3, <1>4, <1>5, <1>6, <1>7, <1>8, <1>9 DEF Next

LEMMA StepOwnFailure ==
    ASSUME TypeOK, RowsStay, OwnFailureCounts, [Next]_vars
    PROVE  OwnFailureCounts'
<1>1. offer \in [Requests -> Offers]
  BY TypeParts DEF LocalsOK
<1> QED
  BY <1>1, OfferSteps DEF OwnFailureCounts

\* The rows are as many as before or more.
LEMMA LengthGrows ==
    ASSUME TypeOK, [Next]_vars
    PROVE  Len(rows) \in Nat /\ Len(rows') \in Nat /\ Len(rows) <= Len(rows')
<1>1. CASE rows' = rows
  BY <1>1, RowsFacts
<1>2. CASE Grown
  BY <1>2, AppendFacts DEF Grown
<1> QED
  BY <1>1, <1>2, TableSteps

LEMMA StepRowsStay ==
    ASSUME TypeOK, RowsStay, [Next]_vars
    PROVE  RowsStay'
<1>1. job \in [Requests -> Jobs]
  BY TypeParts DEF LocalsOK
<1>2. SUFFICES ASSUME NEW q \in Requests PROVE job'[q].row <= Len(rows')
  BY DEF RowsStay
<1>3. job[q].row \in Nat /\ job[q].row <= Len(rows)
  BY <1>1 DEF RowsStay, Jobs
<1>4. SUFFICES job'[q].row \in {0, job[q].row, Len(rows')}
  BY <1>3, LengthGrows
<1>5. ASSUME NEW r \in Requests, job' = [job EXCEPT ![r] = NoJob] \/ job' = job
      PROVE  job'[q].row \in {0, job[q].row}
  BY <1>1, <1>5 DEF NoJob, Job
<1>6. ASSUME NEW r \in Requests, NEW o, Learn(r, o) PROVE job'[q].row = job[q].row
  <2>1. job[r] \in Jobs
    BY <1>1
  <2> QED
    BY <1>1, <1>6, <2>1 DEF Learn, Jobs
<1>7. ASSUME NEW r \in Requests, Check(r) \/ SubmitSolution(r)
      PROVE  job'[q].row \in {0, job[q].row}
  <2>1. \E v, c, p : job' = [job EXCEPT ![r] = Job(v, c, p)]
    BY <1>7 DEF Check, SubmitSolution, Submit
  <2> QED
    BY <1>1, <2>1 DEF Job
<1>8. ASSUME NEW r \in Requests, RecordAttempt(r)
      PROVE  job'[q].row \in {0, job[q].row, Len(rows')}
  <2>1. job[r] \in Jobs
    BY <1>1
  <2> QED
    BY <1>1, <1>8, <2>1 DEF RecordAttempt, Jobs
<1>9. ASSUME NEW r \in Requests,
             Validate(r) \/ RunCached(r) \/ CompileAndRun(r) \/ CompileFails(r)
      PROVE  job'[q].row = job[q].row
  BY <1>6, <1>9 DEF Validate, RunCached, CompileAndRun, CompileFails
<1>10. ASSUME NEW r \in Requests,
             \/ Admitted(r) \/ RefuseQuota(r) \/ GraderFails(r) \/ CompleteOnPass(r)
             \/ RespondPlainly(r) \/ RespondToFailure(r) \/ Hint(r) \/ Solution(r)
             \/ RevealSolution(r) \/ Show(r) \/ Complete(r)
      PROVE  job'[q].row \in {0, job[q].row}
  <2>1. job' = [job EXCEPT ![r] = NoJob] \/ job' = job
    BY <1>10 DEF Admitted, RefuseQuota, GraderFails, CompleteOnPass, RespondPlainly,
                 RespondToFailure, Hint, Solution, RevealSolution, Show, Complete, Answered
  <2> QED
    BY <1>5, <2>1
<1>11. CASE UNCHANGED vars \/ Forget
  BY <1>11 DEF vars, Forget
<1> QED
  BY <1>7, <1>8, <1>9, <1>10, <1>11 DEF Next

LEMMA StepGate ==
    ASSUME TypeOK, GateHeld, [Next]_vars
    PROVE  GateHeld'
<1>1. pc \in [Requests -> Places]
  BY TypeParts DEF LocalsOK
<1>2. /\ CountFailedAttempts \in Nat /\ CountFailedAttempts' \in Nat
      /\ CountFailedAttempts' >= CountFailedAttempts
  BY StepTypes, CountFacts, CountFactsNext, FailuresOnlyGrow
<1>3. SolutionAfter \in Nat
  BY SubmissionsAssumption
<1>4. SUFFICES ASSUME NEW q \in Requests, pc'[q] = "reveal"
               PROVE  CountFailedAttempts >= SolutionAfter
  BY <1>2, <1>3 DEF GateHeld, At
<1>5. CASE pc[q] = "reveal"
  BY <1>5 DEF GateHeld, At
<1>6. ASSUME NEW r \in Requests, Solution(r), pc[q] # "reveal"
      PROVE  CountFailedAttempts >= SolutionAfter
  <2>1. PICK n \in Counts : n < SolutionAfter => Answered(r, NoOffer)
    BY <1>6 DEF Solution
  <2>2. n \in Nat /\ (n = CountFailedAttempts \/ n = 0)
    BY CountsFacts
  <2>3. ~Answered(r, NoOffer)
    BY <1>1, <1>4, <1>6 DEF Answered, Goto
  <2> QED
    BY <1>2, <1>3, <2>1, <2>2, <2>3
<1>7. ASSUME NEW r \in Requests, NEW p, p # "reveal", pc[q] # "reveal", pc' = [pc EXCEPT ![r] = p]
      PROVE  FALSE
  BY <1>1, <1>4, <1>7
<1>8. ASSUME pc[q] # "reveal", pc' = pc PROVE FALSE
  BY <1>4, <1>8
<1>9. ASSUME NEW r \in Requests, pc[q] # "reveal",
             \/ RefuseQuota(r) \/ GraderFails(r) \/ RespondPlainly(r) \/ RespondToFailure(r)
             \/ Hint(r) \/ RevealSolution(r)
      PROVE  FALSE
  <2>1. pc' = [pc EXCEPT ![r] = "idle"]
    BY <1>9 DEF RefuseQuota, GraderFails, RespondPlainly, RespondToFailure, Hint,
                RevealSolution, Answered, Goto
  <2> QED
    BY <1>7, <1>9, <2>1
<1>10. ASSUME NEW r \in Requests, pc[q] # "reveal",
             \/ Check(r) \/ SubmitSolution(r) \/ Admitted(r) \/ Validate(r) \/ RunCached(r)
             \/ CompileAndRun(r) \/ CompileFails(r) \/ RecordAttempt(r) \/ CompleteOnPass(r)
      PROVE  FALSE
  <2>1. \E p : p # "reveal" /\ pc' = [pc EXCEPT ![r] = p]
    BY <1>10 DEF Check, SubmitSolution, Submit, Admitted, Validate, RunCached, CompileAndRun,
                 CompileFails, RecordAttempt, CompleteOnPass, Goto
  <2> QED
    BY <1>7, <1>10, <2>1
<1>11. ASSUME pc[q] # "reveal",
             UNCHANGED vars \/ Forget \/ \E r \in Requests : Show(r) \/ Complete(r)
       PROVE  FALSE
  BY <1>8, <1>11 DEF vars, Forget, Show, Complete
<1> QED
  BY <1>5, <1>6, <1>9, <1>10, <1>11 DEF Next

\* No statement unsets solution_revealed_at.
LEMMA StaysRevealed ==
    ASSUME TypeOK, [Next]_vars
    PROVE  lesson.revealed => lesson'.revealed
<1>1. lesson \in Rows
  BY TypeParts DEF TablesOK
<1> QED
  BY <1>1, TableSteps DEF LessonStatement, Upserted, Revealed, Rows

LEMMA StepReveal ==
    ASSUME TypeOK, RevealKept, [Next]_vars
    PROVE  RevealKept'
<1>1. ASSUME NEW r \in Requests, RevealSolution(r), "solution" \in given', "solution" \notin given
      PROVE  lesson'.revealed
  <2>1. lesson \in Rows
    BY TypeParts DEF TablesOK
  <2>2. lesson' = Revealed(lesson)
    <3>1. "solution" \notin given \cup {"hint", "unrecorded solution"}
      BY <1>1
    <3> QED
      BY <1>1, <3>1 DEF RevealSolution
  <2> QED
    BY <2>1, <2>2 DEF Revealed, Rows
<1>2. "solution" \in given' => "solution" \in given \/ \E r \in Requests : RevealSolution(r)
  BY DEF Next, vars, Forget, Check, SubmitSolution, Submit, Admitted, RefuseQuota, Validate,
         RunCached, CompileAndRun, CompileFails, GraderFails, RecordAttempt,
         CompleteOnPass, RespondPlainly, RespondToFailure, Hint, Solution, Show, Complete
<1> QED
  BY <1>1, <1>2, StaysRevealed DEF RevealKept

\* The first pass stays first, whatever is appended.
LEMMA FirstPassStays ==
    ASSUME TypeOK, [Next]_vars, NEW i, IsFirstPass(rows, i)
    PROVE  /\ IsFirstPass(rows', i)
           /\ rows'[i] = rows[i]
           /\ \A j : IsFirstPass(rows', j) => j = i
<1>1. i \in 1..Len(rows) /\ rows[i].passed /\ Len(rows) \in Nat
  BY RowsFacts DEF IsFirstPass, Passes
<1>2. /\ Passes(rows) \subseteq Passes(rows')
      /\ \A j \in Passes(rows') : j \in Passes(rows) \/ j = Len(rows) + 1
      /\ rows'[i] = rows[i]
  <2>1. CASE rows' = rows
    BY <2>1
  <2>2. CASE Grown
    BY <1>1, <2>2, AppendFacts DEF Grown, Passes
  <2> QED
    BY <2>1, <2>2, TableSteps
<1>3. Passes(rows) \subseteq Nat
  BY RowsFacts DEF Passes
<1>4. IsFirstPass(rows', i)
  BY <1>1, <1>2 DEF IsFirstPass
<1>5. ASSUME NEW j, IsFirstPass(rows', j) PROVE j = i
  <2>1. j \in Nat /\ i \in Nat /\ i <= j /\ j <= i
    BY <1>1, <1>2, <1>3, <1>4, <1>5 DEF IsFirstPass
  <2> QED
    BY <2>1
<1> QED
  BY <1>2, <1>4, <1>5

LEMMA StepFirstPass ==
    ASSUME TypeOK, HasFirstPass, [Next]_vars
    PROVE  HasFirstPass'
<1>1. CASE Passes(rows) # {}
  <2>1. PICK i : IsFirstPass(rows, i)
    BY <1>1 DEF HasFirstPass
  <2>2. IsFirstPass(rows', i)
    BY <2>1, FirstPassStays
  <2> QED
    BY <2>2 DEF HasFirstPass, IsFirstPass
<1>2. CASE Passes(rows) = {} /\ rows' = rows
  BY <1>2 DEF HasFirstPass
<1>3. CASE Passes(rows) = {} /\ Grown
  <2>1. Len(rows) \in Nat /\ \A i \in Passes(rows') : i = Len(rows) + 1
    BY <1>3, AppendFacts DEF Grown, Passes
  <2> QED
    BY <2>1 DEF HasFirstPass, IsFirstPass
<1> QED
  BY <1>1, <1>2, <1>3, TableSteps

LEMMA StepIInv == IInv /\ [Next]_vars => IInv'
  BY StepTypes, StepStatus, StepHelp, StepOwnFailure, StepRowsStay, StepGate, StepReveal,
     StepFirstPass DEF IInv

LEMMA Invariant == Spec => []IInv
  BY InitIInv, StepIInv, PTL DEF Spec

-----------------------------------------------------------------------------
\* Every request is at a point of its handler, with the locals of that point, and
\* the two tables hold what their columns allow.
THEOREM SubmissionsTypes == Spec => []TypeOK
  BY Invariant, PTL DEF IInv

\* A lesson's row is completed exactly when it says when
\* (progress/db/queries.sql:5-21).
THEOREM StatusAlwaysMatches == Spec => []StatusMatchesTimestamp
  BY Invariant, PTL DEF IInv

\* However many tabs and agents submit, fail, pass and reveal at once, the hint
\* and the solution reach only a learner with the failures they take, because
\* attempts are only ever added (handler.go:147-196, queries.sql of progress).
THEOREM HelpIsAlwaysEarned == Spec => []HelpIsEarned
  BY Invariant, PTL DEF IInv

\* The count an answer goes by has the failure being answered in it
\* (handler.go:538-546).
THEOREM OwnFailureAlwaysCounts == Spec => []OwnFailureCounts
  BY Invariant, PTL DEF IInv

\* A solution that was shown, and whose showing was recorded, keeps the lesson off
\* the solo board for good (leaderboard/db/queries.sql:34-37).
THEOREM SoloIsAlwaysUnaided == Spec => []SoloIsUnaided
<1>1. IInv => SoloIsUnaided
  BY DEF IInv, RevealKept, SoloIsUnaided, Solo
<1> QED
  BY <1>1, Invariant, PTL

\* The first pass decides for good whether a lesson is solo: no later pass, however
\* it was typed, makes an assisted lesson a solo one
\* (leaderboard/db/queries.sql:28-33).
THEOREM RetypingEarnsNothing == Spec => NoSoloByRetyping
<1>1. ASSUME IInv, [Next]_vars, Passes(rows) # {}, Solo' PROVE Solo
  <2>1. TypeOK /\ HasFirstPass
    BY <1>1 DEF IInv
  <2>2. IsFirstPass(rows, FirstPass)
    BY <1>1, <2>1 DEF FirstPass, HasFirstPass, IsFirstPass
  <2>3. /\ IsFirstPass(rows', FirstPass)
        /\ rows'[FirstPass] = rows[FirstPass]
        /\ \A j : IsFirstPass(rows', j) => j = FirstPass
    BY <1>1, <2>1, <2>2, FirstPassStays
  <2>4. FirstPass' = FirstPass
    <3>1. FirstPass' = CHOOSE j \in Passes(rows') : \A k \in Passes(rows') : j <= k
      BY DEF FirstPass, Passes
    <3>2. IsFirstPass(rows', FirstPass')
      BY <2>3, <3>1 DEF IsFirstPass
    <3> QED
      BY <2>3, <3>2
  <2>5. lesson.revealed => lesson'.revealed
    BY <1>1, <2>1, StaysRevealed
  <2>6. rows'[FirstPass'].prov = "typed" /\ ~lesson'.revealed
    BY <1>1 DEF Solo
  <2> QED
    BY <1>1, <2>3, <2>4, <2>5, <2>6 DEF Solo
<1>2. IInv /\ [Next]_vars => [Passes(rows) # {} /\ ~Solo => ~Solo']_vars
  BY <1>1
<1> QED
  BY <1>2, Invariant, PTL DEF Spec, NoSoloByRetyping

-----------------------------------------------------------------------------
\* What each verdict says of the code, by the checks in the order they are made.
Justified(code, outcome) ==
    /\ outcome = "static_failed" <=> code \in BreaksRules
    /\ outcome = "passed" /\ Executes => code \in Satisfying
    /\ outcome = "output_mismatch" => code \in Compilable \ Satisfying
    /\ outcome = "pending" => Executes /\ ~Runnable

\* What is run has come through the static checks, and a verdict that was reached
\* stays the one the checks gave, through the recording and the answering of it.
VerdictsHold ==
    \A r \in Requests :
        /\ At(r, "run") => job[r].code \notin BreaksRules /\ Executes /\ Runnable
        /\ pc[r] \in {"record", "complete", "respond"} =>
             Justified(job[r].code, job[r].outcome)

\* An attempt is the record of one request's verdict, and the verdict is what the
\* checks make of the code that request submitted.
AttemptsAreJudged ==
    [][rows' # rows =>
         \E r \in Requests :
             /\ At(r, "record")
             /\ rows' = Append(rows, Attempt(job[r]))
             /\ Justified(job[r].code, job[r].outcome)]_vars

LEMMA StepVerdicts ==
    ASSUME TypeOK, VerdictsHold, [Next]_vars
    PROVE  VerdictsHold'
<1>1. pc \in [Requests -> Places] /\ job \in [Requests -> Jobs] /\ compiled \subseteq Compilable
  BY TypeParts DEF LocalsOK, TablesOK
<1>2. SUFFICES ASSUME NEW q \in Requests
               PROVE  /\ pc'[q] = "run" => job'[q].code \notin BreaksRules /\ Executes /\ Runnable
                      /\ pc'[q] \in {"record", "complete", "respond"} =>
                           Justified(job'[q].code, job'[q].outcome)
  BY DEF VerdictsHold, At
<1>3. /\ pc[q] = "run" => job[q].code \notin BreaksRules /\ Executes /\ Runnable
      /\ pc[q] \in {"record", "complete", "respond"} => Justified(job[q].code, job[q].outcome)
  BY DEF VerdictsHold, At
<1>4. CASE pc'[q] = pc[q] /\ job'[q] = job[q]
  BY <1>3, <1>4
<1>5. CASE pc'[q] \in {"idle", "quota", "validate", "reveal"}
  BY <1>5
<1>6. CASE UNCHANGED vars \/ Forget \/ \E r \in Requests : Show(r) \/ Complete(r)
  BY <1>4, <1>6 DEF vars, Forget, Show, Complete
<1>7. ASSUME NEW r \in Requests,
             \/ Check(r) \/ SubmitSolution(r) \/ Admitted(r) \/ RefuseQuota(r) \/ GraderFails(r)
             \/ RespondPlainly(r) \/ RespondToFailure(r) \/ Hint(r) \/ Solution(r)
             \/ RevealSolution(r)
      PROVE  (pc'[q] = pc[q] /\ job'[q] = job[q]) \/ pc'[q] \in {"idle", "quota", "validate", "reveal"}
  BY <1>1, <1>7 DEF Check, SubmitSolution, Submit, Admitted, RefuseQuota, GraderFails,
              RespondPlainly, RespondToFailure, Hint, Solution, RevealSolution, Answered, Goto
<1>8. ASSUME NEW r \in Requests, NEW o, NEW p, Learn(r, o), Goto(r, p)
      PROVE  /\ q # r => pc'[q] = pc[q] /\ job'[q] = job[q]
             /\ q = r => pc'[q] = p /\ job'[q].outcome = o /\ job'[q].code = job[q].code
  BY <1>1, <1>8 DEF Learn, Goto, Jobs
<1>9. ASSUME NEW r \in Requests, Validate(r), q = r
      PROVE  /\ pc'[q] = IF Static(job[q].code) = "none" THEN "run" ELSE "record"
             /\ job'[q].outcome = Static(job[q].code) /\ job'[q].code = job[q].code
  BY <1>8, <1>9 DEF Validate
<1>10. ASSUME NEW r \in Requests, Validate(r)
       PROVE  /\ pc'[q] = "run" => job'[q].code \notin BreaksRules /\ Executes /\ Runnable
              /\ pc'[q] \in {"record", "complete", "respond"} =>
                   Justified(job'[q].code, job'[q].outcome)
  <2>1. CASE q # r
    BY <1>4, <1>8, <1>10, <2>1 DEF Validate
  <2>2. CASE q = r
    BY <1>9, <1>10, <2>2 DEF Static, Justified
  <2> QED BY <2>1, <2>2
<1>11. ASSUME NEW r \in Requests, RunCached(r) \/ CompileAndRun(r) \/ CompileFails(r)
       PROVE  /\ pc'[q] = "run" => job'[q].code \notin BreaksRules /\ Executes /\ Runnable
              /\ pc'[q] \in {"record", "complete", "respond"} =>
                   Justified(job'[q].code, job'[q].outcome)
  <2>1. PICK o : /\ Learn(r, o) /\ Goto(r, "record") /\ pc[r] = "run"
                 /\ o = "compile_failed" \/ (o \in Ran(job[r].code) /\ job[r].code \in Compilable)
    BY <1>1, <1>11 DEF RunCached, CompileAndRun, CompileFails, At
  <2>2. CASE q # r
    BY <1>4, <1>8, <2>1, <2>2
  <2>3. CASE q = r
    <3>1. pc'[q] = "record" /\ job'[q].outcome = o /\ job'[q].code = job[q].code
      BY <1>8, <2>1, <2>3
    <3>2. job[q].code \notin BreaksRules /\ Executes /\ Runnable
      BY <1>3, <2>1, <2>3
    <3> QED BY <2>1, <2>3, <3>1, <3>2 DEF Justified, Ran
  <2> QED BY <2>2, <2>3
<1>12. ASSUME NEW r \in Requests, RecordAttempt(r) \/ CompleteOnPass(r)
       PROVE  /\ pc'[q] = "run" => job'[q].code \notin BreaksRules /\ Executes /\ Runnable
              /\ pc'[q] \in {"record", "complete", "respond"} =>
                   Justified(job'[q].code, job'[q].outcome)
  <2>1. /\ pc[r] \in {"record", "complete"}
        /\ pc'[r] \in {"complete", "respond"}
        /\ q # r => pc'[q] = pc[q] /\ job'[q] = job[q]
        /\ job'[q].code = job[q].code /\ job'[q].outcome = job[q].outcome
    BY <1>1, <1>12 DEF RecordAttempt, CompleteOnPass, Goto, At, Jobs
  <2>2. CASE q # r
    BY <1>4, <2>1, <2>2
  <2>3. CASE q = r
    BY <1>3, <2>1, <2>3
  <2> QED BY <2>2, <2>3
<1> QED
  BY <1>4, <1>5, <1>6, <1>7, <1>10, <1>11, <1>12 DEF Next

\* Whatever quota, cache and container do to the requests under way, and whoever
\* else is being graded, an attempt is recorded with the verdict the checks give
\* the code that was submitted (grading.go:104-166, submission.go:116-119).
THEOREM OnlyVerdictsAreRecorded == Spec => AttemptsAreJudged
<1>1. Init => VerdictsHold
  BY DEF Init, VerdictsHold, At
<1>2. TypeOK /\ VerdictsHold /\ [Next]_vars => VerdictsHold'
  BY StepVerdicts
<1>3. ASSUME VerdictsHold, [Next]_vars, rows' # rows
      PROVE  \E r \in Requests :
                 /\ At(r, "record")
                 /\ rows' = Append(rows, Attempt(job[r]))
                 /\ Justified(job[r].code, job[r].outcome)
  <2>1. PICK r \in Requests : RecordAttempt(r)
    BY <1>3 DEF Next, vars, Forget, Check, SubmitSolution, Submit, Admitted, RefuseQuota,
              Validate, RunCached, CompileAndRun, CompileFails, GraderFails, CompleteOnPass,
              RespondPlainly, RespondToFailure, Hint, Solution, RevealSolution, Show, Complete
  <2>2. At(r, "record") /\ rows' = Append(rows, Attempt(job[r]))
    BY <1>3, <2>1 DEF RecordAttempt, Written
  <2> QED BY <1>3, <2>2 DEF VerdictsHold, At
<1> QED
  BY <1>1, <1>2, <1>3, SubmissionsTypes, PTL DEF Spec, AttemptsAreJudged
=============================================================================
