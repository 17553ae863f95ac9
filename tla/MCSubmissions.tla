---------------------------- MODULE MCSubmissions ----------------------------
(***************************************************************************)
(* Submissions for TLC, of a lesson whose rules and whose submissions are  *)
(* given as texts and judged by Grader: code must use `u` and not `!`, and *)
(* print x.  Requests are interchangeable.                                 *)
(***************************************************************************)
EXTENDS Submissions, TLC

G == INSTANCE Grader

Lesson == G!Assertions({}, <<"x">>, {<<"u">>}, {<<"!">>})

\* An answer with its `!` in a nested comment and behind an escaped quote; one
\* that prints too much; one that uses `u` in a comment and a string only.
Source == [
    tidy      |-> <<"/", "*", "/", "*", "*", "/", "!", "*", "/", "u", "\"", "\\", "\"", "!", "\"">>,
    misprint  |-> <<"u">>,
    commented |-> <<"/", "*", "/", "*", "*", "/", "u", "*", "/", "\"", "u", "\"">>]

\* What would pass if the part that is kept of it were all of it.
Printed == [c \in DOMAIN Source |->
    IF c = "misprint" THEN <<"x", "\n", "\n", "y", "\n">> ELSE <<" ", "x", "\n">>]

\* maxOutputBytes, and the stdout that is graded.
MaxOutput == 3
Stdout(c) == G!Captured(Printed[c], MaxOutput)

\* What Grader makes of the lesson and of each text.
Graded == [
    fails  |-> {c \in DOMAIN Source : ~G!OK(Source[c], Lesson)},
    prints |-> {c \in DOMAIN Source : G!CheckOutput(Stdout(c), Lesson) = {}},
    runs   |-> G!NeedsExecution(Lesson),
    checks |-> G!HasStatic(Lesson)]

MCCodes == DOMAIN Source
MCBreaksRules == Graded.fails
MCSatisfying == Graded.prints
MCExecutes == Graded.runs
MCCheckable == Graded.checks

RequestSymmetry == Permutations(Requests)

\* The answers the content tests would take, with the scanner of code.go.
KeepTheRules == {c \in MCCodes :
    /\ \A t \in Lesson.mustDeclare : G!UsesToken(Source[c], t)
    /\ \A t \in Lesson.mustNotUse : ~G!UsesToken(Source[c], t)}

\* Those that print the answer asked for, and nothing but blanks around it.
PrintTheAnswer == {c \in MCCodes :
    \E i \in 1..Len(Printed[c]), j \in 1..Len(Printed[c]) :
        /\ SubSeq(Printed[c], i, j) = Lesson.outputEquals
        /\ \A k \in DOMAIN Printed[c] \ (i..j) : Printed[c][k] \in {" ", "\n"}}

\* "A submission that was not judged has not passed", and no right answer is
\* turned down: what is recorded of a submission, after every detour through
\* quota, cache and container, agrees with what the content tests, which have no
\* Swift parser, would say of its text, and with what it printed
\* (grading.go:104-166, submission.go:116-119, lesson/code.go:16-73,
\* crosscheck_test.go:58-68, validate/output.go:17-44).
VerdictsAreFair ==
    [][\A r \in Requests :
         At(r, "record") /\ pc'[r] # "record" /\ rows' # rows =>
           /\ rows'[Len(rows')].passed =>
                job[r].code \in KeepTheRules \cap PrintTheAnswer
           /\ job[r].outcome = "static_failed" => job[r].code \notin KeepTheRules
           /\ job[r].outcome = "output_mismatch" => job[r].code \notin PrintTheAnswer]_vars

\* The two readings of what is code, the scanner's and the parser's, agree on
\* every short text without an interpolation (crosscheck_test.go:58-68), and
\* neither moves a letter (code_test.go:71-82).
Letters == {"\"", "/", "*", "\\", "\n", "u"}
ShortTexts == UNION {[1..n -> Letters] : n \in 0..5}

ASSUME ScannerAgreesWithParser ==
    \A s \in ShortTexts :
        /\ Len(G!StripLiteralsAndComments(s)) = Len(s)
        /\ G!Parses(s) => (G!UsesToken(s, <<"u">>) <=> G!Includes(G!CodeOnly(s), <<"u">>))
=============================================================================
