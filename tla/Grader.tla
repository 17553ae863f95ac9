------------------------------- MODULE Grader -------------------------------
(***************************************************************************)
(* The verdict of one submission, but for the running of it: the static    *)
(* checks of swift-validate (tools/swift-validate, asked through           *)
(* internal/validate/validate.go) and the checks on what a run printed     *)
(* (internal/validate/output.go), against a lesson's assertions            *)
(* (internal/lessons/lesson/lesson.go).                                    *)
(***************************************************************************)
EXTENDS SwiftText
LOCAL INSTANCE SequencesExt

\* lesson.Assertions; << >> for an output_equals that is not given.
Assertions(contains, equals, declare, avoid) ==
    [outputContains |-> contains, outputEquals |-> equals,
     mustDeclare |-> declare, mustNotUse |-> avoid]

NeedsExecution(a) == a.outputContains # {} \/ a.outputEquals # << >>

HasStatic(a) == a.mustDeclare # {} \/ a.mustNotUse # {}

-----------------------------------------------------------------------------
\* SwiftParser, as a lexer that reads a letter at a time: what it is inside of,
\* innermost last, how many letters of a token are still to be passed over, the
\* places of code, and whether a string was left open at the end of a line.
Reading == [inside |-> <<"code">>, skip |-> 0, code |-> {}, torn |-> FALSE]

Enter(at, mode, skip) == [at EXCEPT !.inside = Append(@, mode), !.skip = skip]
Leave(at, skip) == [at EXCEPT !.inside = Front(@), !.skip = skip]
Keep(at, places) == [at EXCEPT !.code = @ \cup places]

\* The quotes around a string are tokens, and so is what opens and closes an
\* interpolation; a comment is none.
ReadCode(s, i, at) ==
    CASE Starts(s, i, TripleQuote) -> Keep(Enter(at, "text", 2), i..i + 2)
      [] s[i] = "\"" -> Keep(Enter(at, "string", 0), {i})
      [] Starts(s, i, LineComment) -> Enter(at, "line", 1)
      [] Starts(s, i, OpenComment) -> Enter(at, "block", 1)
      [] s[i] = "(" /\ Len(at.inside) > 1 -> Keep(Enter(at, "code", 0), {i})
      [] s[i] = ")" /\ Len(at.inside) > 1 -> Keep(Leave(at, 0), {i})
      [] OTHER -> Keep(at, {i})

\* A segment of a string, or of one of several lines, whose interpolations hold
\* code again.
ReadSegment(s, i, at, quote) ==
    CASE Starts(s, i, quote) -> Keep(Leave(at, Len(quote) - 1), i..i + Len(quote) - 1)
      [] Starts(s, i, <<"\\", "(">>) -> Keep(Enter(at, "code", 1), {i, i + 1})
      [] s[i] = "\\" /\ ~Starts(s, i + 1, <<Newline>>) -> [at EXCEPT !.skip = 1]
      [] s[i] = Newline /\ Len(quote) = 1 -> [Leave(at, 0) EXCEPT !.torn = TRUE]
      [] OTHER -> at

ReadBlock(s, i, at) ==
    CASE Starts(s, i, OpenComment) -> Enter(at, "block", 1)
      [] Starts(s, i, CloseComment) -> Leave(at, 1)
      [] OTHER -> at

Read(s, i, at) ==
    IF at.skip > 0 THEN [at EXCEPT !.skip = @ - 1]
    ELSE CASE Last(at.inside) = "code" -> ReadCode(s, i, at)
           [] Last(at.inside) = "string" -> ReadSegment(s, i, at, <<"\"">>)
           [] Last(at.inside) = "text" -> ReadSegment(s, i, at, TripleQuote)
           [] Last(at.inside) = "line" -> IF s[i] = Newline THEN Leave(at, 0) ELSE at
           [] OTHER -> ReadBlock(s, i, at)

Tokens(s) == FoldLeftDomain(LAMBDA at, i : Read(s, i, at), Reading, s)

-----------------------------------------------------------------------------
\* codeOnly of main.swift: all but the tokens is blanked.
CodeOnly(s) == Blanked(s, Tokens(s).code)

\* Whether the parser has no diagnostic, as far as strings and comments go.
Parses(s) ==
    /\ ~Tokens(s).torn
    /\ Tokens(s).inside \in {<<"code">>, <<"code", "line">>}

Failures(s, a) ==
    LET code == CodeOnly(s)
    IN  {t \in a.mustDeclare : ~Includes(code, t)} \cup {t \in a.mustNotUse : Includes(code, t)}

\* Validate, when the binary could be run and answered in time; a fault of it is
\* GraderFails in Submissions.  Both callers turn a source away long before it is
\* too long for the validator (handler.go:361, mcp/tools.go).
OK(s, a) == Failures(s, a) = {} /\ Parses(s)

-----------------------------------------------------------------------------
\* cappedBuffer of internal/executor: what is printed past the limit is dropped,
\* and what was kept ends in a note of it.
Captured(printed, limit) ==
    IF Len(printed) <= limit THEN printed
    ELSE SubSeq(printed, 1, limit) \o <<Newline, "output truncated">>

Blank(letter) == letter \in {" ", Newline}

TrimSpace(s) ==
    LET ink == SelectInSeq(s, LAMBDA letter : ~Blank(letter))
    IN  IF ink = 0 THEN << >>
        ELSE SubSeq(s, ink, SelectLastInSeq(s, LAMBDA letter : ~Blank(letter)))

CheckOutput(stdout, a) ==
    {want \in a.outputContains : ~Includes(TrimSpace(stdout), want)}
    \cup {want \in {a.outputEquals} \ {<< >>} : TrimSpace(stdout) # TrimSpace(want)}
=============================================================================
