------------------------------ MODULE SwiftText ------------------------------
(***************************************************************************)
(* What counts as code in a submission, as internal/lessons/lesson/code.go *)
(* decides it with a scanner of its own.  The content tests hold the       *)
(* lessons to their assertions with this approximation; the server asks    *)
(* swift-validate (Grader).  A text is a sequence of one-letter strings.   *)
(***************************************************************************)
EXTENDS Integers, Sequences
LOCAL INSTANCE FiniteSetsExt

Newline == "\n"
TripleQuote == <<"\"", "\"", "\"">>
LineComment == <<"/", "/">>
OpenComment == <<"/", "*">>
CloseComment == <<"*", "/">>

\* strings.HasPrefix of what is left of s at i.
Starts(s, i, sub) ==
    /\ i + Len(sub) - 1 <= Len(s)
    /\ SubSeq(s, i, i + Len(sub) - 1) = sub

\* The first place of sub in s from i on, and 0 when there is none.
IndexFrom(s, i, sub) ==
    LET places == {j \in i..Len(s) : Starts(s, j, sub)}
    IN  IF places = {} THEN 0 ELSE Min(places)

Includes(s, sub) == IndexFrom(s, 1, sub) # 0

\* scanStringLiteral, by the place of the last letter of the literal that opens
\* at i: an escape hides the letter after it, and a line's end ends it.
StringEnd(s, i) ==
    LET scan[j \in Nat] ==
          IF j > Len(s) THEN Len(s)
          ELSE CASE s[j] = "\\" -> scan[j + 2]
                 [] s[j] = "\"" -> j
                 [] s[j] = Newline -> j - 1
                 [] OTHER -> scan[j + 1]
    IN  scan[i + 1]

\* Slip: the first */ ends a comment, however many were opened.
FirstClose(s, i) ==
    LET close == IndexFrom(s, i, CloseComment)
    IN  IF close = 0 THEN Len(s) ELSE close + 1

\* scanBlockComment: comments nest.
CommentEnd(s, i) ==
    LET scan[j \in Nat, depth \in Nat] ==
          IF j >= Len(s) THEN Len(s)
          ELSE CASE Starts(s, j, OpenComment) -> scan[j + 2, depth + 1]
                 [] Starts(s, j, CloseComment) -> IF depth = 1 THEN j + 1 ELSE scan[j + 2, depth - 1]
                 [] OTHER -> scan[j + 1, depth]
    IN  scan[i, 0]

\* The last letter before the place indexAfter finds, the text's when it finds
\* none.
Before(s, place) == IF place = 0 THEN Len(s) ELSE place - 1

\* Where the literal or the comment that opens at i ends; i - 1 for code.
BlankTo(s, i) ==
    CASE Starts(s, i, TripleQuote) ->
           LET close == IndexFrom(s, i + 3, TripleQuote)
           IN  IF close = 0 THEN Len(s) ELSE close + 2
      [] s[i] = "\"" -> StringEnd(s, i)
      [] Starts(s, i, LineComment) -> Before(s, IndexFrom(s, i, <<Newline>>))
      [] Starts(s, i, OpenComment) -> CommentEnd(s, i)
      [] OTHER -> i - 1

\* The text with only the letters at places kept; lines stay where they are.
Blanked(s, places) ==
    [i \in DOMAIN s |-> IF i \in places \/ s[i] = Newline THEN s[i] ELSE " "]

StripLiteralsAndComments(s) ==
    LET kept[i \in Nat] ==
          CASE i > Len(s) -> {}
            [] BlankTo(s, i) < i -> {i} \cup kept[i + 1]
            [] OTHER -> kept[BlankTo(s, i) + 1]
        code == kept[1]
    IN  Blanked(s, code)

UsesToken(code, token) == Includes(StripLiteralsAndComments(code), token)
=============================================================================
