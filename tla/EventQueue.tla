----------------------------- MODULE EventQueue ------------------------------
(***************************************************************************)
(* What a caller of analytics.Client may count on (analytics.go:1-35): an  *)
(* event is taken or dropped as a whole; those taken are sent in the order *)
(* they came, each once, some of the longest waiting at a time.  Whether   *)
(* the process lives to send them is not promised.                         *)
(***************************************************************************)
EXTENDS Naturals, Sequences

CONSTANT Events

VARIABLES
    waiting,    \* taken and not sent
    sent        \* handed to the endpoint

Init == waiting = << >> /\ sent = << >>

Accept(e) == waiting' = Append(waiting, e) /\ UNCHANGED sent

Send ==
    \E n \in 1..Len(waiting) :
        /\ sent' = sent \o SubSeq(waiting, 1, n)
        /\ waiting' = SubSeq(waiting, n + 1, Len(waiting))

Next == Send \/ \E e \in Events : Accept(e)

Spec == Init /\ [][Next]_<<waiting, sent>>
=============================================================================
