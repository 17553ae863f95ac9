-------------------------- MODULE AnalyticsProofs ---------------------------
(***************************************************************************)
(* What Analytics promises, for any number of requests and any bounds on   *)
(* the queue and the batch.                                                *)
(***************************************************************************)
EXTENDS Analytics, SequenceTheorems, TLAPS

\* A batch is sent as soon as it is full, and the worker stops only with
\* nothing left, of a queue that takes no more.
Winding ==
    /\ worker = "select" => Len(batch) < BatchSize
    /\ worker \in {"last send", "stopped"} => closed /\ queue = <<>>
    /\ worker = "stopped" => batch = <<>>
    /\ flushed = "nil" => worker = "stopped"

IInv == TypeOK /\ SentOnceInOrder /\ Winding

\* Taking the head of the queue into the batch moves nothing past anything.
LEMMA TakeMoves ==
    ASSUME NEW p \in Seq(Requests), NEW b \in Seq(Requests), NEW q \in Seq(Requests),
           q # <<>>
    PROVE  p \o Append(b, Head(q)) \o Tail(q) = p \o b \o q
<1>1. Head(q) \in Requests /\ Tail(q) \in Seq(Requests)
  OBVIOUS
<1>2. Append(b, Head(q)) = b \o <<Head(q)>>
  BY <1>1
<1>3. <<Head(q)>> \in Seq(Requests) /\ <<Head(q)>> \o Tail(q) = q
  BY <1>1
<1>4. p \o (b \o <<Head(q)>>) = (p \o b) \o <<Head(q)>>
  BY <1>3, ConcatAssociative
<1>5. ((p \o b) \o <<Head(q)>>) \o Tail(q) = (p \o b) \o (<<Head(q)>> \o Tail(q))
  BY <1>1, <1>3, ConcatAssociative, ConcatProperties
<1> QED
  BY <1>2, <1>3, <1>4, <1>5

\* Queueing an event puts it after everything queued before.
LEMMA QueueMoves ==
    ASSUME NEW p \in Seq(Requests), NEW b \in Seq(Requests), NEW q \in Seq(Requests),
           NEW r \in Requests
    PROVE  p \o b \o Append(q, r) = Append(p \o b \o q, r)
  BY ConcatProperties

LEMMA QueueMovesBatch ==
    ASSUME NEW b \in Seq(Requests), NEW q \in Seq(Requests), NEW r \in Requests
    PROVE  b \o Append(q, r) = Append(b \o q, r)
  OBVIOUS

\* A send leaves an empty batch between what was posted and the queue.
LEMMA SendMoves ==
    ASSUME NEW p \in Seq(Requests), NEW b \in Seq(Requests), NEW q \in Seq(Requests)
    PROVE  (p \o b) \o <<>> \o q = p \o b \o q
  BY ConcatProperties, ConcatEmptySeq

LEMMA Bounds == /\ QueueDepth \in Nat /\ 0 < QueueDepth /\ 0 <= QueueDepth
                /\ BatchSize \in Nat /\ 0 < BatchSize /\ 0 <= BatchSize
  BY AnalyticsAssumption

\* What the arithmetic of the steps needs of the lengths.
LEMMA Lengths ==
    ASSUME TypeOK
    PROVE  /\ QueueDepth \in Nat /\ 0 < QueueDepth /\ BatchSize \in Nat /\ 0 < BatchSize
           /\ queue \in Seq(Requests) /\ Len(queue) \in Nat /\ Len(queue) <= QueueDepth
           /\ batch \in Seq(Requests) /\ Len(batch) \in Nat /\ Len(batch) <= BatchSize
<1>2. queue \in Seq(Requests) /\ Len(queue) <= QueueDepth
  BY DEF TypeOK
<1>3. batch \in Seq(Requests) /\ Len(batch) <= BatchSize
  BY DEF TypeOK
<1> QED
  BY <1>2, <1>3, Bounds, LenProperties

LEMMA InitIInv == Init => IInv
<1> SUFFICES ASSUME Init PROVE IInv
  OBVIOUS
<1> USE DEF Init
<1>1. <<>> \in Seq(Requests) /\ Len(<<>>) = 0
  BY EmptySeq
<1>2. TypeOK
  <2>1. Len(<<>>) <= QueueDepth /\ Len(<<>>) <= BatchSize
    BY <1>1, Bounds
  <2>2. handler \in [Requests -> {"none", "running", "done", "panicked"}]
    OBVIOUS
  <2> QED
    BY <1>1, <2>1, <2>2 DEF TypeOK
<1>3. SentOnceInOrder
  BY <1>1, ConcatEmptySeq DEF SentOnceInOrder
<1>4. Winding
  <2>1. Len(batch) < BatchSize
    BY <1>1, Bounds DEF Init
  <2> QED
    BY <2>1 DEF Winding
<1> QED
  BY <1>2, <1>3, <1>4 DEF IInv

LEMMA StepIInv == IInv /\ [Next]_vars => IInv'
<1> SUFFICES ASSUME IInv, [Next]_vars PROVE IInv'
  OBVIOUS
<1> USE DEF IInv, TypeOK, Winding, process
<1>1. ASSUME UNCHANGED <<queue, batch, accepted, posted>> PROVE SentOnceInOrder'
  BY <1>1 DEF SentOnceInOrder
<1>2. ASSUME NEW r \in Requests, Arrive(r) \/ Finish(r) PROVE IInv'
  BY <1>1, <1>2 DEF Arrive, Finish, Goto
<1>3. ASSUME NEW r \in Requests, Capture(r) PROVE IInv'
  <2>1. CASE Len(queue) < QueueDepth /\ ~closed
    <3>1. queue' = Append(queue, r) /\ accepted' = Append(accepted, r)
      BY <1>3, <2>1 DEF Capture, Queued
    <3>2. SentOnceInOrder'
      <4>1. UNCHANGED <<batch, posted>>
        BY <1>3 DEF Capture
      <4>2. posted \o batch \o Append(queue, r) = Append(posted \o batch \o queue, r)
        BY QueueMoves
      <4> QED
        BY <3>1, <4>1, <4>2 DEF SentOnceInOrder
    <3>3. queue' \in Seq(Requests) /\ Len(queue') <= QueueDepth /\ accepted' \in Seq(Requests)
      <4> HIDE DEF TypeOK, Winding, process
      <4>1. Len(Append(queue, r)) = Len(queue) + 1
        BY Lengths, AppendProperties
      <4>2. Len(Append(queue, r)) <= QueueDepth
        BY <2>1, <4>1, Lengths
      <4> QED
        BY <3>1, <4>2, AppendProperties DEF TypeOK
    <3>4. handler' \in [Requests -> {"none", "running", "done", "panicked"}]
      BY <1>3, <2>1 DEF Capture, Queued, Goto
    <3> QED
      BY <1>3, <2>1, <3>2, <3>3, <3>4 DEF Capture
  <2>2. CASE ~(Len(queue) < QueueDepth /\ ~closed)
    <3>1. UNCHANGED <<queue, accepted>>
      BY <1>3, <2>2 DEF Capture, Queued, Panics
    <3>2. handler' \in [Requests -> {"none", "running", "done", "panicked"}]
      BY <1>3 DEF Capture, Queued, Panics, Goto
    <3> QED
      BY <1>1, <1>3, <3>1, <3>2 DEF Capture
  <2> QED
    BY <2>1, <2>2
<1>4. ASSUME Take PROVE IInv'
  <2>1. /\ queue' = Tail(queue) /\ batch' = Append(batch, Head(queue)) /\ queue # <<>>
        /\ worker = "select" /\ UNCHANGED <<process, handler, closed, accepted, posted>>
    BY <1>4 DEF Take
  <2>2. SentOnceInOrder'
    BY <2>1, TakeMoves DEF SentOnceInOrder
  <2>3. queue' \in Seq(Requests) /\ Len(queue') <= QueueDepth
    <3>1. Tail(queue) \in Seq(Requests) /\ Len(Tail(queue)) = Len(queue) - 1
      BY <2>1, HeadTailProperties
    <3> HIDE DEF TypeOK, Winding, process
    <3>2. Len(Tail(queue)) <= QueueDepth
      BY <3>1, Lengths
    <3> QED
      BY <2>1, <3>1, <3>2
  <2>4. batch' \in Seq(Requests) /\ Len(batch') <= BatchSize
    <3>1. Head(queue) \in Requests /\ Len(batch) < BatchSize
      BY <2>1, HeadTailProperties DEF TypeOK, Winding
    <3> HIDE DEF TypeOK, Winding, process
    <3>2. Len(Append(batch, Head(queue))) = Len(batch) + 1
      BY <3>1, AppendProperties
    <3>3. Len(Append(batch, Head(queue))) <= BatchSize
      BY <3>1, <3>2, Lengths
    <3> QED
      BY <2>1, <3>1, <3>3, AppendProperties, Lengths
  <2>5. worker' = IF Len(batch') >= BatchSize THEN "send" ELSE "select"
    BY <1>4 DEF Take
  <2>6. worker' = "select" => Len(batch') < BatchSize
    <3> HIDE DEF TypeOK, Winding, process
    <3>1. Len(batch') \in Nat
      BY <2>4, LenProperties
    <3>2. CASE Len(batch') >= BatchSize
      BY <2>5, <3>2
    <3>3. CASE ~(Len(batch') >= BatchSize)
      BY <3>1, <3>3, Lengths
    <3> QED
      BY <3>2, <3>3
  <2> QED
    BY <2>1, <2>2, <2>3, <2>4, <2>5, <2>6
<1>5. ASSUME Sent PROVE IInv'
  <2>1. /\ posted' = posted \o batch /\ batch' = <<>>
        /\ UNCHANGED <<process, handler, queue, closed, accepted>>
        /\ worker \in {"send", "last send"}
        /\ worker' = IF worker = "send" THEN "select" ELSE "stopped"
    BY <1>5 DEF Sent, Emptied
  <2>2. SentOnceInOrder'
    BY <2>1, SendMoves DEF SentOnceInOrder
  <2>3. posted' \in Seq(Requests) /\ batch' \in Seq(Requests) /\ Len(batch') = 0
    BY <2>1, ConcatProperties, EmptySeq
  <2>4. Len(batch') <= BatchSize /\ Len(batch') < BatchSize
    <3> HIDE DEF TypeOK, Winding, process
    <3> QED
      BY <2>3, Lengths
  <2> QED
    BY <2>1, <2>2, <2>3, <2>4
<1>6. ASSUME FlushTick \/ QueueClosed PROVE IInv'
  BY <1>1, <1>6 DEF FlushTick, QueueClosed
<1>7. ASSUME Signal \/ ServeFails \/ Drained \/ DrainTimeout PROVE IInv'
  BY <1>1, <1>7 DEF Signal, ServeFails, Drained, DrainTimeout, CloseQueue
<1>8. ASSUME Flushed \/ FlushTimeout \/ Exit PROVE IInv'
  BY <1>1, <1>8 DEF Flushed, FlushTimeout, Exit
<1>9. ASSUME UNCHANGED vars PROVE IInv'
  BY <1>1, <1>9 DEF vars
<1> QED
  BY <1>2, <1>3, <1>4, <1>5, <1>6, <1>7, <1>8, <1>9 DEF Next, Gone

LEMMA Invariant == Spec => []IInv
  BY InitIInv, StepIInv, PTL DEF Spec

\* The queue and the batch stay within their bounds.
THEOREM AnalyticsTypes == Spec => []TypeOK
  BY Invariant, PTL DEF IInv

\* No event that was queued is lost, sent twice or overtaken.
THEOREM OnceInOrder == Spec => []SentOnceInOrder
  BY Invariant, PTL DEF IInv

\* When Close reports success, everything that was ever queued was sent.
THEOREM Flushes == Spec => []CloseFlushes
<1>1. IInv => CloseFlushes
  <2> SUFFICES ASSUME IInv, flushed = "nil" PROVE posted = accepted
    BY DEF CloseFlushes
  <2>1. queue = <<>> /\ batch = <<>> /\ posted \in Seq(Requests)
    BY DEF IInv, Winding, TypeOK
  <2>2. accepted = posted \o <<>> \o <<>>
    BY <2>1 DEF IInv, SentOnceInOrder
  <2> QED
    BY <2>1, <2>2, ConcatEmptySeq
<1> QED
  BY <1>1, Invariant, PTL
\* The first part of a concatenation, and what is left of it.
LEMMA Halving ==
    ASSUME NEW b \in Seq(Requests), NEW q \in Seq(Requests), b # <<>>
    PROVE  /\ Len(b) \in 1..Len(b \o q)
           /\ SubSeq(b \o q, 1, Len(b)) = b
           /\ SubSeq(b \o q, Len(b) + 1, Len(b \o q)) = q
<1>1. /\ Len(b) \in Nat /\ Len(b) > 0 /\ Len(q) \in Nat
      /\ Len(b \o q) = Len(b) + Len(q) /\ b \o q \in Seq(Requests)
  BY LenProperties, EmptySeq, ConcatProperties
<1>2. SubSeq(b \o q, 1, Len(b)) = SubSeq(b, 1, Len(b))
  BY <1>1, SubSeqOfConcat1
<1>3. CASE Len(q) = 0
  <2>1. q = <<>>
    BY <1>3, EmptySeq
  <2>2. SubSeq(b \o q, Len(b) + 1, Len(b \o q)) = <<>>
    BY <1>1, <1>3, SubSeqEmpty
  <2> QED
    BY <1>1, <1>2, <2>1, <2>2, SubSeqFull
<1>4. CASE Len(q) > 0
  <2>1. SubSeq(b \o q, Len(b) + 1, Len(b \o q)) = SubSeq(q, 1, Len(q))
    BY <1>1, <1>4, SubSeqOfConcat2
  <2> QED
    BY <1>1, <1>2, <2>1, SubSeqFull
<1> QED
  BY <1>1, <1>3, <1>4

\* A step of Analytics is a step of the queue its callers see, or none.
LEMMA StepIsClientStep ==
    ASSUME TypeOK, [Next]_vars
    PROVE  [Client!Next]_<<batch \o queue, posted>>
<1> USE DEF TypeOK
<1>1. ASSUME NEW r \in Requests, Capture(r) PROVE [Client!Next]_<<batch \o queue, posted>>
  <2>1. CASE queue' = Append(queue, r) /\ UNCHANGED <<batch, posted>>
    <3>1. batch \o Append(queue, r) = Append(batch \o queue, r)
      BY QueueMovesBatch
    <3>2. Client!Accept(r)
      BY <2>1, <3>1 DEF Client!Accept
    <3> QED
      BY <3>2 DEF Client!Next
  <2>2. CASE UNCHANGED <<queue, batch, posted>>
    BY <2>2
  <2> QED
    BY <1>1, <2>1, <2>2 DEF Capture, Queued, Panics
<1>2. ASSUME Take PROVE UNCHANGED <<batch \o queue, posted>>
  <2>1. /\ queue' = Tail(queue) /\ batch' = Append(batch, Head(queue)) /\ queue # <<>>
        /\ posted' = posted
    BY <1>2 DEF Take
  <2>2. <<>> \in Seq(Requests)
    BY EmptySeq
  <2>3. <<>> \o Append(batch, Head(queue)) \o Tail(queue) = <<>> \o batch \o queue
    BY <2>1, <2>2, TakeMoves
  <2>4. Append(batch, Head(queue)) \in Seq(Requests)
    BY <2>1, HeadTailProperties, AppendProperties
  <2>5. batch' \o queue' = batch \o queue
    BY <2>1, <2>3, <2>4, ConcatEmptySeq
  <2> QED
    BY <2>1, <2>5
<1>3. ASSUME Sent PROVE [Client!Next]_<<batch \o queue, posted>>
  <2>1. posted' = posted \o batch /\ batch' = <<>> /\ queue' = queue
    BY <1>3 DEF Sent, Emptied
  <2>2. batch' \o queue' = queue
    BY <2>1, ConcatEmptySeq
  <2>3. CASE batch = <<>>
    BY <2>1, <2>2, <2>3, ConcatEmptySeq
  <2>4. CASE batch # <<>>
    <3>1. /\ Len(batch) \in 1..Len(batch \o queue)
          /\ SubSeq(batch \o queue, 1, Len(batch)) = batch
          /\ SubSeq(batch \o queue, Len(batch) + 1, Len(batch \o queue)) = queue
      BY <2>4, Halving
    <3>2. Client!Send
      <4> HIDE DEF TypeOK
      <4> QED
        BY <2>1, <2>2, <3>1, Zenon DEF Client!Send
    <3> QED
      BY <3>2 DEF Client!Next
  <2> QED
    BY <2>3, <2>4
<1>4. ASSUME UNCHANGED <<queue, batch, posted>> PROVE UNCHANGED <<batch \o queue, posted>>
  BY <1>4
<1>5. ASSUME NEW r \in Requests, Arrive(r) \/ Finish(r) PROVE UNCHANGED <<queue, batch, posted>>
  BY <1>5 DEF Arrive, Finish
<1>6. ASSUME \/ FlushTick \/ QueueClosed \/ Signal \/ ServeFails \/ Drained \/ DrainTimeout
             \/ Flushed \/ FlushTimeout \/ Exit \/ UNCHANGED vars
      PROVE UNCHANGED <<queue, batch, posted>>
  BY <1>6 DEF FlushTick, QueueClosed, Signal, ServeFails, Drained, DrainTimeout, CloseQueue,
              Flushed, FlushTimeout, Exit, vars
<1> QED
  BY <1>1, <1>2, <1>3, <1>4, <1>5, <1>6 DEF Next, Gone

\* The client is a queue that loses nothing it took, doubles nothing and keeps
\* the order, whatever the depth of its channel and the size of its batches.
THEOREM ClientIsBestEffort == Spec => BestEffort
<1>1. Init => Client!Init
  <2>1. <<>> \in Seq(Requests)
    BY EmptySeq
  <2>2. <<>> \o <<>> = <<>>
    BY <2>1, ConcatEmptySeq
  <2> QED
    BY <2>2 DEF Init, Client!Init
<1>2. IInv /\ [Next]_vars => [Client!Next]_<<batch \o queue, posted>>
  BY StepIsClientStep DEF IInv
<1> QED
  BY <1>1, <1>2, Invariant, PTL DEF Spec, BestEffort, Client!Spec
=============================================================================
