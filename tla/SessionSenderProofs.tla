------------------------ MODULE SessionSenderProofs ------------------------
(***************************************************************************)
(* Proofs about SessionSender, for any producers and any number of         *)
(* replies.                                                                *)
(*                                                                         *)
(* The sender swaps only when read_buffer is empty, so write_buffer is     *)
(* empty between the swap and the reset of has_data, while swap_mutex      *)
(* keeps producers out (SwapInv): no reply can come under the flag that is *)
(* being lowered, and no sent reply goes back behind a new one.  The order *)
(* of replies is then a matter of moving the border between two adjacent   *)
(* parts of one sequence.                                                  *)
(***************************************************************************)
EXTENDS SessionSender, SequenceTheorems, TLAPS

\* Where the sender has neither a reply in hand nor one in read_buffer, and
\* where write_buffer is empty.
SwapInv ==
  /\ spc \in {"check", "block", "wait", "swap"} => read_buffer = <<>>
  /\ spc = "reset" => write_buffer = <<>>
  /\ spc \notin {"stopcheck", "send", "exit"} => inHand = <<>>

\* The inductive invariant.
IInv == TypeOK /\ SwapInv /\ FlagCoversQueue

\* The first state is right: nothing was produced.
LEMMA InitInv == Init => IInv
<1> SUFFICES ASSUME Init PROVE IInv
    OBVIOUS
<1>1. TypeOK
  <2>1. <<>> \in Seq(1 .. MaxReplies) /\ Len(<<>>) = 0
    BY EmptySeq
  <2>2. 0 \in 0 .. MaxReplies
    BY RepliesAssumption
  <2>3. ppc \in [Producers -> {"idle", "flag", "notify"}]
    BY DEF Init
  <2>4. /\ write_buffer \in Seq(1 .. MaxReplies) /\ read_buffer \in Seq(1 .. MaxReplies)
        /\ inHand \in Seq(1 .. MaxReplies) /\ Len(inHand) <= 1 /\ sent \in Seq(1 .. MaxReplies)
    BY <2>1 DEF Init
  <2>5. enqueued \in 0 .. MaxReplies
    BY <2>2 DEF Init
  <2> QED
    BY <2>3, <2>4, <2>5 DEF Init, TypeOK
<1>2. SwapInv /\ FlagCoversQueue
  BY DEF Init, SwapInv, FlagCoversQueue
<1> QED
  BY <1>1, <1>2 DEF IInv

\* Every step keeps the inductive invariant.
LEMMA StepInv == IInv /\ [Next]_vars => IInv'
<1> SUFFICES ASSUME IInv, [Next]_vars PROVE IInv'
    OBVIOUS
<1> USE RepliesAssumption DEF IInv, TypeOK, SwapInv, FlagCoversQueue, senderOnly, buffers,
        notify_one, enqueue_ret, SwapMutexFree
<1>1. ASSUME NEW p \in Producers, Produce(p) PROVE IInv'
  BY <1>1 DEF Produce
<1>2. ASSUME NEW p \in Producers, wakeup_sender_Flag(p) PROVE IInv'
  BY <1>2 DEF wakeup_sender_Flag
<1>3. ASSUME NEW p \in Producers, wakeup_sender_Notify(p) PROVE IInv'
  BY <1>3 DEF wakeup_sender_Notify
<1>4. CASE ReceiverReplies
  BY <1>4 DEF ReceiverReplies
<1>5. CASE ReceiverDirectWrite
  BY <1>5 DEF ReceiverDirectWrite
<1>6. CASE ReceiverEnds
  BY <1>6 DEF ReceiverEnds
<1>7. CASE ReceiverFlag
  BY <1>7 DEF ReceiverFlag
<1>8. CASE ReceiverNotify
  BY <1>8 DEF ReceiverNotify
<1>9. CASE ReceiverDirectDone
  BY <1>9 DEF ReceiverDirectDone
<1>10. CASE ReceiverStopNotify
  BY <1>10 DEF ReceiverStopNotify
<1>11. CASE ReceiverJoins
  BY <1>11 DEF ReceiverJoins
<1>12. CASE immediately_stop
  BY <1>12 DEF immediately_stop
<1>13. CASE sender_Loop
  BY <1>13 DEF sender_Loop
<1>14. CASE sender_get_data_Check
  BY <1>14 DEF sender_get_data_Check
<1>15. CASE sender_get_data_Block
  BY <1>15 DEF sender_get_data_Block
<1>16. CASE sender_get_data_Swap
  BY <1>16 DEF sender_get_data_Swap
<1>17. CASE sender_get_data_Reset
  BY <1>17 DEF sender_get_data_Reset
<1>18. CASE sender_get_data_Got
  <2>1. CASE read_buffer = <<>>
    BY <1>18, <2>1 DEF sender_get_data_Got
  <2>2. CASE read_buffer # <<>>
    <3>1. Head(read_buffer) \in 1 .. MaxReplies /\ Tail(read_buffer) \in Seq(1 .. MaxReplies)
      BY <2>2, HeadTailProperties
    <3>2. <<Head(read_buffer)>> \in Seq(1 .. MaxReplies) /\ Len(<<Head(read_buffer)>>) = 1
      BY <3>1
    <3>3. /\ inHand' = <<Head(read_buffer)>> /\ read_buffer' = Tail(read_buffer)
          /\ spc' = "stopcheck"
          /\ UNCHANGED <<ppc, rpc, write_buffer, has_data, should_immediately_stop, enqueued, sent>>
      BY <1>18, <2>2 DEF sender_get_data_Got
    <3>4. TypeOK'
      <4>1. inHand' \in Seq(1 .. MaxReplies) /\ Len(inHand') <= 1
        BY <3>2, <3>3
      <4>2. read_buffer' \in Seq(1 .. MaxReplies)
        BY <3>1, <3>3
      <4> QED
        BY <3>3, <4>1, <4>2
    <3>5. SwapInv'
      BY <3>3
    <3>6. FlagCoversQueue'
      BY <3>3
    <3> QED
      BY <3>4, <3>5, <3>6
  <2> QED
    BY <2>1, <2>2
<1>19. CASE sender_StopCheck
  BY <1>19 DEF sender_StopCheck
<1>20. CASE sender_Sent
  BY <1>20 DEF sender_Sent
<1>21. CASE sender_SendError
  BY <1>21 DEF sender_SendError
<1>22. CASE SpuriousWakeup
  BY <1>22 DEF SpuriousWakeup
<1>23. CASE UNCHANGED vars
  BY <1>23 DEF vars
<1> QED
  BY <1>1, <1>2, <1>3, <1>4, <1>5, <1>6, <1>7, <1>8, <1>9, <1>10, <1>11, <1>12, <1>13,
     <1>14, <1>15, <1>16, <1>17, <1>18, <1>19, <1>20, <1>21, <1>22, <1>23
     DEF Next, Wakeup, ReceiverGoesOn, Sender

\* Every reachable state satisfies the inductive invariant.
THEOREM Invariance == Spec => []IInv
BY InitInv, StepInv, PTL DEF Spec

\* A reply never waits in write_buffer under a lowered flag that nobody is about
\* to raise: the unlocked store in wakeup_sender and the reset under swap_mutex
\* in sender_get_data cannot cross.
THEOREM FlagCorrect == Spec => []FlagCoversQueue
BY Invariance, PTL DEF IInv

-----------------------------------------------------------------------------
\* A sender left asleep with data, or with the receiver joining it, got there by
\* joining the waiters after the notification: whoever raises has_data or ends the
\* session has its own notification still ahead, and a notification ends a wait.
THEOREM OversleepsOnlyInWindow == Spec => OversleepsInWindowOnly
<1> DEFINE Leaves == Overslept' => Overslept \/ sender_get_data_Block
<1>1. IInv /\ [Next]_vars => Leaves
  <2> SUFFICES ASSUME IInv, [Next]_vars, Overslept', ~sender_get_data_Block
               PROVE  Overslept
    OBVIOUS
  <2> USE DEF Overslept, Notifying, notify_one, senderOnly, buffers
  <2>1. CASE UNCHANGED vars
    BY <2>1 DEF vars
  <2>2. ASSUME NEW p \in Producers, Produce(p) \/ Wakeup(p) PROVE Overslept
    <3>1. ppc \in [Producers -> {"idle", "flag", "notify"}]
      BY DEF IInv, TypeOK
    <3>2. CASE Produce(p)
      BY <3>1, <3>2 DEF Produce
    <3>3. CASE wakeup_sender_Flag(p)
      BY <3>1, <3>3 DEF wakeup_sender_Flag
    <3>4. CASE wakeup_sender_Notify(p)
      BY <3>4 DEF wakeup_sender_Notify
    <3> QED
      BY <2>2, <3>2, <3>3, <3>4 DEF Wakeup
  <2>3. CASE ReceiverReplies \/ ReceiverDirectWrite \/ ReceiverEnds \/ immediately_stop
    BY <2>3 DEF ReceiverReplies, ReceiverDirectWrite, ReceiverEnds, immediately_stop
  <2>4. CASE ReceiverGoesOn
    BY <2>4 DEF ReceiverGoesOn, ReceiverFlag, ReceiverNotify, ReceiverDirectDone,
       ReceiverStopNotify, ReceiverJoins
  <2>5. CASE Sender \/ SpuriousWakeup
    BY <2>5 DEF Sender, SpuriousWakeup, sender_Loop, sender_get_data_Check,
       sender_get_data_Swap, sender_get_data_Reset, sender_get_data_Got,
       sender_StopCheck, sender_Sent, sender_SendError
  <2> QED
    BY <2>1, <2>2, <2>3, <2>4, <2>5 DEF Next
<1> QED
  BY <1>1, Invariance, PTL DEF Spec, OversleepsInWindowOnly

-----------------------------------------------------------------------------
(* The order of the replies.                                               *)

Numbers == Seq(1 .. MaxReplies)

\* Appending to the last part appends to the whole.
LEMMA ConcatAppend ==
  ASSUME NEW S, NEW s \in Seq(S), NEW t \in Seq(S), NEW e \in S
  PROVE  s \o Append(t, e) = Append(s \o t, e)
OBVIOUS

\* The numbers up to n, and one more.
LEMMA CountAppend ==
  ASSUME NEW n \in 0 .. MaxReplies - 1, NEW q \in Numbers, q = [k \in 1 .. n |-> k]
  PROVE  Append(q, n + 1) = [k \in 1 .. n + 1 |-> k]
BY RepliesAssumption DEF Numbers

\* The first element moves from one part to the part before.
LEMMA HeadTail ==
  ASSUME NEW S, NEW s \in Seq(S), s # <<>>
  PROVE  <<Head(s)>> \o Tail(s) = s
<1>1. Head(s) \in S /\ Tail(s) \in Seq(S) /\ Len(Tail(s)) = Len(s) - 1
      /\ \A i \in 1 .. Len(Tail(s)) : Tail(s)[i] = s[i + 1]
  BY HeadTailProperties
<1>2. <<Head(s)>> \in Seq(S) /\ Len(<<Head(s)>>) = 1 /\ <<Head(s)>>[1] = s[1]
  BY <1>1
<1>3. <<Head(s)>> \o Tail(s) \in Seq(S) /\ Len(<<Head(s)>> \o Tail(s)) = Len(s)
  BY <1>1, <1>2, LenProperties
<1>4. \A i \in 1 .. Len(s) : (<<Head(s)>> \o Tail(s))[i] = s[i]
  BY <1>1, <1>2, ConcatProperties, LenProperties
<1> QED
  BY <1>3, <1>4, SeqEqual

\* Every step keeps the order: it appends a number at the end or moves the
\* border between two parts.
LEMMA StepOrder == IInv /\ NothingLostOrReordered /\ [Next]_vars => NothingLostOrReordered'
<1> SUFFICES ASSUME IInv, NothingLostOrReordered, [Next]_vars PROVE NothingLostOrReordered'
    OBVIOUS
<1> DEFINE all == sent \o inHand \o read_buffer \o write_buffer
<1>t. /\ sent \in Numbers /\ inHand \in Numbers /\ read_buffer \in Numbers
      /\ write_buffer \in Numbers /\ enqueued \in 0 .. MaxReplies
      /\ sent \o inHand \in Numbers /\ sent \o inHand \o read_buffer \in Numbers
      /\ all \in Numbers
  BY ConcatProperties DEF IInv, TypeOK, Numbers
<1>1. ASSUME enqueue_ret, UNCHANGED <<sent, inHand, read_buffer>>, rpc # "joined"
      PROVE  NothingLostOrReordered'
  <2>n. enqueued \in 0 .. MaxReplies - 1 /\ enqueued + 1 \in 1 .. MaxReplies
    BY <1>1, <1>t, RepliesAssumption DEF enqueue_ret
  <2>1. all' = Append(all, enqueued + 1)
    <3> DEFINE front == sent \o inHand \o read_buffer
    <3>1. front \in Seq(1 .. MaxReplies) /\ write_buffer \in Seq(1 .. MaxReplies)
      BY <1>t DEF Numbers
    <3>2. front' = front /\ write_buffer' = Append(write_buffer, enqueued + 1)
      BY <1>1 DEF enqueue_ret
    <3>3. front \o Append(write_buffer, enqueued + 1) = Append(front \o write_buffer, enqueued + 1)
      <4> HIDE DEF front
      <4> QED BY <3>1, <2>n, ConcatAppend
    <3> QED
      BY <3>2, <3>3
  <2>2. Append(all, enqueued + 1) = [k \in 1 .. enqueued + 1 |-> k]
    <3>1. all \in Numbers /\ all = [k \in 1 .. enqueued |-> k]
      BY <1>1, <1>t DEF NothingLostOrReordered
    <3> HIDE DEF all
    <3> QED
      BY <3>1, <2>n, CountAppend
  <2> QED
    BY <1>1, <2>1, <2>2 DEF enqueue_ret, NothingLostOrReordered
<1>2. ASSUME UNCHANGED <<sent, inHand, read_buffer, write_buffer, enqueued>>,
             rpc' # "joined" => rpc # "joined"
      PROVE  NothingLostOrReordered'
  BY <1>2 DEF NothingLostOrReordered
<1>3. CASE sender_get_data_Swap
  <2>1. read_buffer = <<>> /\ inHand = <<>>
    BY <1>3 DEF sender_get_data_Swap, IInv, SwapInv
  <2>2. all' = all
    BY <1>3, <1>t, <2>1, ConcatEmptySeq DEF sender_get_data_Swap, Numbers
  <2> QED
    BY <1>3, <2>2 DEF sender_get_data_Swap, senderOnly, NothingLostOrReordered
<1>4. CASE sender_get_data_Got
  <2>1. CASE read_buffer = <<>>
    BY <1>2, <1>4, <2>1 DEF sender_get_data_Got, senderOnly
  <2>2. CASE read_buffer # <<>>
    <3>1. inHand = <<>> /\ inHand' = <<Head(read_buffer)>> /\ read_buffer' = Tail(read_buffer)
      BY <1>4, <2>2 DEF sender_get_data_Got, IInv, SwapInv
    <3>2. inHand' \in Numbers /\ read_buffer' \in Numbers
      <4>1. Head(read_buffer) \in 1 .. MaxReplies /\ Tail(read_buffer) \in Numbers
        BY <1>t, <2>2, HeadTailProperties DEF Numbers
      <4>2. <<Head(read_buffer)>> \in Numbers
        BY <4>1 DEF Numbers
      <4> QED
        BY <3>1, <4>1, <4>2
    <3>3. sent' \o inHand' \o read_buffer' = sent \o (inHand' \o read_buffer')
      <4>1. ASSUME NEW t \in Numbers, NEW u \in Numbers
            PROVE  (sent \o t) \o u = sent \o (t \o u)
        <5>1. /\ sent \in Seq(1 .. MaxReplies)
              /\ t \in Seq(1 .. MaxReplies) /\ u \in Seq(1 .. MaxReplies)
          BY <1>t DEF Numbers
        <5> QED
          BY ONLY <5>1, ConcatAssociative
      <4>2. sent' = sent
        BY <1>4 DEF sender_get_data_Got
      <4> QED
        BY <3>2, <4>1, <4>2
    <3>4. inHand' \o read_buffer' = read_buffer
      BY <1>t, <2>2, <3>1, HeadTail DEF Numbers
    <3>5. sent \o inHand = sent
      BY <1>t, <3>1, ConcatEmptySeq DEF Numbers
    <3>6. all' = all
      BY <1>4, <3>3, <3>4, <3>5 DEF sender_get_data_Got
    <3> QED
      BY <1>4, <3>6 DEF sender_get_data_Got, senderOnly, NothingLostOrReordered
  <2> QED
    BY <2>1, <2>2
<1>5. CASE sender_Sent
  <2>1. sent' \o inHand' = sent \o inHand
    BY <1>5, <1>t, ConcatEmptySeq DEF sender_Sent, Numbers
  <2> QED
    BY <1>5, <2>1 DEF sender_Sent, senderOnly, buffers, NothingLostOrReordered
<1>6. CASE ReceiverJoins
  BY <1>6 DEF ReceiverJoins, NothingLostOrReordered
<1>7. CASE \E p \in Producers : Produce(p)
  BY <1>1, <1>7 DEF Produce
<1>8. CASE ReceiverReplies
  BY <1>1, <1>8 DEF ReceiverReplies
<1>9. CASE \E p \in Producers : Wakeup(p)
  BY <1>2, <1>9 DEF Wakeup, wakeup_sender_Flag, wakeup_sender_Notify
<1>10. CASE ReceiverDirectWrite \/ ReceiverEnds \/ immediately_stop
  BY <1>2, <1>10 DEF ReceiverDirectWrite, ReceiverEnds, immediately_stop
<1>11. CASE ReceiverFlag \/ ReceiverNotify \/ ReceiverDirectDone \/ ReceiverStopNotify
  BY <1>2, <1>11 DEF ReceiverFlag, ReceiverNotify, ReceiverDirectDone, ReceiverStopNotify
<1>12. CASE sender_Loop \/ sender_get_data_Check \/ sender_get_data_Block
  BY <1>2, <1>12 DEF sender_Loop, sender_get_data_Check, sender_get_data_Block, senderOnly,
                     buffers
<1>13. CASE sender_get_data_Reset \/ sender_StopCheck \/ sender_SendError \/ SpuriousWakeup
  BY <1>2, <1>13 DEF sender_get_data_Reset, sender_StopCheck, sender_SendError,
                     SpuriousWakeup, senderOnly, buffers
<1>14. CASE UNCHANGED vars
  BY <1>2, <1>14 DEF vars
<1> QED
  BY <1>3, <1>4, <1>5, <1>6, <1>7, <1>8, <1>9, <1>10, <1>11, <1>12, <1>13, <1>14
     DEF Next, ReceiverGoesOn, Sender

\* The first state is right: there is no reply yet.
LEMMA InitOrder == Init => NothingLostOrReordered
<1> SUFFICES ASSUME Init PROVE sent \o inHand \o read_buffer \o write_buffer = [k \in 1 .. enqueued |-> k]
    BY DEF NothingLostOrReordered
<1>1. sent \o inHand \o read_buffer \o write_buffer = <<>>
  BY DEF Init
<1>2. [k \in 1 .. 0 |-> k] = <<>>
  OBVIOUS
<1> QED
  BY <1>1, <1>2 DEF Init

\* The two-buffer swap neither loses, repeats nor reorders a reply, whatever the
\* number of threads that produce them.
THEOREM OrderCorrect == Spec => []NothingLostOrReordered
BY InitOrder, StepOrder, Invariance, PTL DEF Spec

-----------------------------------------------------------------------------
(* The reply path as a FIFO channel.                                       *)

\* What the sender has in hand, where it has something, and who has ended.
HandInv ==
  /\ spc \in {"stopcheck", "send"} => Len(inHand) = 1
  /\ rpc = "joined" => spc = "exit"

\* Every step keeps it.
LEMMA StepHand == IInv /\ HandInv /\ [Next]_vars => HandInv'
<1> SUFFICES ASSUME IInv, HandInv, [Next]_vars PROVE HandInv'
    OBVIOUS
<1> USE DEF HandInv, senderOnly, buffers, notify_one
<1>1. CASE \E p \in Producers : Produce(p) \/ Wakeup(p)
  BY <1>1 DEF Produce, Wakeup, wakeup_sender_Flag, wakeup_sender_Notify
<1>2. CASE ReceiverReplies \/ ReceiverDirectWrite \/ ReceiverEnds \/ immediately_stop
  BY <1>2 DEF ReceiverReplies, ReceiverDirectWrite, ReceiverEnds, immediately_stop
<1>3. CASE ReceiverGoesOn
  BY <1>3 DEF ReceiverGoesOn, ReceiverFlag, ReceiverNotify, ReceiverDirectDone,
              ReceiverStopNotify, ReceiverJoins
<1>4. CASE sender_Loop \/ sender_get_data_Check \/ sender_get_data_Block \/ SpuriousWakeup
  BY <1>4 DEF sender_Loop, sender_get_data_Check, sender_get_data_Block, SpuriousWakeup
<1>5. CASE sender_get_data_Swap \/ sender_get_data_Reset \/ sender_get_data_Got
  BY <1>5 DEF sender_get_data_Swap, sender_get_data_Reset, sender_get_data_Got
<1>6. CASE sender_StopCheck \/ sender_Sent \/ sender_SendError
  BY <1>6 DEF sender_StopCheck, sender_Sent, sender_SendError
<1>7. CASE UNCHANGED vars
  BY <1>7 DEF vars
<1> QED
  BY <1>1, <1>2, <1>3, <1>4, <1>5, <1>6, <1>7 DEF Next, Sender

\* A part of a longer sequence is found at its place.
LEMMA ConcatParts ==
  ASSUME NEW s \in Numbers, NEW t \in Numbers
  PROVE  /\ s \o t \in Numbers /\ Len(s \o t) = Len(s) + Len(t)
         /\ Len(s) \in Nat /\ Len(t) \in Nat
         /\ \A k \in 1 .. Len(s) : (s \o t)[k] = s[k]
         /\ Len(t) = 1 => (s \o t)[Len(s) + 1] = t[1]
<1> DEFINE S == 1 .. MaxReplies
<1>1. s \in Seq(S) /\ t \in Seq(S)
  BY DEF Numbers
<1> HIDE DEF S
<1>2. /\ s \o t \in Seq(S) /\ Len(s \o t) = Len(s) + Len(t)
      /\ \A i \in 1 .. Len(s) + Len(t) :
           (s \o t)[i] = IF i <= Len(s) THEN s[i] ELSE t[i - Len(s)]
  BY <1>1, ConcatProperties
<1>3. Len(s) \in Nat /\ Len(t) \in Nat
  BY <1>1, LenProperties
<1>4. \A k \in 1 .. Len(s) : (s \o t)[k] = s[k]
  BY <1>2, <1>3
<1>5. Len(t) = 1 => (s \o t)[Len(s) + 1] = t[1]
  <2>1. Len(t) = 1 => Len(s) + 1 \in 1 .. Len(s) + Len(t) /\ ~(Len(s) + 1 <= Len(s))
                      /\ Len(s) + 1 - Len(s) = 1
    BY <1>3
  <2> QED
    BY <1>2, <2>1
<1> QED
  BY <1>2, <1>3, <1>4, <1>5 DEF S, Numbers

\* The reply in the sender's hand is the next one the channel owes.
LEMMA HandIsNext ==
  ASSUME IInv, HandInv, NothingLostOrReordered, spc = "send"
  PROVE  Len(sent) < enqueued /\ sent \o inHand = Append(sent, Len(sent) + 1)
<1> DEFINE front == sent \o inHand
           most == front \o read_buffer
           all == most \o write_buffer
<1>1. /\ sent \in Numbers /\ inHand \in Numbers /\ read_buffer \in Numbers
      /\ write_buffer \in Numbers /\ enqueued \in Nat
  BY RepliesAssumption DEF IInv, TypeOK, Numbers
<1>2. Len(inHand) = 1 /\ inHand = <<inHand[1]>> /\ inHand[1] \in 1 .. MaxReplies
  <2>1. Len(inHand) = 1 /\ inHand \in Seq(1 .. MaxReplies)
    BY <1>1 DEF HandInv, Numbers
  <2>2. inHand[1] \in 1 .. MaxReplies
    <3>1. 1 \in 1 .. Len(inHand)
      BY <2>1
    <3> QED
      BY <2>1, <3>1, ElementOfSeq
  <2>3. /\ <<inHand[1]>> \in Seq(1 .. MaxReplies) /\ Len(<<inHand[1]>>) = 1
        /\ <<inHand[1]>>[1] = inHand[1]
    BY <2>2
  <2>4. inHand = <<inHand[1]>>
    BY <2>1, <2>3, SeqEqual
  <2> QED
    BY <2>1, <2>2, <2>4
<1>3. /\ front \in Numbers /\ Len(sent) \in Nat /\ Len(front) = Len(sent) + 1
      /\ front[Len(sent) + 1] = inHand[1]
  BY <1>1, <1>2, ConcatParts
<1>4. /\ most \in Numbers /\ Len(most) = Len(front) + Len(read_buffer)
      /\ Len(read_buffer) \in Nat /\ \A k \in 1 .. Len(front) : most[k] = front[k]
  <2> HIDE DEF front
  <2> QED BY <1>1, <1>3, ConcatParts
<1>5. /\ all \in Numbers /\ Len(all) = Len(most) + Len(write_buffer)
      /\ Len(write_buffer) \in Nat /\ \A k \in 1 .. Len(most) : all[k] = most[k]
  <2> HIDE DEF most
  <2> QED BY <1>1, <1>4, ConcatParts
<1>6. all = [k \in 1 .. enqueued |-> k]
  BY DEF NothingLostOrReordered, HandInv
<1>7. Len(all) = enqueued
  <2>1. DOMAIN all = 1 .. Len(all) /\ Len(all) \in Nat
    <3> HIDE DEF all
    <3> QED BY <1>5, LenProperties DEF Numbers
  <2>2. DOMAIN all = 1 .. enqueued
    <3> HIDE DEF all
    <3> QED BY <1>6
  <2> HIDE DEF all
  <2>3. /\ Len(all) = 0 \/ Len(all) \in DOMAIN all
        /\ enqueued = 0 \/ enqueued \in DOMAIN all
    BY <1>1, <2>1, <2>2
  <2>4. Len(all) <= enqueued
    BY <1>1, <2>1, <2>2, <2>3
  <2>5. enqueued <= Len(all)
    BY <1>1, <2>1, <2>3
  <2>6. Len(all) \in Nat /\ enqueued \in Nat
    BY <1>1, <2>1
  <2> QED
    BY <2>4, <2>5, <2>6
<1> HIDE DEF front, most, all
<1>8. Len(sent) < enqueued
  BY <1>3, <1>4, <1>5, <1>7
<1>9. inHand[1] = Len(sent) + 1
  <2>1. Len(sent) + 1 \in 1 .. Len(front) /\ Len(sent) + 1 \in 1 .. Len(most)
        /\ Len(sent) + 1 \in 1 .. enqueued
    BY <1>1, <1>3, <1>4, <1>8
  <2> QED
    BY <2>1, <1>3, <1>4, <1>5, <1>6
<1>10. sent \o <<inHand[1]>> = Append(sent, inHand[1])
  BY <1>1, <1>2, AppendIsConcat DEF Numbers
<1> QED
  BY <1>2, <1>8, <1>9, <1>10

\* Every step is a step of the channel, or none.
LEMMA StepRefines ==
  IInv /\ HandInv /\ NothingLostOrReordered /\ [Next]_vars
    => [Channel!Next]_(Channel!channelVars)
<1> SUFFICES ASSUME IInv, HandInv, NothingLostOrReordered, [Next]_vars
             PROVE  [Channel!Next]_(Channel!channelVars)
    OBVIOUS
<1> USE DEF senderOnly, buffers, notify_one, enqueue_ret, Channel!Next, Channel!channelVars
<1>1. CASE (\E p \in Producers : Produce(p)) \/ ReceiverReplies
  BY <1>1 DEF Produce, ReceiverReplies, Channel!Accept
<1>2. CASE sender_Sent
  <2>1. Len(sent) < enqueued /\ sent' = Append(sent, Len(sent) + 1) /\ spc' = "loop"
    BY <1>2, HandIsNext DEF sender_Sent
  <2> QED
    BY <1>2, <2>1 DEF sender_Sent, Channel!Deliver
<1>3. CASE sender_Loop \/ sender_StopCheck \/ sender_SendError
  BY <1>3 DEF sender_Loop, sender_StopCheck, sender_SendError, Channel!Close
<1>4. CASE \E p \in Producers : Wakeup(p)
  BY <1>4 DEF Wakeup, wakeup_sender_Flag, wakeup_sender_Notify
<1>5. CASE ReceiverDirectWrite \/ ReceiverEnds \/ immediately_stop
  BY <1>5 DEF ReceiverDirectWrite, ReceiverEnds, immediately_stop
<1>6. CASE ReceiverGoesOn
  BY <1>6 DEF ReceiverGoesOn, ReceiverFlag, ReceiverNotify, ReceiverDirectDone,
              ReceiverStopNotify, ReceiverJoins
<1>7. CASE sender_get_data_Check \/ sender_get_data_Block \/ SpuriousWakeup
  BY <1>7 DEF sender_get_data_Check, sender_get_data_Block, SpuriousWakeup
<1>8. CASE sender_get_data_Swap \/ sender_get_data_Reset \/ sender_get_data_Got
  BY <1>8 DEF sender_get_data_Swap, sender_get_data_Reset, sender_get_data_Got
<1>9. CASE UNCHANGED vars
  BY <1>9 DEF vars
<1> QED
  BY <1>1, <1>2, <1>3, <1>4, <1>5, <1>6, <1>7, <1>8, <1>9 DEF Next, Sender

\* The first state is the empty channel.
LEMMA InitRefines == Init => HandInv /\ Channel!Init
BY DEF Init, HandInv, Channel!Init

\* The two buffers, the flag and the threads around them are a FIFO channel:
\* replies leave in the order of enqueue_ret_*, none twice and none skipped, until
\* the sender ends.
THEOREM ChannelRefined == Spec => ImplementsChannel
BY InitRefines, StepHand, StepRefines, Invariance, OrderCorrect, PTL
   DEF Spec, ImplementsChannel, Channel!Spec
=============================================================================
