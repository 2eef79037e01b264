---------------------- MODULE Esp32DeviceHandlerProofs ----------------------
(***************************************************************************)
(* Proofs about Esp32DeviceHandler, for any number of URBs, endpoints and  *)
(* sessions.  The inductive invariant relates the position of the event    *)
(* thread to the stage of its URB, the transfer table to the stages, and   *)
(* the replies of a URB to its stage and to the commands it got; with it   *)
(* every step is one of the contract of DeviceHandler.h, or a stutter.     *)
(***************************************************************************)
EXTENDS Esp32DeviceHandler, FiniteSetTheorems, SequenceTheorems, TLAPS

HoldsTransfer == {"drop", "lock", "failReply", "respond"}

\* The event thread is inside the callback of at most one URB, and knows which.
EventInv ==
  /\ epc \in HoldsTransfer => ecb \in Urbs /\ stage[ecb] = "callback"
  /\ \A u \in Urbs : stage[u] = "callback" => u = ecb /\ epc \in HoldsTransfer

\* A session exists while the receiver runs, and URBs are born in one.
OwnerInv ==
  /\ rpc # "idle" => session # 0
  /\ session = 0 => rpc = "idle"
  /\ \A u \in Urbs :
       stage[u] = "fresh" => /\ owner[u] = 0 /\ replies[u] = <<>>
                             /\ u \notin unlinkCmd /\ u \notin refused
  /\ unlinked \subseteq unlinkCmd

\* Past the wait, and until the next session, the table is empty unless the
\* device was removed.
IdleInv ==
  rpc \in {"detach", "idle"} /\ ~device_removed_ => \A u \in Urbs : ~InTable(u)

\* What the event thread has decided about the URB in its callback.
DecisionInv ==
  /\ epc = "respond" => replies[ecb] = <<>> /\ (status[ecb] = "CANCELED" => ecb \in unlinked)
  /\ epc = "failReply" => ecb \in refused /\ replies[ecb] \in {<<>>, <<RetUnlink("OK")>>}
  /\ \A u \in Urbs : InTable(u) => replies[u] = <<>>

Results == {RetSubmit(st) : st \in UrbStatus \ {"ECONNRESET"}}

\* The reply histories a URB can have.
Histories(u) ==
  {<<>>} \cup {<<r>> : r \in Results}
  \cup (IF u \in unlinkCmd
        THEN {<<RetUnlink(st)>> : st \in UrbStatus}
             \cup {<<r, RetUnlink("OK")>> : r \in Results}
             \cup (IF u \in refused THEN {<<RetUnlink("OK"), RetSubmit("EPIPE")>>} ELSE {})
        ELSE {})
HistoryInv == \A u \in Urbs : replies[u] \in Histories(u)

IInv ==
  /\ TypeOK /\ EventInv /\ OwnerInv /\ TableIsWhatIsOutstanding
  /\ IdleInv /\ DecisionInv /\ HistoryInv

-----------------------------------------------------------------------------
(* Type correctness.                                                       *)

\* Every status of the host maps to a USB/IP status.
LEMMA StatusType == \A st \in TrxStatus : trxstat2error(st) \in UrbStatus
BY DEF TrxStatus, UrbStatus, trxstat2error

\* Cancelling an endpoint leaves the stages and the statuses well typed.
LEMMA CancelType ==
  ASSUME TypeOK, NEW ep, cancel_endpoint_all_transfers(ep)
  PROVE  /\ stage' \in [Urbs -> {"fresh", "flying", "done", "callback", "dead"}]
         /\ status' \in [Urbs -> TrxStatus]
BY DEF TypeOK, cancel_endpoint_all_transfers, TrxStatus

\* Enqueueing a reply leaves the reply histories well typed.
LEMMA EnqueueType ==
  ASSUME TypeOK, NEW u, NEW r \in Reply, Enqueue(u, r)
  PROVE  replies' \in [Urbs -> Seq(Reply)]
<1>1. \A v \in Urbs : replies[v] \in Seq(Reply) /\ Append(replies[v], r) \in Seq(Reply)
  BY DEF TypeOK
<1>2. QED
  BY <1>1 DEF TypeOK, Enqueue

LEMMA EnqueueFromCallbackType ==
  ASSUME TypeOK, NEW u, NEW r \in Reply, EnqueueFromCallback(u, r)
  PROVE  /\ replies' \in [Urbs -> Seq(Reply)]
         /\ fault' \in {"none", "nullSession", "strayReply", "danglingTransfer"}
<1>1. CASE session = 0
  BY <1>1 DEF TypeOK, EnqueueFromCallback
<1>2. CASE session # 0
  BY <1>2, EnqueueType DEF EnqueueFromCallback
<1>3. QED
  BY <1>1, <1>2

\* The initial states are well typed.
LEMMA InitType == Init => TypeOK
<1> SUFFICES ASSUME Init PROVE TypeOK
  OBVIOUS
<1>1. <<>> \in Seq(Reply)
  OBVIOUS
<1>2. replies \in [Urbs -> Seq(Reply)]
  BY <1>1 DEF Init
<1>3. /\ 0 \in 0 .. MaxSessions
      /\ "COMPLETED" \in TrxStatus
  BY BoundsAssumption DEF BoundsAssumption, TrxStatus
<1>4. /\ stage \in [Urbs -> {"fresh", "flying", "done", "callback", "dead"}]
      /\ status \in [Urbs -> TrxStatus]
      /\ owner \in [Urbs -> 0 .. MaxSessions]
  BY <1>3 DEF Init
<1>5. session \in 0 .. MaxSessions /\ sessions \in 0 .. MaxSessions
  BY <1>3 DEF Init
<1>6. rpc \in {"idle", "recv", "cancel", "sweep", "check", "block", "wait", "detach"}
  BY DEF Init
<1>7. todo \subseteq InterfaceEndpoints /\ transfers_ \subseteq Urbs /\ unlinked \subseteq Urbs
   /\ pending_count_ \in Int
  BY DEF Init
<1>8. gone \in {"no", "unplugged", "notified"} /\ all_transfer_should_stop \in BOOLEAN
  BY DEF Init
<1>9. QED
  BY <1>2, <1>4, <1>5, <1>6, <1>7, <1>8 DEF Init, TypeOK

\* What the receiver thread does keeps the types.
LEMMA ReceiverType ==
  ASSUME TypeOK,
         \/ on_new_connection
         \/ \E u \in Urbs : ReceiveUrb(u) \/ HandleUnlink(u)
         \/ on_disconnection_Begin \/ ReceiverGoesOn \/ SpuriousWakeup
  PROVE  TypeOK'
<1> USE DEF receiverVars, eventVars, tableVars, historyVars
<1>1. CASE on_new_connection
  <2>1. sessions + 1 \in 0 .. MaxSessions
    BY <1>1, BoundsAssumption DEF BoundsAssumption, TypeOK, on_new_connection
  <2>2. QED
    BY <1>1, <2>1 DEF TypeOK, on_new_connection
<1>2. ASSUME NEW u \in Urbs, ReceiveUrb(u) PROVE TypeOK'
  <2>0. RetSubmit("OK") \in Reply /\ RetSubmit("EPIPE") \in Reply
    BY DEF RetSubmit, Reply, UrbStatus
  <2>1. CASE receive_urb_Removed(u)
    BY <2>1 DEF TypeOK, receive_urb_Removed, Accept, SetStage
  <2>2. CASE receive_urb_Tweaked(u)
    <3>1. replies' \in [Urbs -> Seq(Reply)]
      BY <2>0, <2>2, EnqueueType DEF receive_urb_Tweaked
    <3>2. QED
      BY <2>2, <3>1 DEF TypeOK, receive_urb_Tweaked, Accept, SetStage
  <2>3. CASE receive_urb_Submitted(u)
    BY <2>3 DEF TypeOK, receive_urb_Submitted, Accept, SetStage, Register
  <2>4. CASE receive_urb_Refused(u)
    <3>1. replies' \in [Urbs -> Seq(Reply)]
      BY <2>0, <2>4, EnqueueType DEF receive_urb_Refused
    <3>2. QED
      BY <2>4, <3>1 DEF TypeOK, receive_urb_Refused, Accept, SetStage
  <2>5. QED
    BY <1>2, <2>1, <2>2, <2>3, <2>4 DEF ReceiveUrb
<1>3. ASSUME NEW u \in Urbs, HandleUnlink(u) PROVE TypeOK'
  <2>1. CASE handle_unlink_Removed(u)
    BY <2>1 DEF TypeOK, handle_unlink_Removed, AcceptUnlink
  <2>2. CASE handle_unlink_Found(u)
    BY <2>2 DEF TypeOK, handle_unlink_Found, AcceptUnlink
  <2>3. CASE handle_unlink_NotFound(u)
    <3>1. RetUnlink("OK") \in Reply
      BY DEF RetUnlink, Reply, UrbStatus
    <3>2. replies' \in [Urbs -> Seq(Reply)]
      BY <2>3, <3>1, EnqueueType DEF handle_unlink_NotFound
    <3>3. QED
      BY <2>3, <3>2 DEF TypeOK, handle_unlink_NotFound, AcceptUnlink
  <2>4. QED
    BY <1>3, <2>1, <2>2, <2>3 DEF HandleUnlink
<1>4. CASE on_disconnection_Begin
  BY <1>4 DEF TypeOK, on_disconnection_Begin, InterfaceEndpoints
<1>5. CASE handle_unlink_Cancel
  <2>1. CASE stage[cur] = "dead"
    BY <1>5, <2>1 DEF TypeOK, handle_unlink_Cancel
  <2>2. CASE stage[cur] # "dead"
    <3>1. /\ stage' \in [Urbs -> {"fresh", "flying", "done", "callback", "dead"}]
          /\ status' \in [Urbs -> TrxStatus]
      BY <1>5, <2>2, CancelType DEF handle_unlink_Cancel
    <3>2. QED
      BY <1>5, <2>2, <3>1 DEF TypeOK, handle_unlink_Cancel
  <2>3. QED
    BY <2>1, <2>2
<1>6. ASSUME NEW ep \in Endpoints, on_disconnection_Sweep(ep) PROVE TypeOK'
  <2>1. /\ stage' \in [Urbs -> {"fresh", "flying", "done", "callback", "dead"}]
        /\ status' \in [Urbs -> TrxStatus]
    BY <1>6, CancelType DEF on_disconnection_Sweep
  <2>2. QED
    BY <1>6, <2>1 DEF TypeOK, on_disconnection_Sweep
<1>7. CASE on_disconnection_Check \/ on_disconnection_Block \/ SpuriousWakeup
  BY <1>7 DEF TypeOK, on_disconnection_Check, on_disconnection_Block, SpuriousWakeup
<1>8. CASE on_disconnection_Detach
  BY <1>8, BoundsAssumption DEF BoundsAssumption, TypeOK, on_disconnection_Detach
<1>9. QED
  BY <1>1, <1>2, <1>3, <1>4, <1>5, <1>6, <1>7, <1>8 DEF ReceiverGoesOn

\* What the event thread and the bus do keeps the types.
LEMMA EventType ==
  ASSUME TypeOK, EventInv,
         \/ EventThread \/ DeviceGone \/ Unplug
         \/ \E u \in Urbs : HostCompletes(u)
  PROVE  TypeOK'
<1> USE DEF receiverVars, eventVars, tableVars, historyVars
<1>1. ASSUME NEW u \in Urbs, transfer_callback_Begin(u) PROVE TypeOK'
  BY <1>1 DEF TypeOK, transfer_callback_Begin, SetStage
<1>2. CASE transfer_callback_Drop
  <2>1. transfers_' \subseteq Urbs /\ pending_count_' \in Int
    BY <1>2 DEF TypeOK, transfer_callback_Drop, Erase
  <2>2. stage' \in [Urbs -> {"fresh", "flying", "done", "callback", "dead"}]
    BY <1>2 DEF TypeOK, transfer_callback_Drop, SetStage
  <2>3. QED
    BY <1>2, <2>1, <2>2 DEF TypeOK, transfer_callback_Drop
<1>3. CASE transfer_callback_Resubmitted
  BY <1>3 DEF TypeOK, transfer_callback_Resubmitted, SetStage, TrxStatus
<1>4. CASE transfer_callback_ResubmitRefused
  <2>1. ecb \in Urbs
    BY <1>4 DEF EventInv, HoldsTransfer, transfer_callback_ResubmitRefused
  <2>2. QED
    BY <1>4, <2>1 DEF TypeOK, transfer_callback_ResubmitRefused, Erase
<1>5. CASE transfer_callback_FailReply
  <2>1. RetSubmit("EPIPE") \in Reply
    BY DEF RetSubmit, Reply, UrbStatus
  <2>2. /\ replies' \in [Urbs -> Seq(Reply)]
        /\ fault' \in {"none", "nullSession", "strayReply", "danglingTransfer"}
    BY <1>5, <2>1, EnqueueFromCallbackType DEF transfer_callback_FailReply
  <2>3. QED
    BY <1>5, <2>2 DEF TypeOK, transfer_callback_FailReply, SetStage
<1>6. CASE transfer_callback_Complete
  BY <1>6 DEF TypeOK, transfer_callback_Complete, Erase
<1>7. CASE transfer_callback_Respond
  <2>1. ecb \in Urbs
    BY <1>7 DEF EventInv, HoldsTransfer, transfer_callback_Respond
  <2>2. CompletionReply(ecb) \in Reply
    BY <2>1, StatusType DEF TypeOK, CompletionReply, RetSubmit, RetUnlink, Reply
  <2>3. /\ replies' \in [Urbs -> Seq(Reply)]
        /\ fault' \in {"none", "nullSession", "strayReply", "danglingTransfer"}
    BY <1>7, <2>2, EnqueueFromCallbackType DEF transfer_callback_Respond
  <2>4. QED
    BY <1>7, <2>3 DEF TypeOK, transfer_callback_Respond, SetStage
<1>8. CASE transfer_callback_Wake \/ transfer_callback_Notify
  BY <1>8 DEF TypeOK, transfer_callback_Wake, transfer_callback_Notify
<1>9. CASE DeviceGone \/ Unplug
  <2>1. /\ gone' \in {"no", "unplugged", "notified"}
        /\ device_removed_' \in BOOLEAN /\ should_immediately_stop' \in BOOLEAN
    BY <1>9 DEF TypeOK, DeviceGone, Unplug
  <2>2. QED
    BY <1>9, <2>1 DEF TypeOK, DeviceGone, Unplug
<1>10. ASSUME NEW u \in Urbs, HostCompletes(u) PROVE TypeOK'
  <2>1. PICK st \in {"COMPLETED", "STALL", "NO_DEVICE"} :
          status' = [status EXCEPT ![u] = st]
    BY <1>10 DEF HostCompletes
  <2>2. status' \in [Urbs -> TrxStatus]
    BY <2>1 DEF TypeOK, TrxStatus
  <2>3. QED
    BY <1>10, <2>2 DEF TypeOK, HostCompletes, SetStage
<1>11. QED
  BY <1>1, <1>2, <1>3, <1>4, <1>5, <1>6, <1>7, <1>8, <1>9, <1>10 DEF EventThread

\* The types are kept by every step and by stuttering.
LEMMA TypeStep == TypeOK /\ EventInv /\ [Next]_vars => TypeOK'
<1> SUFFICES ASSUME TypeOK, EventInv, [Next]_vars PROVE TypeOK'
  OBVIOUS
<1>1. CASE UNCHANGED vars
  BY <1>1 DEF TypeOK, vars
<1>2. CASE Next
  BY <1>2, ReceiverType, EventType DEF Next
<1>3. QED
  BY <1>1, <1>2

-----------------------------------------------------------------------------
(* The event thread and its URB.                                           *)

\* Cancelling an endpoint moves transfers from the pipe to the event thread and
\* touches no other.
LEMMA CancelStages ==
  ASSUME TypeOK, NEW ep, cancel_endpoint_all_transfers(ep)
  PROVE  \A u \in Urbs : \/ stage'[u] = stage[u] /\ status'[u] = status[u]
                         \/ /\ stage[u] = "flying" /\ stage'[u] = "done"
                            /\ status'[u] = "CANCELED"
BY DEF TypeOK, cancel_endpoint_all_transfers

\* The steps that leave the event thread alone: at most they start a URB, end
\* one before it was submitted, or cancel some that are in a pipe.
LEMMA ReceiverStages ==
  ASSUME TypeOK,
         \/ on_new_connection
         \/ \E u \in Urbs : ReceiveUrb(u) \/ HandleUnlink(u)
         \/ on_disconnection_Begin \/ ReceiverGoesOn \/ SpuriousWakeup
  PROVE  /\ UNCHANGED <<epc, ecb>>
         /\ \A u \in Urbs : stage[u] = "callback" <=> stage'[u] = "callback"
<1> USE DEF receiverVars, eventVars, tableVars, historyVars
<1>1. CASE \/ on_new_connection \/ on_disconnection_Begin \/ SpuriousWakeup
           \/ on_disconnection_Check \/ on_disconnection_Block \/ on_disconnection_Detach
  BY <1>1 DEF on_new_connection, on_disconnection_Begin, SpuriousWakeup,
     on_disconnection_Check, on_disconnection_Block, on_disconnection_Detach
<1>2. ASSUME NEW u \in Urbs, ReceiveUrb(u) PROVE UNCHANGED <<epc, ecb>> /\ \A v \in Urbs : stage[v] = "callback" <=> stage'[v] = "callback"
  BY <1>2 DEF TypeOK, ReceiveUrb, receive_urb_Removed, receive_urb_Tweaked,
     receive_urb_Submitted, receive_urb_Refused, Accept, SetStage
<1>3. ASSUME NEW u \in Urbs, HandleUnlink(u) PROVE UNCHANGED <<epc, ecb, stage>>
  BY <1>3 DEF HandleUnlink, handle_unlink_Removed, handle_unlink_Found,
     handle_unlink_NotFound, AcceptUnlink
<1>4. CASE handle_unlink_Cancel
  BY <1>4, CancelStages DEF handle_unlink_Cancel
<1>5. ASSUME NEW ep \in Endpoints, on_disconnection_Sweep(ep) PROVE UNCHANGED <<epc, ecb>> /\ \A v \in Urbs : stage[v] = "callback" <=> stage'[v] = "callback"
  BY <1>5, CancelStages DEF on_disconnection_Sweep
<1>6. QED
  BY <1>1, <1>2, <1>3, <1>4, <1>5 DEF ReceiverGoesOn

\* The callback steps hand the one URB of the callback on or put it away.
LEMMA EventStep == TypeOK /\ EventInv /\ [Next]_vars => EventInv'
<1> SUFFICES ASSUME TypeOK, EventInv, [Next]_vars PROVE EventInv'
  OBVIOUS
<1> USE DEF receiverVars, eventVars, tableVars, historyVars
<1>1. CASE UNCHANGED vars
  BY <1>1 DEF EventInv, vars
<1>2. CASE \/ on_new_connection
           \/ \E u \in Urbs : ReceiveUrb(u) \/ HandleUnlink(u)
           \/ on_disconnection_Begin \/ ReceiverGoesOn \/ SpuriousWakeup
  BY <1>2, ReceiverStages DEF EventInv
<1>3. ASSUME NEW u \in Urbs, transfer_callback_Begin(u) PROVE EventInv'
  BY <1>3 DEF TypeOK, EventInv, HoldsTransfer, transfer_callback_Begin, SetStage
<1>4. CASE transfer_callback_Drop \/ transfer_callback_Resubmitted
  BY <1>4 DEF TypeOK, EventInv, HoldsTransfer, transfer_callback_Drop,
     transfer_callback_Resubmitted, SetStage
<1>5. CASE transfer_callback_FailReply \/ transfer_callback_Respond
  BY <1>5 DEF TypeOK, EventInv, HoldsTransfer, transfer_callback_FailReply,
     transfer_callback_Respond, SetStage
<1>6. CASE transfer_callback_ResubmitRefused \/ transfer_callback_Complete
  BY <1>6 DEF EventInv, HoldsTransfer, transfer_callback_ResubmitRefused,
     transfer_callback_Complete
<1>7. CASE transfer_callback_Wake \/ transfer_callback_Notify
  BY <1>7 DEF EventInv, HoldsTransfer, transfer_callback_Wake, transfer_callback_Notify
<1>8. CASE DeviceGone \/ Unplug
  BY <1>8 DEF EventInv, DeviceGone, Unplug
<1>9. ASSUME NEW u \in Urbs, HostCompletes(u) PROVE EventInv'
  BY <1>9 DEF TypeOK, EventInv, HostCompletes, SetStage
<1>10. QED
  BY <1>1, <1>2, <1>3, <1>4, <1>5, <1>6, <1>7, <1>8, <1>9 DEF Next, EventThread

\* Every variable stays in its type for ever, so that every state the code's
\* steps lead to is one the model speaks about.
THEOREM TypeCorrect == Spec => []TypeOK
<1>1. Init => TypeOK /\ EventInv
  BY InitType DEF Init, EventInv, HoldsTransfer
<1>2. TypeOK /\ EventInv /\ [Next]_vars => (TypeOK /\ EventInv)'
  BY TypeStep, EventStep
<1>3. QED
  BY <1>1, <1>2, PTL DEF Spec

-----------------------------------------------------------------------------
(* The transfer table.                                                     *)

\* What a step may do to the table: nothing, enter a URB that was just accepted,
\* or take out one that was in.
TableSame == UNCHANGED tableVars /\ \A v \in Urbs : InTable(v)' <=> InTable(v)
TableAdds(u) ==
  /\ rpc = "recv" /\ UNCHANGED <<rpc, replies>>
  /\ stage[u] = "fresh" /\ Register(u)
  /\ \A v \in Urbs : InTable(v)' <=> InTable(v) \/ v = u
TableDrops(u) ==
  /\ InTable(u) /\ Erase(u)
  /\ \A v \in Urbs : InTable(v)' <=> InTable(v) /\ v # u
TableMoves ==
  \/ TableSame
  \/ \E u \in Urbs : TableAdds(u) \/ TableDrops(u)

LEMMA ReceiverMoves ==
  ASSUME TypeOK, EventInv,
         \/ on_new_connection
         \/ \E u \in Urbs : ReceiveUrb(u) \/ HandleUnlink(u)
         \/ on_disconnection_Begin \/ ReceiverGoesOn \/ SpuriousWakeup
  PROVE  TableMoves
<1> USE DEF receiverVars, eventVars, tableVars, historyVars
<1>1. CASE \/ on_new_connection \/ on_disconnection_Begin \/ SpuriousWakeup
           \/ on_disconnection_Check \/ on_disconnection_Block \/ on_disconnection_Detach
  BY <1>1 DEF TableMoves, TableSame, InTable, on_new_connection, on_disconnection_Begin,
     SpuriousWakeup, on_disconnection_Check, on_disconnection_Block,
     on_disconnection_Detach
<1>2. ASSUME NEW u \in Urbs, ReceiveUrb(u) PROVE TableMoves
  <2>1. CASE receive_urb_Removed(u) \/ receive_urb_Tweaked(u) \/ receive_urb_Refused(u)
    BY <2>1 DEF TypeOK, TableMoves, TableSame, InTable, receive_urb_Removed,
       receive_urb_Tweaked, receive_urb_Refused, Accept, SetStage
  <2>2. CASE receive_urb_Submitted(u)
    <3>1. TableAdds(u)
      BY <2>2 DEF TypeOK, TableAdds, InTable, receive_urb_Submitted, Accept, SetStage
    <3>2. QED
      BY <3>1 DEF TableMoves
  <2>3. QED
    BY <1>2, <2>1, <2>2 DEF ReceiveUrb
<1>3. ASSUME NEW u \in Urbs, HandleUnlink(u) PROVE TableMoves
  BY <1>3 DEF TableMoves, TableSame, InTable, HandleUnlink, handle_unlink_Removed,
     handle_unlink_Found, handle_unlink_NotFound, AcceptUnlink
<1>4. CASE handle_unlink_Cancel
  BY <1>4, CancelStages DEF TableMoves, TableSame, InTable, handle_unlink_Cancel
<1>5. ASSUME NEW ep \in Endpoints, on_disconnection_Sweep(ep) PROVE TableMoves
  BY <1>5, CancelStages DEF TableMoves, TableSame, InTable, on_disconnection_Sweep
<1>6. QED
  BY <1>1, <1>2, <1>3, <1>4, <1>5 DEF ReceiverGoesOn

LEMMA EventMoves ==
  ASSUME TypeOK, EventInv,
         \/ EventThread \/ DeviceGone \/ Unplug
         \/ \E u \in Urbs : HostCompletes(u)
  PROVE  TableMoves
<1> USE DEF receiverVars, eventVars, tableVars, historyVars
<1>1. ASSUME NEW u \in Urbs, transfer_callback_Begin(u) PROVE TableMoves
  BY <1>1 DEF TypeOK, EventInv, HoldsTransfer, TableMoves, TableSame, InTable,
     transfer_callback_Begin, SetStage
<1>2. CASE transfer_callback_Drop \/ transfer_callback_ResubmitRefused \/ transfer_callback_Complete
  <2>1. ecb \in Urbs
    BY <1>2 DEF EventInv, HoldsTransfer, transfer_callback_Drop,
       transfer_callback_ResubmitRefused, transfer_callback_Complete
  <2>2. TableDrops(ecb)
    BY <1>2, <2>1 DEF TypeOK, EventInv, HoldsTransfer, TableDrops, InTable,
       transfer_callback_Drop, transfer_callback_ResubmitRefused,
       transfer_callback_Complete, SetStage
  <2>3. QED
    BY <2>1, <2>2 DEF TableMoves
<1>3. CASE transfer_callback_Resubmitted
  BY <1>3 DEF TypeOK, EventInv, HoldsTransfer, TableMoves, TableSame, InTable,
     transfer_callback_Resubmitted, SetStage
<1>4. CASE transfer_callback_FailReply \/ transfer_callback_Respond
  BY <1>4 DEF TypeOK, EventInv, HoldsTransfer, TableMoves, TableSame, InTable,
     transfer_callback_FailReply, transfer_callback_Respond, SetStage
<1>5. CASE transfer_callback_Wake \/ transfer_callback_Notify
  BY <1>5 DEF EventInv, HoldsTransfer, TableMoves, TableSame, InTable,
     transfer_callback_Wake, transfer_callback_Notify
<1>6. CASE DeviceGone \/ Unplug
  BY <1>6 DEF TableMoves, TableSame, InTable, DeviceGone, Unplug
<1>7. ASSUME NEW u \in Urbs, HostCompletes(u) PROVE TableMoves
  BY <1>7 DEF TypeOK, TableMoves, TableSame, InTable, HostCompletes, SetStage
<1>8. QED
  BY <1>1, <1>2, <1>3, <1>4, <1>5, <1>6, <1>7 DEF EventThread

LEMMA StepMoves == TypeOK /\ EventInv /\ [Next]_vars => TableMoves
<1>1. UNCHANGED vars => TableSame
  BY DEF vars, TableSame, tableVars, InTable
<1>2. QED
  BY <1>1, ReceiverMoves, EventMoves DEF Next, TableMoves

\* The set and the counter follow every one of these moves.
LEMMA TableStep ==
  TypeOK /\ TableIsWhatIsOutstanding /\ TableMoves => TableIsWhatIsOutstanding'
<1> SUFFICES ASSUME TypeOK, TableIsWhatIsOutstanding, TableMoves
             PROVE  TableIsWhatIsOutstanding'
  OBVIOUS
<1>1. IsFiniteSet(transfers_)
  BY UrbsAssumption, FS_Subset DEF TypeOK, UrbsAssumption
<1>2. CASE TableSame
  BY <1>2 DEF TableSame, tableVars, TableIsWhatIsOutstanding
<1>3. ASSUME NEW u \in Urbs, TableAdds(u) PROVE TableIsWhatIsOutstanding'
  <2>1. u \notin transfers_
    BY <1>3 DEF TableIsWhatIsOutstanding, TableAdds, InTable
  <2>2. Cardinality(transfers_') = pending_count_ + 1
    BY <1>1, <1>3, <2>1, FS_AddElement DEF TableIsWhatIsOutstanding, TableAdds, Register
  <2>3. transfers_' = {v \in Urbs : InTable(v)}'
    BY <1>3 DEF TableIsWhatIsOutstanding, TableAdds, Register
  <2>4. QED
    BY <1>3, <2>2, <2>3 DEF TableIsWhatIsOutstanding, TableAdds, Register
<1>4. ASSUME NEW u \in Urbs, TableDrops(u) PROVE TableIsWhatIsOutstanding'
  <2>1. u \in transfers_
    BY <1>4 DEF TableIsWhatIsOutstanding, TableDrops
  <2>2. Cardinality(transfers_') = pending_count_ - 1
    BY <1>1, <1>4, <2>1, FS_RemoveElement DEF TableIsWhatIsOutstanding, TableDrops, Erase
  <2>3. transfers_' = {v \in Urbs : InTable(v)}'
    BY <1>4 DEF TableIsWhatIsOutstanding, TableDrops, Erase
  <2>4. QED
    BY <1>4, <2>2, <2>3 DEF TableIsWhatIsOutstanding, TableDrops, Erase
<1>5. QED
  BY <1>2, <1>3, <1>4 DEF TableMoves

LEMMA TableInit == Init => TableIsWhatIsOutstanding
BY FS_EmptySet DEF Init, TableIsWhatIsOutstanding, InTable

\* The transfer table and the counter on_disconnection waits for agree, in every
\* reachable state, with what the host still owes a callback.
THEOREM TableCorrect == Spec => []TableIsWhatIsOutstanding
<1>1. Init => TypeOK /\ EventInv /\ TableIsWhatIsOutstanding
  BY InitType, TableInit DEF Init, EventInv, HoldsTransfer
<1>2. TypeOK /\ EventInv /\ TableIsWhatIsOutstanding /\ [Next]_vars
        => (TypeOK /\ EventInv /\ TableIsWhatIsOutstanding)'
  BY TypeStep, EventStep, StepMoves, TableStep
<1>3. QED
  BY <1>1, <1>2, PTL DEF Spec

-----------------------------------------------------------------------------
(* Sessions, owners and marks.                                             *)

\* Only the receiver begins sessions and URBs and marks unlinks.
LEMMA OwnerStep ==
  TypeOK /\ EventInv /\ OwnerInv /\ [Next]_vars => OwnerInv'
<1> SUFFICES ASSUME TypeOK, EventInv, OwnerInv, [Next]_vars PROVE OwnerInv'
  OBVIOUS
<1> USE DEF receiverVars, eventVars, tableVars, historyVars
<1>1. CASE UNCHANGED vars
  BY <1>1 DEF OwnerInv, vars
<1>2. CASE on_new_connection
  BY <1>2 DEF TypeOK, OwnerInv, on_new_connection
<1>3. ASSUME NEW u \in Urbs, ReceiveUrb(u) PROVE OwnerInv'
  <2>1. /\ UNCHANGED <<rpc, session, unlinked, unlinkCmd, refused>>
        /\ stage'[u] # "fresh"
        /\ \A v \in Urbs \ {u} : /\ stage'[v] = stage[v] /\ owner'[v] = owner[v]
                                 /\ replies'[v] = replies[v]
    BY <1>3 DEF TypeOK, ReceiveUrb, receive_urb_Removed, receive_urb_Tweaked,
       receive_urb_Submitted, receive_urb_Refused, Accept, SetStage, Enqueue
  <2>2. QED
    BY <2>1 DEF OwnerInv
<1>4. ASSUME NEW u \in Urbs, HandleUnlink(u) PROVE OwnerInv'
  <2>1. /\ UNCHANGED <<session, stage, owner, refused>>
        /\ rpc = "recv" /\ rpc' # "idle" /\ owner[u] = session
        /\ unlinkCmd' = unlinkCmd \cup {u} /\ unlinked' \subseteq unlinked \cup {u}
        /\ \A v \in Urbs \ {u} : replies'[v] = replies[v]
    BY <1>4 DEF TypeOK, HandleUnlink, handle_unlink_Removed, handle_unlink_Found,
       handle_unlink_NotFound, AcceptUnlink, Enqueue
  <2>2. stage[u] # "fresh"
    BY <2>1 DEF OwnerInv
  <2>3. QED
    BY <2>1, <2>2 DEF OwnerInv
<1>5. CASE handle_unlink_Cancel \/ \E ep \in Endpoints : on_disconnection_Sweep(ep)
  <2>1. /\ UNCHANGED <<session, owner, unlinked, unlinkCmd, refused, replies>>
        /\ rpc # "idle" /\ rpc' # "idle"
    BY <1>5 DEF handle_unlink_Cancel, on_disconnection_Sweep
  <2>2. \A v \in Urbs : stage'[v] = "fresh" => stage[v] = "fresh"
    BY <1>5, CancelStages DEF handle_unlink_Cancel, on_disconnection_Sweep
  <2>3. QED
    BY <2>1, <2>2 DEF OwnerInv
<1>6. CASE \/ on_disconnection_Begin \/ SpuriousWakeup \/ on_disconnection_Check
           \/ on_disconnection_Block \/ on_disconnection_Detach
  BY <1>6 DEF OwnerInv, on_disconnection_Begin, SpuriousWakeup, on_disconnection_Check,
     on_disconnection_Block, on_disconnection_Detach
<1>7. CASE EventThread
  <2>1. /\ UNCHANGED <<session, owner, unlinked, unlinkCmd>>
        /\ rpc' = rpc \/ (rpc = "wait" /\ rpc' = "check")
        /\ \A v \in Urbs : stage'[v] = "fresh" =>
             stage[v] = "fresh" /\ replies'[v] = replies[v] /\ v \notin refused' \ refused
    <3>1. ASSUME NEW u \in Urbs, transfer_callback_Begin(u)
          PROVE  UNCHANGED <<rpc, session, owner, unlinked, unlinkCmd, refused, replies>>
                 /\ \A v \in Urbs : stage'[v] = "fresh" => stage[v] = "fresh"
      BY <3>1 DEF TypeOK, transfer_callback_Begin, SetStage
    <3>2. CASE \/ transfer_callback_Drop \/ transfer_callback_Resubmitted
               \/ transfer_callback_Complete \/ transfer_callback_Wake
               \/ transfer_callback_Notify
      BY <3>2 DEF TypeOK, transfer_callback_Drop, transfer_callback_Resubmitted,
         transfer_callback_Complete, transfer_callback_Wake, transfer_callback_Notify,
         SetStage
    <3>3. CASE transfer_callback_ResubmitRefused
      BY <3>3 DEF EventInv, HoldsTransfer, transfer_callback_ResubmitRefused
    <3>4. CASE transfer_callback_FailReply \/ transfer_callback_Respond
      BY <3>4 DEF TypeOK, EventInv, HoldsTransfer, transfer_callback_FailReply,
         transfer_callback_Respond, EnqueueFromCallback, Enqueue, SetStage
    <3>5. QED
      BY <1>7, <3>1, <3>2, <3>3, <3>4 DEF EventThread
  <2>2. QED
    BY <2>1 DEF OwnerInv
<1>8. CASE DeviceGone \/ Unplug
  BY <1>8 DEF OwnerInv, DeviceGone, Unplug
<1>9. ASSUME NEW u \in Urbs, HostCompletes(u) PROVE OwnerInv'
  BY <1>9 DEF TypeOK, OwnerInv, HostCompletes, SetStage
<1>10. QED
  BY <1>1, <1>2, <1>3, <1>4, <1>5, <1>6, <1>7, <1>8, <1>9 DEF Next, ReceiverGoesOn

-----------------------------------------------------------------------------
(* What on_disconnection leaves behind.                                    *)

\* The receiver comes to "detach" with the device there only through an empty
\* wait, and device_removed_ is cleared only by the next session.
LEMMA ComesToRest ==
  ASSUME TypeOK, [Next]_vars, rpc' \in {"detach", "idle"}, ~device_removed_'
  PROVE  \/ rpc \in {"detach", "idle"} /\ ~device_removed_
         \/ WaitDone /\ TableSame
<1> USE DEF receiverVars, eventVars, tableVars, historyVars
<1>1. CASE UNCHANGED vars
  BY <1>1 DEF vars
<1>2. CASE on_new_connection \/ on_disconnection_Begin \/ SpuriousWakeup
           \/ on_disconnection_Block \/ on_disconnection_Detach \/ handle_unlink_Cancel
           \/ \E ep \in Endpoints : on_disconnection_Sweep(ep)
  BY <1>2 DEF on_new_connection, on_disconnection_Begin, SpuriousWakeup,
     on_disconnection_Block, on_disconnection_Detach, handle_unlink_Cancel,
     on_disconnection_Sweep
<1>3. CASE on_disconnection_Check
  BY <1>3 DEF on_disconnection_Check, TableSame, InTable
<1>4. CASE \E u \in Urbs : ReceiveUrb(u) \/ HandleUnlink(u)
  BY <1>4 DEF ReceiveUrb, receive_urb_Removed, receive_urb_Tweaked, receive_urb_Submitted,
     receive_urb_Refused, Accept, HandleUnlink, handle_unlink_Removed,
     handle_unlink_Found, handle_unlink_NotFound, AcceptUnlink
<1>5. CASE EventThread
  BY <1>5 DEF TypeOK, EventThread, transfer_callback_Begin, transfer_callback_Drop,
     transfer_callback_Resubmitted, transfer_callback_ResubmitRefused,
     transfer_callback_FailReply, transfer_callback_Complete,
     transfer_callback_Respond, transfer_callback_Wake, transfer_callback_Notify
<1>6. CASE DeviceGone \/ Unplug \/ \E u \in Urbs : HostCompletes(u)
  BY <1>6 DEF TypeOK, DeviceGone, Unplug, HostCompletes
<1>7. QED
  BY <1>1, <1>2, <1>3, <1>4, <1>5, <1>6 DEF Next, ReceiverGoesOn

LEMMA IdleStep ==
  TypeOK /\ EventInv /\ OwnerInv /\ TableIsWhatIsOutstanding /\ IdleInv /\ [Next]_vars
    => IdleInv'
<1> SUFFICES ASSUME TypeOK, EventInv, OwnerInv, TableIsWhatIsOutstanding, IdleInv,
                    [Next]_vars, rpc' \in {"detach", "idle"}, ~device_removed_'
             PROVE  \A u \in Urbs : ~InTable(u)'
  BY DEF IdleInv, InTable
<1>1. CASE rpc \in {"detach", "idle"} /\ ~device_removed_
  <2>1. \A u \in Urbs : ~InTable(u)
    BY <1>1 DEF IdleInv
  <2>2. CASE TableSame \/ \E u \in Urbs : TableDrops(u)
    BY <2>1, <2>2 DEF TableSame, TableDrops
  <2>3. CASE \E u \in Urbs : TableAdds(u)
    BY <1>1, <2>3 DEF TableAdds
  <2>4. QED
    BY <2>2, <2>3, StepMoves DEF TableMoves
<1>2. CASE WaitDone /\ TableSame
  <2>1. IsFiniteSet(transfers_)
    BY UrbsAssumption, FS_Subset DEF TypeOK, UrbsAssumption
  <2>2. transfers_ = {}
    BY <1>2, <2>1, FS_EmptySet DEF WaitDone, TableIsWhatIsOutstanding
  <2>3. QED
    BY <1>2, <2>2 DEF TableSame, TableIsWhatIsOutstanding
<1>3. QED
  BY <1>1, <1>2, ComesToRest

-----------------------------------------------------------------------------
(* The replies of a URB.                                                   *)

\* Appending to a reply history of length 0 or 1.
LEMMA AppendFirst ==
  ASSUME NEW S, NEW x \in S
  PROVE  Append(<<>>, x) = <<x>>
OBVIOUS

LEMMA AppendSecond ==
  ASSUME NEW S, NEW x \in S, NEW y \in S
  PROVE  Append(<<x>>, y) = <<x, y>>
<1> DEFINE s == Append(<<x>>, y)
           t == <<x, y>>
<1>1. s \in Seq(S) /\ Len(s) = 2 /\ s[1] = x /\ s[2] = y
  OBVIOUS
<1>2. t \in Seq(S) /\ Len(t) = 2 /\ t[1] = x /\ t[2] = y
  OBVIOUS
<1> HIDE DEF s, t
<1>3. \A i \in 1 .. Len(s) : s[i] = t[i]
  BY <1>1, <1>2
<1>4. s = t
  BY <1>1, <1>2, <1>3, SeqEqual
<1>5. QED
  BY <1>4 DEF s, t

\* What a step may add to the replies of one URB, and in which situation.
StartsReply(u) ==  \* answered by receive_urb itself
  /\ stage[u] = "fresh"
  /\ replies'[u] = Append(replies[u], RetSubmit("OK"))
     \/ replies'[u] = Append(replies[u], RetSubmit("EPIPE"))
LateUnlinkReply(u) ==  \* an unlink that finds nothing
  /\ u \notin transfers_ /\ u \notin unlinkCmd /\ LockFree
  /\ unlinkCmd' = unlinkCmd \cup {u}
  /\ replies'[u] = Append(replies[u], RetUnlink("OK"))
  /\ UNCHANGED <<epc, ecb>>
RefusedReply(u) ==  \* the host refused the resubmission
  /\ epc = "failReply" /\ u = ecb /\ epc' = "idle"
  /\ replies'[u] = Append(replies[u], RetSubmit("EPIPE"))
OwnReply(u) ==  \* the transfer is done
  /\ epc = "respond" /\ u = ecb /\ epc' = "wake"
  /\ replies'[u] = Append(replies[u], CompletionReply(u))

Replies(u) ==
  /\ \A v \in Urbs \ {u} : replies'[v] = replies[v]
  /\ \/ StartsReply(u) \/ LateUnlinkReply(u) \/ RefusedReply(u) \/ OwnReply(u)
ReplyMoves ==
  /\ unlinkCmd \subseteq unlinkCmd' /\ refused \subseteq refused'
  /\ UNCHANGED replies \/ \E u \in Urbs : Replies(u)

LEMMA StepReplies == TypeOK /\ EventInv /\ [Next]_vars => ReplyMoves
<1> SUFFICES ASSUME TypeOK, EventInv, [Next]_vars PROVE ReplyMoves
  OBVIOUS
<1> USE DEF receiverVars, eventVars, tableVars, historyVars
<1>1. CASE UNCHANGED vars
  BY <1>1 DEF vars, ReplyMoves
<1>2. ASSUME NEW u \in Urbs, ReceiveUrb(u) PROVE ReplyMoves
  <2>1. unlinkCmd' = unlinkCmd /\ refused' = refused
    BY <1>2 DEF ReceiveUrb, receive_urb_Removed, receive_urb_Tweaked,
       receive_urb_Submitted, receive_urb_Refused, Accept
  <2>2. UNCHANGED replies \/ (Replies(u) /\ StartsReply(u))
    BY <1>2 DEF TypeOK, Replies, StartsReply, ReceiveUrb, receive_urb_Removed,
       receive_urb_Tweaked, receive_urb_Submitted, receive_urb_Refused, Accept, Enqueue
  <2>3. QED
    BY <2>1, <2>2 DEF ReplyMoves
<1>3. ASSUME NEW u \in Urbs, HandleUnlink(u) PROVE ReplyMoves
  <2>1. unlinkCmd' = unlinkCmd \cup {u} /\ refused' = refused
    BY <1>3 DEF HandleUnlink, handle_unlink_Removed, handle_unlink_Found,
       handle_unlink_NotFound, AcceptUnlink
  <2>2. UNCHANGED replies \/ Replies(u)
    BY <1>3 DEF TypeOK, Replies, LateUnlinkReply, HandleUnlink, handle_unlink_Removed,
       handle_unlink_Found, handle_unlink_NotFound, AcceptUnlink, Enqueue
  <2>3. QED
    BY <2>1, <2>2 DEF ReplyMoves
<1>4. CASE \/ on_new_connection \/ on_disconnection_Begin \/ ReceiverGoesOn
           \/ SpuriousWakeup \/ DeviceGone \/ Unplug \/ \E u \in Urbs : HostCompletes(u)
  BY <1>4 DEF ReplyMoves, on_new_connection, on_disconnection_Begin, ReceiverGoesOn,
     handle_unlink_Cancel, on_disconnection_Sweep, on_disconnection_Check,
     on_disconnection_Block, on_disconnection_Detach, SpuriousWakeup, DeviceGone,
     Unplug, HostCompletes
<1>5. CASE transfer_callback_FailReply \/ transfer_callback_Respond
  <2>1. ecb \in Urbs /\ unlinkCmd' = unlinkCmd /\ refused' = refused
    BY <1>5 DEF EventInv, HoldsTransfer, transfer_callback_FailReply,
       transfer_callback_Respond
  <2>2. UNCHANGED replies \/ Replies(ecb)
    BY <1>5, <2>1 DEF TypeOK, Replies, RefusedReply, OwnReply, EnqueueFromCallback,
       Enqueue, transfer_callback_FailReply, transfer_callback_Respond
  <2>3. QED
    BY <2>1, <2>2 DEF ReplyMoves
<1>6. CASE EventThread /\ ~(transfer_callback_FailReply \/ transfer_callback_Respond)
  BY <1>6 DEF ReplyMoves, EventThread, transfer_callback_Begin, transfer_callback_Drop,
     transfer_callback_Resubmitted, transfer_callback_ResubmitRefused,
     transfer_callback_Complete, transfer_callback_Wake, transfer_callback_Notify
<1>7. QED
  BY <1>1, <1>2, <1>3, <1>4, <1>5, <1>6 DEF Next

\* The decisions of the event thread and the situation they are taken in.
LEMMA DecisionMoves ==
  ASSUME TypeOK, EventInv, OwnerInv, TableIsWhatIsOutstanding, DecisionInv, [Next]_vars
  PROVE  /\ epc' = "respond" =>
              \/ epc = "respond" /\ ecb' = ecb
              \/ epc = "lock" /\ ecb' = ecb /\ ~Collateral(ecb) /\ UNCHANGED <<status, unlinked>>
         /\ epc' = "failReply" =>
              \/ epc = "failReply" /\ ecb' = ecb
              \/ epc = "lock" /\ ecb' = ecb /\ ecb \in refused'
         /\ unlinked \subseteq unlinked'
         /\ \A u \in Urbs : status'[u] # status[u] =>
              stage[u] = "flying" \/ (u = ecb /\ epc = "lock" /\ epc' = "idle")
<1> USE DEF receiverVars, eventVars, tableVars, historyVars
<1>1. CASE UNCHANGED vars
  BY <1>1 DEF vars
<1>2. CASE \/ on_new_connection \/ on_disconnection_Begin \/ SpuriousWakeup
           \/ on_disconnection_Check \/ on_disconnection_Block \/ on_disconnection_Detach
  BY <1>2 DEF on_new_connection, on_disconnection_Begin, SpuriousWakeup,
     on_disconnection_Check, on_disconnection_Block, on_disconnection_Detach
<1>3. CASE \E u \in Urbs : ReceiveUrb(u) \/ HandleUnlink(u)
  BY <1>3 DEF ReceiveUrb, receive_urb_Removed, receive_urb_Tweaked, receive_urb_Submitted,
     receive_urb_Refused, Accept, HandleUnlink, handle_unlink_Removed,
     handle_unlink_Found, handle_unlink_NotFound, AcceptUnlink
<1>4. CASE handle_unlink_Cancel \/ \E ep \in Endpoints : on_disconnection_Sweep(ep)
  <2>1. /\ UNCHANGED <<epc, ecb, unlinked>>
        /\ \A u \in Urbs : status'[u] # status[u] => stage[u] = "flying"
    BY <1>4, CancelStages DEF handle_unlink_Cancel, on_disconnection_Sweep
  <2>2. QED
    BY <2>1
<1>5. CASE EventThread
  BY <1>5 DEF TypeOK, EventThread, transfer_callback_Begin, transfer_callback_Drop,
     transfer_callback_Resubmitted, transfer_callback_ResubmitRefused,
     transfer_callback_FailReply, transfer_callback_Complete,
     transfer_callback_Respond, transfer_callback_Wake, transfer_callback_Notify
<1>6. CASE DeviceGone \/ Unplug
  BY <1>6 DEF DeviceGone, Unplug
<1>7. ASSUME NEW u \in Urbs, HostCompletes(u)
      PROVE  /\ UNCHANGED <<epc, ecb, unlinked>> /\ stage[u] = "flying"
             /\ \A v \in Urbs \ {u} : status'[v] = status[v]
  BY <1>7 DEF TypeOK, HostCompletes
<1>8. QED
  BY <1>1, <1>2, <1>3, <1>4, <1>5, <1>6, <1>7 DEF Next, ReceiverGoesOn

LEMMA DecisionStep ==
  TypeOK /\ EventInv /\ OwnerInv /\ TableIsWhatIsOutstanding /\ DecisionInv /\ HistoryInv
    /\ [Next]_vars => DecisionInv'
<1> SUFFICES ASSUME TypeOK, EventInv, OwnerInv, TableIsWhatIsOutstanding, DecisionInv,
                    HistoryInv, [Next]_vars
             PROVE  DecisionInv'
  OBVIOUS
<1>0. TableMoves /\ ReplyMoves
  BY StepMoves, StepReplies
<1>1. ASSUME NEW u \in Urbs, InTable(u)' PROVE replies'[u] = <<>>
  <2>1. replies[u] = <<>> /\ (InTable(u) \/ (stage[u] = "fresh" /\ UNCHANGED replies))
    BY <1>0, <1>1 DEF TableMoves, TableSame, TableAdds, TableDrops, DecisionInv, OwnerInv
  <2>2. CASE UNCHANGED replies
    BY <2>1, <2>2
  <2>3. ASSUME InTable(u), NEW v \in Urbs, Replies(v) PROVE v # u
    <3>1. ~StartsReply(u) /\ ~LateUnlinkReply(u)
      BY <2>3 DEF InTable, StartsReply, LateUnlinkReply, TableIsWhatIsOutstanding
    <3>2. ~RefusedReply(u) /\ ~OwnReply(u)
      BY <2>3 DEF InTable, RefusedReply, OwnReply, EventInv, HoldsTransfer
    <3>3. QED
      BY <2>3, <3>1, <3>2 DEF Replies
  <2>4. QED
    BY <1>0, <2>1, <2>2, <2>3 DEF ReplyMoves, Replies
<1>2. ASSUME epc' = "respond"
      PROVE  replies'[ecb'] = <<>> /\ (status'[ecb'] = "CANCELED" => ecb' \in unlinked')
  <2>1. ecb' = ecb /\ ecb \in Urbs /\ epc \in {"lock", "respond"} /\ stage[ecb] = "callback"
    BY <1>2, DecisionMoves DEF EventInv, HoldsTransfer
  <2>2. replies[ecb] = <<>>
    BY <2>1 DEF DecisionInv, InTable
  <2>3. status'[ecb] = status[ecb]
    BY <1>2, <2>1, DecisionMoves
  <2>4. status[ecb] = "CANCELED" => ecb \in unlinked'
    BY <1>2, <2>1, <2>3, DecisionMoves DEF DecisionInv, Collateral
  <2>5. ASSUME NEW v \in Urbs, Replies(v) PROVE v # ecb
    <3>1. ~StartsReply(ecb) /\ ~RefusedReply(ecb) /\ ~OwnReply(ecb)
      BY <1>2, <2>1 DEF StartsReply, RefusedReply, OwnReply
    <3>2. ~LateUnlinkReply(ecb)
      BY <1>2, <2>1 DEF LateUnlinkReply, LockFree, TableIsWhatIsOutstanding, InTable
    <3>3. QED
      BY <2>5, <3>1, <3>2 DEF Replies
  <2>6. replies'[ecb] = replies[ecb]
    BY <1>0, <2>1, <2>5 DEF ReplyMoves, Replies
  <2>7. QED
    BY <2>1, <2>2, <2>3, <2>4, <2>6
<1>3. ASSUME epc' = "failReply"
      PROVE  ecb' \in refused' /\ replies'[ecb'] \in {<<>>, <<RetUnlink("OK")>>}
  <2>1. ecb' = ecb /\ ecb \in Urbs /\ epc \in {"lock", "failReply"} /\ stage[ecb] = "callback"
    BY <1>3, DecisionMoves DEF EventInv, HoldsTransfer
  <2>2. ecb \in refused'
    BY <1>0, <1>3, <2>1, DecisionMoves DEF DecisionInv, ReplyMoves
  <2>3. replies[ecb] \in {<<>>, <<RetUnlink("OK")>>}
    BY <2>1 DEF DecisionInv, InTable
  <2>4. ASSUME NEW v \in Urbs, Replies(v), v = ecb PROVE LateUnlinkReply(ecb)
    BY <1>3, <2>1, <2>4 DEF Replies, StartsReply, RefusedReply, OwnReply
  <2>5. ASSUME LateUnlinkReply(ecb) PROVE replies'[ecb] = <<RetUnlink("OK")>>
    <3>1. replies[ecb] = <<>>
      <4>1. replies[ecb] \in {<<>>} \cup {<<r>> : r \in Results}
        BY <2>1, <2>5 DEF HistoryInv, Histories, LateUnlinkReply
      <4>2. \A r \in Results : <<r>> # <<RetUnlink("OK")>>
        BY DEF Results, RetSubmit, RetUnlink
      <4>3. QED
        BY <2>3, <4>1, <4>2
    <3>2. QED
      BY <2>5, <3>1, AppendFirst DEF LateUnlinkReply
  <2>6. replies'[ecb] = replies[ecb] \/ LateUnlinkReply(ecb)
    BY <1>0, <2>1, <2>4 DEF ReplyMoves, Replies
  <2>7. QED
    BY <2>1, <2>2, <2>3, <2>5, <2>6
<1>4. QED
  BY <1>1, <1>2, <1>3 DEF DecisionInv

\* The one place a RET_SUBMIT says what happened to the transfer: a cancellation
\* the client did not ask for never gets there.
LEMMA OwnReplyIsHonest ==
  ASSUME TypeOK, NEW u \in Urbs, status[u] = "CANCELED" => u \in unlinked
  PROVE  IF u \in unlinked THEN \E st \in UrbStatus : CompletionReply(u) = RetUnlink(st)
                           ELSE CompletionReply(u) \in Results
BY StatusType DEF TypeOK, CompletionReply, Results, TrxStatus, UrbStatus, trxstat2error

LEMMA HistoryStep ==
  TypeOK /\ EventInv /\ OwnerInv /\ TableIsWhatIsOutstanding /\ DecisionInv /\ HistoryInv
    /\ [Next]_vars => HistoryInv'
<1> SUFFICES ASSUME TypeOK, EventInv, OwnerInv, TableIsWhatIsOutstanding, DecisionInv,
                    HistoryInv, [Next]_vars, NEW u \in Urbs
             PROVE  replies'[u] \in Histories(u)'
  BY DEF HistoryInv
<1>0. ReplyMoves /\ replies[u] \in Histories(u)
  BY StepReplies DEF HistoryInv
<1>1. Histories(u) \subseteq Histories(u)'
  BY <1>0 DEF Histories, ReplyMoves
<1>2. Results \subseteq Reply /\ \A st \in UrbStatus : RetUnlink(st) \in Reply
  BY DEF Results, Reply, RetSubmit, RetUnlink
<1>3. RetSubmit("OK") \in Results /\ RetSubmit("EPIPE") \in Results
  BY DEF Results, UrbStatus
<1>4. CASE replies'[u] = replies[u]
  BY <1>0, <1>1, <1>4
<1>5. CASE StartsReply(u)
  <2>1. replies[u] = <<>>
    BY <1>5 DEF StartsReply, OwnerInv
  <2>2. \E r \in Results : replies'[u] = <<r>>
    BY <1>2, <1>3, <1>5, <2>1, AppendFirst DEF StartsReply
  <2>3. QED
    BY <2>2 DEF Histories
<1>6. CASE LateUnlinkReply(u)
  <2>1. u \in unlinkCmd' /\ RetUnlink("OK") \in Reply /\ "OK" \in UrbStatus
    BY <1>2, <1>6 DEF LateUnlinkReply, UrbStatus
  <2>2. replies[u] = <<>> \/ \E r \in Results : replies[u] = <<r>>
    BY <1>0, <1>6 DEF Histories, LateUnlinkReply
  <2>3. CASE replies[u] = <<>>
    <3>1. replies'[u] = <<RetUnlink("OK")>>
      BY <1>6, <2>1, <2>3, AppendFirst DEF LateUnlinkReply
    <3>2. QED
      BY <2>1, <3>1 DEF Histories
  <2>4. ASSUME NEW r \in Results, replies[u] = <<r>> PROVE replies'[u] \in Histories(u)'
    <3>1. replies'[u] = <<r, RetUnlink("OK")>>
      BY <1>2, <1>6, <2>1, <2>4, AppendSecond DEF LateUnlinkReply
    <3>2. QED
      BY <2>1, <3>1 DEF Histories
  <2>5. QED
    BY <2>2, <2>3, <2>4
<1>7. CASE RefusedReply(u)
  <2>1. u \in refused /\ replies[u] \in {<<>>, <<RetUnlink("OK")>>}
    BY <1>7 DEF RefusedReply, DecisionInv
  <2>2. CASE replies[u] = <<>>
    <3>1. replies'[u] = <<RetSubmit("EPIPE")>>
      BY <1>2, <1>3, <1>7, <2>2, AppendFirst DEF RefusedReply
    <3>2. QED
      BY <1>3, <3>1 DEF Histories
  <2>3. CASE replies[u] = <<RetUnlink("OK")>>
    <3>1. replies'[u] = <<RetUnlink("OK"), RetSubmit("EPIPE")>>
      <4>1. RetUnlink("OK") \in Reply
        BY <1>2 DEF UrbStatus
      <4>2. QED
        BY <1>2, <1>3, <1>7, <2>3, <4>1, AppendSecond DEF RefusedReply
    <3>2. u \in unlinkCmd
      <4>1. \A r \in Results : <<r>> # <<RetUnlink("OK")>>
        BY DEF Results, RetSubmit, RetUnlink
      <4>2. QED
        BY <1>0, <2>3, <4>1 DEF Histories
    <3>3. QED
      BY <1>0, <2>1, <3>1, <3>2 DEF Histories, ReplyMoves
  <2>4. QED
    BY <2>1, <2>2, <2>3
<1>8. CASE OwnReply(u)
  <2>1. replies[u] = <<>> /\ (status[u] = "CANCELED" => u \in unlinked)
    BY <1>8 DEF OwnReply, DecisionInv
  <2>2. CompletionReply(u) \in Reply /\ replies'[u] = <<CompletionReply(u)>>
    BY <1>2, <1>8, <2>1, OwnReplyIsHonest, AppendFirst DEF OwnReply
  <2>3. CASE u \in unlinked
    <3>1. \E st \in UrbStatus : replies'[u] = <<RetUnlink(st)>>
      BY <2>1, <2>2, <2>3, OwnReplyIsHonest
    <3>2. u \in unlinkCmd'
      BY <1>0, <2>3 DEF OwnerInv, ReplyMoves
    <3>3. QED
      BY <3>1, <3>2 DEF Histories
  <2>4. CASE u \notin unlinked
    <3>1. CompletionReply(u) \in Results
      BY <2>1, <2>4, OwnReplyIsHonest
    <3>2. QED
      BY <2>2, <3>1 DEF Histories
  <2>5. QED
    BY <2>3, <2>4
<1>9. QED
  BY <1>0, <1>4, <1>5, <1>6, <1>7, <1>8 DEF ReplyMoves, Replies

-----------------------------------------------------------------------------
(* The inductive invariant and what follows from it.                       *)

LEMMA IInvInit == Init => IInv
<1> SUFFICES ASSUME Init PROVE IInv
  OBVIOUS
<1>1. TypeOK /\ TableIsWhatIsOutstanding
  BY InitType, TableInit
<1>2. EventInv /\ OwnerInv
  BY DEF Init, EventInv, OwnerInv, HoldsTransfer
<1>3. IdleInv /\ DecisionInv
  BY DEF Init, IdleInv, DecisionInv, InTable
<1>4. HistoryInv
  BY DEF Init, HistoryInv, Histories
<1>5. QED
  BY <1>1, <1>2, <1>3, <1>4 DEF IInv

LEMMA IInvStep == IInv /\ [Next]_vars => IInv'
BY TypeStep, EventStep, OwnerStep, StepMoves, TableStep, IdleStep, DecisionStep,
   HistoryStep DEF IInv

\* IInv holds in every reachable state.
THEOREM Invariance == Spec => []IInv
BY IInvInit, IInvStep, PTL DEF Spec

\* When on_disconnection is past its wait and the device is still there, no
\* transfer of the session is in a pipe or in its callback's table work.
THEOREM Drained == Spec => []DrainedBeforeDetach
<1>1. IInv => DrainedBeforeDetach
  BY DEF IInv, IdleInv, DrainedBeforeDetach
<1>2. QED
  BY <1>1, Invariance, PTL

\* Every session starts with an empty table and the counter at zero.
THEOREM FreshStart == Spec => FreshConnection
<1>1. IInv /\ [Next]_vars => (sessions' # sessions => transfers_ = {} /\ pending_count_ = 0)
  <2> SUFFICES ASSUME IInv, [Next]_vars, sessions' # sessions
               PROVE  transfers_ = {} /\ pending_count_ = 0
    OBVIOUS
  <2> USE DEF receiverVars, eventVars, tableVars, historyVars
  <2>1. on_new_connection
    BY DEF vars, Next, ReceiveUrb, receive_urb_Removed, receive_urb_Tweaked,
       receive_urb_Submitted, receive_urb_Refused, Accept, HandleUnlink,
       handle_unlink_Removed, handle_unlink_Found, handle_unlink_NotFound, AcceptUnlink,
       on_disconnection_Begin, ReceiverGoesOn, handle_unlink_Cancel,
       on_disconnection_Sweep, on_disconnection_Check, on_disconnection_Block,
       on_disconnection_Detach, SpuriousWakeup, EventThread, transfer_callback_Begin,
       transfer_callback_Drop, transfer_callback_Resubmitted,
       transfer_callback_ResubmitRefused, transfer_callback_FailReply,
       transfer_callback_Complete, transfer_callback_Respond, transfer_callback_Wake,
       transfer_callback_Notify, DeviceGone, HostCompletes, Unplug
  <2>2. transfers_ = {}
    BY <2>1 DEF on_new_connection, IInv, IdleInv, TableIsWhatIsOutstanding
  <2>3. QED
    BY <2>2, FS_EmptySet DEF IInv, TableIsWhatIsOutstanding
<1>2. QED
  BY <1>1, Invariance, PTL DEF Spec, FreshConnection

-----------------------------------------------------------------------------
(* What a disconnection waits for.                                         *)

\* While a disconnection is on, the flag is up, and as long as some swept endpoint
\* has a transfer again the event thread is not on the path that resubmits.
RestartInv ==
  Disconnecting => /\ all_transfer_should_stop
                   /\ \A u \in Urbs : Restarted(u) => epc # "lock"

\* What a step can do to a disconnection that is on: nothing to the flag, and the
\* only transfer it can restart is the one in the callback, which then is over.
RestartMoves ==
  /\ Disconnecting
  /\ all_transfer_should_stop' = all_transfer_should_stop
  /\ epc' = "lock" => epc = "lock" \/ ~all_transfer_should_stop
  /\ \A u \in Urbs : Restarted(u)' =>
       Restarted(u) \/ (u = ecb /\ epc = "lock" /\ epc' = "idle")

LEMMA DisconnectionMoves ==
  ASSUME TypeOK, EventInv, [Next]_vars, Disconnecting'
  PROVE  on_disconnection_Begin \/ RestartMoves
<1> USE DEF receiverVars, eventVars, tableVars, historyVars, Disconnecting, Restarted
<1>1. CASE UNCHANGED vars
  BY <1>1 DEF vars, RestartMoves
<1>2. CASE on_new_connection \/ handle_unlink_Cancel \/ on_disconnection_Detach
           \/ \E u \in Urbs : ReceiveUrb(u) \/ HandleUnlink(u)
  BY <1>2 DEF on_new_connection, handle_unlink_Cancel, on_disconnection_Detach,
     ReceiveUrb, receive_urb_Removed, receive_urb_Tweaked, receive_urb_Submitted,
     receive_urb_Refused, Accept, HandleUnlink, handle_unlink_Removed,
     handle_unlink_Found, handle_unlink_NotFound, AcceptUnlink
<1>3. ASSUME NEW ep \in Endpoints, on_disconnection_Sweep(ep) PROVE RestartMoves
  <2>1. \A u \in Urbs : stage'[u] = "flying" => stage[u] = "flying" /\ EpOf[u] # ep
    BY <1>3 DEF TypeOK, on_disconnection_Sweep, cancel_endpoint_all_transfers
  <2>2. QED
    BY <1>3, <2>1 DEF TypeOK, on_disconnection_Sweep, RestartMoves
<1>4. CASE on_disconnection_Check \/ on_disconnection_Block \/ SpuriousWakeup
  BY <1>4 DEF on_disconnection_Check, on_disconnection_Block, SpuriousWakeup, RestartMoves
<1>5. ASSUME NEW u \in Urbs, transfer_callback_Begin(u) PROVE RestartMoves
  BY <1>5 DEF TypeOK, transfer_callback_Begin, SetStage, RestartMoves
<1>6. CASE transfer_callback_Resubmitted
  BY <1>6 DEF TypeOK, transfer_callback_Resubmitted, SetStage, RestartMoves
<1>7. CASE \/ transfer_callback_Drop \/ transfer_callback_FailReply
           \/ transfer_callback_Respond
  BY <1>7 DEF TypeOK, transfer_callback_Drop, transfer_callback_FailReply,
     transfer_callback_Respond, SetStage, RestartMoves
<1>8. CASE \/ transfer_callback_ResubmitRefused \/ transfer_callback_Complete
           \/ transfer_callback_Wake \/ transfer_callback_Notify
  BY <1>8 DEF transfer_callback_ResubmitRefused, transfer_callback_Complete,
     transfer_callback_Wake, transfer_callback_Notify, RestartMoves
<1>9. CASE DeviceGone \/ Unplug
  BY <1>9 DEF DeviceGone, Unplug, RestartMoves
<1>10. ASSUME NEW u \in Urbs, HostCompletes(u) PROVE RestartMoves
  BY <1>10 DEF TypeOK, HostCompletes, SetStage, RestartMoves
<1>11. QED
  BY <1>1, <1>2, <1>3, <1>4, <1>5, <1>6, <1>7, <1>8, <1>9, <1>10
     DEF Next, ReceiverGoesOn, EventThread

\* A disconnection begins with every interface endpoint still to be swept, and
\* the flag it has raised closes the path a second restart would need.
LEMMA RestartStep ==
  TypeOK /\ EventInv /\ RestartInv /\ OneRestartAtMost /\ [Next]_vars
    => (RestartInv /\ OneRestartAtMost)'
<1> SUFFICES ASSUME TypeOK, EventInv, RestartInv, OneRestartAtMost, [Next]_vars,
                    Disconnecting'
             PROVE  /\ all_transfer_should_stop'
                    /\ \A u \in Urbs : Restarted(u)' => epc' # "lock"
                    /\ \A u, v \in Urbs : Restarted(u)' /\ Restarted(v)' => u = v
  BY DEF RestartInv, OneRestartAtMost
<1>1. CASE on_disconnection_Begin
  <2>1. all_transfer_should_stop'
    BY <1>1 DEF on_disconnection_Begin
  <2>2. \A u \in Urbs : ~Restarted(u)'
    BY <1>1 DEF on_disconnection_Begin, Disconnecting, Restarted
  <2>3. QED
    BY <2>1, <2>2
<1>2. CASE RestartMoves
  BY <1>2 DEF RestartMoves, RestartInv, OneRestartAtMost
<1>3. QED
  BY <1>1, <1>2, DisconnectionMoves

\* At no moment of a disconnection is more than one interface transfer of a swept
\* endpoint with the host again; and past the wait there is none of any kind.
THEOREM DisconnectionBounded == Spec => []DisconnectionDrains
<1>1. Init => TypeOK /\ EventInv /\ RestartInv /\ OneRestartAtMost
  BY InitType DEF Init, EventInv, HoldsTransfer, RestartInv, OneRestartAtMost,
     Disconnecting
<1>2. TypeOK /\ EventInv /\ RestartInv /\ OneRestartAtMost /\ [Next]_vars
        => (TypeOK /\ EventInv /\ RestartInv /\ OneRestartAtMost)'
  BY TypeStep, EventStep, RestartStep
<1>3. OneRestartAtMost /\ DrainedBeforeDetach => DisconnectionDrains
  BY DEF DisconnectionDrains
<1>4. QED
  BY <1>1, <1>2, <1>3, Drained, PTL DEF Spec

\* A URB enters the table in the session that submits it, and no session begins
\* before the table is empty.
LEMMA SessionTableStep ==
  IInv /\ TableIsOfThisSession /\ [Next]_vars => TableIsOfThisSession'
<1> SUFFICES ASSUME IInv, TableIsOfThisSession, [Next]_vars, rpc' # "idle",
                    NEW u \in transfers_'
             PROVE  owner'[u] = session'
  BY DEF TableIsOfThisSession
<1> USE DEF receiverVars, eventVars, tableVars, historyVars
<1>1. CASE on_new_connection
  <2>1. transfers_ = {} /\ transfers_' = transfers_
    BY <1>1 DEF on_new_connection, IInv, IdleInv, TableIsWhatIsOutstanding
  <2>2. QED
    BY <2>1
<1>2. ASSUME NEW v \in Urbs, ReceiveUrb(v) PROVE owner'[u] = session'
  <2>1. /\ rpc = "recv" /\ session' = session
        /\ owner' = [owner EXCEPT ![v] = session]
        /\ transfers_' \subseteq transfers_ \cup {v}
    BY <1>2 DEF ReceiveUrb, receive_urb_Removed, receive_urb_Tweaked,
       receive_urb_Submitted, receive_urb_Refused, Accept, Register
  <2>2. QED
    BY <2>1 DEF IInv, TypeOK, TableIsOfThisSession
<1>3. ASSUME /\ rpc # "idle" /\ session' = session /\ owner' = owner
             /\ transfers_' \subseteq transfers_
      PROVE  owner'[u] = session'
  BY <1>3 DEF TableIsOfThisSession
<1>4. CASE UNCHANGED vars \/ \E v \in Urbs : HandleUnlink(v)
  BY <1>3, <1>4 DEF vars, HandleUnlink, handle_unlink_Removed, handle_unlink_Found,
     handle_unlink_NotFound, AcceptUnlink
<1>5. CASE on_disconnection_Begin \/ ReceiverGoesOn \/ SpuriousWakeup
  BY <1>3, <1>5 DEF on_disconnection_Begin, ReceiverGoesOn, SpuriousWakeup,
     handle_unlink_Cancel, on_disconnection_Sweep, on_disconnection_Check,
     on_disconnection_Block, on_disconnection_Detach
<1>6. CASE EventThread
  BY <1>3, <1>6 DEF EventThread, transfer_callback_Begin, transfer_callback_Drop,
     transfer_callback_Resubmitted, transfer_callback_ResubmitRefused,
     transfer_callback_FailReply, transfer_callback_Complete,
     transfer_callback_Respond, transfer_callback_Wake, transfer_callback_Notify, Erase
<1>7. CASE DeviceGone \/ Unplug \/ \E v \in Urbs : HostCompletes(v)
  BY <1>3, <1>7 DEF DeviceGone, Unplug, HostCompletes
<1>8. QED
  BY <1>1, <1>2, <1>4, <1>5, <1>6, <1>7 DEF Next

\* As long as a session runs, every URB in the table is one of its own: nothing an
\* earlier client submitted is found by its unlinks or answered through its socket.
THEOREM SessionTable == Spec => []TableIsOfThisSession
<1>1. Init => TableIsOfThisSession
  BY DEF Init, TableIsOfThisSession
<1>2. IInv /\ TableIsOfThisSession /\ [Next]_vars => (IInv /\ TableIsOfThisSession)'
  BY IInvStep, SessionTableStep
<1>3. QED
  BY <1>1, <1>2, IInvInit, PTL DEF Spec

\* Whoever leaves the receiver asleep with nothing outstanding is the receiver
\* itself, between its predicate and its wait, or a refused resubmission: every
\* other path that brings the counter to zero still has its notify_one ahead.
THEOREM OversleepsOnlyInWindow == Spec => OversleepsInWindowOnly
<1> DEFINE Leaves == Overslept' => Overslept \/ on_disconnection_Block
                                   \/ transfer_callback_ResubmitRefused
<1>1. IInv /\ [Next]_vars => Leaves
  <2> SUFFICES ASSUME IInv, [Next]_vars, Overslept', ~on_disconnection_Block,
                      ~transfer_callback_ResubmitRefused
               PROVE  Overslept
    OBVIOUS
  <2> USE DEF receiverVars, eventVars, tableVars, historyVars, Overslept
  <2>1. CASE UNCHANGED vars
    BY <2>1 DEF vars
  <2>2. CASE \/ on_new_connection \/ on_disconnection_Begin \/ ReceiverGoesOn
             \/ SpuriousWakeup \/ \E u \in Urbs : ReceiveUrb(u) \/ HandleUnlink(u)
    BY <2>2 DEF on_new_connection, on_disconnection_Begin, ReceiverGoesOn, SpuriousWakeup,
       handle_unlink_Cancel, on_disconnection_Sweep, on_disconnection_Check,
       on_disconnection_Detach, ReceiveUrb, receive_urb_Removed, receive_urb_Tweaked,
       receive_urb_Submitted, receive_urb_Refused, Accept, HandleUnlink,
       handle_unlink_Removed, handle_unlink_Found, handle_unlink_NotFound, AcceptUnlink
  <2>3. CASE EventThread
    BY <2>3 DEF EventThread, transfer_callback_Begin, transfer_callback_Drop,
       transfer_callback_Resubmitted, transfer_callback_FailReply,
       transfer_callback_Complete, transfer_callback_Respond, transfer_callback_Wake,
       transfer_callback_Notify
  <2>4. CASE DeviceGone \/ Unplug \/ \E u \in Urbs : HostCompletes(u)
    BY <2>4 DEF DeviceGone, Unplug, HostCompletes
  <2>5. QED
    BY <2>1, <2>2, <2>3, <2>4 DEF Next
<1>2. QED
  BY <1>1, Invariance, PTL DEF Spec, OversleepsInWindowOnly

\* The histories, element by element.
LEMMA HistoryShape ==
  ASSUME NEW u \in Urbs, NEW h \in Histories(u)
  PROVE  \/ h = <<>>
         \/ \E r \in Results : h = <<r>>
         \/ u \in unlinkCmd /\ \E st \in UrbStatus : h = <<RetUnlink(st)>>
         \/ u \in unlinkCmd /\ \E r \in Results : h = <<r, RetUnlink("OK")>>
         \/ u \in unlinkCmd /\ u \in refused /\ h = <<RetUnlink("OK"), RetSubmit("EPIPE")>>
BY DEF Histories

\* No RET_SUBMIT ever reports a cancellation: a transfer that was cancelled along
\* with another is resubmitted, or fails with EPIPE.
THEOREM CancellationHidden == Spec => []CancellationIsNotReported
<1>1. IInv => CancellationIsNotReported
  <2> SUFFICES ASSUME IInv, NEW u \in Urbs,
                      NEW i \in DOMAIN replies[u], replies[u][i] = RetSubmit("ECONNRESET")
               PROVE  FALSE
    BY DEF CancellationIsNotReported, Range
  <2>1. replies[u] \in Histories(u)
    BY DEF IInv, HistoryInv
  <2>2. /\ RetSubmit("ECONNRESET") \notin Results
        /\ RetSubmit("ECONNRESET") # RetSubmit("EPIPE")
        /\ \A st : RetSubmit("ECONNRESET") # RetUnlink(st)
    BY DEF Results, RetSubmit, RetUnlink
  <2>3. QED
    BY <2>1, <2>2, HistoryShape
<1>2. QED
  BY <1>1, Invariance, PTL

\* Once the URB's own result was sent, the unlink is answered with 0; and the one
\* RET_UNLINK that comes first is answered with 0 as well.
THEOREM LateUnlinkOk == Spec => []UnlinkAfterResultIsOk
<1>1. IInv => UnlinkAfterResultIsOk
  <2> SUFFICES ASSUME IInv, NEW u \in Urbs, Len(replies[u]) = 2, NEW i \in 1 .. 2,
                      replies[u][i].kind = "RET_UNLINK"
               PROVE  replies[u][i].status = "OK"
    BY DEF UnlinkAfterResultIsOk
  <2>1. replies[u] \in Histories(u)
    BY DEF IInv, HistoryInv
  <2>2. /\ \A r \in Results : r.kind = "RET_SUBMIT"
        /\ RetSubmit("EPIPE").kind = "RET_SUBMIT" /\ RetUnlink("OK").status = "OK"
    BY DEF Results, RetSubmit, RetUnlink
  <2>3. QED
    BY <2>1, <2>2, HistoryShape
<1>2. QED
  BY <1>1, Invariance, PTL

\* The reply protocol of one URB, whatever the interleaving.
THEOREM RepliesCorrect == Spec => []ReplyProtocol
<1>1. IInv => ReplyProtocol
  <2> SUFFICES ASSUME IInv, NEW u \in Urbs
               PROVE  LET kinds == [i \in DOMAIN replies[u] |-> replies[u][i].kind]
                      IN /\ kinds \in {<<>>, <<"RET_SUBMIT">>, <<"RET_UNLINK">>, <<"RET_SUBMIT", "RET_UNLINK">>}
                                      \cup (IF u \in refused THEN {<<"RET_UNLINK", "RET_SUBMIT">>} ELSE {})
                         /\ "RET_UNLINK" \in Range(kinds) => u \in unlinkCmd
    BY DEF ReplyProtocol
  <2> DEFINE kinds == [i \in DOMAIN replies[u] |-> replies[u][i].kind]
  <2>1. replies[u] \in Histories(u)
    BY DEF IInv, HistoryInv
  <2>2. /\ \A r \in Results : r.kind = "RET_SUBMIT"
        /\ \A st : RetSubmit(st).kind = "RET_SUBMIT" /\ RetUnlink(st).kind = "RET_UNLINK"
    BY DEF Results, RetSubmit, RetUnlink
  <2>3. \/ kinds = <<>>
        \/ kinds = <<"RET_SUBMIT">>
        \/ kinds = <<"RET_UNLINK">> /\ u \in unlinkCmd
        \/ kinds = <<"RET_SUBMIT", "RET_UNLINK">> /\ u \in unlinkCmd
        \/ kinds = <<"RET_UNLINK", "RET_SUBMIT">> /\ u \in unlinkCmd /\ u \in refused
    BY <2>1, <2>2, HistoryShape
  <2>4. "RET_UNLINK" \in Range(kinds) => u \in unlinkCmd
    <3>1. CASE kinds = <<>> \/ kinds = <<"RET_SUBMIT">>
      BY <3>1 DEF Range
    <3>2. QED
      BY <2>3, <3>1
  <2>5. QED
    BY <2>3, <2>4
<1>2. QED
  BY <1>1, Invariance, PTL

-----------------------------------------------------------------------------
(* The contract of DeviceHandler.h, while the host takes every transfer    *)
(* back.                                                                   *)

\* A URB that the receiver has taken belongs to a session, and none was refused.
TakenInv ==
  /\ \A u \in Urbs : stage[u] # "fresh" => owner[u] # 0
  /\ ~ResubmitMayFail => refused = {} /\ epc # "failReply"

\* Only receive_urb gives a URB an owner and takes it out of "fresh".
LEMMA OnlyReceiveTakes ==
  ASSUME TypeOK, EventInv, [Next]_vars, \A u \in Urbs : ~ReceiveUrb(u)
  PROVE  /\ UNCHANGED owner
         /\ \A v \in Urbs : stage[v] = "fresh" => stage'[v] = "fresh"
<1> USE DEF receiverVars, eventVars, tableVars, historyVars
<1>1. CASE UNCHANGED vars
  BY <1>1 DEF vars
<1>2. CASE \/ on_new_connection \/ on_disconnection_Begin \/ SpuriousWakeup
           \/ on_disconnection_Check \/ on_disconnection_Block \/ on_disconnection_Detach
  BY <1>2 DEF on_new_connection, on_disconnection_Begin, SpuriousWakeup,
     on_disconnection_Check, on_disconnection_Block, on_disconnection_Detach
<1>3. CASE \E u \in Urbs : HandleUnlink(u)
  BY <1>3 DEF HandleUnlink, handle_unlink_Removed, handle_unlink_Found,
     handle_unlink_NotFound, AcceptUnlink
<1>4. CASE handle_unlink_Cancel \/ \E ep \in Endpoints : on_disconnection_Sweep(ep)
  BY <1>4, CancelStages DEF handle_unlink_Cancel, on_disconnection_Sweep
<1>5. CASE EventThread
  BY <1>5 DEF TypeOK, EventInv, HoldsTransfer, EventThread, transfer_callback_Begin,
     transfer_callback_Drop, transfer_callback_Resubmitted,
     transfer_callback_ResubmitRefused, transfer_callback_FailReply,
     transfer_callback_Complete, transfer_callback_Respond, transfer_callback_Wake,
     transfer_callback_Notify, SetStage
<1>6. CASE DeviceGone \/ Unplug
  BY <1>6 DEF DeviceGone, Unplug
<1>7. CASE \E u \in Urbs : HostCompletes(u)
  BY <1>7 DEF TypeOK, HostCompletes, SetStage
<1>8. QED
  BY <1>1, <1>2, <1>3, <1>4, <1>5, <1>6, <1>7 DEF Next, ReceiverGoesOn

\* receive_urb takes one URB, for the session that runs.
LEMMA ReceiveTakes ==
  ASSUME TypeOK, OwnerInv, NEW u \in Urbs, ReceiveUrb(u)
  PROVE  /\ owner[u] = 0 /\ owner' = [owner EXCEPT ![u] = session] /\ session # 0
         /\ stage[u] = "fresh" /\ replies[u] = <<>> /\ UNCHANGED <<unlinkCmd, refused, epc>>
         /\ stage' \in [Urbs -> {"fresh", "flying", "done", "callback", "dead"}]
         /\ \A v \in Urbs \ {u} : stage'[v] = stage[v]
         /\ \/ UNCHANGED replies
            \/ \E r \in Results : replies' = [replies EXCEPT ![u] = Append(@, r)]
<1> USE DEF receiverVars, eventVars, tableVars
<1>1. /\ owner' = [owner EXCEPT ![u] = session] /\ stage[u] = "fresh" /\ rpc = "recv"
      /\ UNCHANGED <<unlinkCmd, refused, epc>>
  BY DEF ReceiveUrb, receive_urb_Removed, receive_urb_Tweaked, receive_urb_Submitted,
     receive_urb_Refused, Accept
<1>2. /\ stage' \in [Urbs -> {"fresh", "flying", "done", "callback", "dead"}]
      /\ \A v \in Urbs \ {u} : stage'[v] = stage[v]
  BY DEF TypeOK, ReceiveUrb, receive_urb_Removed, receive_urb_Tweaked,
     receive_urb_Submitted, receive_urb_Refused, SetStage
<1>3. RetSubmit("OK") \in Results /\ RetSubmit("EPIPE") \in Results
  BY DEF Results, UrbStatus
<1>4. \/ UNCHANGED replies
      \/ \E r \in Results : replies' = [replies EXCEPT ![u] = Append(@, r)]
  BY <1>3 DEF ReceiveUrb, receive_urb_Removed, receive_urb_Tweaked, receive_urb_Submitted,
     receive_urb_Refused, Enqueue
<1>5. owner[u] = 0 /\ replies[u] = <<>> /\ session # 0
  BY <1>1 DEF OwnerInv
<1>6. QED
  BY <1>1, <1>2, <1>4, <1>5

\* Every step keeps the invariant.
LEMMA TakenStep ==
  TypeOK /\ EventInv /\ OwnerInv /\ TakenInv /\ [Next]_vars => TakenInv'
<1> SUFFICES ASSUME TypeOK, EventInv, OwnerInv, TakenInv, [Next]_vars PROVE TakenInv'
  OBVIOUS
<1>1. \A u \in Urbs : stage'[u] # "fresh" => owner'[u] # 0
  <2>1. ASSUME NEW u \in Urbs, ReceiveUrb(u), NEW v \in Urbs, stage'[v] # "fresh"
        PROVE  owner'[v] # 0
    BY <2>1, ReceiveTakes DEF TypeOK, TakenInv
  <2>2. CASE \A u \in Urbs : ~ReceiveUrb(u)
    BY <2>2, OnlyReceiveTakes DEF TakenInv
  <2>3. QED
    BY <2>1, <2>2
<1>2. ASSUME ~ResubmitMayFail PROVE refused' = {} /\ epc' # "failReply"
  <2> USE DEF receiverVars, eventVars, tableVars, historyVars
  <2>1. refused = {} /\ epc # "failReply"
    BY <1>2 DEF TakenInv
  <2>2. CASE UNCHANGED vars
    BY <2>1, <2>2 DEF vars
  <2>3. CASE \E u \in Urbs : ReceiveUrb(u)
    BY <2>1, <2>3, ReceiveTakes
  <2>4. CASE \E u \in Urbs : HandleUnlink(u)
    BY <2>1, <2>4 DEF HandleUnlink, handle_unlink_Removed, handle_unlink_Found,
       handle_unlink_NotFound, AcceptUnlink
  <2>5. CASE \/ on_new_connection \/ on_disconnection_Begin \/ ReceiverGoesOn
             \/ SpuriousWakeup \/ DeviceGone \/ Unplug \/ \E u \in Urbs : HostCompletes(u)
    BY <2>1, <2>5 DEF on_new_connection, on_disconnection_Begin, ReceiverGoesOn,
       handle_unlink_Cancel, on_disconnection_Sweep, on_disconnection_Check,
       on_disconnection_Block, on_disconnection_Detach, SpuriousWakeup, DeviceGone,
       Unplug, HostCompletes
  <2>6. CASE EventThread
    BY <1>2, <2>1, <2>6 DEF EventThread, transfer_callback_Begin, transfer_callback_Drop,
       transfer_callback_Resubmitted, transfer_callback_ResubmitRefused,
       transfer_callback_FailReply, transfer_callback_Complete, transfer_callback_Respond,
       transfer_callback_Wake, transfer_callback_Notify
  <2>7. QED
    BY <2>2, <2>3, <2>4, <2>5, <2>6 DEF Next
<1>3. QED
  BY <1>1, <1>2 DEF TakenInv

\* The kinds of the replies to a URB: what the contract sees of them.
Kinds(h) == [i \in DOMAIN h |-> h[i].kind]
Sent == [u \in Urbs |-> Kinds(replies[u])]
Submitted == {u \in Urbs : owner[u] # 0}

\* The kinds of short histories.
LEMMA KindsAre ==
  ASSUME NEW r \in Results, NEW st \in UrbStatus
  PROVE  /\ Kinds(<<>>) = <<>>
         /\ Kinds(<<r>>) = <<"RET_SUBMIT">>
         /\ Kinds(<<RetUnlink(st)>>) = <<"RET_UNLINK">>
         /\ Kinds(<<r, RetUnlink(st)>>) = <<"RET_SUBMIT", "RET_UNLINK">>
<1>1. r.kind = "RET_SUBMIT" /\ RetUnlink(st).kind = "RET_UNLINK"
  BY DEF Results, RetSubmit, RetUnlink
<1>2. QED
  BY <1>1 DEF Kinds

\* One URB's replies change.
LEMMA SentChanges ==
  ASSUME TypeOK, NEW u \in Urbs, NEW h, replies' = [replies EXCEPT ![u] = h]
  PROVE  Sent' = [Sent EXCEPT ![u] = Kinds(h)]
BY DEF TypeOK, Sent

\* The handler starts as the contract does.
LEMMA ContractInit == Init => Contract!Init
<1>1. Kinds(<<>>) = <<>>
  BY DEF Kinds
<1>2. QED
  BY <1>1 DEF Init, Contract!Init, Kinds

\* A CMD_SUBMIT, answered at once or later.
LEMMA SubmitStep ==
  ASSUME IInv, NEW u \in Urbs, ReceiveUrb(u)
  PROVE  /\ u \notin Submitted /\ Submitted' = Submitted \cup {u} /\ UNCHANGED unlinkCmd
         /\ Sent' \in {Sent, [Sent EXCEPT ![u] = <<"RET_SUBMIT">>]}
<1>1. TypeOK /\ OwnerInv
  BY DEF IInv
<1>2. u \notin Submitted /\ Submitted' = Submitted \cup {u} /\ UNCHANGED unlinkCmd
  BY <1>1, ReceiveTakes DEF TypeOK, Submitted
<1>3. CASE UNCHANGED replies
  BY <1>2, <1>3 DEF Sent
<1>4. ASSUME NEW r \in Results, replies' = [replies EXCEPT ![u] = Append(@, r)]
      PROVE  Sent' = [Sent EXCEPT ![u] = <<"RET_SUBMIT">>]
  <2>1. Append(replies[u], r) = <<r>>
    BY <1>1, ReceiveTakes, AppendFirst
  <2>2. replies' = [replies EXCEPT ![u] = <<r>>]
    BY <1>4, <2>1
  <2>3. Kinds(<<r>>) = <<"RET_SUBMIT">>
    BY KindsAre DEF UrbStatus
  <2>4. QED
    BY <1>1, <2>2, <2>3, SentChanges
<1>5. QED
  BY <1>1, <1>2, <1>3, <1>4, ReceiveTakes

\* A CMD_UNLINK, answered at once when the URB is not in the table.
LEMMA UnlinkStep ==
  ASSUME IInv, NEW u \in Urbs, HandleUnlink(u)
  PROVE  /\ u \in Submitted /\ u \notin unlinkCmd /\ unlinkCmd' = unlinkCmd \cup {u}
         /\ UNCHANGED Submitted
         /\ \/ UNCHANGED Sent
            \/ Sent[u] = <<>> /\ Sent' = [Sent EXCEPT ![u] = <<"RET_UNLINK">>]
            \/ /\ Sent[u] = <<"RET_SUBMIT">>
               /\ Sent' = [Sent EXCEPT ![u] = <<"RET_SUBMIT", "RET_UNLINK">>]
<1>1. TypeOK /\ OwnerInv /\ replies[u] \in Histories(u)
  BY DEF IInv, HistoryInv
<1>2. /\ rpc = "recv" /\ owner[u] = session /\ UNCHANGED owner
      /\ u \notin unlinkCmd /\ unlinkCmd' = unlinkCmd \cup {u}
      /\ UNCHANGED replies \/ Enqueue(u, RetUnlink("OK"))
  BY DEF HandleUnlink, handle_unlink_Removed, handle_unlink_Found, handle_unlink_NotFound,
     AcceptUnlink
<1>3. u \in Submitted /\ UNCHANGED Submitted
  BY <1>1, <1>2 DEF OwnerInv, Submitted
<1>4. CASE UNCHANGED replies
  BY <1>2, <1>3, <1>4 DEF Sent
<1>5. CASE Enqueue(u, RetUnlink("OK"))
  <2>0. "OK" \in UrbStatus /\ RetUnlink("OK") \in Reply /\ Results \subseteq Reply
    BY DEF UrbStatus, Reply, RetUnlink, RetSubmit, Results
  <2>1. replies' = [replies EXCEPT ![u] = Append(replies[u], RetUnlink("OK"))]
    BY <1>5 DEF Enqueue
  <2>2. replies[u] = <<>> \/ \E r \in Results : replies[u] = <<r>>
    BY <1>1, <1>2, HistoryShape
  <2>3. CASE replies[u] = <<>>
    <3>1. Append(replies[u], RetUnlink("OK")) = <<RetUnlink("OK")>>
      BY <2>0, <2>3, AppendFirst
    <3>2. RetSubmit("OK") \in Results
      BY DEF Results, UrbStatus
    <3>3. Kinds(<<RetUnlink("OK")>>) = <<"RET_UNLINK">> /\ Sent[u] = <<>>
      BY <2>0, <2>3, <3>2, KindsAre DEF Sent
    <3>4. QED
      BY <1>1, <1>2, <1>3, <2>1, <3>1, <3>3, SentChanges
  <2>4. ASSUME NEW r \in Results, replies[u] = <<r>>
        PROVE  /\ Sent[u] = <<"RET_SUBMIT">>
               /\ Sent' = [Sent EXCEPT ![u] = <<"RET_SUBMIT", "RET_UNLINK">>]
    <3>1. Append(replies[u], RetUnlink("OK")) = <<r, RetUnlink("OK")>>
      BY <2>0, <2>4, AppendSecond
    <3>2. Kinds(<<r, RetUnlink("OK")>>) = <<"RET_SUBMIT", "RET_UNLINK">>
          /\ Sent[u] = <<"RET_SUBMIT">>
      BY <2>0, <2>4, KindsAre DEF Sent
    <3>3. QED
      BY <1>1, <2>1, <3>1, <3>2, SentChanges
  <2>5. QED
    BY <1>2, <1>3, <2>2, <2>3, <2>4
<1>6. QED
  BY <1>2, <1>3, <1>4, <1>5

\* The reply of a callback: the URB's own result, or the answer to its unlink.
LEMMA RespondStep ==
  ASSUME IInv, TakenInv, transfer_callback_Respond, ~UNCHANGED replies
  PROVE  /\ ecb \in Submitted /\ Sent[ecb] = <<>> /\ UNCHANGED <<Submitted, unlinkCmd>>
         /\ \/ Sent' = [Sent EXCEPT ![ecb] = <<"RET_SUBMIT">>]
            \/ ecb \in unlinkCmd /\ Sent' = [Sent EXCEPT ![ecb] = <<"RET_UNLINK">>]
<1> USE DEF receiverVars, eventVars, tableVars, historyVars
<1> DEFINE r == CompletionReply(ecb)
<1>1. epc = "respond" /\ UNCHANGED <<owner, unlinkCmd>>
      /\ replies' = [replies EXCEPT ![ecb] = Append(replies[ecb], r)]
  BY DEF transfer_callback_Respond, EnqueueFromCallback, Enqueue
<1>2. /\ TypeOK /\ ecb \in Urbs /\ stage[ecb] = "callback" /\ replies[ecb] = <<>>
      /\ status[ecb] = "CANCELED" => ecb \in unlinked
  BY <1>1 DEF IInv, EventInv, HoldsTransfer, DecisionInv
<1>3. IF ecb \in unlinked THEN \E st \in UrbStatus : r = RetUnlink(st) ELSE r \in Results
  BY <1>2, OwnReplyIsHonest
<1>4. r \in Reply
  BY <1>3 DEF Results, Reply, RetSubmit, RetUnlink
<1> HIDE DEF r
<1>5. Append(replies[ecb], r) = <<r>>
  BY <1>2, <1>4, AppendFirst
<1>6. Sent' = [Sent EXCEPT ![ecb] = Kinds(<<r>>)]
  BY <1>1, <1>2, <1>5, SentChanges
<1>7. RetSubmit("OK") \in Results /\ "OK" \in UrbStatus
  BY DEF Results, UrbStatus
<1>8. Sent[ecb] = <<>> /\ ecb \in Submitted /\ UNCHANGED Submitted
  BY <1>1, <1>2, <1>7, KindsAre DEF Sent, Submitted, TakenInv
<1>9. CASE ecb \in unlinked
  <2>1. ecb \in unlinkCmd
    BY <1>9 DEF IInv, OwnerInv
  <2>2. Kinds(<<r>>) = <<"RET_UNLINK">>
    BY <1>3, <1>7, <1>9, KindsAre
  <2>3. QED
    BY <1>1, <1>6, <1>8, <2>1, <2>2
<1>10. CASE ecb \notin unlinked
  <2>1. Kinds(<<r>>) = <<"RET_SUBMIT">>
    BY <1>3, <1>7, <1>10, KindsAre
  <2>2. QED
    BY <1>1, <1>6, <1>8, <2>1
<1>11. QED
  BY <1>9, <1>10

\* Every other step changes nothing the contract sees.
LEMMA UnseenStep ==
  ASSUME IInv, TakenInv, ~ResubmitMayFail, [Next]_vars,
         \A u \in Urbs : ~ReceiveUrb(u) /\ ~HandleUnlink(u),
         UNCHANGED replies \/ ~transfer_callback_Respond
  PROVE  UNCHANGED <<owner, unlinkCmd, replies>>
<1> USE DEF receiverVars, eventVars, tableVars, historyVars
<1>1. epc # "failReply"
  BY DEF TakenInv
<1>2. UNCHANGED owner
  BY OnlyReceiveTakes DEF IInv
<1>3. CASE UNCHANGED vars
  BY <1>3 DEF vars
<1>4. CASE \/ on_new_connection \/ on_disconnection_Begin \/ ReceiverGoesOn
           \/ SpuriousWakeup \/ DeviceGone \/ Unplug \/ \E u \in Urbs : HostCompletes(u)
  BY <1>4 DEF on_new_connection, on_disconnection_Begin, ReceiverGoesOn,
     handle_unlink_Cancel, on_disconnection_Sweep, on_disconnection_Check,
     on_disconnection_Block, on_disconnection_Detach, SpuriousWakeup, DeviceGone,
     Unplug, HostCompletes
<1>5. CASE EventThread
  BY <1>1, <1>2, <1>5 DEF EventThread, transfer_callback_Begin, transfer_callback_Drop,
     transfer_callback_Resubmitted, transfer_callback_ResubmitRefused,
     transfer_callback_FailReply, transfer_callback_Complete, transfer_callback_Respond,
     transfer_callback_Wake, transfer_callback_Notify
<1>6. QED
  BY <1>2, <1>3, <1>4, <1>5 DEF Next

\* Every step of the handler is a step of the contract, or one it does not see.
LEMMA ContractStep ==
  ASSUME ~ResubmitMayFail, IInv, TakenInv, [Next]_vars
  PROVE  [Contract!Next]_(Contract!contractVars)
<1>0. /\ Sent = [u \in Urbs |-> [i \in DOMAIN replies[u] |-> replies[u][i].kind]]
      /\ Submitted = {u \in Urbs : owner[u] # 0}
  BY DEF Sent, Kinds, Submitted
<1>1. ASSUME NEW u \in Urbs, ReceiveUrb(u) PROVE Contract!Submit(u)
  <2>1. /\ u \notin Submitted /\ Submitted' = Submitted \cup {u} /\ UNCHANGED unlinkCmd
        /\ Sent' \in {Sent, [Sent EXCEPT ![u] = <<"RET_SUBMIT">>]}
    BY <1>1, SubmitStep
  <2>2. QED
    BY <2>1 DEF Contract!Submit, Sent, Kinds, Submitted
<1>2. ASSUME NEW u \in Urbs, HandleUnlink(u) PROVE Contract!Unlink(u)
  <2>1. /\ u \in Submitted /\ u \notin unlinkCmd /\ unlinkCmd' = unlinkCmd \cup {u}
        /\ UNCHANGED Submitted
        /\ \/ UNCHANGED Sent
           \/ Sent[u] = <<>> /\ Sent' = [Sent EXCEPT ![u] = <<"RET_UNLINK">>]
           \/ /\ Sent[u] = <<"RET_SUBMIT">>
              /\ Sent' = [Sent EXCEPT ![u] = <<"RET_SUBMIT", "RET_UNLINK">>]
    BY <1>2, UnlinkStep
  <2>2. \/ UNCHANGED Sent
        \/ /\ Sent[u] \in {<<>>, <<"RET_SUBMIT">>}
           /\ Sent' = [Sent EXCEPT ![u] = IF @ = <<>> THEN <<"RET_UNLINK">>
                                                     ELSE <<"RET_SUBMIT", "RET_UNLINK">>]
    <3>1. <<"RET_SUBMIT">> # <<>>
      OBVIOUS
    <3>2. QED
      BY <2>1, <3>1
  <2>3. QED
    BY <2>1, <2>2 DEF Contract!Unlink, Contract!NotUnlinkedYet, Contract!WithRetUnlink, Sent, Kinds, Submitted
<1>3. ASSUME NEW u \in Urbs, u = ecb, transfer_callback_Respond, ~UNCHANGED replies
      PROVE  Contract!SendResult(u) \/ Contract!SendUnlinked(u)
  <2>1. /\ u \in Submitted /\ Sent[u] = <<>> /\ UNCHANGED <<Submitted, unlinkCmd>>
        /\ \/ Sent' = [Sent EXCEPT ![u] = <<"RET_SUBMIT">>]
           \/ u \in unlinkCmd /\ Sent' = [Sent EXCEPT ![u] = <<"RET_UNLINK">>]
    BY <1>3, RespondStep
  <2>2. CASE Sent' = [Sent EXCEPT ![u] = <<"RET_SUBMIT">>]
    BY <2>1, <2>2 DEF Contract!SendResult, Sent, Kinds, Submitted
  <2>3. CASE u \in unlinkCmd /\ Sent' = [Sent EXCEPT ![u] = <<"RET_UNLINK">>]
    <3>1. Sent' = [Sent EXCEPT ![u] = IF @ = <<>> THEN <<"RET_UNLINK">>
                                                 ELSE <<"RET_SUBMIT", "RET_UNLINK">>]
      BY <2>1, <2>3
    <3>2. QED
      BY <2>1, <2>3, <3>1 DEF Contract!SendUnlinked, Contract!NotUnlinkedYet,
         Contract!WithRetUnlink, Sent, Kinds, Submitted
  <2>4. QED
    BY <2>1, <2>2, <2>3
<1>4. CASE /\ \A u \in Urbs : ~ReceiveUrb(u) /\ ~HandleUnlink(u)
           /\ UNCHANGED replies \/ ~transfer_callback_Respond
  <2>1. UNCHANGED <<owner, unlinkCmd, replies>>
    BY <1>4, UnseenStep
  <2>2. QED
    BY <2>1 DEF Contract!contractVars
<1>5. \/ \E u \in Urbs : ReceiveUrb(u) \/ HandleUnlink(u)
      \/ transfer_callback_Respond /\ ~UNCHANGED replies
      \/ /\ \A u \in Urbs : ~ReceiveUrb(u) /\ ~HandleUnlink(u)
         /\ UNCHANGED replies \/ ~transfer_callback_Respond
  OBVIOUS
<1>6. \A u \in Urbs : Contract!Submit(u) \/ Contract!Unlink(u) \/ Contract!SendResult(u)
                       \/ Contract!SendUnlinked(u) => Contract!Next
  BY DEF Contract!Next
<1>7. CASE \E u \in Urbs : ReceiveUrb(u) \/ HandleUnlink(u)
  BY <1>1, <1>2, <1>6, <1>7
<1>8. CASE transfer_callback_Respond /\ ~UNCHANGED replies
  <2>1. PICK u \in Urbs : u = ecb
    BY <1>8, RespondStep DEF Submitted
  <2>2. QED
    BY <1>3, <1>6, <1>8, <2>1
<1>9. QED
  BY <1>4, <1>5, <1>7, <1>8

\* DeviceHandler.h:105-134: as long as the host takes every transfer back, the
\* handler keeps the contract of every device handler, whatever the order of
\* submits, unlinks, completions, collateral cancellations and disconnections.
THEOREM ContractRefined == ASSUME ~ResubmitMayFail PROVE Spec => ImplementsContract
<1>1. Init => Contract!Init /\ IInv /\ TakenInv
  BY ContractInit, IInvInit DEF Init, TakenInv
<1>2. IInv /\ TakenInv /\ [Next]_vars => (IInv /\ TakenInv)'
  BY IInvStep, TakenStep DEF IInv
<1>3. IInv /\ TakenInv /\ [Next]_vars => [Contract!Next]_(Contract!contractVars)
  BY ContractStep
<1>4. QED
  BY <1>1, <1>2, <1>3, PTL DEF Spec, ImplementsContract, Contract!Spec

=============================================================================
