------------------------- MODULE Esp32DeviceHandler -------------------------
(***************************************************************************)
(* The URB life cycle of Esp32DeviceHandler (non-chunked transfers: the    *)
(* constructor sets enable_chunking = false).                              *)
(*                                                                         *)
(* Two threads share the handler.  The receiver thread of the session      *)
(* (rpc) runs receive_urb, handle_unlink_seqnum and on_disconnection.  The *)
(* USB event thread (epc) runs transfer_callback for one transfer at a     *)
(* time, and the DEV_GONE event.  The USB host library is the environment: *)
(* it completes transfers, cancels an endpoint's transfers, loses the      *)
(* device.  A step ends wherever the other thread can observe or disturb   *)
(* what the code does next.                                                *)
(*                                                                         *)
(* A URB is one CMD_SUBMIT (its seqnum), sent at most once.  Behaviours    *)
(* stop at the first use of a session or transfer that is gone (`fault').  *)
(***************************************************************************)
EXTENDS Integers, Sequences, FiniteSets, Functions

CONSTANTS
  Urbs,             \* the CMD_SUBMITs clients may send
  Endpoints,        \* the endpoint addresses of the device
  ControlEndpoints, \* endpoint 0: not in any interface, no halt/flush on it
  EpOf,             \* the endpoint each URB is addressed to
  MaxSessions,      \* bound: how many clients import the device in turn
  ResubmitMayFail   \* whether the host may refuse to take a transfer back

ASSUME UrbsAssumption == IsFiniteSet(Urbs)
ASSUME EndpointsAssumption ==
  /\ ControlEndpoints \subseteq Endpoints
  /\ EpOf \in [Urbs -> Endpoints]
ASSUME BoundsAssumption ==
  /\ MaxSessions \in Nat \ {0}
  /\ ResubmitMayFail \in BOOLEAN

VARIABLES
  rpc,          \* where the receiver thread is
  cur,          \* the URB handle_unlink_seqnum is about to cancel
  todo,         \* the endpoints on_disconnection still has to cancel
  epc,          \* where the USB event thread is
  ecb,          \* the URB whose transfer_callback it runs
  stage,        \* who has the transfer of each URB
  status,       \* trx->status
  transfers_,   \* the keys of the transfer table
  pending_count_,
  unlinked,     \* the URBs whose esp32_callback_args::unlinked is set
  all_transfer_should_stop,
  device_removed_,
  session,      \* AbstDeviceHandler::session: 0 is nullptr, else its number
  should_immediately_stop, \* of the session that runs now
  gone,         \* whether the device is on the bus, and whether DEV_GONE ran
  \* what follows is history, read by the properties only
  sessions,     \* how many sessions have begun
  owner,        \* the session a URB was submitted in, 0 before
  unlinkCmd,    \* the URBs the client has sent a CMD_UNLINK for
  replies,      \* the replies enqueued for each URB, in order
  refused,      \* the URBs whose resubmission the host refused
  tweakFailed,  \* the control URBs whose tweak returned an error
  fault         \* the first use of something that is gone

vars == <<rpc, cur, todo, epc, ecb, stage, status, transfers_, pending_count_,
          unlinked, all_transfer_should_stop, device_removed_, session,
          should_immediately_stop, gone, sessions, owner, unlinkCmd, replies,
          refused, tweakFailed, fault>>
receiverVars == <<rpc, cur, todo>>
eventVars    == <<epc, ecb>>
tableVars    == <<transfers_, pending_count_>>
historyVars  == <<sessions, owner, unlinkCmd, refused, tweakFailed>>

TrxStatus == {"COMPLETED", "STALL", "CANCELED", "NO_DEVICE"}
UrbStatus == {"OK", "EPIPE", "ECONNRESET", "ESHUTDOWN"}
Reply == [kind: {"RET_SUBMIT", "RET_UNLINK"}, status: UrbStatus]
RetSubmit(st) == [kind |-> "RET_SUBMIT", status |-> st]
RetUnlink(st) == [kind |-> "RET_UNLINK", status |-> st]

trxstat2error(st) ==
  CASE st = "COMPLETED" -> "OK"
    [] st = "CANCELED"  -> "ECONNRESET"
    [] st = "STALL"     -> "EPIPE"
    [] st = "NO_DEVICE" -> "ESHUTDOWN"

InterfaceEndpoints == Endpoints \ ControlEndpoints

TypeOK ==
  /\ rpc \in {"idle", "recv", "cancel", "sweep", "check", "block", "wait", "detach"}
  /\ cur \in Urbs \cup {0}
  /\ todo \subseteq InterfaceEndpoints
  /\ epc \in {"idle", "drop", "lock", "failReply", "respond", "wake", "notify"}
  /\ ecb \in Urbs \cup {0}
  /\ stage \in [Urbs -> {"fresh", "flying", "done", "callback", "dead"}]
  /\ status \in [Urbs -> TrxStatus]
  /\ transfers_ \subseteq Urbs
  /\ pending_count_ \in Int
  /\ unlinked \subseteq Urbs
  /\ all_transfer_should_stop \in BOOLEAN
  /\ device_removed_ \in BOOLEAN
  /\ session \in 0 .. MaxSessions
  /\ should_immediately_stop \in BOOLEAN
  /\ gone \in {"no", "unplugged", "notified"}
  /\ sessions \in 0 .. MaxSessions
  /\ owner \in [Urbs -> 0 .. MaxSessions]
  /\ unlinkCmd \subseteq Urbs
  /\ replies \in [Urbs -> Seq(Reply)]
  /\ refused \subseteq Urbs
  /\ tweakFailed \subseteq Urbs
  /\ fault \in {"none", "nullSession", "strayReply", "danglingTransfer"}

Init ==
  /\ rpc = "idle" /\ cur = 0 /\ todo = {}
  /\ epc = "idle" /\ ecb = 0
  /\ stage = [u \in Urbs |-> "fresh"]
  /\ status = [u \in Urbs |-> "COMPLETED"]
  /\ transfers_ = {} /\ pending_count_ = 0 /\ unlinked = {}
  /\ all_transfer_should_stop = FALSE
  /\ device_removed_ = FALSE
  /\ session = 0 /\ should_immediately_stop = FALSE
  /\ gone = "no"
  /\ sessions = 0 /\ owner = [u \in Urbs |-> 0]
  /\ unlinkCmd = {} /\ refused = {} /\ tweakFailed = {}
  /\ replies = [u \in Urbs |-> <<>>]
  /\ fault = "none"

-----------------------------------------------------------------------------
(* What several handlers do.                                               *)

\* The program has not run into the use of something that is gone.
Alive == fault = "none"

\* Variant: the reply is enqueued after the mutex is released.
LockFree_ReplyOutside == TRUE

\* transfer_callback holds transfers_mutex_ from the status check until the
\* reply is enqueued; the one point in there where the model can be is this.
LockFree == epc # "respond"

SetStage(u, s) == stage' = [stage EXCEPT ![u] = s]

Register(u) ==
  /\ transfers_' = transfers_ \cup {u}
  /\ pending_count_' = pending_count_ + 1

\* Variant: the counter is not decremented.
Erase_KeepCount(u) ==
  /\ transfers_' = transfers_ \ {u}
  /\ UNCHANGED pending_count_

Erase(u) ==
  /\ transfers_' = transfers_ \ {u}
  /\ pending_count_' = pending_count_ - 1

\* A reply for u, enqueued by the receiver thread: the session is its own.
Enqueue(u, r) == replies' = [replies EXCEPT ![u] = Append(@, r)]

\* The same from the event thread, through whatever handler->session is now.
EnqueueFromCallback(u, r) ==
  IF session = 0
  THEN fault' = "nullSession" /\ UNCHANGED replies
  ELSE /\ Enqueue(u, r)
       /\ fault' = IF session = owner[u] THEN "none" ELSE "strayReply"

\* Variant: the endpoint is halted but not flushed.
cancel_endpoint_all_transfers_NoFlush(ep) == UNCHANGED <<stage, status>>

\* halt + flush + clear: the host returns every transfer in the pipe as
\* CANCELED.  On an endpoint of no interface the calls fail and are logged.
cancel_endpoint_all_transfers(ep) ==
  LET hit == {u \in Urbs : /\ stage[u] = "flying"
                           /\ EpOf[u] = ep
                           /\ ep \in InterfaceEndpoints}
  IN  /\ stage'  = [u \in Urbs |-> IF u \in hit THEN "done" ELSE stage[u]]
      /\ status' = [u \in Urbs |-> IF u \in hit THEN "CANCELED" ELSE status[u]]

-----------------------------------------------------------------------------
(* The receiver thread.                                                    *)

\* A session imports the device.  The server lets it only while the device is
\* in the available list (DeviceRegistry models the list and its races).
on_new_connection ==
  /\ Alive /\ rpc = "idle" /\ sessions < MaxSessions
  /\ gone # "notified" /\ ~device_removed_
  /\ rpc' = "recv"
  /\ sessions' = sessions + 1
  /\ session' = sessions + 1
  /\ should_immediately_stop' = FALSE
  /\ all_transfer_should_stop' = FALSE
  /\ device_removed_' = FALSE
  /\ UNCHANGED <<cur, todo, eventVars, stage, status, tableVars, unlinked, gone,
                 owner, unlinkCmd, replies, refused, tweakFailed, fault>>

\* The receiver has read CMD_SUBMIT u and found its endpoint.
Accept(u) ==
  /\ Alive /\ rpc = "recv" /\ ~should_immediately_stop
  /\ stage[u] = "fresh"
  /\ owner' = [owner EXCEPT ![u] = session]
  /\ UNCHANGED <<receiverVars, eventVars, status, unlinked, session, gone,
                 all_transfer_should_stop, sessions, unlinkCmd, refused>>

\* The device is already known to be gone: NO_DEVICE ends the session.
receive_urb_Removed(u) ==
  /\ Accept(u)
  /\ device_removed_
  /\ SetStage(u, "dead")
  /\ should_immediately_stop' = TRUE
  /\ UNCHANGED <<tableVars, device_removed_, replies, tweakFailed, fault>>

\* A control request that tweak_special_requests took over, well or badly.
receive_urb_Tweaked(u) ==
  /\ Accept(u)
  /\ ~device_removed_ /\ EpOf[u] \in ControlEndpoints
  /\ SetStage(u, "dead")
  /\ tweakFailed' \in {tweakFailed, tweakFailed \cup {u}}
  /\ Enqueue(u, RetSubmit("OK"))
  /\ UNCHANGED <<tableVars, device_removed_, should_immediately_stop, fault>>

\* Registered, and taken by the host.
receive_urb_Submitted(u) ==
  /\ Accept(u)
  /\ ~device_removed_ /\ LockFree
  /\ Register(u)
  /\ SetStage(u, "flying")
  /\ UNCHANGED <<device_removed_, should_immediately_stop, replies, tweakFailed,
                 fault>>

\* Registered, refused by the host, and taken out of the table again.  With the
\* device off the bus the refusal may be NOT_FOUND, which ends the session.
receive_urb_Refused(u) ==
  /\ Accept(u)
  /\ ~device_removed_ /\ LockFree
  /\ SetStage(u, "dead")
  /\ Enqueue(u, RetSubmit("EPIPE"))
  /\ \E notFound \in {FALSE, gone # "no"} :
       /\ device_removed_' = notFound
       /\ should_immediately_stop' = notFound
  /\ UNCHANGED <<tableVars, tweakFailed, fault>>

\* The receiver has read a CMD_UNLINK for u.
AcceptUnlink(u) ==
  /\ Alive /\ rpc = "recv" /\ ~should_immediately_stop
  /\ owner[u] = session /\ u \notin unlinkCmd
  /\ unlinkCmd' = unlinkCmd \cup {u}
  /\ UNCHANGED <<todo, eventVars, stage, status, tableVars, session, gone,
                 all_transfer_should_stop, device_removed_, sessions, owner,
                 should_immediately_stop, refused, tweakFailed>>

handle_unlink_Removed(u) ==
  /\ AcceptUnlink(u)
  /\ device_removed_
  /\ UNCHANGED <<rpc, cur, unlinked, replies, fault>>

\* Found: marked under transfers_mutex_, which is released before the cancel.
handle_unlink_Found(u) ==
  /\ AcceptUnlink(u)
  /\ ~device_removed_ /\ LockFree
  /\ u \in transfers_
  /\ unlinked' = unlinked \cup {u}
  /\ rpc' = "cancel" /\ cur' = u
  /\ UNCHANGED <<replies, fault>>

\* Variant: the unlink of a finished URB says it was cancelled.
handle_unlink_NotFound_Reset(u) ==
  /\ AcceptUnlink(u)
  /\ ~device_removed_ /\ LockFree
  /\ u \notin transfers_
  /\ Enqueue(u, RetUnlink("ECONNRESET"))
  /\ UNCHANGED <<rpc, cur, unlinked, fault>>

handle_unlink_NotFound(u) ==
  /\ AcceptUnlink(u)
  /\ ~device_removed_ /\ LockFree
  /\ u \notin transfers_
  /\ Enqueue(u, RetUnlink("OK"))
  /\ UNCHANGED <<rpc, cur, unlinked, fault>>

\* cb->transfer is read for its endpoint without the mutex; a callback that ran
\* to its end meanwhile has reset it.
handle_unlink_Cancel ==
  /\ Alive /\ rpc = "cancel"
  /\ IF stage[cur] = "dead"
     THEN fault' = "danglingTransfer" /\ UNCHANGED <<stage, status>>
     ELSE cancel_endpoint_all_transfers(EpOf[cur]) /\ UNCHANGED fault
  /\ rpc' = "recv" /\ cur' = 0
  /\ UNCHANGED <<todo, eventVars, tableVars, unlinked, session, gone, replies,
                 all_transfer_should_stop, device_removed_, historyVars,
                 should_immediately_stop>>

\* Variant: no sweep and no wait.
on_disconnection_Begin_NoWait ==
  /\ Alive /\ rpc = "recv"
  /\ all_transfer_should_stop' = TRUE
  /\ rpc' = "detach"
  /\ UNCHANGED <<cur, todo, eventVars, stage, status, tableVars, unlinked, session,
                 gone, device_removed_, replies, historyVars,
                 should_immediately_stop, fault>>

\* The read failed (the client left, or immediately_stop closed the socket) or
\* the stop flag is seen.
on_disconnection_Begin ==
  /\ Alive /\ rpc = "recv"
  /\ all_transfer_should_stop' = TRUE
  /\ IF device_removed_
     THEN rpc' = "detach" /\ UNCHANGED todo
     ELSE rpc' = "sweep" /\ todo' = InterfaceEndpoints
  /\ UNCHANGED <<cur, eventVars, stage, status, tableVars, unlinked, session, gone,
                 device_removed_, replies, historyVars, should_immediately_stop,
                 fault>>

on_disconnection_Sweep(ep) ==
  /\ Alive /\ rpc = "sweep" /\ ep \in todo
  /\ todo' = todo \ {ep}
  /\ cancel_endpoint_all_transfers(ep)
  /\ UNCHANGED <<rpc, cur, eventVars, tableVars, unlinked, session, gone, replies,
                 all_transfer_should_stop, device_removed_, historyVars,
                 should_immediately_stop, fault>>

\* Variant: one transfer too few is waited for.
WaitDone_OffByOne == pending_count_ <= 1

\* transfer_complete_cv_.wait(lock, pred): the predicate is evaluated ...
WaitDone == pending_count_ = 0
on_disconnection_Check ==
  /\ Alive
  /\ (rpc = "sweep" /\ todo = {}) \/ rpc = "check"
  /\ rpc' = IF WaitDone THEN "detach" ELSE "block"
  /\ UNCHANGED <<cur, todo, eventVars, stage, status, tableVars, unlinked, session,
                 gone, replies, all_transfer_should_stop, device_removed_,
                 historyVars, should_immediately_stop, fault>>

\* ... and only then does the thread join the waiters: the notifier does not
\* hold transfer_complete_mutex_, so it can come in between.
on_disconnection_Block ==
  /\ Alive /\ rpc = "block"
  /\ rpc' = "wait"
  /\ UNCHANGED <<cur, todo, eventVars, stage, status, tableVars, unlinked, session,
                 gone, replies, all_transfer_should_stop, device_removed_,
                 historyVars, should_immediately_stop, fault>>

SpuriousWakeup ==
  /\ Alive /\ rpc = "wait"
  /\ rpc' = "check"
  /\ UNCHANGED <<cur, todo, eventVars, stage, status, tableVars, unlinked, session,
                 gone, replies, all_transfer_should_stop, device_removed_,
                 historyVars, should_immediately_stop, fault>>

\* AbstDeviceHandler::on_disconnection: the handler forgets the session.
on_disconnection_Detach ==
  /\ Alive /\ rpc = "detach"
  /\ rpc' = "idle"
  /\ session' = 0
  /\ should_immediately_stop' = TRUE
  /\ UNCHANGED <<cur, todo, eventVars, stage, status, tableVars, unlinked, gone,
                 replies, all_transfer_should_stop, device_removed_, historyVars,
                 fault>>

-----------------------------------------------------------------------------
(* The USB event thread: transfer_callback.                                *)

\* The unlocked read of all_transfer_should_stop decides the path.
transfer_callback_Begin(u) ==
  /\ Alive /\ epc = "idle" /\ stage[u] = "done"
  /\ ecb' = u
  /\ SetStage(u, "callback")
  /\ epc' = IF all_transfer_should_stop THEN "drop" ELSE "lock"
  /\ UNCHANGED <<receiverVars, status, tableVars, unlinked, session, gone, replies,
                 all_transfer_should_stop, device_removed_, historyVars,
                 should_immediately_stop, fault>>

transfer_callback_Drop ==
  /\ Alive /\ epc = "drop"
  /\ Erase(ecb)
  /\ SetStage(ecb, "dead")
  /\ epc' = "notify"
  /\ UNCHANGED <<receiverVars, ecb, status, unlinked, session, gone, replies,
                 all_transfer_should_stop, device_removed_, historyVars,
                 should_immediately_stop, fault>>

\* Variant: every cancellation is taken for the client's own.
Collateral_Never(u) == FALSE

\* Cancelled along with another URB of its endpoint: the client did not ask.
Collateral(u) == status[u] = "CANCELED" /\ u \notin unlinked

\* Variant: the transfer is forgotten instead of resubmitted.
transfer_callback_Resubmitted_Lost ==
  /\ Alive /\ epc = "lock" /\ Collateral(ecb)
  /\ SetStage(ecb, "dead")
  /\ epc' = "idle" /\ ecb' = 0
  /\ UNCHANGED <<receiverVars, status, tableVars, unlinked, session, gone, replies,
                 all_transfer_should_stop, device_removed_, historyVars,
                 should_immediately_stop, fault>>

transfer_callback_Resubmitted ==
  /\ Alive /\ epc = "lock" /\ Collateral(ecb)
  /\ SetStage(ecb, "flying")
  /\ status' = [status EXCEPT ![ecb] = "COMPLETED"]
  /\ epc' = "idle" /\ ecb' = 0
  /\ UNCHANGED <<receiverVars, tableVars, unlinked, session, gone, replies,
                 all_transfer_should_stop, device_removed_, historyVars,
                 should_immediately_stop, fault>>

\* The host refuses: out of the table, then the mutex is released.
transfer_callback_ResubmitRefused ==
  /\ Alive /\ ResubmitMayFail
  /\ epc = "lock" /\ Collateral(ecb)
  /\ Erase(ecb)
  /\ refused' = refused \cup {ecb}
  /\ epc' = "failReply"
  /\ UNCHANGED <<receiverVars, ecb, stage, status, unlinked, session, gone, replies,
                 all_transfer_should_stop, device_removed_, sessions, owner,
                 unlinkCmd, tweakFailed, should_immediately_stop, fault>>

\* The reply to a refused URB; no notify_one on this path.
transfer_callback_FailReply ==
  /\ Alive /\ epc = "failReply"
  /\ EnqueueFromCallback(ecb, RetSubmit("EPIPE"))
  /\ SetStage(ecb, "dead")
  /\ epc' = "idle" /\ ecb' = 0
  /\ UNCHANGED <<receiverVars, status, tableVars, unlinked, session, gone,
                 all_transfer_should_stop, device_removed_, historyVars,
                 should_immediately_stop>>

transfer_callback_Complete ==
  /\ Alive /\ epc = "lock" /\ ~Collateral(ecb)
  /\ Erase(ecb)
  /\ device_removed_' = (device_removed_ \/ status[ecb] = "NO_DEVICE")
  /\ epc' = "respond"
  /\ UNCHANGED <<receiverVars, ecb, stage, status, unlinked, session, gone, replies,
                 all_transfer_should_stop, historyVars, should_immediately_stop,
                 fault>>

\* Still under the mutex: exactly one reply, of the kind `unlinked' says.
CompletionReply(u) ==
  IF u \in unlinked THEN RetUnlink(trxstat2error(status[u]))
                    ELSE RetSubmit(trxstat2error(status[u]))
transfer_callback_Respond ==
  /\ Alive /\ epc = "respond"
  /\ EnqueueFromCallback(ecb, CompletionReply(ecb))
  /\ SetStage(ecb, "dead")
  /\ epc' = "wake"
  /\ UNCHANGED <<receiverVars, ecb, status, tableVars, unlinked, session, gone,
                 all_transfer_should_stop, device_removed_, historyVars,
                 should_immediately_stop>>

\* session->wakeup_sender() after the mutex is released.
transfer_callback_Wake ==
  /\ Alive /\ epc = "wake"
  /\ fault' = IF session = 0 THEN "nullSession" ELSE fault
  /\ epc' = "notify"
  /\ UNCHANGED <<receiverVars, ecb, stage, status, tableVars, unlinked, session,
                 gone, replies, all_transfer_should_stop, device_removed_,
                 historyVars, should_immediately_stop>>

transfer_callback_Notify ==
  /\ Alive /\ epc = "notify"
  /\ rpc' = IF rpc = "wait" THEN "check" ELSE rpc
  /\ epc' = "idle" /\ ecb' = 0
  /\ UNCHANGED <<cur, todo, stage, status, tableVars, unlinked, session, gone,
                 replies, all_transfer_should_stop, device_removed_, historyVars,
                 should_immediately_stop, fault>>

\* client_event_callback(DEV_GONE) for a device that is in use, or is not.
DeviceGone ==
  /\ Alive /\ epc = "idle" /\ gone = "unplugged"
  /\ gone' = "notified"
  /\ IF rpc = "idle"
     THEN UNCHANGED <<device_removed_, should_immediately_stop>>
     ELSE device_removed_' = TRUE /\ should_immediately_stop' = TRUE
  /\ UNCHANGED <<receiverVars, eventVars, stage, status, tableVars, unlinked,
                 session, replies, all_transfer_should_stop, historyVars, fault>>

-----------------------------------------------------------------------------
(* The USB host library and the bus.                                       *)

HostCompletes(u) ==
  /\ Alive /\ stage[u] = "flying"
  /\ SetStage(u, "done")
  /\ \E st \in {"COMPLETED", "STALL"} \cup (IF gone = "no" THEN {} ELSE {"NO_DEVICE"}) :
       status' = [status EXCEPT ![u] = st]
  /\ UNCHANGED <<receiverVars, eventVars, tableVars, unlinked, session, gone, replies,
                 all_transfer_should_stop, device_removed_, historyVars,
                 should_immediately_stop, fault>>

Unplug ==
  /\ Alive /\ gone = "no"
  /\ gone' = "unplugged"
  /\ UNCHANGED <<receiverVars, eventVars, stage, status, tableVars, unlinked,
                 session, replies, all_transfer_should_stop, device_removed_,
                 historyVars, should_immediately_stop, fault>>

-----------------------------------------------------------------------------
ReceiveUrb(u) ==
  \/ receive_urb_Removed(u) \/ receive_urb_Tweaked(u)
  \/ receive_urb_Submitted(u) \/ receive_urb_Refused(u)
HandleUnlink(u) ==
  \/ handle_unlink_Removed(u) \/ handle_unlink_Found(u) \/ handle_unlink_NotFound(u)
\* What the receiver thread does once it has begun an unlink or a disconnect.
ReceiverGoesOn ==
  \/ handle_unlink_Cancel
  \/ \E ep \in Endpoints : on_disconnection_Sweep(ep)
  \/ on_disconnection_Check \/ on_disconnection_Block \/ on_disconnection_Detach
EventThread ==
  \/ \E u \in Urbs : transfer_callback_Begin(u)
  \/ transfer_callback_Drop \/ transfer_callback_Resubmitted
  \/ transfer_callback_ResubmitRefused \/ transfer_callback_FailReply
  \/ transfer_callback_Complete \/ transfer_callback_Respond
  \/ transfer_callback_Wake \/ transfer_callback_Notify

Next ==
  \/ on_new_connection
  \/ \E u \in Urbs : ReceiveUrb(u)
  \/ \E u \in Urbs : HandleUnlink(u)
  \/ on_disconnection_Begin \/ ReceiverGoesOn \/ SpuriousWakeup
  \/ EventThread \/ DeviceGone
  \/ \E u \in Urbs : HostCompletes(u)
  \/ Unplug

Spec == Init /\ [][Next]_vars

\* Both threads keep running; a closed socket ends the blocking read.  The bus
\* owes nothing here: an interrupt IN transfer may stay pending for ever.
FairSpec ==
  /\ Spec
  /\ WF_vars(ReceiverGoesOn) /\ WF_vars(EventThread)
  /\ WF_vars(should_immediately_stop /\ on_disconnection_Begin)
\* Every transfer in a pipe is completed in the end.
HostCompletesAll == \A u \in Urbs : WF_vars(HostCompletes(u))
HostFairSpec == FairSpec /\ HostCompletesAll

-----------------------------------------------------------------------------
(* Properties.                                                             *)

InTable(u) ==
  \/ stage[u] \in {"flying", "done"}
  \/ stage[u] = "callback" /\ ecb = u /\ epc \in {"drop", "lock"}

\* The transfer table and the counter on_disconnection waits for (updated by
\* two threads, on six paths) always agree on what is outstanding: exactly the
\* transfers the host still owes a callback, or whose callback has not yet
\* taken them out.
TableIsWhatIsOutstanding ==
  /\ transfers_ = {u \in Urbs : InTable(u)}
  /\ pending_count_ = Cardinality(transfers_)

\* The client's view of one URB, DeviceHandler.h:105-134: at most one RET_SUBMIT
\* and, if it sent CMD_UNLINK, at most one RET_UNLINK; never RET_UNLINK first,
\* except for a URB whose resubmission the host refused.  Whatever the order of
\* unlink, collateral cancellation, completion and disconnect.
ReplyProtocol ==
  \A u \in Urbs :
    LET kinds == [i \in DOMAIN replies[u] |-> replies[u][i].kind]
    IN  /\ kinds \in {<<>>, <<"RET_SUBMIT">>, <<"RET_UNLINK">>, <<"RET_SUBMIT", "RET_UNLINK">>}
                     \cup (IF u \in refused THEN {<<"RET_UNLINK", "RET_SUBMIT">>} ELSE {})
        /\ "RET_UNLINK" \in Range(kinds) => u \in unlinkCmd

\* While the host takes every transfer back, the handler implements the contract
\* of DeviceHandler.h.
Contract == INSTANCE UnlinkContract WITH
  submitted <- {u \in Urbs : owner[u] # 0},
  unlinks   <- unlinkCmd,
  sent      <- [u \in Urbs |-> [i \in DOMAIN replies[u] |-> replies[u][i].kind]]
ImplementsContract == Contract!Spec

\* A transfer that was cancelled only because its endpoint was flushed for
\* another URB's unlink is never reported: no RET_SUBMIT says ECONNRESET.
CancellationIsNotReported ==
  \A u \in Urbs : RetSubmit("ECONNRESET") \notin Range(replies[u])

\* DeviceHandler.h:110: once the URB's own result was sent, the unlink says 0.
UnlinkAfterResultIsOk ==
  \A u \in Urbs : Len(replies[u]) = 2 =>
    \A i \in 1 .. 2 : replies[u][i].kind = "RET_UNLINK" => replies[u][i].status = "OK"

\* When on_disconnection gets past its wait with the device still there, the
\* host owes this handler nothing: no transfer of the session is in a pipe.
DrainedBeforeDetach ==
  rpc = "detach" /\ ~device_removed_ => \A u \in Urbs : ~InTable(u)

Disconnecting == rpc \in {"sweep", "check", "block", "wait"}

\* A transfer in the pipe of an endpoint that on_disconnection has already swept:
\* a callback that read the stop flag too early gave it back to the host, and
\* nobody cancels it any more.
Restarted(u) == stage[u] = "flying" /\ EpOf[u] \in InterfaceEndpoints \ todo

\* The event thread runs one callback at a time and reads the flag again for the
\* next, so the wait depends on the device for one interface transfer at most,
\* whatever the number of URBs, endpoints, unlinks and collateral cancellations.
OneRestartAtMost ==
  Disconnecting => \A u, v \in Urbs : Restarted(u) /\ Restarted(v) => u = v

\* The disconnection neither gives up early nor leaves the device more than one
\* transfer to decide about.
DisconnectionDrains == DrainedBeforeDetach /\ OneRestartAtMost

\* What is in the table was submitted in the session that runs now: no URB of an
\* earlier client can be found by an unlink, or be answered, in a later session.
TableIsOfThisSession ==
  rpc # "idle" => \A u \in transfers_ : owner[u] = session

\* The receiver is among the waiters of transfer_complete_cv_ although nothing is
\* outstanding, and the event thread is on no path that ends with a notification.
Overslept ==
  rpc = "wait" /\ pending_count_ = 0 /\ epc \notin {"respond", "wake", "notify"}

\* Only two steps can leave it so: joining the waiters after the notification has
\* come and gone, and a refused resubmission, the one erasure without notify_one.
OversleepsInWindowOnly ==
  [][Overslept' => Overslept \/ on_disconnection_Block
                   \/ transfer_callback_ResubmitRefused]_vars

\* A session starts with an empty table: nothing is left over from the last one.
FreshConnection ==
  [][sessions' # sessions => transfers_ = {} /\ pending_count_ = 0]_vars

\* The session is going down or the program is past a fault.
SessionOver(s) ==
  \/ session # s \/ all_transfer_should_stop \/ device_removed_ \/ fault # "none"

\* Every CMD_UNLINK for a URB of an interface endpoint is answered, even when the
\* device never completes anything, unless the session goes down.
UnlinkIsAnswered ==
  \A u \in Urbs :
    (u \in unlinkCmd /\ EpOf[u] \in InterfaceEndpoints)
      ~> (SessionOver(owner[u]) \/ \E r \in Range(replies[u]) : r.kind = "RET_UNLINK")

\* If the host completes its transfers, every CMD_SUBMIT is answered, however
\* often its transfer is cancelled along with others and resubmitted.
SubmitIsAnswered ==
  HostCompletesAll =>
    \A u \in Urbs :
      (owner[u] # 0) ~> (SessionOver(owner[u]) \/ replies[u] # <<>>)

\* DeviceHandler.h:111-113: RET_SUBMIT first, always.
ResultBeforeUnlink ==
  \A u \in Urbs : \A i, j \in DOMAIN replies[u] :
    replies[u][i].kind = "RET_SUBMIT" /\ replies[u][j].kind = "RET_UNLINK" => i < j

\* DeviceHandler.h:79: after on_disconnection the session is not used any more.
NoSessionUseAfterDisconnect == fault \notin {"nullSession", "strayReply"}

\* The transfer handle_unlink_seqnum found is still there when it is cancelled.
FoundTransferIsAlive == fault # "danglingTransfer"

\* Esp32DeviceHandler.cpp:363: after the sweep no transfer of an interface
\* endpoint is left in a pipe for on_disconnection to wait on.
AllCancelledBeforeWait ==
  (rpc = "sweep" /\ todo = {}) \/ rpc \in {"check", "block", "wait"} =>
    \A u \in Urbs : stage[u] = "flying" => EpOf[u] \in ControlEndpoints

\* Esp32DeviceHandler.cpp:1403-1404: the notification covers the race with
\* on_disconnection, so the wait ends once the host has returned everything.
DisconnectEnds ==
  (rpc \in {"sweep", "check", "block", "wait"}) ~> (rpc = "detach" \/ fault # "none")

\* Esp32DeviceHandler.cpp:844-848: the client sees that a tweak failed.
TweakFailureIsVisible ==
  \A u \in tweakFailed : RetSubmit("OK") \notin Range(replies[u])
=============================================================================
