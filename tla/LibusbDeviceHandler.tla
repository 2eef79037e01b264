------------------------ MODULE LibusbDeviceHandler ------------------------
(***************************************************************************)
(* LibusbHandler/LibusbDeviceHandler.cpp: the life of a URB between the    *)
(* session's receiver thread, which submits, unlinks and disconnects, and  *)
(* libusb's event thread, which runs one transfer_callback at a time.  A   *)
(* URB's callback_args come from the object pool, or from the heap when    *)
(* the pool is empty; transfers_ tells which are outstanding.  Data is     *)
(* left out: of a transfer the model keeps only its status.                *)
(* The client numbers its commands through all its sessions and unlinks a  *)
(* URB at most once, as usbip's client does.                               *)
(***************************************************************************)
EXTENDS Integers, Sequences, FiniteSets, Functions

CONSTANTS MaxUrbs, MaxUnlinks, MaxSessions, ArgsPoolSize

ASSUME LibusbHandlerAssumption ==
  /\ MaxUrbs \in Nat /\ MaxUnlinks \in Nat
  /\ MaxSessions \in Nat /\ ArgsPoolSize \in Nat \ {0}

Seqnums == 1 .. MaxUrbs
PooledArgs == 1 .. ArgsPoolSize
Args == 1 .. ArgsPoolSize + MaxUrbs     \* beyond ArgsPoolSize: from the heap

VARIABLES
  receiver,       \* the receiver thread: where it is, with which args
  event,          \* the event thread: where its callback is
  args,           \* the callback_args objects' fields
  callback_args_pool_,     \* the pool's free objects, the next one last
  heap,           \* objects from the heap not yet deleted
  transfers_,     \* seqnum -> args, for the outstanding ones
  pending_count_,
  trx,            \* args -> what libusb does with the transfer
  client_disconnection,
  device_removed,
  replies,        \* what was enqueued for the sender, in order
  submitted,      \* history: the URBs the client submitted
  unlinks,        \* history: the client's unlinks, as <<target, own seqnum>>
  ignored,        \* history: those of them that came after the device was removed
  sessions,       \* history: connections so far
  reused,         \* history: an object was lent again with unlinking set
  overtaken       \* history: the pool was reset under a running callback

argsVars == <<args, callback_args_pool_, heap>>
trackVars == <<transfers_, pending_count_, trx>>
historyVars == <<submitted, unlinks, ignored, sessions, reused, overtaken>>
handlerVars == <<receiver, event, argsVars, trackVars, client_disconnection,
                 device_removed, replies, historyVars>>

Blank == [seqnum |-> 0, unlinking |-> FALSE, unlink_cmd_seqnum |-> 0]
Idle == [pc |-> "idle", args |-> 0]
Entered == [pc |-> "entered", args |-> 0]    \* past its look at device_removed
Leaving == [pc |-> "leaving", args |-> 0]    \* out of the receiver's loop
FullStack == [i \in 1 .. ArgsPoolSize |-> i]

LibusbHandlerInit ==
  /\ receiver = [pc |-> "away", args |-> 0]
  /\ event = [pc |-> "idle", args |-> 0, status |-> "none"]
  /\ args = [a \in Args |-> Blank] /\ callback_args_pool_ = FullStack /\ heap = {}
  /\ transfers_ = <<>> /\ pending_count_ = 0 /\ trx = [a \in Args |-> "none"]
  /\ client_disconnection = FALSE /\ device_removed = FALSE
  /\ replies = <<>>
  /\ submitted = {} /\ unlinks = {} /\ ignored = {}
  /\ sessions = 0 /\ reused = FALSE /\ overtaken = FALSE

Enqueue(kind, seqnum, status) ==
  replies' = Append(replies, [kind |-> kind, seqnum |-> seqnum, status |-> status])

Tracked(s) == s \in DOMAIN transfers_
Erase(s) == transfers_' = [q \in DOMAIN transfers_ \ {s} |-> transfers_[q]]

\* trxstat2error
trxstat2error(s) ==
  CASE s = "COMPLETED" -> "OK"
    [] s = "CANCELLED" -> "ECONNRESET"
    [] s = "ERROR" -> "EPIPE"          \* also STALL, TIMED_OUT and OVERFLOW
    [] s = "NO_DEVICE" -> "ESHUTDOWN"

(***************************************************************************)
(* The pool: free puts back what is lent; anything else is deleted.        *)
(***************************************************************************)
Lent(a) == a \in PooledArgs /\ a \notin Range(callback_args_pool_)

FreeArgs(a) ==
  /\ callback_args_pool_' = IF Lent(a) THEN Append(callback_args_pool_, a) ELSE callback_args_pool_
  /\ heap' = heap \ {a}

\* A new object is blank; a pooled one is as its last user left it, and only
\* these fields are set.
AllocArgs(a, s) ==
  IF callback_args_pool_ # <<>>
  THEN /\ a = callback_args_pool_[Len(callback_args_pool_)] /\ UNCHANGED heap
       /\ callback_args_pool_' = SubSeq(callback_args_pool_, 1, Len(callback_args_pool_) - 1)
       /\ args' = [args EXCEPT ![a].seqnum = s]
       /\ reused' = (reused \/ args[a].unlinking)
  ELSE /\ a \notin PooledArgs \cup heap /\ \A b \in Args \ (PooledArgs \cup heap) : a <= b
       /\ heap' = heap \cup {a} /\ UNCHANGED <<callback_args_pool_, reused>>
       /\ args' = [args EXCEPT ![a] = [Blank EXCEPT !.seqnum = s]]

(***************************************************************************)
(* The receiver thread.                                                    *)
(***************************************************************************)
on_new_connection ==
  /\ receiver.pc = "away" /\ sessions < MaxSessions
  /\ receiver' = Idle /\ sessions' = sessions + 1
  /\ client_disconnection' = FALSE
  /\ UNCHANGED <<event, argsVars, trackVars, device_removed, replies,
                 submitted, unlinks, ignored, reused, overtaken>>

NextUrb(s) == s = Cardinality(submitted) + 1

\* An unlink's own seqnum: the client counts on.
CmdSeqnum == MaxUrbs + Cardinality(unlinks) + 1
MayUnlink(s) ==
  /\ s \in submitted /\ Cardinality(unlinks) < MaxUnlinks
  /\ \A u \in unlinks : u[1] # s

\* receive_urb and handle_unlink_seqnum first look whether the device is still
\* there; it may go between the look and what follows.
receiver_Enter ==
  /\ receiver = Idle /\ ~device_removed /\ \E s \in Seqnums : NextUrb(s) \/ MayUnlink(s)
  /\ receiver' = Entered
  /\ UNCHANGED <<event, argsVars, trackVars, client_disconnection, device_removed, replies,
                 historyVars>>

\* The device is gone: the URB is not answered, and the error ends the session.
receive_urb_Removed(s) ==
  /\ receiver = Idle /\ device_removed /\ NextUrb(s)
  /\ submitted' = submitted \cup {s}
  /\ receiver' = Leaving
  /\ UNCHANGED <<event, argsVars, trackVars, client_disconnection, device_removed, replies,
                 unlinks, ignored, sessions, reused, overtaken>>

\* A special request is carried out here, unless libusb refuses it: its errors
\* are negative, which means "no special request" to the caller.
tweak_special_requests ==
  [clear_halt        |-> {"done", "transfer"},
   set_interface     |-> {"done", "transfer"},
   set_configuration |-> {"transfer"},
   reset_device      |-> {"done"},         \* nothing is reset
   any_other         |-> {"transfer"}]

\* One reply, and libusb sees nothing: a special request that was carried out;
\* an interface missing or a transfer type unknown.
receive_urb_Answered(s) ==
  /\ receiver = Entered /\ receiver' = Idle /\ NextUrb(s)
  /\ submitted' = submitted \cup {s}
  /\ \/ /\ \E r \in DOMAIN tweak_special_requests : "done" \in tweak_special_requests[r]
        /\ Enqueue("RET_SUBMIT", s, "OK")
     \/ Enqueue("RET_SUBMIT", s, "EPIPE")
  /\ UNCHANGED <<event, argsVars, trackVars, client_disconnection,
                 device_removed, unlinks, ignored, sessions, reused, overtaken>>

\* The args are taken and the URB is tracked before libusb has it.
receive_urb_Track(s) ==
  /\ receiver = Entered /\ NextUrb(s)
  /\ submitted' = submitted \cup {s}
  /\ \E a \in Args :
       /\ AllocArgs(a, s)
       /\ transfers_' = [q \in DOMAIN transfers_ \cup {s} |-> IF q = s THEN a ELSE transfers_[q]]
       /\ receiver' = [pc |-> "submit", args |-> a]
  /\ pending_count_' = pending_count_ + 1
  /\ UNCHANGED <<event, trx, client_disconnection, device_removed, replies,
                 unlinks, ignored, sessions, overtaken>>

\* libusb_submit_transfer
receive_urb_Submit ==
  /\ receiver.pc = "submit"
  /\ \/ receiver' = Idle /\ trx' = [trx EXCEPT ![receiver.args] = "flying"]
     \/ receiver' = [receiver EXCEPT !.pc = "refused"] /\ UNCHANGED trx
  /\ UNCHANGED <<event, argsVars, transfers_, pending_count_, client_disconnection,
                 device_removed, replies, historyVars>>

\* libusb says NO_DEVICE or IO: the device counts as removed and the session
\* ends; after any other refusal it goes on.
RefusedAs(gone) ==
  /\ receiver' = IF gone THEN Leaving ELSE Idle
  /\ device_removed' = (device_removed \/ gone)

\* Variant: the count keeps the URB that libusb refused.
receive_urb_Refused_Counted ==
  /\ receiver.pc = "refused"
  /\ \E gone \in BOOLEAN : RefusedAs(gone)
  /\ Erase(args[receiver.args].seqnum)
  /\ FreeArgs(receiver.args)
  /\ Enqueue("RET_SUBMIT", args[receiver.args].seqnum, "EPIPE")
  /\ UNCHANGED <<event, args, pending_count_, trx, client_disconnection, historyVars>>

\* What libusb refused is taken back and answered.
receive_urb_Refused ==
  /\ receiver.pc = "refused"
  /\ \E gone \in BOOLEAN : RefusedAs(gone)
  /\ Erase(args[receiver.args].seqnum)
  /\ pending_count_' = pending_count_ - 1
  /\ FreeArgs(receiver.args)
  /\ Enqueue("RET_SUBMIT", args[receiver.args].seqnum, "EPIPE")
  /\ UNCHANGED <<event, args, trx, client_disconnection, historyVars>>

Cancelled(as) == [a \in Args |-> IF a \in as /\ trx[a] = "flying" THEN "cancelling" ELSE trx[a]]

\* Variant: the URB's callback is left to answer without being told.
handle_unlink_seqnum_Found_Untold(s) ==
  /\ receiver = Entered /\ receiver' = Idle /\ MayUnlink(s) /\ Tracked(s)
  /\ unlinks' = unlinks \cup {<<s, CmdSeqnum>>}
  /\ trx' = Cancelled({transfers_[s]})
  /\ UNCHANGED <<event, argsVars, transfers_, pending_count_,
                 client_disconnection, device_removed, replies,
                 submitted, ignored, sessions, reused, overtaken>>

handle_unlink_seqnum_Found(s) ==
  /\ receiver = Entered /\ receiver' = Idle /\ MayUnlink(s) /\ Tracked(s)
  /\ unlinks' = unlinks \cup {<<s, CmdSeqnum>>}
  /\ args' = [args EXCEPT ![transfers_[s]].unlinking = TRUE,
                          ![transfers_[s]].unlink_cmd_seqnum = CmdSeqnum]
  /\ trx' = Cancelled({transfers_[s]})
  /\ UNCHANGED <<event, callback_args_pool_, heap, transfers_, pending_count_,
                 client_disconnection, device_removed, replies,
                 submitted, ignored, sessions, reused, overtaken>>

\* The reply is enqueued after the lock is released, which changes nothing: a
\* URB that has left transfers_ does not come back.
handle_unlink_seqnum_NotFound(s) ==
  /\ receiver = Entered /\ receiver' = Idle /\ MayUnlink(s) /\ ~Tracked(s)
  /\ unlinks' = unlinks \cup {<<s, CmdSeqnum>>}
  /\ Enqueue("RET_UNLINK", CmdSeqnum, "OK")
  /\ UNCHANGED <<event, argsVars, trackVars, client_disconnection,
                 device_removed, submitted, ignored, sessions, reused, overtaken>>

\* The device is gone: the unlink is taken, and nothing is answered or cancelled.
\* The session goes on until the client or the removal's word ends it.
handle_unlink_seqnum_Removed(s) ==
  /\ receiver = Idle /\ device_removed /\ MayUnlink(s)
  /\ unlinks' = unlinks \cup {<<s, CmdSeqnum>>}
  /\ ignored' = ignored \cup {<<s, CmdSeqnum>>}
  /\ UNCHANGED <<receiver, event, argsVars, trackVars, client_disconnection,
                 device_removed, replies, submitted, sessions, reused, overtaken>>

\* Everything outstanding is cancelled.
on_disconnection_Cancel ==
  /\ receiver \in {Idle, Leaving} /\ receiver' = [Idle EXCEPT !.pc = "draining"]
  /\ client_disconnection' = TRUE
  /\ trx' = Cancelled({transfers_[s] : s \in DOMAIN transfers_})
  /\ UNCHANGED <<event, argsVars, transfers_, pending_count_, device_removed, replies, historyVars>>

\* Nothing is pending any more: the pool is reset, whoever holds what; the
\* device is closed (LibusbServer's concern), the queue goes with the session.
on_disconnection_Reset ==
  /\ receiver.pc = "draining" /\ pending_count_ = 0
  /\ callback_args_pool_' = FullStack
  /\ overtaken' = (overtaken \/ event.pc = "free")
  /\ receiver' = [Idle EXCEPT !.pc = "away"]
  /\ replies' = <<>> /\ unlinks' = {} /\ ignored' = {}
  /\ UNCHANGED <<event, args, heap, trackVars, client_disconnection, device_removed,
                 submitted, sessions, reused>>

\* The word of the device's removal, from libusb's hotplug or the application
\* (LibusbServer); it may come at any moment, also before the connection.
on_device_removed ==
  /\ ~device_removed /\ device_removed' = TRUE
  /\ UNCHANGED <<receiver, event, argsVars, trackVars, client_disconnection, replies, historyVars>>

(***************************************************************************)
(* The event thread.                                                       *)
(***************************************************************************)
\* The flags of a URB that libusb gets, and what they make of its status: an
\* error on a URB that must not be short counts as completed.
get_libusb_transfer_flags(in) == in \cap {"SHORT_NOT_OK", "ZERO_PACKET"}
masking_bogus_flags(is_out, type, flags) ==
  flags \cap (IF ~is_out THEN {"SHORT_NOT_OK"}
              ELSE IF type = "bulk" THEN {"ZERO_PACKET"} ELSE {})
Excused(status, flags) ==
  IF status = "ERROR" /\ "SHORT_NOT_OK" \in flags THEN "COMPLETED" ELSE status

EndStatus(state) ==
  {Excused(status, masking_bogus_flags(is_out, "bulk", get_libusb_transfer_flags(in))) :
     status \in {"COMPLETED", "ERROR", "NO_DEVICE"} \cup
               (IF state = "cancelling" THEN {"CANCELLED"} ELSE {}),
     is_out \in BOOLEAN, in \in SUBSET {"SHORT_NOT_OK", "NO_INTERRUPT"}}

\* libusb is done with a transfer.  If the client is gone nothing is sent; the
\* status NO_DEVICE marks the handler.
transfer_callback_Begin(a) ==
  /\ event.pc = "idle" /\ trx[a] \in {"flying", "cancelling"}
  /\ \E status \in EndStatus(trx[a]) :
       /\ event' = [pc |-> IF client_disconnection THEN "drop" ELSE "answer",
                    args |-> a, status |-> status]
       /\ device_removed' = (device_removed \/ (status = "NO_DEVICE" /\ ~client_disconnection))
  /\ trx' = [trx EXCEPT ![a] = "none"]
  /\ UNCHANGED <<receiver, argsVars, transfers_, pending_count_, client_disconnection,
                 replies, historyVars>>

\* One critical section: the URB is untracked and its answer enqueued, the
\* unlink's if there was one, which the URB's own then gives way to.
transfer_callback_Answer ==
  /\ event.pc = "answer" /\ event' = [event EXCEPT !.pc = "free"]
  /\ Erase(args[event.args].seqnum)
  /\ pending_count_' = pending_count_ - 1
  /\ IF args[event.args].unlinking
     THEN Enqueue("RET_UNLINK", args[event.args].unlink_cmd_seqnum, trxstat2error(event.status))
     ELSE Enqueue("RET_SUBMIT", args[event.args].seqnum, trxstat2error(event.status))
  /\ UNCHANGED <<receiver, argsVars, trx, client_disconnection, device_removed, historyVars>>

transfer_callback_Drop ==
  /\ event.pc = "drop" /\ event' = [event EXCEPT !.pc = "free"]
  /\ Erase(args[event.args].seqnum)
  /\ pending_count_' = pending_count_ - 1
  /\ UNCHANGED <<receiver, argsVars, trx, client_disconnection, device_removed, replies,
                 historyVars>>

\* The sender is woken (SessionSender), the object given back, the waiting
\* on_disconnection notified.
transfer_callback_Free ==
  /\ event.pc = "free" /\ event' = [event EXCEPT !.pc = "idle"]
  /\ FreeArgs(event.args)
  /\ UNCHANGED <<receiver, args, trackVars, client_disconnection, device_removed, replies,
                 historyVars>>

LibusbHandlerNext ==
  \/ on_new_connection \/ receiver_Enter \/ receive_urb_Submit \/ receive_urb_Refused
  \/ \E s \in Seqnums : \/ receive_urb_Answered(s) \/ receive_urb_Removed(s)
                        \/ receive_urb_Track(s)
                        \/ handle_unlink_seqnum_Found(s) \/ handle_unlink_seqnum_NotFound(s)
                        \/ handle_unlink_seqnum_Removed(s)
  \/ on_disconnection_Cancel \/ on_disconnection_Reset \/ on_device_removed
  \/ \E a \in Args : transfer_callback_Begin(a)
  \/ transfer_callback_Answer \/ transfer_callback_Drop \/ transfer_callback_Free

LibusbHandlerSpec == LibusbHandlerInit /\ [][LibusbHandlerNext]_handlerVars

(***************************************************************************)
(* Properties.                                                             *)
(***************************************************************************)
Busy(a) ==
  \/ trx[a] # "none"
  \/ event.pc \in {"answer", "drop"} /\ event.args = a
  \/ receiver.args = a

\* on_disconnection waits for pending_count_, cancels what transfers_ holds
\* and then closes the device: the count is the number of tracked URBs, each
\* tracked URB has an object of its own that is lent out and says so, and
\* each transfer libusb may still call back for is tracked.
PendingIsOutstanding ==
  overtaken \/
  /\ pending_count_ = Cardinality(DOMAIN transfers_)
  /\ \A s \in DOMAIN transfers_ :
       LET a == transfers_[s] IN
         /\ args[a].seqnum = s /\ Busy(a)
         /\ Lent(a) \/ a \in heap
  /\ \A a \in Args : Busy(a) => Tracked(args[a].seqnum) /\ transfers_[args[a].seqnum] = a

Sent(kind, q) == {i \in DOMAIN replies : replies[i].kind = kind /\ replies[i].seqnum = q}

\* What DeviceHandler.h asks of handle_unlink_seqnum, at every moment of a
\* connection, but for the unlinks that came after the device was removed: an
\* unlink is answered once or waits for the URB it found; a URB is answered at
\* most once, and not after the unlink that found it; nothing is answered that
\* was not asked.  Of the others none is ever answered, not even in passing.
UnlinkProtocol ==
  /\ \A u \in unlinks \ ignored :
       \/ Cardinality(Sent("RET_UNLINK", u[2])) = 1
       \/ /\ Sent("RET_UNLINK", u[2]) = {} /\ Tracked(u[1])
          /\ args[transfers_[u[1]]].unlink_cmd_seqnum = u[2]
  /\ \A u \in ignored : device_removed /\ Sent("RET_UNLINK", u[2]) = {}
  /\ \A u \in unlinks :
       \A i \in Sent("RET_UNLINK", u[2]) : \A j \in Sent("RET_SUBMIT", u[1]) : j < i
  /\ \A i, j \in DOMAIN replies :
       replies[i].kind = replies[j].kind /\ replies[i].seqnum = replies[j].seqnum => i = j
  /\ \A i \in DOMAIN replies : replies[i].kind = "RET_UNLINK" =>
       \E u \in unlinks : u[2] = replies[i].seqnum

\* The same, as long as no object is lent again with its unlinking still set.
UnlinkProtocolUnlessReused ==
  reused \/ overtaken \/ client_disconnection \/ UnlinkProtocol

\* Stated by DeviceHandler.h without exception, and refuted: an object that
\* served an unlinked URB answers for the next one with the old RET_UNLINK.
UnlinkProtocolAlways == overtaken \/ client_disconnection \/ UnlinkProtocol

\* Not true of the code, see the README: every CMD_UNLINK has its RET_UNLINK, or
\* has it coming (one that comes after the device was removed is dropped).
EveryUnlinkCounts == client_disconnection \/ ignored = {}

\* Not true of the code, see the README: every URB is answered, with libusb, or
\* given way to its unlink, as long as no object is reused and nobody leaves (one
\* that comes after the device was removed is dropped, and ends the session).
EveryUrbCounts ==
  \A s \in submitted :
    \/ reused \/ overtaken \/ client_disconnection \/ sessions # 1
    \/ Tracked(s) \/ Sent("RET_SUBMIT", s) # {}
    \/ \E u \in unlinks : u[1] = s /\ Sent("RET_UNLINK", u[2]) # {}
=============================================================================
