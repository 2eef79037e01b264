--------------------------- MODULE CdcAcmInterface ---------------------------
(***************************************************************************)
(* CdcAcmDataInterfaceHandler and CdcAcmCommunicationInterfaceHandler: the *)
(* two interfaces of a serial port.  Threads of the device write to the    *)
(* transmit buffer, blocking (send_data_blocking) or not (send_data); the  *)
(* receiver takes bulk IN requests, unlinks and the ends of a connection,  *)
(* and sends itself when on_data_received does (mock_cdc_acm echoes);      *)
(* serial-state notifications go out on an interrupt endpoint.             *)
(*                                                                         *)
(* The transmit buffer is the number of bytes in it.  A thread that waits  *)
(* for tx_cv_ is in "wait"; a notification moves it to "woken", from where *)
(* it takes tx_mutex_ again.  One step of a thread lasts until it releases *)
(* tx_mutex_.                                                              *)
(***************************************************************************)
EXTENDS Naturals, Sequences, FiniteSets, EndpointRequests

CONSTANTS
  CdcUrbs,         \* seqnums of the client's CMD_SUBMITs, over all connections
  RequestLength,   \* transfer_buffer_length of a bulk IN
  Capacity,        \* of tx_buffer_
  MessageLength,   \* size argument of a blocking call
  Senders,         \* threads that call send_data_blocking
  Impatient,       \* those that pass a timeout
  CdcConnections,  \* bound: connections
  MaxCalls         \* bound: calls of each sender, of send_data, of set_cts
ASSUME CdcAssumption ==
  /\ {RequestLength, Capacity, MessageLength} \subseteq Nat \ {0}
  /\ {CdcConnections, MaxCalls} \subseteq Nat
  /\ Impatient \subseteq Senders /\ IsFiniteSet(Senders) /\ "receiver" \notin Senders

Receiver == "receiver"
Threads == Senders \cup {Receiver}

VARIABLES
  cdc_receiver,    \* "none", "up", what it is busy with, or a step of on_disconnection
  cdc_current,     \* the URB a busy receiver works for
  cdc_session,     \* the interfaces whose session pointer is set
  disconnected_,
  tx_buffer_,      \* number of bytes buffered
  bulk_requests,   \* endpoint_requests_ of the data interface
  notice_requests, \* endpoint_requests_ of the communication interface
  pending_notification_,
  spc,             \* [Threads -> position in send_data_blocking]
  left,            \* [Threads -> bytes of the call still to write]
  swallowed,       \* a thread that had been notified reported a timeout
  calls,           \* number of calls of each sender, "poll" and "cts"
  cdc_connections,
  cdc_submitted, cdc_unlinks  \* seqnums of the CMD_SUBMITs and CMD_UNLINKs handled

cdcRequests == <<bulk_requests, notice_requests>>
cdcHost == <<cdc_submitted, cdc_unlinks>>
cdcCall == <<left, calls>>
cdcLink == <<cdc_session, disconnected_, cdc_connections>>
cdcReceiver == <<cdc_receiver, cdc_current>>
cdcVars == <<cdcRequests, cdcHost, spc, cdcCall, swallowed, cdcLink, cdcReceiver,
             pending_notification_, tx_buffer_>>

Bulk == {"in1"}
Notice == {"in3"}
CdcInit ==
  /\ cdc_receiver = "none" /\ cdc_current = <<>>
  /\ cdc_session = {} /\ disconnected_ = TRUE
  /\ tx_buffer_ = 0 /\ pending_notification_ = FALSE
  /\ bulk_requests = no_requests(Bulk) /\ notice_requests = no_requests(Notice)
  /\ spc = [t \in Threads |-> "idle"] /\ left = [t \in Threads |-> 0]
  /\ swallowed = FALSE
  /\ calls = [c \in Senders \cup {"poll", "cts"} |-> 0]
  /\ cdc_connections = 0
  /\ cdc_submitted = {} /\ cdc_unlinks = {}

CdcTypeOK ==
  /\ cdc_session \subseteq {"comm", "data"} /\ disconnected_ \in BOOLEAN
  /\ tx_buffer_ \in 0 .. Capacity
  /\ bulk_requests \in [Bulk -> Seq(CdcUrbs)] /\ notice_requests \in [Notice -> Seq(CdcUrbs)]
  /\ spc \in [Threads -> {"idle", "space", "wait", "woken", "send"}]
  /\ left \in [Threads -> 0 .. MessageLength]

Least(a, b) == IF a < b THEN a ELSE b
available(tx) == Capacity - tx
\* RingBuffer::write takes what fits.
cdc_write(tx, n) == tx + Least(n, available(tx))

-----------------------------------------------------------------------------
(* try_send_pending_locked: while there are bytes and a request, answer the  *)
(* request with as many bytes as it asks for, and notify one sender.         *)

Drain(tx, queue) ==
  LET n == Least(Len(queue), (tx + RequestLength - 1) \div RequestLength)
  IN  [tx |-> tx - Least(tx, n * RequestLength), queue |-> SubSeq(queue, n + 1, Len(queue)),
       answered |-> {queue[i] : i \in 1 .. n}]

\* Variant: the senders that wait are not notified
notify_Nobody(n, pc) == {pc}
\* notify_one, n times: any n of those that wait.
notify(n, pc) ==
  LET waiters == {t \in DOMAIN pc : pc[t] = "wait"}
  IN  {[t \in DOMAIN pc |-> IF t \in W THEN "woken" ELSE pc[t]] :
        W \in {V \in SUBSET waiters : Cardinality(V) = Least(n, Cardinality(waiters))}}

deliver(d) == bulk_requests' = [ep \in Bulk |-> d.queue]

-----------------------------------------------------------------------------
(* send_data_blocking *)

send_data_blocking_Begin(t) ==
  /\ t \in Senders /\ spc[t] = "idle" /\ calls[t] < MaxCalls
  /\ spc' = [spc EXCEPT ![t] = "space"] /\ left' = [left EXCEPT ![t] = MessageLength]
  /\ calls' = [calls EXCEPT ![t] = @ + 1]
  /\ UNCHANGED <<cdcRequests, cdcHost, swallowed, cdcLink, cdcReceiver,
                 pending_notification_, tx_buffer_>>

\* The call returns; handle_bulk_transfer then answers the OUT request whose
\* data the receiver was sending back.
returned(t, pc) ==
  /\ spc' = [pc EXCEPT ![t] = "idle"]
  /\ IF t = Receiver THEN cdc_receiver' = "up" /\ cdc_current' = <<>>
                     ELSE UNCHANGED cdcReceiver

\* Phase 1 with the connection gone, on entry or after a wait.
send_data_blocking_Gone(t) ==
  /\ spc[t] \in {"space", "woken"} /\ disconnected_
  /\ returned(t, spc)
  /\ UNCHANGED <<cdcRequests, cdcHost, cdcCall, swallowed, cdcLink,
                 pending_notification_, tx_buffer_>>

\* Writes what fits into tx and goes on to phase 2, or waits.
put(t, tx, pc) ==
  LET n == Least(left[t], available(tx))
  IN  /\ tx_buffer_' = tx + n
      /\ left' = [left EXCEPT ![t] = @ - n]
      /\ spc' = [pc EXCEPT ![t] = IF n = 0 THEN "wait" ELSE "send"]

\* A full buffer is first offered to the requests that wait.
send_data_blocking_Space(t) ==
  /\ spc[t] = "space" /\ ~disconnected_
  /\ LET d == IF available(tx_buffer_) = 0 THEN Drain(tx_buffer_, bulk_requests["in1"])
              ELSE [tx |-> tx_buffer_, queue |-> bulk_requests["in1"], answered |-> {}]
     IN  /\ deliver(d)
         /\ \E pc \in notify(Cardinality(d.answered), spc) : put(t, d.tx, pc)
  /\ UNCHANGED <<notice_requests, cdc_submitted, cdc_unlinks, calls, swallowed,
                 cdcLink, cdcReceiver, pending_notification_>>

send_data_blocking_Woken(t) ==
  /\ spc[t] = "woken" /\ ~disconnected_
  /\ put(t, tx_buffer_, spc)
  /\ UNCHANGED <<cdcRequests, cdcHost, calls, swallowed, cdcLink, cdcReceiver,
                 pending_notification_>>

\* wait_for looks at the clock when it returns: a thread that was notified can
\* report a timeout all the same, and the notification is spent.
send_data_blocking_Timeout(t) ==
  /\ t \in Impatient /\ spc[t] \in {"wait", "woken"}
  /\ returned(t, spc) /\ swallowed' = (swallowed \/ spc[t] = "woken")
  /\ UNCHANGED <<cdcRequests, cdcHost, cdcCall, cdcLink, pending_notification_, tx_buffer_>>

\* Phase 2, and round the loop.
send_data_blocking_Send(t) ==
  /\ spc[t] = "send"
  /\ LET d == Drain(tx_buffer_, bulk_requests["in1"])
     IN  /\ deliver(d) /\ tx_buffer_' = d.tx
         /\ \E pc \in notify(Cardinality(d.answered), spc) :
              IF left[t] > 0 THEN spc' = [pc EXCEPT ![t] = "space"] /\ UNCHANGED cdcReceiver
                             ELSE returned(t, pc)
  /\ UNCHANGED <<notice_requests, cdc_submitted, cdc_unlinks, cdcCall, swallowed, cdcLink,
                 pending_notification_>>

\* send_data writes what fits and never asks whether anybody is connected.
send_data ==
  /\ calls["poll"] < MaxCalls /\ calls' = [calls EXCEPT !["poll"] = @ + 1]
  /\ LET d == Drain(cdc_write(tx_buffer_, 1), bulk_requests["in1"])
     IN  /\ deliver(d) /\ tx_buffer_' = d.tx
         /\ spc' \in notify(Cardinality(d.answered), spc)
  /\ UNCHANGED <<notice_requests, cdc_submitted, cdc_unlinks, left, swallowed,
                 cdcLink, cdcReceiver, pending_notification_>>

-----------------------------------------------------------------------------
(* The receiver *)

cdc_submit(u) ==
  /\ cdc_receiver = "up" /\ u \in CdcUrbs \ cdc_submitted
  /\ cdc_submitted' = cdc_submitted \cup {u}
  /\ UNCHANGED <<cdc_unlinks, cdcLink, swallowed>>

\* Nothing buffered, nobody before it: on_data_requested may have data (more
\* than asked for: the rest goes to the buffer) or none.
cdc_bulk_in_Fresh(u) ==
  /\ cdc_submit(u)
  /\ tx_buffer_ = 0 /\ empty(bulk_requests, "in1")
  /\ \E n \in 0 .. RequestLength + 1 :
       IF n = 0
       THEN /\ bulk_requests' = enqueue(bulk_requests, "in1", u)
            /\ UNCHANGED tx_buffer_
       ELSE /\ UNCHANGED bulk_requests
            /\ tx_buffer_' = IF n <= RequestLength THEN tx_buffer_
                             ELSE cdc_write(tx_buffer_, n - RequestLength)
  /\ UNCHANGED <<notice_requests, spc, cdcCall, cdcReceiver, pending_notification_>>

cdc_bulk_in_Queue(u) ==
  /\ cdc_submit(u)
  /\ tx_buffer_ > 0 \/ ~empty(bulk_requests, "in1")
  /\ LET d == Drain(tx_buffer_, enqueue(bulk_requests, "in1", u)["in1"])
     IN  /\ deliver(d) /\ tx_buffer_' = d.tx
         /\ spc' \in notify(Cardinality(d.answered), spc)
  /\ UNCHANGED <<notice_requests, cdcCall, cdcReceiver, pending_notification_>>

\* Bulk OUT: on_data_received may send, and block, before the reply goes out.
cdc_bulk_out_Echo(u) ==
  /\ cdc_submit(u)
  /\ cdc_receiver' = "echo" /\ cdc_current' = <<u>>
  /\ spc' = [spc EXCEPT ![Receiver] = "space"]
  /\ left' = [left EXCEPT ![Receiver] = MessageLength]
  /\ UNCHANGED <<cdcRequests, calls, tx_buffer_, pending_notification_>>

\* Bulk OUT otherwise, interrupt OUT and every control request: answered on
\* the spot (the line coding and the signals they set stay with the interface).
cdc_answered_at_once(u) ==
  /\ cdc_submit(u)
  /\ UNCHANGED <<cdcRequests, spc, cdcCall, tx_buffer_, cdcReceiver, pending_notification_>>

cdc_interrupt_in(u) ==
  /\ cdc_submit(u)
  /\ IF pending_notification_ /\ empty(notice_requests, "in3")
     THEN /\ pending_notification_' = FALSE
          /\ UNCHANGED notice_requests
     ELSE /\ notice_requests' = enqueue(notice_requests, "in3", u)
          /\ UNCHANGED pending_notification_
  /\ UNCHANGED <<bulk_requests, spc, cdcCall, tx_buffer_, cdcReceiver>>

\* set_cts, from any thread: one slot, a newer notification replaces an older.
send_serial_state_notification ==
  /\ calls["cts"] < MaxCalls /\ calls' = [calls EXCEPT !["cts"] = @ + 1]
  /\ IF empty(notice_requests, "in3")
     THEN pending_notification_' = TRUE /\ UNCHANGED notice_requests
     ELSE /\ pending_notification_' = FALSE
          /\ notice_requests' = dequeue_any(notice_requests, "in3")
  /\ UNCHANGED <<bulk_requests, cdc_submitted, cdc_unlinks, spc, left, swallowed,
                 cdcLink, cdcReceiver, tx_buffer_>>

\* Both interfaces get every CMD_UNLINK, one after the other, and both answer:
\* the client gets two RET_UNLINKs, and a RET_SUBMIT can come between them.
cdc_handle_unlink_Comm(u) ==
  /\ cdc_receiver = "up" /\ u \in cdc_submitted \ cdc_unlinks
  /\ cdc_unlinks' = cdc_unlinks \cup {u}
  /\ notice_requests' = cancel_by_seqnum(notice_requests, u)
  /\ cdc_receiver' = "unlink" /\ cdc_current' = <<u>>
  /\ UNCHANGED <<bulk_requests, cdc_submitted, spc, cdcCall, swallowed, cdcLink,
                 pending_notification_, tx_buffer_>>
cdc_handle_unlink_Data ==
  /\ cdc_receiver = "unlink"
  /\ bulk_requests' = cancel_by_seqnum(bulk_requests, cdc_current[1])
  /\ cdc_receiver' = "up" /\ cdc_current' = <<>>
  /\ UNCHANGED <<notice_requests, cdc_submitted, cdc_unlinks, spc, cdcCall, swallowed,
                 cdcLink, pending_notification_, tx_buffer_>>

cdc_on_new_connection ==
  /\ cdc_receiver = "none" /\ cdc_connections < CdcConnections
  /\ cdc_receiver' = "up" /\ cdc_session' = {"comm", "data"}
  /\ disconnected_' = FALSE /\ cdc_connections' = cdc_connections + 1
  /\ UNCHANGED <<cdcRequests, cdcHost, spc, cdcCall, swallowed, cdc_current,
                 pending_notification_, tx_buffer_>>

\* on_disconnection: the communication interface first, then the data interface.
disconnecting(at, next) ==
  /\ cdc_receiver = at /\ cdc_receiver' = next
  /\ UNCHANGED <<cdcHost, cdcCall, swallowed, cdc_current, cdc_connections>>
cdc_on_disconnection_Notification ==
  /\ disconnecting("up", "comm_requests") /\ pending_notification_' = FALSE
  /\ UNCHANGED <<cdcRequests, spc, cdc_session, disconnected_, tx_buffer_>>
cdc_on_disconnection_CommRequests ==
  /\ disconnecting("comm_requests", "comm_detach")
  /\ notice_requests' = no_requests(Notice)
  /\ UNCHANGED <<bulk_requests, spc, cdc_session, disconnected_, tx_buffer_,
                 pending_notification_>>
\* Variant: the session is forgotten before the data interface's requests are
cdc_on_disconnection_CommDetach_Both ==
  /\ disconnecting("comm_detach", "data_tx") /\ cdc_session' = {}
  /\ UNCHANGED <<cdcRequests, spc, disconnected_, tx_buffer_, pending_notification_>>
cdc_on_disconnection_CommDetach ==
  /\ disconnecting("comm_detach", "data_tx") /\ cdc_session' = cdc_session \ {"comm"}
  /\ UNCHANGED <<cdcRequests, spc, disconnected_, tx_buffer_, pending_notification_>>
cdc_on_disconnection_Tx ==
  /\ disconnecting("data_tx", "data_requests")
  /\ disconnected_' = TRUE /\ tx_buffer_' = 0
  /\ UNCHANGED <<cdcRequests, spc, cdc_session, pending_notification_>>
cdc_on_disconnection_DataRequests ==
  /\ disconnecting("data_requests", "notify_all")
  /\ bulk_requests' = no_requests(Bulk)
  /\ UNCHANGED <<notice_requests, spc, cdc_session, disconnected_, tx_buffer_,
                 pending_notification_>>
cdc_on_disconnection_NotifyAll ==
  /\ disconnecting("notify_all", "data_detach")
  /\ spc' \in notify(Cardinality(Threads), spc)
  /\ UNCHANGED <<cdcRequests, cdc_session, disconnected_, tx_buffer_, pending_notification_>>
cdc_on_disconnection_Detach ==
  /\ disconnecting("data_detach", "none") /\ cdc_session' = cdc_session \ {"data"}
  /\ UNCHANGED <<cdcRequests, spc, disconnected_, tx_buffer_, pending_notification_>>

cdcThread(t) ==
  \/ send_data_blocking_Gone(t) \/ send_data_blocking_Space(t)
  \/ send_data_blocking_Woken(t) \/ send_data_blocking_Send(t)
cdcDisconnect ==
  \/ cdc_on_disconnection_CommRequests \/ cdc_on_disconnection_CommDetach
  \/ cdc_on_disconnection_Tx \/ cdc_on_disconnection_DataRequests
  \/ cdc_on_disconnection_NotifyAll \/ cdc_on_disconnection_Detach

CdcNext ==
  \/ \E t \in Threads : \/ send_data_blocking_Begin(t) \/ cdcThread(t)
                        \/ send_data_blocking_Timeout(t)
  \/ send_data \/ send_serial_state_notification
  \/ \E u \in CdcUrbs : \/ cdc_bulk_in_Fresh(u) \/ cdc_bulk_in_Queue(u)
                        \/ cdc_bulk_out_Echo(u) \/ cdc_answered_at_once(u)
                        \/ cdc_interrupt_in(u) \/ cdc_handle_unlink_Comm(u)
  \/ cdc_handle_unlink_Data \/ cdc_on_new_connection
  \/ cdc_on_disconnection_Notification \/ cdcDisconnect

\* The threads of the device and the receiver are scheduled; the host and the
\* callers of set_cts and send_data owe nothing.
CdcFairness ==
  /\ \A t \in Threads : WF_cdcVars(cdcThread(t))
  /\ WF_cdcVars(cdc_handle_unlink_Data) /\ WF_cdcVars(cdcDisconnect)
CdcSpec == CdcInit /\ [][CdcNext]_cdcVars /\ CdcFairness

-----------------------------------------------------------------------------
\* A device thread uses an interface's session only for a request that waits
\* there: as long as one waits, that session pointer is set.
CdcSessionOutlivesRequests ==
  /\ waiting(notice_requests) # {} => "comm" \in cdc_session
  /\ waiting(bulk_requests) # {} => "data" \in cdc_session

\* Bytes and requests never both wait, unless a thread that wrote is still on
\* its way to phase 2; and a notification never waits beside a request.
CdcBytesFlow ==
  /\ tx_buffer_ > 0 /\ waiting(bulk_requests) # {} => \E t \in Threads : spc[t] = "send"
  /\ pending_notification_ => waiting(notice_requests) = {}

\* A blocked sender has something to wait for: bytes the host can still fetch,
\* another sender already woken, or the end of the connection, which notifies
\* all.  The exception is a notification spent on a thread whose time was up.
CdcNoStrandedSender ==
  (\E t \in Threads : spc[t] = "wait") =>
    \/ tx_buffer_ > 0 \/ swallowed
    \/ \E t \in Threads : spc[t] = "woken"
    \/ cdc_receiver \in {"data_requests", "notify_all"}

\* CdcAcmVirtualInterfaceHandler.h says disconnected_ makes a blocking send
\* return early.  Refuted: the receiver that sends from on_data_received is
\* the thread that would take the IN requests and set disconnected_.
EchoEnds == cdc_receiver = "echo" ~> cdc_receiver # "echo"
=============================================================================
