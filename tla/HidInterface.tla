---------------------------- MODULE HidInterface ----------------------------
(***************************************************************************)
(* HidVirtualInterfaceHandler: input reports sent by the device's threads  *)
(* (send_input_report) meet interrupt IN requests of the client.  The      *)
(* receiver thread runs every handle_* and the two ends of a connection;   *)
(* reports come from any thread at any time, also without a connection.    *)
(*                                                                         *)
(* A report is its number.  input_mutex_ and endpoint_requests_mutex_ are  *)
(* held together wherever both are used, which makes one action of each    *)
(* call; on_disconnection takes them one after the other.                  *)
(***************************************************************************)
EXTENDS Naturals, Sequences, EndpointRequests

CONSTANTS
  HidUrbs,         \* seqnums of the client's CMD_SUBMITs, over all connections
  HidInEps,        \* interrupt IN endpoints of the interface
  MaxReports,      \* bound: reports the device sends
  HidConnections   \* bound: connections, one after the other
ASSUME HidAssumption == /\ MaxReports \in Nat /\ HidConnections \in Nat
                        /\ HidInEps # {}

VARIABLES
  hid_receiver,    \* "none", "up", or the next step of on_disconnection
  hid_session,     \* session # nullptr
  hid_requests,    \* endpoint_requests_
  hid_reports,     \* pending_input_reports_
  hid_sent,        \* number of reports sent by the device
  hid_received,    \* the reports this connection's client received
  hid_connections, \* connections so far
  hid_submitted, hid_unlinks, hid_replies  \* what UnlinkContract speaks about

hidQueues == <<hid_requests, hid_reports>>
hidHost == <<hid_submitted, hid_unlinks, hid_replies>>
hidVars == <<hid_receiver, hid_session, hidQueues, hid_sent, hid_received,
             hid_connections, hidHost>>

HidInit ==
  /\ hid_receiver = "none" /\ hid_session = FALSE
  /\ hid_requests = no_requests(HidInEps) /\ hid_reports = <<>>
  /\ hid_sent = 0 /\ hid_received = <<>> /\ hid_connections = 0
  /\ hid_submitted = {} /\ hid_unlinks = {} /\ hid_replies = [u \in HidUrbs |-> <<>>]

HidTypeOK ==
  /\ hid_receiver \in {"none", "up", "clear_requests", "detach"}
  /\ hid_session \in BOOLEAN
  /\ hid_requests \in [HidInEps -> Seq(HidUrbs)]
  /\ hid_reports \in Seq(1 .. MaxReports)

hid_reply(u, kind) == hid_replies' = [hid_replies EXCEPT ![u] = Append(@, kind)]
hid_submit(u) ==
  /\ hid_receiver = "up" /\ u \in HidUrbs \ hid_submitted
  /\ hid_submitted' = hid_submitted \cup {u}
  /\ UNCHANGED <<hid_receiver, hid_session, hid_connections, hid_sent, hid_unlinks>>

hid_on_new_connection ==
  /\ hid_receiver = "none" /\ hid_connections < HidConnections
  /\ hid_receiver' = "up" /\ hid_session' = TRUE
  /\ hid_connections' = hid_connections + 1 /\ hid_received' = <<>>
  /\ UNCHANGED <<hidQueues, hid_sent, hidHost>>

hid_interrupt_in_Answer(u, ep) ==
  /\ hid_submit(u)
  /\ empty(hid_requests, ep) /\ hid_reports # <<>>
  /\ hid_received' = Append(hid_received, Head(hid_reports))
  /\ hid_reports' = Tail(hid_reports)
  /\ hid_reply(u, "RET_SUBMIT")
  /\ UNCHANGED hid_requests

hid_interrupt_in_Queue(u, ep) ==
  /\ hid_submit(u)
  /\ ~empty(hid_requests, ep) \/ hid_reports = <<>>
  /\ hid_requests' = enqueue(hid_requests, ep, u)
  /\ UNCHANGED <<hid_reports, hid_received, hid_replies>>

\* Interrupt OUT and every control request are answered on the spot.
hid_interrupt_out(u) ==
  hid_submit(u) /\ hid_reply(u, "RET_SUBMIT") /\ UNCHANGED <<hidQueues, hid_received>>
hid_control(u) ==
  hid_submit(u) /\ hid_reply(u, "RET_SUBMIT") /\ UNCHANGED <<hidQueues, hid_received>>

send_input_report_Answer(ep) ==
  /\ hid_sent < MaxReports /\ ep \in waiting(hid_requests)
  /\ hid_sent' = hid_sent + 1
  /\ hid_requests' = dequeue_any(hid_requests, ep)
  /\ hid_received' = Append(hid_received, hid_sent + 1)
  /\ hid_reply(Head(hid_requests[ep]), "RET_SUBMIT")
  /\ UNCHANGED <<hid_receiver, hid_session, hid_reports, hid_connections,
                 hid_submitted, hid_unlinks>>

\* Variant: stores the report without looking for a waiting request
send_input_report_Store_Blind ==
  /\ hid_sent < MaxReports
  /\ hid_sent' = hid_sent + 1
  /\ hid_reports' = Append(hid_reports, hid_sent + 1)
  /\ UNCHANGED <<hid_receiver, hid_session, hid_requests, hid_received,
                 hid_connections, hidHost>>

send_input_report_Store ==
  /\ hid_sent < MaxReports /\ waiting(hid_requests) = {}
  /\ hid_sent' = hid_sent + 1
  /\ hid_reports' = Append(hid_reports, hid_sent + 1)
  /\ UNCHANGED <<hid_receiver, hid_session, hid_requests, hid_received,
                 hid_connections, hidHost>>

\* Variant: answers, but leaves the request in the queue
hid_handle_unlink_seqnum_Kept(u) ==
  /\ hid_receiver = "up" /\ u \in hid_submitted \ hid_unlinks
  /\ hid_unlinks' = hid_unlinks \cup {u}
  /\ hid_reply(u, "RET_UNLINK")
  /\ UNCHANGED <<hid_receiver, hid_session, hidQueues, hid_sent, hid_received,
                 hid_connections, hid_submitted>>

\* The request, if still there, is dropped; RET_UNLINK says 0 either way.
hid_handle_unlink_seqnum(u) ==
  /\ hid_receiver = "up" /\ u \in hid_submitted \ hid_unlinks
  /\ hid_unlinks' = hid_unlinks \cup {u}
  /\ hid_requests' = cancel_by_seqnum(hid_requests, u)
  /\ hid_reply(u, "RET_UNLINK")
  /\ UNCHANGED <<hid_receiver, hid_session, hid_reports, hid_sent, hid_received,
                 hid_connections, hid_submitted>>

hid_on_disconnection_Reports ==
  /\ hid_receiver = "up" /\ hid_receiver' = "clear_requests"
  /\ hid_reports' = <<>>
  /\ UNCHANGED <<hid_session, hid_requests, hid_sent, hid_received, hid_connections, hidHost>>
hid_on_disconnection_Requests ==
  /\ hid_receiver = "clear_requests" /\ hid_receiver' = "detach"
  /\ hid_requests' = no_requests(HidInEps)
  /\ UNCHANGED <<hid_session, hid_reports, hid_sent, hid_received, hid_connections, hidHost>>
hid_on_disconnection_Detach ==
  /\ hid_receiver = "detach" /\ hid_receiver' = "none"
  /\ hid_session' = FALSE
  /\ UNCHANGED <<hidQueues, hid_sent, hid_received, hid_connections, hidHost>>

HidNext ==
  \/ hid_on_new_connection
  \/ \E u \in HidUrbs : \/ \E ep \in HidInEps : hid_interrupt_in_Answer(u, ep)
                                             \/ hid_interrupt_in_Queue(u, ep)
                        \/ hid_interrupt_out(u) \/ hid_control(u)
                        \/ hid_handle_unlink_seqnum(u)
  \/ \E ep \in HidInEps : send_input_report_Answer(ep)
  \/ send_input_report_Store
  \/ hid_on_disconnection_Reports \/ hid_on_disconnection_Requests
  \/ hid_on_disconnection_Detach

-----------------------------------------------------------------------------
\* The threads of the device reach the session only through a waiting request:
\* as long as there is one, the pointer they use is set.
HidSessionOutlivesRequests == waiting(hid_requests) # {} => hid_session

\* A report never waits while a request does, so the client hears of every
\* report as soon as it asks; and a connection's reports come in order, none
\* left out between the first one received and the last one still waiting.
HidReportsFlow ==
  /\ hid_reports # <<>> => waiting(hid_requests) = {}
  /\ hid_receiver = "up" =>
       LET line == hid_received \o hid_reports
       IN  \A i \in 1 .. Len(line) - 1 : line[i + 1] = line[i] + 1

\* What DeviceHandler.h promises of CMD_UNLINK, for a device whose only
\* interface this is: one RET_UNLINK, no RET_SUBMIT after it.
HidContract == INSTANCE UnlinkContract WITH
  Urbs <- HidUrbs, submitted <- hid_submitted, unlinks <- hid_unlinks, sent <- hid_replies
HidImplementsContract == HidContract!Spec

\* A client is not shown what the device reported before it came.  Refuted: a report sent while nobody is connected waits for the next client.
HidFreshClient == [][hid_connections' # hid_connections => hid_reports' = <<>>]_hidVars
=============================================================================
