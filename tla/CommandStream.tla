---------------------------- MODULE CommandStream ----------------------------
(***************************************************************************)
(* A session from its first operation to its end: Session::receiver reads  *)
(* commands and hands them to a virtual device, whose answers go through   *)
(* the write buffer to the sender; the client reads the socket the way the *)
(* Linux client does.  What SessionSender says about the buffer's locks is *)
(* taken for granted here: enqueueing and taking a response are atomic.    *)
(*                                                                         *)
(* A transfer handle is the seqnum of the command it was allocated for.    *)
(***************************************************************************)
EXTENDS UsbIpProtocol, VirtualDeviceHandler

CONSTANTS
  Commands,     \* what the client may send (without seqnum)
  MaxCommands   \* bound: commands in a session
SetupPackets ==
  [type : {"standard", "class", "vendor"}, recipient : {"device", "interface", "endpoint", "other"},
   request : STRING, in : BOOLEAN, descriptor : STRING, value : Nat, index : Nat, length : Nat]
CommandRecords ==
  [kind : {"CMD_SUBMIT", "CMD_UNLINK", "CMD_OTHER"}, seqnum : Nat, ep : Nat, in : BOOLEAN,
   length : Nat, packets : Nat, setup : SetupPackets, target : Nat]
\* A control request with an IN data stage is submitted as IN.
ASSUME StreamAssumption ==
  /\ MaxCommands \in Nat /\ Commands \subseteq CommandRecords
  /\ \A c \in Commands : c.ep = Ep0 /\ ~is_out(c.setup) => c.in

VARIABLES
  phase,        \* "op", "receiving", "disconnecting", "stopping", "closed"
  detaching,    \* the interface on_disconnection has come to
  commands,     \* the commands the client sent, by seqnum
  to_device,    \* the units of the commands not read yet
  peer_closed,  \* the client closed the socket, or immediately_stop did
  receiver_ec,  \* a handler reported an error
  attached,     \* interfaces whose session pointer is set
  requests,     \* [interface -> its endpoint_requests_]
  write_buffer, \* responses submitted and not taken
  writing,      \* units of the response the sender is writing
  writing_for,  \* its transfer handle, if it has one
  live,         \* transfer handles allocated and not freed
  done,         \* seqnums of the CMD_SUBMITs that need no response any more
  expect,       \* what the client reads before the next header
  in_step,      \* it found a header wherever it expected one
  mishaps       \* "direct": the receiver wrote into the middle of the sender's
                \* response; "empty": a response announced packets it does not have

csHost == <<commands, to_device, peer_closed>>
csClient == <<expect, in_step, mishaps>>
csSender == <<writing, writing_for>>
csDevice == <<attached, requests>>
csVars == <<phase, detaching, csHost, receiver_ec, csDevice, write_buffer, csSender, live,
            done, csClient>>

StreamInit ==
  /\ phase = "op" /\ detaching = 0
  /\ commands = <<>> /\ to_device = <<>> /\ peer_closed = FALSE
  /\ receiver_ec = FALSE
  /\ attached = {} /\ requests = [i \in Interfaces |-> <<>>]
  /\ write_buffer = <<>> /\ writing = <<>> /\ writing_for = {}
  /\ live = {} /\ done = {}
  /\ expect = [data |-> 0, packets |-> 0] /\ in_step = TRUE /\ mishaps = {}

-----------------------------------------------------------------------------
(* The client and the socket.                                                *)

HostSends(c) ==
  /\ phase = "receiving" /\ ~peer_closed /\ to_device = <<>> /\ Len(commands) < MaxCommands
  /\ c.kind = "CMD_UNLINK" => c.target \in 1 .. Len(commands)
  /\ LET cmd == [c EXCEPT !.seqnum = Len(commands) + 1]
     IN  commands' = Append(commands, cmd) /\ to_device' = to_bytes(cmd)
  /\ UNCHANGED <<phase, detaching, peer_closed, receiver_ec, csDevice, write_buffer, csSender,
                 live, done, csClient>>

\* A command may be cut off where the connection breaks.
PeerCloses ==
  /\ phase = "receiving" /\ ~peer_closed /\ peer_closed' = TRUE
  /\ \E n \in 0 .. Len(to_device) : to_device' = SubSeq(to_device, 1, n)
  /\ UNCHANGED <<phase, detaching, commands, receiver_ec, csDevice, write_buffer, csSender,
                 live, done, csClient>>

\* The client takes a unit off the stream.
Takes(unit) ==
  LET header == expect.data = 0 /\ expect.packets = 0
      fits == CASE header -> unit \notin {Byte, Packet}
                [] expect.data > 0 -> unit = Byte
                [] OTHER -> unit = Packet
  IN  /\ in_step' = (in_step /\ fits)
      /\ expect' = IF ~in_step \/ ~fits THEN expect
                   ELSE IF header THEN ClientReads(unit, commands[unit.seqnum].in)
                   ELSE IF expect.data > 0 THEN [expect EXCEPT !.data = @ - 1]
                   ELSE [expect EXCEPT !.packets = @ - 1]

-----------------------------------------------------------------------------
(* parse_op.  A list is sent and the connection closed.  Importing tells     *)
(* every handler of the device, unless there is no such device or another    *)
(* session uses it.                                                          *)

Replies(req) ==
  CASE get_op_from_socket(req) = "devlist" ->
         {OpRepDevlist(<<>>), OpRepDevlist(<<Len(InterfaceHandlers), 1>>)}
    [] get_op_from_socket(req) = "import" ->
         {OpRepImport(status, Len(InterfaceHandlers)) : status \in {"OK", "NA", "NoDev"}}
    [] OTHER -> {<<>>}

on_new_connection == {i \in Interfaces : HasHandler(i)}
parse_op(req) ==
  /\ phase = "op"
  /\ \E reply \in Replies(req) :
       /\ phase' = IF reply # <<>> /\ reply = OpRepImport("OK", Len(InterfaceHandlers))
                   THEN "receiving" ELSE "closed"
       /\ in_step' = (reply = <<>> \/ ClientReadsOp(reply) = Len(reply))
  /\ attached' = IF phase' = "receiving" THEN on_new_connection ELSE {}
  /\ UNCHANGED <<detaching, csHost, receiver_ec, requests, write_buffer, csSender, live, done,
                 expect, mishaps>>

-----------------------------------------------------------------------------
(* The receiver.                                                             *)

Receiving == phase = "receiving" /\ UNCHANGED <<commands, peer_closed>>
Read == get_cmd_from_socket(to_device, peer_closed)

\* The end of the loop in receiver: on_disconnection comes next.
Leave == phase' = "disconnecting" /\ detaching' = NextHandler(0)
Stay == UNCHANGED <<phase, detaching>>

\* A transfer that was allocated for a command cut short is freed with it.
receiver_Error ==
  /\ Receiving /\ Read.result \in {"SOCKET_EOF", "SOCKET_ERR", "UNKNOWN_CMD"}
  /\ to_device' = <<>> /\ Leave
  /\ UNCHANGED <<receiver_ec, csDevice, write_buffer, csSender, live, done, csClient>>

Submitted == Head(to_device)
Known(ep) == ep = Ep0 \/ ep \in DOMAIN Endpoints
receiver_Submit ==
  /\ Receiving /\ Read.result = "submit" /\ to_device' = Read.rest
  /\ UNCHANGED <<attached, csSender, csClient>>

Replied(cmd, a) ==
  write_buffer' = Append(write_buffer,
    IF a.how = "data" THEN create_ret_submit_no_iso(cmd.seqnum, a.status, a.n)
                      ELSE create_ret_submit_no_data(cmd.seqnum, a.status, a.n, cmd.length))

\* Replied on the spot.  The transfer goes with the response or is freed.
receive_urb_Answer ==
  /\ receiver_Submit /\ Known(Submitted.ep)
  /\ LET a == dispatch_urb(Submitted)
     IN  /\ a.how \in {"data", "no_data"} /\ Replied(Submitted, a)
         /\ live' = IF a.how = "data" THEN live \cup {Submitted.seqnum} ELSE live
         /\ done' = done \cup {Submitted.seqnum}
         /\ receiver_ec' = a.ec
         /\ IF a.ec THEN Leave ELSE Stay
  /\ UNCHANGED requests

\* The device has data, or the request waits until it has.
receive_urb_Keep ==
  /\ receiver_Submit /\ Known(Submitted.ep) /\ dispatch_urb(Submitted).how = "keep"
  /\ live' = live \cup {Submitted.seqnum}
  /\ requests' = [requests EXCEPT ![Endpoints[Submitted.ep].interface] = Append(@, Submitted.seqnum)]
  /\ Stay /\ UNCHANGED <<receiver_ec, write_buffer, done>>

receive_urb_None ==
  /\ receiver_Submit /\ Known(Submitted.ep) /\ dispatch_urb(Submitted).how = "none"
  /\ Stay /\ UNCHANGED <<receiver_ec, requests, write_buffer, live, done>>

\* The receiver writes this response itself, whatever the sender is doing.
receiver_UnknownEndpoint ==
  /\ Receiving /\ Read.result = "submit" /\ ~Known(Submitted.ep)
  /\ to_device' = Read.rest
  /\ Takes(create_ret_submit_epipe_without_data(Submitted.seqnum, Submitted.length))
  /\ mishaps' = IF expect.data = 0 /\ expect.packets = 0 THEN mishaps ELSE mishaps \cup {"direct"}
  /\ done' = done \cup {Submitted.seqnum}
  /\ Stay /\ UNCHANGED <<receiver_ec, csDevice, write_buffer, csSender, live>>

\* Every handler gets the unlink and answers it; one may hold the request.
handle_unlink_seqnum(target, seqnum) ==
  /\ requests' = [i \in Interfaces |-> RemoveFirst(requests[i], target)]
  /\ live' = IF \E i \in Interfaces : Contains(requests[i], target)
             THEN live \ {target} ELSE live
  /\ write_buffer' = write_buffer \o
       units(create_ret_unlink(seqnum), Cardinality({i \in Interfaces : HasHandler(i)}))

receiver_Unlink ==
  /\ Receiving /\ Read.result = "unlink" /\ to_device' = Read.rest
  /\ handle_unlink_seqnum(Submitted.target, Submitted.seqnum)
  /\ done' = done \cup {Submitted.target}
  /\ Stay /\ UNCHANGED <<receiver_ec, attached, csSender, csClient>>

-----------------------------------------------------------------------------
(* The device's threads, the end of the session, the sender.                 *)

Enqueued(i, ret) ==
  /\ requests' = [requests EXCEPT ![i] = Tail(@)]
  /\ write_buffer' = Append(write_buffer, ret)
  /\ done' = done \cup {Head(requests[i])}
  /\ UNCHANGED <<phase, detaching, csHost, receiver_ec, attached, csSender, live, csClient>>
CanReport(i) == i \in attached /\ requests[i] # <<>>
DeviceAnswers(i) ==
  /\ CanReport(i)
  /\ LET cmd == commands[Head(requests[i])]
     IN  IF num_iso(cmd.packets) = 0
         THEN \E n \in 0 .. cmd.length :
                Enqueued(i, create_ret_submit_no_iso(cmd.seqnum, "OK", n))
         ELSE \E lengths \in [1 .. num_iso(cmd.packets) -> 0 .. 1] :
                Enqueued(i, create_ret_submit(cmd.seqnum, "OK",
                              Cardinality({k \in DOMAIN lengths : lengths[k] = 1}), lengths))

interface_on_disconnection(i) ==
  /\ attached' = attached \ {i}
  /\ requests' = [requests EXCEPT ![i] = <<>>]
  /\ live' = live \ {requests[i][k] : k \in DOMAIN requests[i]}

\* VirtualDeviceHandler::on_disconnection gets the receiver's error code, and
\* its loop over the interfaces ends at one that reports an error.
on_disconnection ==
  /\ phase = "disconnecting"
  /\ IF detaching = 0
     THEN phase' = "stopping" /\ UNCHANGED <<detaching, csDevice, live>>
     ELSE /\ interface_on_disconnection(detaching)
          /\ detaching' = IF receiver_ec THEN 0 ELSE NextHandler(detaching)
          /\ UNCHANGED phase
  /\ UNCHANGED <<csHost, receiver_ec, write_buffer, csSender, done, csClient>>

Carries(ret) == IF ret.carried THEN {ret.seqnum} ELSE {}
sender_Take ==
  /\ phase # "closed" /\ writing = <<>> /\ write_buffer # <<>>
  /\ writing' = to_socket(Head(write_buffer)) /\ writing_for' = Carries(Head(write_buffer))
  /\ write_buffer' = Tail(write_buffer)
  /\ mishaps' = IF num_iso(Head(write_buffer).packets) > 0 /\ Head(write_buffer).actual = 0
                THEN mishaps \cup {"empty"} ELSE mishaps
  /\ UNCHANGED <<phase, detaching, csHost, receiver_ec, csDevice, live, done, expect, in_step>>
sender_Write ==
  /\ writing # <<>> /\ Takes(Head(writing)) /\ writing' = Tail(writing)
  /\ IF writing' = <<>> THEN live' = live \ writing_for /\ writing_for' = {}
                        ELSE UNCHANGED <<live, writing_for>>
  /\ UNCHANGED <<phase, detaching, csHost, receiver_ec, csDevice, write_buffer, done, mishaps>>

\* transfer_loop joins the sender and clears the buffers.
transfer_loop_End ==
  /\ phase = "stopping" /\ writing = <<>> /\ phase' = "closed"
  /\ write_buffer' = <<>>
  /\ live' = live \ UNION {Carries(write_buffer[k]) : k \in DOMAIN write_buffer}
  /\ UNCHANGED <<detaching, csHost, receiver_ec, csDevice, csSender, done, csClient>>

StreamNext ==
  \/ \E req \in OpRequests : parse_op(req)
  \/ \E c \in Commands : HostSends(c)
  \/ PeerCloses
  \/ receiver_Error \/ receiver_UnknownEndpoint \/ receiver_Unlink
  \/ receive_urb_Answer \/ receive_urb_Keep \/ receive_urb_None
  \/ \E i \in Interfaces : DeviceAnswers(i)
  \/ on_disconnection \/ sender_Take \/ sender_Write \/ transfer_loop_End
StreamSpec == StreamInit /\ [][StreamNext]_csVars

-----------------------------------------------------------------------------
\* The client and the server stay in step: where the client expects a header
\* there is one, so every response is exactly as long as its header says --
\* unless the receiver wrote into another response, or all packets were empty.
StreamInStep == in_step \/ mishaps # {}

\* Every CMD_SUBMIT the receiver took is answered, unlinked, or waits in a
\* request queue for a device that is still attached -- until the session ends.
\* Not so a standard request to an endpoint other than 0 that the device does not
\* have: it gets no response (endpoint_request), NoSubmitIgnored shows it.
Unanswerable(cmd) ==
  /\ cmd.ep = Ep0 /\ cmd.setup.type = "standard" /\ cmd.setup.recipient = "endpoint"
  /\ ~Known(cmd.setup.index)
EverySubmitAnswered ==
  phase = "receiving" /\ to_device = <<>> =>
    \A n \in DOMAIN commands :
      \/ commands[n].kind # "CMD_SUBMIT" \/ peer_closed \/ n \in done
      \/ Unanswerable(commands[n])
      \/ \E i \in attached : \E k \in DOMAIN requests[i] : requests[i][k] = n

\* Refuted: an error code ends on_disconnection's loop at the first interface,
\* the others keep the pointer to the session and their requests.
AllInterfacesDetached == phase = "closed" => attached = {}
\* Refuted: two ways to lose the client.
StreamNeverBreaks == in_step
\* Refuted: every interface with a handler answers a CMD_UNLINK.
UnlinkAnsweredOnce ==
  \A j, k \in DOMAIN write_buffer :
    write_buffer[j].kind = "RET_UNLINK" /\ write_buffer[k] = write_buffer[j] => j = k
\* Refuted: the requests to endpoints the device does not have.
NoSubmitIgnored ==
  phase = "receiving" /\ to_device = <<>> /\ ~peer_closed =>
    \A n \in DOMAIN commands : n \in done \/ commands[n].kind # "CMD_SUBMIT"
      \/ \E i \in attached : \E k \in DOMAIN requests[i] : requests[i][k] = n
=============================================================================
