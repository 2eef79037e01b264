---------------------------- MODULE UsbIpProtocol ----------------------------
(***************************************************************************)
(* protocol.cpp and network.h: what goes over the socket for a command and *)
(* a response, and what a reader takes off it.                             *)
(*                                                                         *)
(* A stream is a sequence of units: a header (a record, for the 48 bytes   *)
(* of a command or a response), a byte of data (Byte), an isochronous      *)
(* packet descriptor (Packet).  Byte order and padding are left out.       *)
(***************************************************************************)
EXTENDS Naturals, Sequences, SequencesExt

CONSTANT MaxTransfer  \* USBIPDCPP_MAX_TRANSFER_BUFFER_SIZE
ASSUME ProtocolAssumption == MaxTransfer \in Nat

Byte == [kind |-> "byte"]
Packet == [kind |-> "packet"]
NonIso == 99   \* number_of_packets = 0xFFFFFFFF: no isochronous transfer either
num_iso(n) == IF n = NonIso THEN 0 ELSE n
units(u, n) == [i \in 1 .. n |-> u]

-----------------------------------------------------------------------------
(* Responses.  "data" is 0 when the response carries no transfer, and else   *)
(* the number of bytes in it; "lengths" are the actual lengths of the        *)
(* isochronous packets in the transfer.                                      *)

create_ret_submit(seqnum, status, actual, lengths) ==
  [kind |-> "RET_SUBMIT", seqnum |-> seqnum, status |-> status, actual |-> actual,
   packets |-> Len(lengths), carried |-> TRUE]
\* Variant: a response without data announces the length that was asked for
create_ret_submit_no_data_Announced(seqnum, status, actual, asked) ==
  [kind |-> "RET_SUBMIT", seqnum |-> seqnum, status |-> status, actual |-> asked,
   packets |-> 0, carried |-> FALSE]
create_ret_submit_no_data(seqnum, status, actual, asked) ==
  [kind |-> "RET_SUBMIT", seqnum |-> seqnum, status |-> status, actual |-> actual,
   packets |-> 0, carried |-> FALSE]
create_ret_submit_epipe_without_data(seqnum, asked) ==
  create_ret_submit_no_data(seqnum, "EPIPE", 0, asked)
create_ret_submit_no_iso(seqnum, status, n) ==
  [kind |-> "RET_SUBMIT", seqnum |-> seqnum, status |-> status, actual |-> n,
   packets |-> 0, carried |-> TRUE]
create_ret_unlink(seqnum) ==
  [kind |-> "RET_UNLINK", seqnum |-> seqnum, status |-> "OK", actual |-> 0,
   packets |-> 0, carried |-> FALSE]

\* The units of a response: data only with a transfer and a length, and the
\* packet descriptors only with data.
ret_submit_to_socket(ret) ==
  IF ret.carried /\ ret.actual > 0
  THEN <<ret>> \o units(Byte, ret.actual) \o units(Packet, num_iso(ret.packets))
  ELSE <<ret>>
ret_unlink_to_socket(ret) == <<ret>>
to_socket(ret) == IF ret.kind = "RET_SUBMIT" THEN ret_submit_to_socket(ret)
                                             ELSE ret_unlink_to_socket(ret)

\* The Linux client: after a RET_SUBMIT it reads actual_length bytes when the
\* URB's direction is IN, and number_of_packets descriptors.
ClientReads(ret, isIn) ==
  [data |-> IF ret.kind = "RET_SUBMIT" /\ isIn THEN ret.actual ELSE 0,
   packets |-> IF ret.kind = "RET_SUBMIT" THEN num_iso(ret.packets) ELSE 0]

-----------------------------------------------------------------------------
(* Commands.                                                                 *)

cmd_submit_to_bytes(cmd) ==
  <<cmd>> \o units(Byte, IF cmd.in THEN 0 ELSE cmd.length) \o units(Packet, num_iso(cmd.packets))
cmd_unlink_to_bytes(cmd) == <<cmd>>
to_bytes(cmd) == IF cmd.kind = "CMD_SUBMIT" THEN cmd_submit_to_bytes(cmd)
                                            ELSE cmd_unlink_to_bytes(cmd)

\* What from_socket reads after the fixed part of a CMD_SUBMIT.
submit_from_socket(cmd) == (IF cmd.in THEN 0 ELSE cmd.length) + num_iso(cmd.packets)
\* The result of get_cmd_from_socket, for a stream that starts with a command
\* and whether the peer has closed: a command and the rest of the stream, an
\* error, or "wait" while asio::read blocks.
get_cmd_from_socket(stream, closed) ==
  LET Failed(ec) == [result |-> ec, rest |-> <<>>, allocated |-> FALSE]
      Short(allocated) == [result |-> IF closed THEN "SOCKET_EOF" ELSE "wait",
                           rest |-> stream, allocated |-> allocated]
      cmd == Head(stream)
      needs == 1 + submit_from_socket(cmd)
  IN  IF stream = <<>> THEN Short(FALSE)
      ELSE CASE cmd.kind = "CMD_UNLINK" -> [result |-> "unlink", rest |-> Tail(stream), allocated |-> FALSE]
             [] cmd.kind = "CMD_SUBMIT" /\ cmd.length > MaxTransfer -> Failed("SOCKET_ERR")
             [] cmd.kind = "CMD_SUBMIT" /\ cmd.length <= MaxTransfer ->
                  IF Len(stream) < needs THEN Short(TRUE)
                  ELSE [result |-> "submit", rest |-> SubSeq(stream, needs + 1, Len(stream)),
                        allocated |-> TRUE]
             [] OTHER -> Failed("UNKNOWN_CMD")

\* The operations of a connection before it imports a device.
OpRequests == {[version |-> v, op |-> o] : v \in {0, 273, 1}, o \in {"devlist", "import", "other"}}
get_op_from_socket(req) ==
  IF req.version \notin {0, 273} THEN "UNKNOWN_VERSION"
  ELSE IF req.op = "other" THEN "UNKNOWN_CMD" ELSE req.op

\* Their replies: a list of devices, each with its interfaces, or the device
\* that was imported, without them.  A device is its number of interfaces.
Device(n) == [kind |-> "device", interfaces |-> n]
to_bytes_with_interfaces(n) == <<Device(n)>> \o units([kind |-> "interface"], n)
OpRepDevlist(devices) ==
  <<[kind |-> "OP_REP_DEVLIST", count |-> Len(devices)]>>
    \o FlattenSeq([k \in DOMAIN devices |-> to_bytes_with_interfaces(devices[k])])
OpRepImport(status, n) ==
  <<[kind |-> "OP_REP_IMPORT", status |-> status]>>
    \o (IF status = "OK" THEN <<Device(n)>> ELSE <<>>)

\* What usbip's tools read of a reply: as much as its header and the devices
\* in it announce.
ClientReadsOp(reply) ==
  CASE Head(reply).kind = "OP_REP_IMPORT" -> IF Head(reply).status = "OK" THEN 2 ELSE 1
    [] Head(reply).kind = "OP_REP_DEVLIST" ->
         LET After(k) == IF k > Len(reply) THEN k ELSE k + 1 + reply[k].interfaces
             Skip[n \in Nat] == IF n = 0 THEN 2 ELSE After(Skip[n - 1])
         IN  Skip[Head(reply).count] - 1
=============================================================================
