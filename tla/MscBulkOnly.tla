----------------------------- MODULE MscBulkOnly -----------------------------
(***************************************************************************)
(* MscBulkOnlyHandler over RawImageBackend: the bulk-only transport of a   *)
(* USB disk.  Only the receiver thread runs it: what makes it hard is the  *)
(* long protocol, in which every transfer is read in the light of the ones *)
(* before, also of those of an earlier session.  The host follows          *)
(* the protocol but may leave at any point.                                *)
(*                                                                         *)
(* Data is counted in units, BlockSize of them to a block.  A parameter    *)
(* list of UNMAP is a header unit and two units (lba, count) a descriptor. *)
(***************************************************************************)
EXTENDS Naturals, Sequences

CONSTANTS
  Blocks, BlockSize,  \* geometry of the image
  Values,             \* what the host writes
  MscSessions,        \* bound: connections
  MaxCbws         \* bound: commands
ASSUME MscAssumption == /\ {Blocks, BlockSize} \subseteq Nat \ {0}
                        /\ {MscSessions, MaxCbws} \subseteq Nat
                        /\ Values \subseteq Nat \ {0}

Units == Blocks * BlockSize
CbwUnit == 99          \* a unit that is a command block, not data
InfoUnit == 98         \* a unit of sense, inquiry, mode or capacity data
InfoLength == 2

VARIABLES
  state_, staging_data_, staging_offset_,
  current_tag,      \* current_cbw_.dCBWTag
  command_failed_, write_lba_, write_count_, data_out_unmap_, read_only_,
  disk,             \* [0 .. Units - 1 -> value], the mapped image
  msc_session, msc_sessions,
  host,             \* what the host is doing: phase, tag, cmd, todo, got, ok
  shadow,           \* the disk as the answers let the host believe it is
  torn              \* a session ended in the middle of a command

mscStage == <<staging_data_, staging_offset_>>
mscPlan == <<write_lba_, write_count_, data_out_unmap_>>
mscLink == <<msc_session, msc_sessions, torn>>
mscVars == <<state_, mscStage, current_tag, command_failed_, mscPlan, read_only_, disk,
             mscLink, host, shadow>>

ScsiCommands ==
  [op : {"no_data", "unsupported"}, lba : {0}, count : {0}, len : {0}]
  \cup [op : {"info"}, lba : {0}, count : {0}, len : 0 .. InfoLength + 1]
  \cup [op : {"read", "write"}, lba : 0 .. Blocks - 1, count : 0 .. 2, len : Values]
  \cup [op : {"unmap"}, lba : 0 .. Blocks - 1, count : {0, 1}, len : {0}]

HostIdle == [phase |-> "idle", tag |-> 0, cmd |-> <<>>, todo |-> <<>>, got |-> <<>>,
             ok |-> FALSE]
MscInit ==
  /\ state_ = "Idle" /\ staging_data_ = <<>> /\ staging_offset_ = 0
  /\ current_tag = 0 /\ command_failed_ = FALSE
  /\ write_lba_ = 0 /\ write_count_ = 0 /\ data_out_unmap_ = FALSE
  /\ read_only_ \in BOOLEAN
  /\ disk = [i \in 0 .. Units - 1 |-> 0] /\ shadow = disk
  /\ msc_session = FALSE /\ msc_sessions = 0 /\ torn = FALSE
  /\ host = HostIdle

MscTypeOK ==
  /\ state_ \in {"Idle", "DataIn", "DataOut", "Status"}
  /\ staging_offset_ <= Len(staging_data_)
  /\ host.phase \in {"idle", "out", "in"}

-----------------------------------------------------------------------------
(* RawImageBackend *)

backend_read(lba, count) == [i \in 1 .. count * BlockSize |-> disk[lba * BlockSize + i - 1]]
backend_write(d, lba, count, data) ==
  [i \in DOMAIN d |-> IF i \in lba * BlockSize .. (lba + count) * BlockSize - 1
                      THEN data[i - lba * BlockSize + 1] ELSE d[i]]
punch_hole(d, lba, count) == backend_write(d, lba, count, [i \in 1 .. count * BlockSize |-> 0])

\* 0 blocks means 256.
BlockCount(c) == IF c.count = 0 THEN 256 ELSE c.count
InRange(c) == c.lba + BlockCount(c) <= Blocks
\* UNMAP: no descriptor when count is 0, else one; count is never 0 in one.
ParameterLength(c) == IF c.count = 0 THEN 0 ELSE 3

\* What a host sends after the CBW, whatever the device made of that.
DataToSend(c) ==
  CASE c.op = "write" -> [i \in 1 .. BlockCount(c) * BlockSize |-> c.len]
    [] c.op = "unmap" /\ c.count > 0 -> <<0, c.lba, c.count>>
    [] OTHER -> <<>>

-----------------------------------------------------------------------------
(* handle_bulk_transfer, OUT *)

Sends(c) == [phase |-> IF DataToSend(c) = <<>> THEN "in" ELSE "out", tag |-> host.tag + 1,
             cmd |-> <<c>>, todo |-> DataToSend(c), got |-> <<>>, ok |-> FALSE]
NewCommand == msc_session /\ host.phase = "idle" /\ host.tag < MaxCbws

Staged(data) == state_' = "DataIn" /\ staging_data_' = data /\ staging_offset_' = 0
Collect == state_' = "DataOut" /\ staging_data_' = <<>> /\ staging_offset_' = 0

\* do_cbw: a command without a data phase, refused or not, goes on to Status.
do_cbw_Status(c, failed) ==
  /\ state_' = "Status" /\ command_failed_' = failed
  /\ UNCHANGED <<mscStage, mscPlan>>
\* Variant: a refused WRITE or READ is reported as done
do_cbw_NoData_Unreported(c) ==
  \/ c.op = "no_data" /\ do_cbw_Status(c, FALSE)
  \/ c.op = "unsupported" /\ do_cbw_Status(c, TRUE)
  \/ c.op = "unmap" /\ do_cbw_Status(c, read_only_) /\ (read_only_ \/ ParameterLength(c) = 0)
  \/ c.op = "read" /\ ~InRange(c) /\ do_cbw_Status(c, FALSE)
  \/ c.op = "write" /\ (~InRange(c) \/ read_only_) /\ do_cbw_Status(c, FALSE)
do_cbw_NoData(c) ==
  \/ c.op = "no_data" /\ do_cbw_Status(c, FALSE)
  \/ c.op = "unsupported" /\ do_cbw_Status(c, TRUE)
  \/ c.op = "unmap" /\ do_cbw_Status(c, read_only_) /\ (read_only_ \/ ParameterLength(c) = 0)
  \/ c.op = "read" /\ ~InRange(c) /\ do_cbw_Status(c, TRUE)
  \/ c.op = "write" /\ (~InRange(c) \/ read_only_) /\ do_cbw_Status(c, TRUE)
do_cbw_In(c) ==
  /\ \/ /\ c.op = "info"
        /\ Staged([i \in 1 .. (IF c.len < InfoLength THEN c.len ELSE InfoLength) |-> InfoUnit])
     \/ /\ c.op = "read" /\ InRange(c)
        /\ Staged(backend_read(c.lba, BlockCount(c)))
  /\ UNCHANGED <<command_failed_, mscPlan>>
do_cbw_Out(c) ==
  /\ ~read_only_ /\ Collect
  /\ \/ /\ c.op = "write" /\ InRange(c)
        /\ write_lba_' = c.lba /\ write_count_' = BlockCount(c) /\ UNCHANGED data_out_unmap_
     \/ /\ c.op = "unmap" /\ ParameterLength(c) > 0
        /\ write_count_' = ParameterLength(c) /\ data_out_unmap_' = TRUE
        /\ UNCHANGED write_lba_
  /\ UNCHANGED command_failed_

bulk_out_Idle(c) ==
  /\ NewCommand /\ state_ = "Idle"
  /\ current_tag' = host.tag + 1 /\ host' = Sends(c)
  /\ do_cbw_NoData(c) \/ do_cbw_In(c) \/ do_cbw_Out(c)
  /\ UNCHANGED <<read_only_, disk, mscLink, shadow>>

Complete(data) ==
  Len(data) >= IF data_out_unmap_ THEN write_count_ ELSE write_count_ * BlockSize

\* DataOut: collect rx; the last of it makes the change.  (A descriptor beyond
\* the image, which no legal host sends, is undefined: memset outside the mapping.)
bulk_out_DataOut(rx) ==
  /\ state_ = "DataOut"
  /\ LET data == staging_data_ \o rx
     IN  IF Complete(data)
         THEN /\ disk' = IF ~data_out_unmap_
                         THEN backend_write(disk, write_lba_, write_count_, data)
                         ELSE IF Len(data) >= 3 /\ data[2] + data[3] <= Blocks
                              THEN punch_hole(disk, data[2], data[3]) ELSE disk
              /\ staging_data_' = <<>> /\ data_out_unmap_' = FALSE
              /\ state_' = "Status"
         ELSE staging_data_' = data /\ UNCHANGED <<disk, data_out_unmap_, state_>>
  /\ UNCHANGED <<staging_offset_, current_tag, command_failed_, write_lba_, write_count_,
                 read_only_, mscLink, shadow>>

bulk_out_Data(n) ==
  /\ msc_session /\ host.phase = "out" /\ n <= Len(host.todo)
  /\ bulk_out_DataOut(SubSeq(host.todo, 1, n))
  /\ host' = [host EXCEPT !.todo = SubSeq(@, n + 1, Len(@)),
                          !.phase = IF n = Len(host.todo) THEN "in" ELSE "out"]

\* Left over from an earlier session: the device takes the CBW for data.
bulk_out_CbwAsData(c) ==
  /\ NewCommand /\ host' = Sends(c) /\ bulk_out_DataOut(<<CbwUnit>>)

\* A stalled data phase makes the host ask for the status, a stalled CBW makes
\* it give the command up.
bulk_out_Stall(c) ==
  /\ msc_session /\ state_ \in {"DataIn", "Status"}
  /\ \/ NewCommand /\ host' = [Sends(c) EXCEPT !.phase = "idle", !.cmd = <<>>]
     \/ host.phase = "out" /\ c = host.cmd[1] /\ host' = [host EXCEPT !.phase = "in"]
  /\ UNCHANGED <<state_, mscStage, current_tag, command_failed_, mscPlan, read_only_, disk,
                 mscLink, shadow>>

-----------------------------------------------------------------------------
(* handle_bulk_transfer, IN *)

bulk_in_DataIn(n) ==
  /\ msc_session /\ host.phase = "in" /\ state_ = "DataIn"
  /\ LET rest == Len(staging_data_) - staging_offset_
         len  == IF n < rest THEN n ELSE rest
         done == len = rest
     IN  /\ host' = [host EXCEPT !.got = @ \o
                       SubSeq(staging_data_, staging_offset_ + 1, staging_offset_ + len)]
         /\ staging_offset_' = IF done THEN 0 ELSE staging_offset_ + len
         /\ staging_data_' = IF done THEN <<>> ELSE staging_data_
         /\ state_' = IF done THEN "Status" ELSE state_
  /\ UNCHANGED <<current_tag, command_failed_, mscPlan, read_only_, disk, mscLink, shadow>>

\* What a command that the device reports as done has done.
Effect(c, d) ==
  CASE c.op = "write" -> backend_write(d, c.lba, BlockCount(c), DataToSend(c))
    [] c.op = "unmap" /\ c.count > 0 -> punch_hole(d, c.lba, c.count)
    [] OTHER -> d

\* The CSW; a host that finds another tag than its own counts the command failed.
bulk_in_Status ==
  /\ msc_session /\ host.phase = "in" /\ state_ = "Status"
  /\ state_' = "Idle" /\ command_failed_' = FALSE
  /\ LET ok == ~command_failed_ /\ current_tag = host.tag
     IN  /\ host' = [host EXCEPT !.phase = "idle", !.ok = ok, !.todo = <<>>]
         /\ shadow' = IF ok THEN Effect(host.cmd[1], shadow) ELSE shadow
  /\ UNCHANGED <<mscStage, current_tag, mscPlan, read_only_, disk, mscLink>>

bulk_in_Stall ==
  /\ msc_session /\ host.phase = "in" /\ state_ \in {"Idle", "DataOut"}
  /\ host' = [host EXCEPT !.phase = "idle", !.cmd = <<>>]
  /\ UNCHANGED <<state_, mscStage, current_tag, command_failed_, mscPlan, read_only_, disk,
                 mscLink, shadow>>

\* A session begins and ends; nothing of the transport's state is touched.
msc_on_new_connection ==
  /\ ~msc_session /\ msc_sessions < MscSessions
  /\ msc_session' = TRUE /\ msc_sessions' = msc_sessions + 1
  /\ host' = [HostIdle EXCEPT !.tag = host.tag] /\ shadow' = disk
  /\ UNCHANGED <<state_, mscStage, current_tag, command_failed_, mscPlan, read_only_, disk,
                 torn>>
msc_on_disconnection ==
  /\ msc_session /\ msc_session' = FALSE
  /\ torn' = (torn \/ host.phase # "idle")
  /\ UNCHANGED <<state_, mscStage, current_tag, command_failed_, mscPlan, read_only_, disk,
                 msc_sessions, host, shadow>>

MscNext ==
  \/ \E c \in ScsiCommands : bulk_out_Idle(c) \/ bulk_out_CbwAsData(c) \/ bulk_out_Stall(c)
  \/ \E n \in 1 .. 2 * BlockSize : bulk_out_Data(n) \/ bulk_in_DataIn(n)
  \/ bulk_in_Status \/ bulk_in_Stall
  \/ msc_on_new_connection \/ msc_on_disconnection
MscSpec == MscInit /\ [][MscNext]_mscVars

-----------------------------------------------------------------------------
Answered == msc_session /\ host.phase = "idle" /\ host.cmd # <<>>

\* As long as no session broke off in a command: once a command is answered,
\* the image is exactly what the answers so far imply (a failed command changed
\* nothing), and a successful READ named blocks of the image and returned them.
MscDoesWhatItSays ==
  Answered /\ ~torn =>
    /\ disk = shadow
    /\ host.ok /\ host.cmd[1].op = "read" =>
         LET c == host.cmd[1]
         IN  InRange(c) /\ host.got = backend_read(c.lba, BlockCount(c))

\* As long as no session broke off: device and host agree on the phase, so no
\* legal host is stalled out of its command.
MscInStep ==
  msc_session /\ ~torn =>
    /\ state_ = "Idle" <=> host.phase = "idle"
    /\ state_ = "DataOut" =>
         host.phase = "out" /\ Complete(staging_data_ \o host.todo)
                            /\ ~Complete(staging_data_)

\* What is written to the image is data of WRITE commands.  Refuted: state_ and
\* staging_data_ outlive the session, and the CBWs of the next one are written.
MscWritesOnlyData == \A i \in DOMAIN disk : disk[i] # CbwUnit
=============================================================================
