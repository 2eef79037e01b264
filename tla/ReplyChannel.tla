---------------------------- MODULE ReplyChannel ----------------------------
(***************************************************************************)
(* What Session::sender promises its producers: replies leave in the order *)
(* in which they were enqueued, each at most once and none skipped, until  *)
(* the channel is closed.  Reply number k is the k-th one enqueued.        *)
(***************************************************************************)
EXTENDS Naturals, Sequences

VARIABLES accepted, delivered, closed
channelVars == <<accepted, delivered, closed>>

Init == accepted = 0 /\ delivered = <<>> /\ closed = FALSE

Accept == accepted' = accepted + 1 /\ UNCHANGED <<delivered, closed>>

Deliver ==
  /\ ~closed /\ Len(delivered) < accepted
  /\ delivered' = Append(delivered, Len(delivered) + 1)
  /\ UNCHANGED <<accepted, closed>>

Close == ~closed /\ closed' = TRUE /\ UNCHANGED <<accepted, delivered>>

Next == Accept \/ Deliver \/ Close
Spec == Init /\ [][Next]_channelVars
=============================================================================
