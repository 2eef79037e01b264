--------------------------- MODULE UnlinkContract ---------------------------
(***************************************************************************)
(* What a device handler promises the client about CMD_SUBMIT, CMD_UNLINK  *)
(* and their replies, as DeviceHandler.h states it for every               *)
(* implementation of handle_unlink_seqnum: one RET_UNLINK for a CMD_UNLINK,*)
(* at most one RET_SUBMIT for a CMD_SUBMIT, and RET_SUBMIT never after     *)
(* RET_UNLINK.                                                             *)
(***************************************************************************)
EXTENDS Sequences

CONSTANT Urbs

VARIABLES
  submitted,  \* the URBs whose CMD_SUBMIT was handed to the handler
  unlinks,    \* the URBs whose CMD_UNLINK was
  sent        \* the kinds of the replies to each URB, in order

contractVars == <<submitted, unlinks, sent>>

Init ==
  /\ submitted = {} /\ unlinks = {}
  /\ sent = [u \in Urbs |-> <<>>]

\* A command may be answered at once or later.
Submit(u) ==
  /\ u \notin submitted
  /\ submitted' = submitted \cup {u}
  /\ sent' \in {sent, [sent EXCEPT ![u] = <<"RET_SUBMIT">>]}
  /\ UNCHANGED unlinks

\* Only states 1 and 2 (no result was sent) lead to a lone RET_UNLINK.
WithRetUnlink(u) ==
  [sent EXCEPT ![u] = IF @ = <<>> THEN <<"RET_UNLINK">> ELSE <<"RET_SUBMIT", "RET_UNLINK">>]
NotUnlinkedYet(u) == sent[u] \in {<<>>, <<"RET_SUBMIT">>}

Unlink(u) ==
  /\ u \in submitted /\ u \notin unlinks
  /\ unlinks' = unlinks \cup {u}
  /\ \/ UNCHANGED sent
     \/ NotUnlinkedYet(u) /\ sent' = WithRetUnlink(u)
  /\ UNCHANGED submitted

SendResult(u) ==
  /\ u \in submitted /\ sent[u] = <<>>
  /\ sent' = [sent EXCEPT ![u] = <<"RET_SUBMIT">>]
  /\ UNCHANGED <<submitted, unlinks>>

SendUnlinked(u) ==
  /\ u \in unlinks /\ NotUnlinkedYet(u)
  /\ sent' = WithRetUnlink(u)
  /\ UNCHANGED <<submitted, unlinks>>

Next == \E u \in Urbs : Submit(u) \/ Unlink(u) \/ SendResult(u) \/ SendUnlinked(u)

Spec == Init /\ [][Next]_contractVars
=============================================================================
