-------------------------- MODULE EndpointRequests --------------------------
(***************************************************************************)
(* EndpointRequestQueue (VirtualInterfaceHandler.h): the IN requests that  *)
(* wait for data, one queue per endpoint.  A pure data structure: whoever  *)
(* uses it holds endpoint_requests_mutex_.                                 *)
(***************************************************************************)
EXTENDS Naturals, Sequences, SequencesExt

no_requests(Eps) == [ep \in Eps |-> <<>>]
enqueue(queues, ep, request) == [queues EXCEPT ![ep] = Append(@, request)]
empty(queues, ep) == queues[ep] = <<>>
waiting(queues) == {ep \in DOMAIN queues : ~empty(queues, ep)}

\* dequeue_any takes the head of whichever queue the hash map shows first.
dequeue_any(queues, ep) == [queues EXCEPT ![ep] = Tail(@)]

\* Erases the first request with this seqnum, in whichever queue has one.
cancel_by_seqnum(queues, seqnum) ==
  LET found == {ep \in DOMAIN queues : Contains(queues[ep], seqnum)}
  IN  IF found = {} THEN queues
      ELSE [queues EXCEPT ![CHOOSE ep \in found : TRUE] = RemoveFirst(@, seqnum)]
=============================================================================
