--------------------------- MODULE SessionSender ---------------------------
(***************************************************************************)
(* The reply path of a Session: handlers enqueue replies into write_buffer *)
(* from any thread, raise has_data and notify; the sender thread swaps     *)
(* write_buffer into read_buffer under swap_mutex and writes to the socket;*)
(* the receiver thread produces replies too, ends the session and joins    *)
(* the sender.                                                             *)
(*                                                                         *)
(* has_data and should_immediately_stop are atomics written without        *)
(* swap_mutex, and notify_one is called without it: a step ends before and *)
(* after each of them.  Replies are numbered in the order of emplace_back. *)
(* Producers stop when on_disconnection has returned, as DeviceHandler.h   *)
(* demands of every handler (Esp32DeviceHandler shows where it is not so). *)
(***************************************************************************)
EXTENDS Integers, Sequences, Functions

CONSTANTS
  Producers,  \* the threads whose callbacks produce replies
  MaxReplies  \* bound: how many replies are produced

ASSUME RepliesAssumption == MaxReplies \in Nat

VARIABLES
  ppc,          \* where each producer is
  rpc,          \* where the receiver thread is
  spc,          \* where the sender thread is
  write_buffer,
  read_buffer,
  has_data,
  should_immediately_stop,
  inHand,       \* the reply sender_get_data returned, if any: a sequence
  enqueued,     \* history: how many replies were enqueued
  sent          \* history: what to_socket wrote

vars == <<ppc, rpc, spc, write_buffer, read_buffer, has_data,
          should_immediately_stop, inHand, enqueued, sent>>

TypeOK ==
  /\ ppc \in [Producers -> {"idle", "flag", "notify"}]
  /\ rpc \in {"read", "flag", "notify", "direct", "stopNotify", "join", "joined"}
  /\ spc \in {"loop", "check", "block", "wait", "swap", "reset", "got", "stopcheck",
              "send", "exit"}
  /\ write_buffer \in Seq(1 .. MaxReplies)
  /\ read_buffer \in Seq(1 .. MaxReplies)
  /\ has_data \in BOOLEAN
  /\ should_immediately_stop \in BOOLEAN
  /\ inHand \in Seq(1 .. MaxReplies) /\ Len(inHand) <= 1
  /\ enqueued \in 0 .. MaxReplies
  /\ sent \in Seq(1 .. MaxReplies)

Init ==
  /\ ppc = [p \in Producers |-> "idle"]
  /\ rpc = "read" /\ spc = "loop"
  /\ write_buffer = <<>> /\ read_buffer = <<>> /\ inHand = <<>>
  /\ has_data = FALSE /\ should_immediately_stop = FALSE
  /\ enqueued = 0 /\ sent = <<>>

-----------------------------------------------------------------------------
(* Producers.                                                              *)

\* The sender holds swap_mutex from the predicate until the wait releases it,
\* and from the predicate through the swap.
SwapMutexFree == spc \notin {"block", "swap", "reset"}

\* enqueue_ret_submit, enqueue_ret_unlink.
enqueue_ret ==
  /\ enqueued < MaxReplies /\ SwapMutexFree
  /\ enqueued' = enqueued + 1
  /\ write_buffer' = Append(write_buffer, enqueued + 1)

\* notify_one wakes the sender if it is among the waiters already.
notify_one == spc' = IF spc = "wait" THEN "check" ELSE spc

\* A callback may enqueue several replies before it wakes the sender once.
Produce(p) ==
  /\ ppc[p] \in {"idle", "flag"} /\ rpc \in {"read", "flag", "notify", "direct"}
  /\ enqueue_ret
  /\ ppc' = [ppc EXCEPT ![p] = "flag"]
  /\ UNCHANGED <<rpc, spc, read_buffer, has_data, should_immediately_stop, inHand,
                 sent>>

\* Variant: the waiter is notified without has_data being raised.
wakeup_sender_Flag_Missing(p) ==
  /\ ppc[p] = "flag"
  /\ ppc' = [ppc EXCEPT ![p] = "notify"]
  /\ UNCHANGED <<rpc, spc, write_buffer, read_buffer, has_data,
                 should_immediately_stop, inHand, enqueued, sent>>

wakeup_sender_Flag(p) ==
  /\ ppc[p] = "flag"
  /\ has_data' = TRUE
  /\ ppc' = [ppc EXCEPT ![p] = "notify"]
  /\ UNCHANGED <<rpc, spc, write_buffer, read_buffer, should_immediately_stop,
                 inHand, enqueued, sent>>

wakeup_sender_Notify(p) ==
  /\ ppc[p] = "notify"
  /\ notify_one
  /\ ppc' = [ppc EXCEPT ![p] = "idle"]
  /\ UNCHANGED <<rpc, write_buffer, read_buffer, has_data, should_immediately_stop,
                 inHand, enqueued, sent>>

-----------------------------------------------------------------------------
(* The receiver thread.                                                    *)

\* A command whose reply is submitted on the spot (submit_ret_submit, _unlink).
ReceiverReplies ==
  /\ rpc = "read" /\ ~should_immediately_stop
  /\ enqueue_ret
  /\ rpc' = "flag"
  /\ UNCHANGED <<ppc, spc, read_buffer, has_data, should_immediately_stop, inHand,
                 sent>>

ReceiverFlag ==
  /\ rpc = "flag"
  /\ has_data' = TRUE
  /\ rpc' = "notify"
  /\ UNCHANGED <<ppc, spc, write_buffer, read_buffer, should_immediately_stop,
                 inHand, enqueued, sent>>

ReceiverNotify ==
  /\ rpc = "notify"
  /\ notify_one
  /\ rpc' = "read"
  /\ UNCHANGED <<ppc, write_buffer, read_buffer, has_data, should_immediately_stop,
                 inHand, enqueued, sent>>

\* A CMD_SUBMIT to an unknown endpoint: the reply goes to the socket directly.
ReceiverDirectWrite ==
  /\ rpc = "read" /\ ~should_immediately_stop
  /\ rpc' = "direct"
  /\ UNCHANGED <<ppc, spc, write_buffer, read_buffer, has_data,
                 should_immediately_stop, inHand, enqueued, sent>>

ReceiverDirectDone ==
  /\ rpc = "direct"
  /\ rpc' = "read"
  /\ UNCHANGED <<ppc, spc, write_buffer, read_buffer, has_data,
                 should_immediately_stop, inHand, enqueued, sent>>

\* immediately_stop from another thread, or receive_urb returned an error.
immediately_stop ==
  /\ rpc = "read" /\ ~should_immediately_stop
  /\ should_immediately_stop' = TRUE
  /\ UNCHANGED <<ppc, rpc, spc, write_buffer, read_buffer, has_data, inHand,
                 enqueued, sent>>

\* The read failed or the stop flag was seen: on_disconnection has returned (no
\* callback produces any more), the flag is set ...
ReceiverEnds ==
  /\ rpc = "read" /\ \A p \in Producers : ppc[p] = "idle"
  /\ should_immediately_stop' = TRUE
  /\ rpc' = "stopNotify"
  /\ UNCHANGED <<ppc, spc, write_buffer, read_buffer, has_data, inHand, enqueued,
                 sent>>

\* ... and the sender is notified, without swap_mutex.
ReceiverStopNotify ==
  /\ rpc = "stopNotify"
  /\ notify_one
  /\ rpc' = "join"
  /\ UNCHANGED <<ppc, write_buffer, read_buffer, has_data, should_immediately_stop,
                 inHand, enqueued, sent>>

ReceiverJoins ==
  /\ rpc = "join" /\ spc = "exit"
  /\ rpc' = "joined"
  /\ write_buffer' = <<>> /\ read_buffer' = <<>>
  /\ UNCHANGED <<ppc, spc, has_data, should_immediately_stop, inHand, enqueued, sent>>

-----------------------------------------------------------------------------
(* The sender thread.                                                      *)

senderOnly == <<ppc, rpc, should_immediately_stop, enqueued>>
buffers    == <<write_buffer, read_buffer, has_data>>

sender_Loop ==
  /\ spc = "loop"
  /\ spc' = IF should_immediately_stop THEN "exit"
            ELSE IF read_buffer = <<>> THEN "check" ELSE "got"
  /\ UNCHANGED <<senderOnly, buffers, inHand, sent>>

\* Variant: the predicate does not look at the stop flag.
sender_get_data_Check_NoStop ==
  /\ spc = "check"
  /\ spc' = IF has_data THEN "swap" ELSE "block"
  /\ UNCHANGED <<senderOnly, buffers, inHand, sent>>

sender_get_data_Check ==
  /\ spc = "check"
  /\ spc' = IF has_data \/ should_immediately_stop THEN "swap" ELSE "block"
  /\ UNCHANGED <<senderOnly, buffers, inHand, sent>>

sender_get_data_Block ==
  /\ spc = "block"
  /\ spc' = "wait"
  /\ UNCHANGED <<senderOnly, buffers, inHand, sent>>

SpuriousWakeup ==
  /\ spc = "wait"
  /\ spc' = "check"
  /\ UNCHANGED <<senderOnly, buffers, inHand, sent>>

\* Variant: write_buffer is copied and not emptied.
sender_get_data_Swap_Copy ==
  /\ spc = "swap"
  /\ read_buffer' = write_buffer
  /\ spc' = IF write_buffer # <<>> THEN "reset" ELSE "got"
  /\ UNCHANGED <<senderOnly, write_buffer, has_data, inHand, sent>>

sender_get_data_Swap ==
  /\ spc = "swap"
  /\ IF write_buffer # <<>>
     THEN /\ read_buffer' = write_buffer /\ write_buffer' = read_buffer
          /\ spc' = "reset"
     ELSE UNCHANGED <<write_buffer, read_buffer>> /\ spc' = "got"
  /\ UNCHANGED <<senderOnly, has_data, inHand, sent>>

sender_get_data_Reset ==
  /\ spc = "reset"
  /\ has_data' = FALSE
  /\ spc' = "got"
  /\ UNCHANGED <<senderOnly, write_buffer, read_buffer, inHand, sent>>

\* Variant: the reply is taken from the back.
sender_get_data_Got_Back ==
  /\ spc = "got"
  /\ IF read_buffer = <<>>
     THEN spc' = "loop" /\ UNCHANGED <<read_buffer, inHand>>
     ELSE /\ inHand' = <<read_buffer[Len(read_buffer)]>>
          /\ read_buffer' = SubSeq(read_buffer, 1, Len(read_buffer) - 1)
          /\ spc' = "stopcheck"
  /\ UNCHANGED <<senderOnly, write_buffer, has_data, sent>>

\* nullopt sends the sender round its loop.
sender_get_data_Got ==
  /\ spc = "got"
  /\ IF read_buffer = <<>>
     THEN spc' = "loop" /\ UNCHANGED <<read_buffer, inHand>>
     ELSE /\ inHand' = <<Head(read_buffer)>>
          /\ read_buffer' = Tail(read_buffer)
          /\ spc' = "stopcheck"
  /\ UNCHANGED <<senderOnly, write_buffer, has_data, sent>>

\* The stop flag is read again once there is something to send.
sender_StopCheck ==
  /\ spc = "stopcheck"
  /\ spc' = IF should_immediately_stop THEN "exit" ELSE "send"
  /\ UNCHANGED <<senderOnly, buffers, inHand, sent>>

\* to_socket returns: the reply is out, and the loop goes on ...
sender_Sent ==
  /\ spc = "send"
  /\ sent' = sent \o inHand /\ inHand' = <<>>
  /\ spc' = "loop"
  /\ UNCHANGED <<senderOnly, buffers>>

\* ... or it failed, and the sender ends alone.
sender_SendError ==
  /\ spc = "send"
  /\ spc' = "exit"
  /\ UNCHANGED <<senderOnly, buffers, inHand, sent>>

Sender ==
  \/ sender_Loop \/ sender_get_data_Check \/ sender_get_data_Block
  \/ sender_get_data_Swap \/ sender_get_data_Reset \/ sender_get_data_Got
  \/ sender_StopCheck \/ sender_Sent \/ sender_SendError
Wakeup(p) == wakeup_sender_Flag(p) \/ wakeup_sender_Notify(p)
ReceiverGoesOn ==
  \/ ReceiverFlag \/ ReceiverNotify \/ ReceiverDirectDone
  \/ ReceiverStopNotify \/ ReceiverJoins

Next ==
  \/ \E p \in Producers : Produce(p) \/ Wakeup(p)
  \/ ReceiverReplies \/ ReceiverDirectWrite \/ ReceiverEnds \/ ReceiverGoesOn
  \/ immediately_stop \/ Sender \/ SpuriousWakeup

Spec == Init /\ [][Next]_vars

\* Every thread that can run does; nobody is owed a spurious wake-up.
FairSpec ==
  /\ Spec
  /\ WF_vars(Sender) /\ WF_vars(ReceiverGoesOn)
  /\ \A p \in Producers : WF_vars(Wakeup(p))
  /\ WF_vars(should_immediately_stop /\ ReceiverEnds)

-----------------------------------------------------------------------------
(* Properties.                                                             *)

\* The buffers and the sender's hand hold exactly the replies that are not out
\* yet, in the order they were enqueued (Session.cpp:370): the two-buffer swap
\* neither loses, repeats nor reorders one, up to the join that drops the rest.
NothingLostOrReordered ==
  rpc # "joined" =>
    sent \o inHand \o read_buffer \o write_buffer = [k \in 1 .. enqueued |-> k]

\* Raising has_data (without swap_mutex) and clearing it (with it) cannot cross
\* so that replies wait under a lowered flag: if write_buffer has something and
\* the flag is down, some thread is still about to raise it.
FlagCoversQueue ==
  write_buffer # <<>> =>
    \/ has_data \/ rpc = "flag"
    \/ \E p \in Producers : ppc[p] = "flag"

\* The reply path implements the FIFO channel.
Channel == INSTANCE ReplyChannel WITH
  accepted <- enqueued, delivered <- sent, closed <- spc = "exit"
ImplementsChannel == Channel!Spec

\* When the receiver is about to notify a stopping sender, only one position can
\* go wrong: between the predicate and the wait.  From every other one, asleep or
\* awake, with or without replies left, the sender ends and the join returns.
EndsUnlessInWindow == (rpc = "stopNotify" /\ spc # "block") ~> (rpc = "joined")

\* Some thread has notify_one ahead of it.
Notifying ==
  rpc \in {"notify", "stopNotify"} \/ \E p \in Producers : ppc[p] = "notify"

\* The sender is asleep although there is data or the receiver is joining it, and
\* nobody is about to notify.
Overslept == spc = "wait" /\ (has_data \/ rpc = "join") /\ ~Notifying

\* Of all the unlocked stores and notifications, one position alone can leave it
\* so: the sender, past its predicate, joins the waiters too late.
OversleepsInWindowOnly == [][Overslept' => Overslept \/ sender_get_data_Block]_vars

\* Session.h:57, "wake the sender thread": an enqueued reply is sent.
ReplyIsSent ==
  \A k \in 1 .. MaxReplies :
    (enqueued >= k) ~> (k \in Range(sent) \/ should_immediately_stop \/ spc = "exit")

\* Session.cpp:384-385, "go back and wait": with nothing to send the sender
\* comes to rest.
IdleSenderWaits ==
  (enqueued = MaxReplies /\ write_buffer = <<>> /\ read_buffer = <<>>)
     ~> (spc \in {"wait", "exit"})

\* The session ends: the receiver's join returns.
SessionEnds == rpc = "join" ~> rpc = "joined"

\* Session.cpp:370-371: all replies go through the one queue, so only the sender
\* writes to the socket.
OneWriter == ~(rpc = "direct" /\ spc = "send")
=============================================================================
