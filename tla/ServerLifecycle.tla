-------------------------- MODULE ServerLifecycle --------------------------
(***************************************************************************)
(* Server::start, the accept coroutine on the network thread, the session  *)
(* threads it starts, their removal, and Server::stop on the owner's       *)
(* thread.  One client makes one connection and gets one Session.          *)
(*                                                                         *)
(* What a session does between its first read and its end is one state     *)
(* ("parse", "transfer"): it ends when its socket is shut down or the      *)
(* client has gone, or after a request that is answered at once.  Every    *)
(* access to the session list is under session_list_mutex, and nothing     *)
(* blocks inside it, so each such block is one step.                       *)
(*                                                                         *)
(* The list holds weak pointers.  An entry expires when the coroutine dies *)
(* before it has run its session: this is the entry it appended last, and  *)
(* remove_session, which clears expired entries on its way, stops at the   *)
(* entry of its own session and so never comes to it.  The order of the    *)
(* list tells nothing else, so the list is a set.                          *)
(***************************************************************************)
EXTENDS FiniteSets

CONSTANTS Clients, NoClient

ASSUME ClientAssumption == NoClient \notin Clients

VARIABLES
  opc,        \* the owner's thread: before start, running, inside stop
  ipc,        \* the network thread: before or inside do_accept, do_accept over, or ended
  cur,        \* the client whose connection do_accept is working on
  sessions,   \* the session list
  expired,    \* the entries of the list whose session is no more
  thread,     \* each session's thread
  run_thread, \* the sessions whose member run_thread has been assigned
  shut,       \* the sessions whose socket has been shut down
  client,     \* what each client has done
  stopped,    \* asio_io_context.stop was called
  exited,     \* whether and how the process has ended
  signalled   \* history: the sessions that stop() told to stop

vars == <<opc, ipc, cur, sessions, expired, thread, run_thread, shut, client, stopped, exited,
          signalled>>
ownerVars   == <<opc, stopped, signalled>>
acceptVars  == <<ipc, cur, expired>>
sessionVars == <<thread, run_thread>>

InStop == {"wait", "close", "join", "returned"}

\* Types.
TypeOK ==
  /\ opc \in {"new", "running"} \cup InStop
  /\ ipc \in {"none", "listen", "accept", "list", "name", "spawn", "assign", "over", "ended"}
  /\ cur \in Clients \cup {NoClient}
  /\ sessions \subseteq Clients /\ expired \subseteq sessions
  /\ thread \in [Clients -> {"none", "parse", "transfer", "remove", "detach", "gone"}]
  /\ run_thread \subseteq Clients /\ shut \subseteq Clients
  /\ client \in [Clients -> {"away", "connecting", "connected", "closed", "reset",
                             "aborted"}]
  /\ stopped \in BOOLEAN
  /\ exited \in {"no", "exit", "terminate"}
  /\ signalled \subseteq Clients

Init ==
  /\ opc = "new" /\ ipc = "none" /\ cur = NoClient
  /\ sessions = {} /\ expired = {} /\ thread = [c \in Clients |-> "none"]
  /\ run_thread = {} /\ shut = {} /\ client = [c \in Clients |-> "away"]
  /\ stopped = FALSE /\ exited = "no" /\ signalled = {}

\* The process goes on.
Lives == exited = "no" /\ exited' = "no"

(***************************************************************************)
(* Clients.  A connection waits in the backlog until it is accepted; what  *)
(* is in it when the acceptor goes stays "connecting": it is never served. *)
(***************************************************************************)
ClientConnects(c) ==
  /\ Lives
  /\ client[c] = "away" /\ ipc \notin {"none", "listen", "ended"}
  /\ client' = [client EXCEPT ![c] = "connecting"]
  /\ UNCHANGED <<ownerVars, acceptVars, sessions, sessionVars, shut>>

\* A client hangs up, in order or with a reset.
ClientCloses(c) ==
  /\ Lives
  /\ client[c] \in {"connecting", "connected"}
  /\ \E how \in {"closed", "reset"} : client' = [client EXCEPT ![c] = how]
  /\ UNCHANGED <<ownerVars, acceptVars, sessions, sessionVars, shut>>

Gone(c) == client[c] \in {"closed", "reset"}

(***************************************************************************)
(* The network thread.                                                     *)
(***************************************************************************)
start ==
  /\ Lives
  /\ opc = "new" /\ opc' = "running" /\ ipc' = "listen"
  /\ UNCHANGED <<cur, expired, sessions, sessionVars, shut, client, stopped, signalled>>

\* The acceptor is set up and do_accept spawned.  A failure of open, bind or
\* listen is the one exception that start's handler sees: std::exit.
listen ==
  /\ exited = "no"
  /\ ipc = "listen"
  /\ \/ ipc' = "accept" /\ UNCHANGED exited
     \/ exited' = "exit" /\ UNCHANGED ipc
  /\ UNCHANGED <<ownerVars, cur, expired, sessions, sessionVars, shut, client>>

Pending(c) == c # cur /\ thread[c] = "none" /\ client[c] \in {"connecting", "closed", "reset"}

do_accept_Accepted(c) ==
  /\ Lives
  /\ ipc = "accept" /\ ~stopped /\ Pending(c)
  /\ ipc' = "list" /\ cur' = c
  /\ client' = [client EXCEPT ![c] = IF @ = "connecting" THEN "connected" ELSE @]
  /\ UNCHANGED <<ownerVars, expired, sessions, sessionVars, shut>>

\* Variant: an error of one accept ends the loop.
do_accept_Error_Breaks(c) ==
  /\ Lives
  /\ ipc = "accept" /\ ~stopped /\ Pending(c) /\ client[c] = "reset"
  /\ client' = [client EXCEPT ![c] = "aborted"] /\ ipc' = "over"
  /\ UNCHANGED <<ownerVars, cur, expired, sessions, sessionVars, shut>>

\* The accept fails, for a connection that was reset in the backlog.
do_accept_Error(c) ==
  /\ Lives
  /\ ipc = "accept" /\ ~stopped /\ Pending(c) /\ client[c] = "reset"
  /\ client' = [client EXCEPT ![c] = "aborted"]
  /\ UNCHANGED <<ownerVars, acceptVars, sessions, sessionVars, shut>>

do_accept_List ==
  /\ Lives
  /\ ipc = "list" /\ ipc' = "name"
  /\ sessions' = sessions \cup {cur}
  /\ UNCHANGED <<ownerVars, cur, expired, sessionVars, shut, client>>

\* remote_endpoint throws for a connection that was reset meanwhile.  The
\* coroutine was spawned detached: its exception is dropped, its local session
\* dies with it, and the entry of the list that it has just made expires.
do_accept_Name ==
  /\ Lives
  /\ ipc = "name"
  /\ IF client[cur] = "reset" THEN ipc' = "over" /\ expired' = {cur}
                              ELSE ipc' = "spawn" /\ UNCHANGED expired
  /\ UNCHANGED <<ownerVars, cur, sessions, sessionVars, shut, client>>

\* Session::run starts the thread, then assigns its handle.
run_Spawn ==
  /\ Lives
  /\ ipc = "spawn" /\ ipc' = "assign"
  /\ thread' = [thread EXCEPT ![cur] = "parse"]
  /\ UNCHANGED <<ownerVars, cur, expired, sessions, run_thread, shut, client>>

run_Assign ==
  /\ Lives
  /\ ipc = "assign" /\ ipc' = "accept" /\ cur' = NoClient
  /\ run_thread' = run_thread \cup {cur}
  /\ UNCHANGED <<ownerVars, expired, sessions, thread, shut, client>>

\* io_context.run returns at the next suspension of the coroutine when the
\* context is stopped, and for want of work when there is no coroutine left.
IoEnds ==
  /\ Lives
  /\ ipc = "over" \/ (ipc = "accept" /\ stopped)
  /\ ipc' = "ended"
  /\ UNCHANGED <<ownerVars, cur, expired, sessions, sessionVars, shut, client>>

(***************************************************************************)
(* The session threads.                                                    *)
(***************************************************************************)
\* parse_op answers a request: an import goes on to transfer_loop.
parse_op(c) ==
  /\ Lives
  /\ thread[c] = "parse"
  /\ \/ thread' = [thread EXCEPT ![c] = "transfer"] /\ UNCHANGED shut
     \/ thread' = [thread EXCEPT ![c] = "remove"] /\ shut' = shut \cup {c}
  /\ UNCHANGED <<ownerVars, acceptVars, sessions, run_thread, client>>

\* The device goes: trigger_session_stop.
trigger_session_stop(c) ==
  /\ Lives
  /\ thread[c] = "transfer" /\ shut' = shut \cup {c}
  /\ UNCHANGED <<ownerVars, acceptVars, sessions, sessionVars, client>>

\* Reads fail once the socket is shut down or the client has gone.
SessionEnds(c) ==
  /\ Lives
  /\ thread[c] \in {"parse", "transfer"} /\ (c \in shut \/ Gone(c))
  /\ thread' = [thread EXCEPT ![c] = "remove"] /\ shut' = shut \cup {c}
  /\ UNCHANGED <<ownerVars, acceptVars, sessions, run_thread, client>>

\* Variant: the first of the list is erased, whoever it is.
remove_session_First(c) ==
  /\ Lives
  /\ thread[c] = "remove" /\ thread' = [thread EXCEPT ![c] = "detach"]
  /\ sessions' = sessions \ {CHOOSE x \in sessions : TRUE}
  /\ UNCHANGED <<ownerVars, acceptVars, run_thread, shut, client>>

remove_session(c) ==
  /\ Lives
  /\ thread[c] = "remove" /\ thread' = [thread EXCEPT ![c] = "detach"]
  /\ sessions' = sessions \ {c}
  /\ UNCHANGED <<ownerVars, acceptVars, run_thread, shut, client>>

\* Detaching a handle that run has not assigned yet throws out of the thread.
run_Detach(c) ==
  /\ exited = "no"
  /\ thread[c] = "detach"
  /\ IF c \in run_thread
       THEN thread' = [thread EXCEPT ![c] = "gone"] /\ UNCHANGED exited
       ELSE exited' = "terminate" /\ UNCHANGED thread
  /\ UNCHANGED <<ownerVars, acceptVars, sessions, run_thread, shut, client>>

(***************************************************************************)
(* Server::stop.                                                           *)
(***************************************************************************)
\* Variant: the sessions are not told to stop.
stop_Sessions_None ==
  /\ Lives
  /\ opc = "running" /\ opc' = "wait" /\ signalled' = sessions \ expired
  /\ UNCHANGED <<acceptVars, sessions, sessionVars, shut, client, stopped>>

stop_Sessions ==
  /\ Lives
  /\ opc = "running" /\ opc' = "wait"
  /\ shut' = shut \cup (sessions \ expired) /\ signalled' = sessions \ expired
  /\ UNCHANGED <<acceptVars, sessions, sessionVars, client, stopped>>

\* Variant: does not wait for the sessions.
stop_Wait_None ==
  /\ Lives
  /\ opc = "wait" /\ opc' = "close"
  /\ UNCHANGED <<acceptVars, sessions, sessionVars, shut, client, stopped,
                 signalled>>

stop_Wait ==
  /\ Lives
  /\ opc = "wait" /\ sessions = {} /\ opc' = "close"
  /\ UNCHANGED <<acceptVars, sessions, sessionVars, shut, client, stopped,
                 signalled>>

stop_Context ==
  /\ Lives
  /\ opc = "close" /\ opc' = "join" /\ stopped' = TRUE
  /\ UNCHANGED <<acceptVars, sessions, sessionVars, shut, client, signalled>>

stop_Join ==
  /\ Lives
  /\ opc = "join" /\ ipc = "ended" /\ opc' = "returned"
  /\ UNCHANGED <<acceptVars, sessions, sessionVars, shut, client, stopped,
                 signalled>>

IoStep == \/ listen \/ IoEnds
          \/ \E c \in Clients : do_accept_Accepted(c) \/ do_accept_Error(c)
          \/ do_accept_List \/ do_accept_Name \/ run_Spawn \/ run_Assign
StopStep == stop_Wait \/ stop_Context \/ stop_Join
SessionStep(c) == SessionEnds(c) \/ remove_session(c) \/ run_Detach(c)

Next ==
  \/ start \/ IoStep \/ stop_Sessions \/ StopStep
  \/ \E c \in Clients : \/ ClientConnects(c) \/ ClientCloses(c) \/ parse_op(c)
                        \/ trigger_session_stop(c) \/ SessionStep(c)

Spec == Init /\ [][Next]_vars

\* The threads run when they can; that an answered session ends when its
\* socket does is what SessionSender checks (but for the window it shows).
\* Clients, devices and the decision to stop owe nothing.
FairSpec ==
  /\ Spec
  /\ WF_vars(IoStep) /\ WF_vars(StopStep)
  /\ \A c \in Clients : WF_vars(SessionStep(c))

(***************************************************************************)
(* Properties.                                                             *)
(***************************************************************************)

Working == {c \in Clients : thread[c] \in {"parse", "transfer", "remove"}}

\* The list holds the sessions that still work, the one do_accept is about to
\* run, and besides them at most one dead entry, which only a coroutine that is
\* over can have left: stop() can overlook no session that has a thread.
ListIsTheWorking ==
  /\ sessions = Working \cup (IF ipc \in {"name", "spawn"} THEN {cur} ELSE {}) \cup expired
  /\ expired # {} => expired = {cur} /\ ipc \in {"over", "ended"} /\ cur \notin Working

\* When stop() has waited, no session that it told to stop works any more:
\* what outlives it was accepted after stop() had gone through the list.
OnlyLateSurvive == opc \in InStop \ {"wait"} => Working \cap signalled = {}

\* What ends the service before stop() does: a failure to listen and a thread
\* whose handle run() has not assigned yet (it can only be the newest) end the
\* process; a reset between the accept and remote_endpoint ends the accepting
\* and leaves its dead entry in the list; nothing else ends either.
EndsInWindowsOnly ==
  /\ exited = "exit" => ipc = "listen"
  /\ exited = "terminate" => ipc = "assign" /\ thread[cur] = "detach"
  /\ ipc = "over" \/ (ipc = "ended" /\ ~stopped)
       => expired = {cur} /\ cur \in sessions /\ client[cur] = "reset"

\* stop() returns, unless a connection is accepted after it has gone through the
\* list, a dead entry keeps the list from ever being empty, or the process ends.
StopReturnsUnlessLate ==
  (opc = "wait") ~> (opc = "returned" \/ (sessions \ expired) \ signalled # {}
                     \/ expired # {} \/ exited # "no")

\* Every client that connects gets its session, unless it hangs up first, the
\* server is being stopped, the accepting was ended by the reset of another
\* client (expired), or the process ends.
EveryClientIsServed ==
  \A c \in Clients :
    (client[c] = "connecting") ~> (thread[c] # "none" \/ Gone(c) \/ client[c] = "aborted"
                                   \/ opc \in InStop \/ expired # {} \/ exited # "no")

\* Not true of the code, see the README: stop() returns (a client accepted
\* late, which does not hang up, keeps it waiting for ever).
StopReturns == (opc = "wait") ~> (opc = "returned" \/ expired # {} \/ exited # "no")

\* Not true of the code, see the README: no session outlives stop().
NoSessionAfterStop == opc = "returned" => Working = {}

\* Not true of the code, see the README: no entry of the list is dead (the reset
\* of one connection leaves one, and from then on stop() cannot return).
NoDeadEntry == expired = {}

\* Not true of the code, see the README: the server accepts until it is stopped
\* (the reset of one connection ends that for all later clients).
AcceptsUntilStopped == ipc \in {"over", "ended"} => opc \in InStop

\* Not true of the code, see the README: once it listens the process goes on,
\* however fast a session ends (detach before the assignment).
NeverExits == ipc # "listen" => exited = "no"
=============================================================================
