----------------------- MODULE ServerLifecycleProofs -----------------------
(***************************************************************************)
(* Proofs about ServerLifecycle, for any set of clients.                   *)
(*                                                                         *)
(* The session list is right because do_accept lists a session before its  *)
(* thread exists and only that thread removes it (CurInv: the session      *)
(* do_accept works on has no thread until it is spawned).  stop() leaves   *)
(* none of the sessions it told to stop because each of them was in the    *)
(* list, hence working, about to, or dead with its coroutine, and an empty *)
(* list says that none of these is left (SignalledInv).                    *)
(***************************************************************************)
EXTENDS ServerLifecycle, TLAPS

\* The network thread starts with start(), and the session that do_accept works
\* on has no thread before run_Spawn.
CurInv ==
  /\ opc = "new" => ipc = "none"
  /\ ipc \in {"list", "name", "spawn"} => cur \in Clients /\ thread[cur] = "none"
  /\ ipc = "assign" => cur \in Clients
  /\ expired # {} => thread[cur] = "none"

\* A session that stop() told to stop was in the list: it had a thread, was about
\* to get one, or died before it could (then stop() stays in its wait).  Past the wait its thread is through with its work.
SignalledInv ==
  \A c \in signalled :
    IF opc \in {"close", "join", "returned"}
      THEN thread[c] \in {"detach", "gone"}
      ELSE thread[c] # "none" \/ c \in expired \/ (c = cur /\ ipc \in {"name", "spawn"})

\* The inductive invariant.
IInv == TypeOK /\ ListIsTheWorking /\ CurInv /\ SignalledInv

\* The first state is right: no client has connected.
LEMMA InitInv == Init => IInv
BY DEF Init, IInv, TypeOK, ListIsTheWorking, Working, CurInv, SignalledInv, InStop

\* Every step keeps the inductive invariant.
LEMMA StepInv == IInv /\ [Next]_vars => IInv'
<1> SUFFICES ASSUME IInv, [Next]_vars PROVE IInv'
    OBVIOUS
<1> USE ClientAssumption DEF ClientAssumption
<1> USE DEF IInv, TypeOK, ListIsTheWorking, Working, CurInv, SignalledInv, InStop,
        Lives, ownerVars, acceptVars, sessionVars
<1>0. CASE listen
  BY <1>0 DEF listen
<1>1. CASE start
  BY <1>1 DEF start
<1>2. ASSUME NEW c \in Clients, do_accept_Accepted(c) PROVE IInv'
  BY <1>2 DEF do_accept_Accepted, Pending
<1>3. ASSUME NEW c \in Clients, do_accept_Error(c) PROVE IInv'
  BY <1>3 DEF do_accept_Error
<1>4. CASE do_accept_List
  BY <1>4 DEF do_accept_List
<1>5. CASE do_accept_Name
  BY <1>5 DEF do_accept_Name
<1>6. CASE run_Spawn
  BY <1>6 DEF run_Spawn
<1>7. CASE run_Assign
  BY <1>7 DEF run_Assign
<1>8. CASE IoEnds
  BY <1>8 DEF IoEnds
<1>9. CASE stop_Sessions
  BY <1>9 DEF stop_Sessions
<1>10. CASE stop_Wait
  BY <1>10 DEF stop_Wait
<1>11. CASE stop_Context
  BY <1>11 DEF stop_Context
<1>12. CASE stop_Join
  BY <1>12 DEF stop_Join
<1>13. ASSUME NEW c \in Clients, ClientConnects(c) PROVE IInv'
  BY <1>13 DEF ClientConnects
<1>14. ASSUME NEW c \in Clients, ClientCloses(c) PROVE IInv'
  BY <1>14 DEF ClientCloses
<1>15. ASSUME NEW c \in Clients, parse_op(c) PROVE IInv'
  BY <1>15 DEF parse_op
<1>16. ASSUME NEW c \in Clients, trigger_session_stop(c) PROVE IInv'
  BY <1>16 DEF trigger_session_stop
<1>17. ASSUME NEW c \in Clients, SessionEnds(c) PROVE IInv'
  BY <1>17 DEF SessionEnds
<1>18. ASSUME NEW c \in Clients, remove_session(c) PROVE IInv'
  BY <1>18 DEF remove_session
<1>19. ASSUME NEW c \in Clients, run_Detach(c) PROVE IInv'
  BY <1>19 DEF run_Detach
<1>20. CASE UNCHANGED vars
  BY <1>20 DEF vars
<1> QED
  BY <1>0, <1>1, <1>2, <1>3, <1>4, <1>5, <1>6, <1>7, <1>8, <1>9, <1>10, <1>11, <1>12, <1>13,
     <1>14, <1>15, <1>16, <1>17, <1>18, <1>19, <1>20
     DEF Next, IoStep, StopStep, SessionStep

\* The inductive invariant holds in every reachable state.
THEOREM Invariance == Spec => []IInv
BY InitInv, StepInv, PTL DEF Spec

\* Every reachable state is well typed.
THEOREM TypeCorrect == Spec => []TypeOK
<1>1. IInv => TypeOK
  BY DEF IInv
<1> QED BY <1>1, Invariance, PTL

\* For any number of clients, the session list holds the sessions that work or are
\* about to be run, and besides them at most the one dead entry that the end of
\* the accept coroutine leaves: stop() overlooks no session that has a thread.
THEOREM ListCorrect == Spec => []ListIsTheWorking
<1>1. IInv => ListIsTheWorking
  BY DEF IInv
<1> QED BY <1>1, Invariance, PTL

\* Past its wait, none of the sessions that stop() told to stop works.
THEOREM StopIsThorough == Spec => []OnlyLateSurvive
<1>1. IInv => OnlyLateSurvive
  BY DEF IInv, SignalledInv, OnlyLateSurvive, Working, InStop
<1> QED BY <1>1, Invariance, PTL

\* The one thread whose handle is still to be assigned is that of the session
\* do_accept has just spawned.
UnassignedInv ==
  \A c \in Clients : thread[c] # "none" /\ c \notin run_thread => ipc = "assign" /\ c = cur

\* The service goes on, or stands where it was ended; the connection whose dead
\* entry is left is that of a client that reset it.
EndInv == UnassignedInv /\ EndsInWindowsOnly

\* Every step keeps it: once the process has ended there are no steps.
LEMMA EndStep == IInv /\ EndInv /\ [Next]_vars => EndInv'
<1> SUFFICES ASSUME IInv, EndInv, [Next]_vars PROVE EndInv'
    OBVIOUS
<1> USE DEF EndInv, UnassignedInv, EndsInWindowsOnly, Lives, ownerVars, acceptVars, sessionVars
<1>0. thread \in [Clients -> {"none", "parse", "transfer", "remove", "detach", "gone"}]
  BY DEF IInv, TypeOK
<1>c. \A c, d \in Clients, how \in {"connecting", "closed", "reset"} :
        client[c] # "reset" /\ client[d] = "reset" /\ client' = [client EXCEPT ![c] = how]
          => client'[d] = "reset"
  BY DEF IInv, TypeOK
<1>d. \A c \in Clients : thread[c] \in {"parse", "transfer", "remove"} /\ expired = {cur}
                        => c # cur
  BY DEF IInv, ListIsTheWorking, Working
<1>1. CASE start \/ listen \/ do_accept_List \/ IoEnds \/ stop_Sessions \/ StopStep
  BY <1>1 DEF IInv, CurInv, start, listen, do_accept_List, IoEnds, stop_Sessions, StopStep,
     stop_Wait, stop_Context, stop_Join
<1>2. CASE \E c \in Clients : do_accept_Accepted(c) \/ do_accept_Error(c)
  BY <1>2 DEF do_accept_Accepted, do_accept_Error
<1>3. CASE do_accept_Name
  BY <1>3 DEF do_accept_Name, IInv, ListIsTheWorking
<1>4. CASE run_Spawn
  BY <1>0, <1>4 DEF run_Spawn
<1>5. CASE run_Assign
  BY <1>5 DEF run_Assign
<1>6. ASSUME NEW c \in Clients,
             ClientConnects(c) \/ ClientCloses(c) \/ trigger_session_stop(c)
      PROVE  EndInv'
  <2>1. CASE ClientConnects(c)
    BY <1>c, <2>1 DEF ClientConnects, IInv, TypeOK
  <2>2. CASE ClientCloses(c)
    BY <1>c, <2>2 DEF ClientCloses, IInv, TypeOK
  <2>3. CASE trigger_session_stop(c)
    BY <2>3 DEF trigger_session_stop
  <2> QED BY <1>6, <2>1, <2>2, <2>3
<1>7. ASSUME NEW c \in Clients, parse_op(c) \/ SessionEnds(c) \/ remove_session(c)
      PROVE  EndInv'
  BY <1>0, <1>d, <1>7 DEF parse_op, SessionEnds, remove_session
<1>8. ASSUME NEW c \in Clients, run_Detach(c) PROVE EndInv'
  BY <1>0, <1>8 DEF run_Detach
<1>9. CASE UNCHANGED vars
  BY <1>9 DEF vars
<1> QED
  BY <1>1, <1>2, <1>3, <1>4, <1>5, <1>6, <1>7, <1>8, <1>9 DEF Next, IoStep, SessionStep

\* For any number of clients, connecting and hanging up as they like: the process
\* is ended only by a failure to listen or by a session that is over before run()
\* has assigned its thread, and the accepting only by stop() or by a reset between
\* the accept and remote_endpoint, which leaves a dead entry in the list.
THEOREM EndsOnlyInWindows == Spec => []EndsInWindowsOnly
<1>1. Init => EndInv
  BY DEF Init, EndInv, UnassignedInv, EndsInWindowsOnly
<1>2. EndInv => EndsInWindowsOnly
  BY DEF EndInv
<1> QED
  BY <1>1, <1>2, EndStep, Invariance, PTL DEF Spec
=============================================================================
