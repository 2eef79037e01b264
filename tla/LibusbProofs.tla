---------------------------- MODULE LibusbProofs ----------------------------
(***************************************************************************)
(* Proofs about LibusbServer and LibusbDeviceHandler, for any number of    *)
(* bindings, unplugs, URBs, unlinks and sessions, and for any pool.        *)
(*                                                                         *)
(* The server's part rests on where the session is: from the import until  *)
(* the handler is given back it is the one in use, so that no removal of   *)
(* an offered handler reaches it (HandleInv).  The handler's part rests on *)
(* who has a URB's object - the receiver thread, libusb or the event       *)
(* thread, one of them at a time (Tracks) - and on what the object says    *)
(* the URB's client is still owed (OwedInv).                               *)
(***************************************************************************)
EXTENDS LibusbServer, LibusbDeviceHandler, FiniteSetTheorems, SequenceTheorems, TLAPS

-----------------------------------------------------------------------------
(* LibusbServer.                                                           *)

\* A bound handler, as the application sees it.
Handler == [device : {"native", "fd", "none"}, native_handle : BOOLEAN,
            interfaces_claimed_ : BOOLEAN, device_removed : BOOLEAN, plugged : BOOLEAN]

\* Where a session can be, with which handler.
Sessions == [pc : {"none", "open", "transfer", "drain", "back", "kept", "exit"},
             handler : Nat, stopped : BOOLEAN]
USE DEF Sessions

\* Types; the session's handler is one of those created, and only a session
\* that has opened it has a transfer with libusb.
ServerTypeOK ==
  /\ handlers \in Seq(Handler)
  /\ left \in Nat /\ hotplug_enabled_ \in BOOLEAN /\ unseen \in BOOLEAN
  /\ server \in {"down", "up", "stopping"}
  /\ session \in Sessions
  /\ session.pc # "none" => session.handler \in DOMAIN handlers
  /\ inflight \in BOOLEAN /\ misused \in BOOLEAN
  /\ inflight => session.pc \in {"transfer", "drain"}

\* Under one busid at most one handler is listed, offered or in use: the
\* application binds only when none is, and a move takes it off the other list.
ListInv ==
  \/ available = {} /\ using \in {None} \cup DOMAIN handlers
  \/ using = None /\ \E h \in DOMAIN handlers : available = {h}

\* Until the misuse: what is in use is the session's handler, from the import
\* until it is given back, and it has its device; the handle is open exactly
\* from the opening to the closing, and never while the handler is offered.
HandleInv ==
  misused \/
  /\ session.pc \in {"open", "transfer", "drain", "back", "kept"} <=> using # None
  /\ using # None => using = session.handler
  /\ using # None => handlers[using].device # "none"
  /\ session.pc \in {"transfer", "drain"} => handlers[session.handler].native_handle
  /\ session.pc \in {"open", "back", "kept"} => ~handlers[session.handler].native_handle
  /\ \A h \in available : handlers[h].device # "none" /\ ~handlers[h].native_handle

\* Of a listed handler whose device is gone there is word still to come, or
\* the handler is marked and its session, which will drop it, is there.
WordInv ==
  unseen \/ misused \/
  /\ \A h \in available :
       ~handlers[h].plugged => left > 0 \/ (handlers[h].device_removed /\ session.pc # "none")
  /\ using # None /\ ~handlers[using].plugged => left > 0 \/ handlers[using].device_removed

\* The inductive invariant.
ServerInv == ServerTypeOK /\ ListInv /\ HandleInv /\ WordInv
-----------------------------------------------------------------------------
\* What the sequence of handlers holds.
LEMMA HandlerType ==
  ASSUME handlers \in Seq(Handler), NEW h \in DOMAIN handlers
  PROVE  /\ handlers[h] \in Handler
         /\ handlers[h].native_handle \in BOOLEAN /\ handlers[h].interfaces_claimed_ \in BOOLEAN
         /\ handlers[h].device_removed \in BOOLEAN /\ handlers[h].plugged \in BOOLEAN
         /\ handlers[h].device \in {"native", "fd", "none"}
<1>1. handlers[h] \in Handler
  OBVIOUS
<1>2. QED
  BY <1>1 DEF Handler

\* A table of handlers over 1 .. n is a sequence of them.
LEMMA HandlersOf ==
  ASSUME NEW n \in Nat, NEW f, f = [h \in 1 .. n |-> f[h]],
         \A h \in 1 .. n : f[h] \in Handler
  PROVE  f \in Seq(Handler)
<1>1. f \in [1 .. n -> Handler]
  OBVIOUS
<1> QED
  BY <1>1

\* Nothing is bound and nobody is there.
LEMMA InitServer == LibusbServerInit => ServerInv
<1> SUFFICES ASSUME LibusbServerInit PROVE ServerInv OBVIOUS
<1>1. ServerTypeOK
  <2>1. handlers \in Seq(Handler)
    BY DEF LibusbServerInit
  <2>2. session \in Sessions
    BY DEF LibusbServerInit, NoSession, None
  <2> QED
    BY <2>1, <2>2 DEF LibusbServerInit, ServerTypeOK, NoSession
<1>2. ListInv /\ HandleInv /\ WordInv
  BY DEF LibusbServerInit, ListInv, HandleInv, WordInv, NoSession, None
<1> QED
  BY <1>1, <1>2 DEF ServerInv

\* Each call, each event and each step of the session keeps the types.
LEMMA ServerTypeStep == ASSUME ServerInv, LibusbServerNext PROVE ServerTypeOK'
<1> USE DEF listVars, hotplugVars
<1>0. /\ Len(handlers) \in Nat /\ DOMAIN handlers = 1 .. Len(handlers)
      /\ \A h \in DOMAIN handlers : handlers[h] \in Handler
  BY DEF ServerInv, ServerTypeOK
<1>1. ASSUME NEW h, NEW b \in BOOLEAN
      PROVE  /\ Released(h, b) \in Seq(Handler) /\ DOMAIN Released(h, b) = DOMAIN handlers
             /\ \A g \in DOMAIN handlers : Released(h, b)[g] \in Handler
  <2>1. DOMAIN Released(h, b) = DOMAIN handlers
    BY DEF Released
  <2>2. \A g \in DOMAIN handlers : Released(h, b)[g] \in Handler
    BY <1>0 DEF Released, Handler
  <2> QED
    BY <2>1, <2>2, <1>0, HandlersOf DEF Released
<1>2. ASSUME handlers' \in Seq(Handler), DOMAIN handlers \subseteq DOMAIN handlers',
             UNCHANGED <<hotplugVars, server, session, inflight>>, misused' \in BOOLEAN
      PROVE  ServerTypeOK'
  BY <1>2 DEF ServerInv, ServerTypeOK
<1>3. ASSUME NEW d \in {"native", "fd"}, Bind(d) PROVE ServerTypeOK'
  <2>1. handlers' \in Seq(Handler) /\ DOMAIN handlers' = 1 .. Len(handlers) + 1
    BY <1>0, <1>3 DEF Bind, Handler, ServerInv, ServerTypeOK
  <2> QED
    BY <1>0, <1>2, <1>3, <2>1 DEF Bind, ServerInv, ServerTypeOK
<1>4. CASE unbind_host_device
  BY <1>1, <1>2, <1>4 DEF unbind_host_device, ServerInv, ServerTypeOK
<1>5. CASE unbind_host_device_by_fd
  BY <1>1, <1>2, <1>5 DEF unbind_host_device_by_fd, ServerInv, ServerTypeOK
<1>6. CASE try_remove_dead_device
  BY <1>1, <1>2, <1>6 DEF try_remove_dead_device, ServerInv, ServerTypeOK
<1>7. CASE start
  BY <1>7 DEF start, start_hotplug_monitor, ServerInv, ServerTypeOK
<1>8. ASSUME NEW b, session' = [session EXCEPT !.stopped = @ \/ b]
       PROVE  /\ session' \in Sessions
              /\ session'.pc = session.pc /\ session'.handler = session.handler
  <2>1. (session.stopped \/ b) \in BOOLEAN
    OBVIOUS
  <2> QED
    BY <1>8, <2>1 DEF ServerInv, ServerTypeOK
<1>9. CASE stop_Sessions
  <2>1. unseen' \in BOOLEAN
    BY <1>9 DEF stop_Sessions
  <2>2. left' \in Nat
    BY <1>9 DEF stop_Sessions, ServerInv, ServerTypeOK
  <2>3. /\ session' \in Sessions
        /\ session'.pc = session.pc /\ session'.handler = session.handler
    BY <1>8, <1>9 DEF stop_Sessions
  <2> QED
    BY <1>9, <2>1, <2>2, <2>3 DEF stop_Sessions, ServerInv, ServerTypeOK
<1>10. CASE stop_Lists
  <2>1. handlers' = [h \in 1 .. Len(handlers) |->
                       IF h \in Listed THEN Released(h, TRUE)[h] ELSE handlers[h]]
    BY <1>0, <1>10 DEF stop_Lists
  <2>2. handlers' \in Seq(Handler) /\ DOMAIN handlers' = DOMAIN handlers
    BY <2>1, <1>0, <1>1, HandlersOf
  <2> QED
    BY <1>10, <2>2 DEF stop_Lists, ServerInv, ServerTypeOK
<1>11. CASE Unplug
  <2>1. handlers' = [h \in 1 .. Len(handlers) |-> [handlers[h] EXCEPT !.plugged = FALSE]]
    BY <1>0, <1>11 DEF Unplug
  <2>2. \A h \in 1 .. Len(handlers) : [handlers[h] EXCEPT !.plugged = FALSE] \in Handler
    BY <1>0 DEF Handler
  <2>3. handlers' \in Seq(Handler) /\ DOMAIN handlers' = DOMAIN handlers
    BY <2>1, <2>2, <1>0, HandlersOf
  <2>4. unseen' \in BOOLEAN
    BY <1>11 DEF Unplug, ServerInv, ServerTypeOK
  <2>5. left' \in Nat
    BY <1>11 DEF Unplug, ServerInv, ServerTypeOK
  <2> QED
    BY <1>11, <2>3, <2>4, <2>5 DEF Unplug, ServerInv, ServerTypeOK
<1>12. CASE handle_device_left_Offered
  <2>1. left' \in Nat
    BY <1>12 DEF handle_device_left_Offered, ServerInv, ServerTypeOK
  <2>2. handlers' \in Seq(Handler) /\ DOMAIN handlers' = DOMAIN handlers
    BY <1>1, <1>12 DEF handle_device_left_Offered
  <2> QED
    BY <1>12, <2>1, <2>2 DEF handle_device_left_Offered, ServerInv, ServerTypeOK
<1>13. CASE handle_device_left_Used
  <2>1. handlers' = [h \in 1 .. Len(handlers) |->
                       [handlers[h] EXCEPT !.device_removed = @ \/ h = using]]
    BY <1>0, <1>13 DEF handle_device_left_Used
  <2>2. \A h \in 1 .. Len(handlers) :
          [handlers[h] EXCEPT !.device_removed = @ \/ h = using] \in Handler
    BY <1>0 DEF Handler
  <2>3. handlers' \in Seq(Handler) /\ DOMAIN handlers' = DOMAIN handlers
    BY <2>1, <2>2, <1>0, HandlersOf
  <2>4. left' \in Nat
    BY <1>13 DEF handle_device_left_Used, ServerInv, ServerTypeOK
  <2> QED
    BY <1>13, <1>8, <2>3, <2>4 DEF handle_device_left_Used, ServerInv, ServerTypeOK
<1>14. CASE session_Import
  BY <1>14 DEF session_Import, TakeOff, ServerInv, ServerTypeOK, ListInv
<1>15. ASSUME NEW h \in DOMAIN handlers, NEW b \in BOOLEAN, NEW c \in BOOLEAN
       PROVE  LET f == [handlers EXCEPT ![h].native_handle = b, ![h].interfaces_claimed_ = c]
                  g == [handlers EXCEPT ![h].device_removed = b]
              IN  /\ f \in Seq(Handler) /\ DOMAIN f = DOMAIN handlers
                  /\ g \in Seq(Handler) /\ DOMAIN g = DOMAIN handlers
  <2> DEFINE f == [handlers EXCEPT ![h].native_handle = b, ![h].interfaces_claimed_ = c]
             g == [handlers EXCEPT ![h].device_removed = b]
  <2>1. \A k \in DOMAIN handlers : f[k] \in Handler /\ g[k] \in Handler
    BY <1>0 DEF Handler
  <2> QED
    BY <2>1, <1>0, HandlersOf
<1> USE DEF At, Goto
<1>16. ASSUME NEW d, Opened(d) PROVE ServerTypeOK'
  BY <1>15, <1>16 DEF Opened, ServerInv, ServerTypeOK
<1>17. CASE on_new_connection_Unopened \/ session_OpenFailed \/ session_Drain
            \/ session_Removed \/ session_Kept \/ session_MoveBack
  BY <1>17 DEF on_new_connection_Unopened, session_OpenFailed, session_Drain,
               session_Removed, session_Kept, session_MoveBack, ServerInv, ServerTypeOK
<1>18. CASE session_Transfer
  BY <1>18 DEF session_Transfer, ServerInv, ServerTypeOK
<1>19. CASE session_TransferDone
  <2> DEFINE b == handlers[session.handler].device_removed
                  \/ (At("transfer") /\ ~handlers[session.handler].plugged)
  <2>1. b \in BOOLEAN /\ handlers' = [handlers EXCEPT ![session.handler].device_removed = b]
    BY <1>19 DEF session_TransferDone
  <2>2. handlers' \in Seq(Handler) /\ DOMAIN handlers' = DOMAIN handlers
    <3>1. session.handler \in DOMAIN handlers
      BY <1>19 DEF session_TransferDone, ServerInv, ServerTypeOK
    <3> HIDE DEF b
    <3> QED
      BY <1>15, <2>1, <3>1
  <2> QED
    BY <1>19, <2>2 DEF session_TransferDone, ServerInv, ServerTypeOK
<1>20. CASE session_Close
  BY <1>15, <1>20, HandlerType DEF session_Close, ServerInv, ServerTypeOK
<1>21. CASE remove_session
  BY <1>21 DEF remove_session, NoSession, None, ServerInv, ServerTypeOK
<1> QED
  BY <1>3, <1>4, <1>5, <1>6, <1>7, <1>10, <1>11, <1>12, <1>13, <1>14, <1>16, <1>17, <1>18,
     <1>19, <1>20, <1>21, <1>9
     DEF LibusbServerNext, bind_host_device, bind_host_device_with_wrapped_fd,
         open_and_claim_device, wrap_fd_and_claim_interfaces

\* Binding fills an empty list, removals empty it, moves keep one.
LEMMA ListInvStep == ASSUME ServerInv, LibusbServerNext PROVE ListInv'
<1> USE DEF ServerInv, ServerTypeOK, ListInv
<1>1. \A h \in DOMAIN handlers : handlers[h].device_removed \in BOOLEAN
  BY HandlerType
<1>2. CASE bind_host_device \/ bind_host_device_with_wrapped_fd
  <2>1. PICK device \in {"native", "fd"} : Bind(device)
    BY <1>2 DEF bind_host_device, bind_host_device_with_wrapped_fd
  <2>2. available = {} /\ using = None /\ using' = None
    BY <2>1 DEF Bind, Listed, None
  <2>3. available' = {Len(handlers) + 1}
    BY <2>1, <2>2 DEF Bind
  <2>4. Len(handlers) + 1 \in DOMAIN handlers'
    <3>1. /\ handlers \in Seq(Handler)
          /\ handlers' = Append(handlers, handlers'[Len(handlers) + 1])
          /\ Len(handlers) \in Nat
      BY <2>1 DEF Bind
    <3> QED
      BY <3>1
  <2> QED
    BY <2>2, <2>3, <2>4
<1>3. CASE unbind_host_device \/ unbind_host_device_by_fd \/ try_remove_dead_device \/
            handle_device_left_Offered
  BY <1>1, <1>3
     DEF unbind_host_device, unbind_host_device_by_fd, try_remove_dead_device,
         handle_device_left_Offered, hotplugVars, TakeOff, Released, None
<1>4. CASE start \/ stop_Sessions \/ Unplug
  BY <1>1, <1>4
     DEF start, stop_Sessions, Unplug, listVars, start_hotplug_monitor, Unplugged
<1>5. CASE stop_Lists
  BY <1>1, <1>5
     DEF stop_Lists, hotplugVars, Released, Listed, None
<1>6. CASE handle_device_left_Used
  BY <1>1, <1>6
     DEF handle_device_left_Used, None
<1>7. CASE session_Import
  BY <1>1, <1>7
     DEF session_Import, hotplugVars, TakeOff, None
<1>8. CASE open_and_claim_device \/ wrap_fd_and_claim_interfaces \/
            on_new_connection_Unopened \/ session_OpenFailed
  BY <1>1, <1>8
     DEF open_and_claim_device, wrap_fd_and_claim_interfaces, on_new_connection_Unopened,
         session_OpenFailed, Opened, hotplugVars, At, Goto, listVars, MoveBack, None
<1>9. CASE session_Transfer \/ session_TransferDone
  BY <1>1, <1>9
     DEF session_Transfer, session_TransferDone, listVars, hotplugVars, At
<1>10. CASE session_Drain \/ session_Close
  BY <1>1, <1>10
     DEF session_Drain, session_Close, listVars, hotplugVars, At, Goto
<1>11. CASE session_Removed \/ session_Kept \/ session_MoveBack
  BY <1>1, <1>11
     DEF session_Removed, session_Kept, session_MoveBack, hotplugVars, At, Goto, None,
         listVars, MoveBack
<1>12. CASE remove_session
  BY <1>1, <1>12
     DEF remove_session, hotplugVars, At, NoSession, None, session_exit_callback
<1> QED
  BY <1>2, <1>3, <1>4, <1>5, <1>6, <1>7, <1>8, <1>9, <1>10, <1>11, <1>12 DEF LibusbServerNext

\* Removals act on offered handlers, which are closed; only the session opens
\* its handler, and it closes it before the moves.
LEMMA HandleInvStep == ASSUME ServerInv, LibusbServerNext PROVE HandleInv'
<1> USE DEF ServerInv, ServerTypeOK, ListInv, HandleInv
<1>1. \A h \in DOMAIN handlers : handlers[h].device_removed \in BOOLEAN
  BY HandlerType
<1>2. CASE bind_host_device \/ bind_host_device_with_wrapped_fd
  BY <1>1, <1>2
     DEF bind_host_device, bind_host_device_with_wrapped_fd, Bind, hotplugVars, Listed, None
<1>3. CASE unbind_host_device \/ unbind_host_device_by_fd \/ try_remove_dead_device \/
            handle_device_left_Offered
  BY <1>1, <1>3
     DEF unbind_host_device, unbind_host_device_by_fd, try_remove_dead_device,
         handle_device_left_Offered, hotplugVars, TakeOff, Released, None
<1>4. CASE start \/ stop_Sessions \/ Unplug
  <2>1. CASE start
    BY <1>1, <2>1 DEF start, listVars, start_hotplug_monitor
  <2>2. CASE stop_Sessions
    BY <1>1, <2>2 DEF stop_Sessions, listVars
  <2>3. CASE Unplug
    BY <1>1, <2>3 DEF Unplug, Unplugged
  <2> QED
    BY <1>4, <2>1, <2>2, <2>3
<1>5. CASE stop_Lists
  BY <1>1, <1>5
     DEF stop_Lists, hotplugVars, Released, Listed, None
<1>6. CASE handle_device_left_Used
  BY <1>1, <1>6
     DEF handle_device_left_Used, None
<1>7. CASE session_Import
  BY <1>1, <1>7
     DEF session_Import, hotplugVars, TakeOff, None
<1>8. CASE open_and_claim_device \/ wrap_fd_and_claim_interfaces \/
            on_new_connection_Unopened \/ session_OpenFailed
  <2>1. CASE open_and_claim_device
    BY <1>1, <2>1 DEF open_and_claim_device, Opened, hotplugVars, At, Goto
  <2>2. CASE wrap_fd_and_claim_interfaces
    BY <1>1, <2>2 DEF wrap_fd_and_claim_interfaces, Opened, hotplugVars, At, Goto
  <2>3. CASE on_new_connection_Unopened
    BY <1>1, <2>3 DEF on_new_connection_Unopened, listVars, hotplugVars, At, Goto
  <2>4. CASE session_OpenFailed
    BY <1>1, <2>4 DEF session_OpenFailed, hotplugVars, MoveBack, None, At, Goto
  <2> QED
    BY <1>8, <2>1, <2>2, <2>3, <2>4
<1>9. CASE session_Transfer \/ session_TransferDone
  <2>1. CASE session_Transfer
    BY <1>1, <2>1 DEF session_Transfer, listVars, hotplugVars, At
  <2>2. CASE session_TransferDone
    BY <1>1, <2>2 DEF session_TransferDone, hotplugVars, At
  <2> QED
    BY <1>9, <2>1, <2>2
<1>10. CASE session_Drain \/ session_Close
  <2>1. CASE session_Drain
    BY <1>1, <2>1 DEF session_Drain, listVars, hotplugVars, At, Goto
  <2>2. CASE session_Close
    BY <1>1, <2>2 DEF session_Close, hotplugVars, At, Goto
  <2> QED
    BY <1>10, <2>1, <2>2
<1>11. CASE session_Removed \/ session_Kept \/ session_MoveBack
  BY <1>1, <1>11
     DEF session_Removed, session_Kept, session_MoveBack, hotplugVars, At, Goto, None,
         listVars, MoveBack
<1>12. CASE remove_session
  BY <1>1, <1>12
     DEF remove_session, hotplugVars, At, NoSession, None, session_exit_callback
<1> QED
  BY <1>2, <1>3, <1>4, <1>5, <1>6, <1>7, <1>8, <1>9, <1>10, <1>11, <1>12 DEF LibusbServerNext

\* An unplug is a word to come; hearing it takes the handler off or marks it,
\* and the exit of the session drops what is marked.
LEMMA WordInvStep == ASSUME ServerInv, LibusbServerNext PROVE WordInv'
<1> USE DEF ServerInv, ServerTypeOK, ListInv, HandleInv, WordInv
<1>1. \A h \in DOMAIN handlers : handlers[h].device_removed \in BOOLEAN
  BY HandlerType
<1>2. CASE bind_host_device \/ bind_host_device_with_wrapped_fd
  BY <1>1, <1>2
     DEF bind_host_device, bind_host_device_with_wrapped_fd, Bind, hotplugVars, Listed, None
<1>3. CASE unbind_host_device \/ unbind_host_device_by_fd \/ try_remove_dead_device \/
            handle_device_left_Offered
  BY <1>1, <1>3
     DEF unbind_host_device, unbind_host_device_by_fd, try_remove_dead_device,
         handle_device_left_Offered, hotplugVars, TakeOff, Released, None
<1>4. CASE start \/ stop_Sessions \/ Unplug
  BY <1>1, <1>4
     DEF start, stop_Sessions, Unplug, listVars, start_hotplug_monitor, Unplugged
<1>5. CASE stop_Lists
  BY <1>1, <1>5
     DEF stop_Lists, hotplugVars, Released, Listed, None
<1>6. CASE handle_device_left_Used
  <2>1. using # None => using \in DOMAIN handlers /\ handlers'[using].device_removed
    <3>1. using # None => using \in DOMAIN handlers /\ handlers[using] \in Handler
      BY HandlerType
    <3> QED
      BY <1>6, <3>1 DEF handle_device_left_Used, None, Handler
  <2> QED
    BY <1>6, <2>1 DEF handle_device_left_Used
<1>7. CASE session_Import
  BY <1>1, <1>7
     DEF session_Import, hotplugVars, TakeOff, None
<1>8. CASE open_and_claim_device \/ wrap_fd_and_claim_interfaces \/
            on_new_connection_Unopened \/ session_OpenFailed
  <2>1. CASE open_and_claim_device
    BY <1>1, <2>1 DEF open_and_claim_device, Opened, hotplugVars, At, Goto
  <2>2. CASE wrap_fd_and_claim_interfaces
    BY <1>1, <2>2 DEF wrap_fd_and_claim_interfaces, Opened, hotplugVars, At, Goto
  <2>3. CASE on_new_connection_Unopened
    BY <1>1, <2>3 DEF on_new_connection_Unopened, listVars, hotplugVars, At, Goto
  <2>4. CASE session_OpenFailed
    BY <1>1, <2>4 DEF session_OpenFailed, hotplugVars, MoveBack, None, At, Goto
  <2> QED
    BY <1>8, <2>1, <2>2, <2>3, <2>4
<1>9. CASE session_Transfer \/ session_TransferDone
  <2>1. CASE session_Transfer
    BY <1>1, <2>1 DEF session_Transfer, listVars, hotplugVars, At
  <2>2. CASE session_TransferDone
    BY <1>1, <2>2 DEF session_TransferDone, hotplugVars, At
  <2> QED
    BY <1>9, <2>1, <2>2
<1>10. CASE session_Drain \/ session_Close
  <2>1. CASE session_Drain
    BY <1>1, <2>1 DEF session_Drain, listVars, hotplugVars, At, Goto
  <2>2. CASE session_Close
    BY <1>1, <2>2 DEF session_Close, hotplugVars, At, Goto
  <2> QED
    BY <1>10, <2>1, <2>2
<1>11. CASE session_Removed \/ session_Kept \/ session_MoveBack
  BY <1>1, <1>11
     DEF session_Removed, session_Kept, session_MoveBack, hotplugVars, At, Goto, None,
         listVars, MoveBack
<1>12. CASE remove_session
  BY <1>1, <1>12
     DEF remove_session, hotplugVars, At, NoSession, None, session_exit_callback
<1> QED
  BY <1>2, <1>3, <1>4, <1>5, <1>6, <1>7, <1>8, <1>9, <1>10, <1>11, <1>12 DEF LibusbServerNext

\* The invariant is inductive.
LEMMA ServerStep ==
  ASSUME ServerInv, [LibusbServerNext]_serverVars
  PROVE  ServerInv'
<1>1. CASE LibusbServerNext
  BY <1>1, ServerTypeStep, ListInvStep, HandleInvStep, WordInvStep DEF ServerInv
<1>2. CASE UNCHANGED serverVars
  BY <1>2 DEF serverVars, listVars, hotplugVars, ServerInv, ServerTypeOK, ListInv, HandleInv,
              WordInv
<1> QED
  BY <1>1, <1>2

\* Every reachable state satisfies the invariant.
LEMMA ServerInvariance == LibusbServerSpec => []ServerInv
  BY InitServer, ServerStep, PTL DEF LibusbServerSpec

\* HandleOutlivesTransfers for any number of bindings and unplugs: while libusb
\* has a transfer the device handle is open, and an offered device is closed,
\* whatever removals, unplugs and stops fall into the session's steps.
THEOREM HandleCorrect == LibusbServerSpec => []HandleOutlivesTransfers
<1>1. ServerInv => HandleOutlivesTransfers
  BY DEF ServerInv, ServerTypeOK, HandleInv, HandleOutlivesTransfers
<1> QED
  BY <1>1, ServerInvariance, PTL

\* NoDeadDeviceOffered for any number of bindings and unplugs: a device that is
\* gone and still offered is about to be taken off, by the word of its going or
\* by the exit of the session that used it.
THEOREM NoDeadOffer == LibusbServerSpec => []NoDeadDeviceOffered
<1>1. ServerInv => NoDeadDeviceOffered
  BY DEF ServerInv, WordInv, NoDeadDeviceOffered, At
<1> QED
  BY <1>1, ServerInvariance, PTL
-----------------------------------------------------------------------------
(* LibusbDeviceHandler.                                                    *)

\* An object that is lent out of the pool or from the heap.
Out(a) == Lent(a) \/ a \in heap

\* An answer to the client.
Reply == [kind : {"RET_SUBMIT", "RET_UNLINK"}, seqnum : Nat,
          status : {"OK", "EPIPE", "ECONNRESET", "ESHUTDOWN"}]

\* Where each thread can be, with which object, and what an object says.
Receivers == [pc : {"away", "idle", "entered", "submit", "refused", "leaving",
                    "draining"},
              args : {0} \cup Args]
Events == [pc : {"idle", "answer", "drop", "free"}, args : {0} \cup Args,
           status : {"none", "COMPLETED", "ERROR", "NO_DEVICE", "CANCELLED"}]
Fields == [seqnum : 0 .. MaxUrbs, unlinking : BOOLEAN, unlink_cmd_seqnum : Nat]
USE DEF Receivers, Events, Fields

\* Types of what the two threads and libusb work with.
UrbsTypeOK ==
  /\ receiver \in Receivers
  /\ receiver.pc \in {"submit", "refused"} <=> receiver.args # 0
  /\ event \in Events
  /\ event.pc # "idle" => event.args \in Args /\ event.status # "none"
  /\ args \in [Args -> Fields]
  /\ callback_args_pool_ \in Seq(PooledArgs) /\ heap \subseteq Args \ PooledArgs
  /\ DOMAIN transfers_ \subseteq submitted
  /\ \A s \in DOMAIN transfers_ : transfers_[s] \in Args
  /\ pending_count_ \in Int
  /\ trx \in [Args -> {"none", "flying", "cancelling"}]
  /\ client_disconnection \in BOOLEAN /\ device_removed \in BOOLEAN
  /\ reused \in BOOLEAN /\ overtaken \in BOOLEAN

\* Types of what the client sees: its URBs are numbered on, and of its unlinks
\* each has a URB and a number of its own, above those of the URBs.
ClientTypeOK ==
  /\ replies \in Seq(Reply)
  /\ \E n \in 0 .. MaxUrbs : submitted = 1 .. n
  /\ unlinks \subseteq submitted \X Nat /\ IsFiniteSet(unlinks) /\ ignored \subseteq unlinks
  /\ \A u \in unlinks : u[2] <= MaxUrbs + Cardinality(unlinks)
  /\ \A u, v \in unlinks : u[1] = v[1] \/ u[2] = v[2] => u = v

\* The table, the count and the objects agree; a thread that has an object has
\* it alone, libusb no more, and one that is being freed is out and untracked.
Tracks ==
  /\ IsInjective(callback_args_pool_)
  /\ pending_count_ = Cardinality(DOMAIN transfers_)
  /\ \A s \in DOMAIN transfers_ : \A a \in Args :
       transfers_[s] = a => args[a].seqnum = s /\ Busy(a) /\ Out(a)
  /\ \A a \in Args : Busy(a) => Tracked(args[a].seqnum) /\ transfers_[args[a].seqnum] = a
  /\ receiver.args # 0 => trx[receiver.args] = "none"
  /\ event.pc \in {"answer", "drop"} => trx[event.args] = "none" /\ receiver.args # event.args
  /\ event.pc = "free" => /\ Out(event.args)
                          /\ \A s \in DOMAIN transfers_ : transfers_[s] # event.args

\* Until the pool is reset under a running callback.
TrackInv == overtaken \/ Tracks

\* Between two connections nothing is outstanding and nothing was said.
AwayInv ==
  overtaken \/ receiver.pc # "away" \/
  /\ event.pc = "idle" /\ DOMAIN transfers_ = {}
  /\ replies = <<>> /\ unlinks = {}

\* Whether there was such an answer.
Replied(kind, q) == \E i \in DOMAIN replies : replies[i].kind = kind /\ replies[i].seqnum = q

\* What was answered was asked, once, and a URB not after its unlink.
RepliesInOrder ==
  /\ \A i \in DOMAIN replies :
       IF replies[i].kind = "RET_SUBMIT" THEN replies[i].seqnum \in submitted
       ELSE \E u \in unlinks : u[2] = replies[i].seqnum
  /\ \A i, j \in DOMAIN replies :
       replies[i].kind = replies[j].kind /\ replies[i].seqnum = replies[j].seqnum => i = j
  /\ \A u \in unlinks : \A i, j \in DOMAIN replies :
       /\ replies[i].kind = "RET_UNLINK" /\ replies[i].seqnum = u[2]
       /\ replies[j].kind = "RET_SUBMIT" /\ replies[j].seqnum = u[1]
       => j < i

\* What is still owed: an unlink has its answer, or the URB it found will give
\* it, unless it came after the removal, when nobody will; a tracked URB has not
\* been answered, nor has its unlink.
OwedInv ==
  /\ event.pc # "drop"
  /\ \A u \in ignored : device_removed /\ ~Replied("RET_UNLINK", u[2])
  /\ \A u \in unlinks \ ignored :
       IF Tracked(u[1])
       THEN LET a == transfers_[u[1]]
            IN  args[a].unlinking /\ args[a].unlink_cmd_seqnum = u[2]
       ELSE Replied("RET_UNLINK", u[2])
  /\ \A s \in DOMAIN transfers_ :
       LET a == transfers_[s]
       IN  /\ ~Replied("RET_SUBMIT", s)
           /\ args[a].unlinking => /\ <<s, args[a].unlink_cmd_seqnum>> \in unlinks \ ignored
                                   /\ ~Replied("RET_UNLINK", args[a].unlink_cmd_seqnum)
  /\ receiver.args # 0 => ~args[receiver.args].unlinking

\* During a connection in which no object was reused with unlinking set.
ReplyInv == reused \/ overtaken \/ client_disconnection \/ (RepliesInOrder /\ OwedInv)

\* The inductive invariant.
HandlerInv == UrbsTypeOK /\ ClientTypeOK /\ TrackInv /\ AwayInv /\ ReplyInv
-----------------------------------------------------------------------------
\* The bounds are numbers.
LEMMA Bounds ==
  /\ MaxUrbs \in Nat /\ ArgsPoolSize \in Nat /\ ArgsPoolSize >= 1
  /\ PooledArgs \subseteq Args /\ 0 \notin Args /\ Seqnums \subseteq Nat
BY LibusbHandlerAssumption DEF LibusbHandlerAssumption, PooledArgs, Args, Seqnums

\* Popping the stack takes its top object out, and no other.
LEMMA PoolPop ==
  ASSUME callback_args_pool_ \in Seq(PooledArgs), callback_args_pool_ # <<>>,
         callback_args_pool_' = SubSeq(callback_args_pool_, 1, Len(callback_args_pool_) - 1),
         NEW a, a = callback_args_pool_[Len(callback_args_pool_)]
  PROVE  /\ a \in PooledArgs /\ a \in Range(callback_args_pool_)
         /\ callback_args_pool_' \in Seq(PooledArgs)
         /\ IsInjective(callback_args_pool_) =>
              /\ IsInjective(callback_args_pool_')
              /\ Range(callback_args_pool_') = Range(callback_args_pool_) \ {a}
<1> DEFINE n == Len(callback_args_pool_)
           new == callback_args_pool_'
<1>1. /\ n \in Nat \ {0} /\ n - 1 \in Nat /\ DOMAIN callback_args_pool_ = 1 .. n
      /\ \A i \in 1 .. n : callback_args_pool_[i] \in PooledArgs
  OBVIOUS
<1>2. /\ new \in Seq(PooledArgs) /\ DOMAIN new = 1 .. n - 1
      /\ \A i \in 1 .. n - 1 : new[i] = callback_args_pool_[i]
  <2>1. \A i \in 1 .. n - 1 : i \in 1 .. n /\ 1 + i - 1 = i
    BY <1>1
  <2>2. new = [i \in 1 .. n - 1 |-> callback_args_pool_[i]]
    BY <1>1, <2>1
  <2>3. new \in [1 .. n - 1 -> PooledArgs]
    BY <1>1, <2>1, <2>2
  <2> QED
    BY <1>1, <2>2, <2>3
<1>3. a \in PooledArgs /\ a \in Range(callback_args_pool_)
  BY <1>1 DEF Range
<1>4. IsInjective(callback_args_pool_) => IsInjective(new)
  BY <1>1, <1>2 DEF IsInjective
<1>5. IsInjective(callback_args_pool_) => Range(new) = Range(callback_args_pool_) \ {a}
  <2> SUFFICES ASSUME IsInjective(callback_args_pool_)
               PROVE  Range(new) = Range(callback_args_pool_) \ {a}
    OBVIOUS
  <2>1. \A i \in 1 .. n - 1 : callback_args_pool_[i] # a /\ i \in 1 .. n
    BY <1>1 DEF IsInjective
  <2>2. \A m \in Nat : \A i \in 1 .. m : i = m \/ i \in 1 .. m - 1
    OBVIOUS
  <2>3. Range(new) \subseteq Range(callback_args_pool_) \ {a}
    BY <1>1, <1>2, <2>1 DEF Range
  <2>4. Range(callback_args_pool_) \ {a} \subseteq Range(new)
    BY <1>1, <1>2, <2>2 DEF Range
  <2> QED
    BY <2>3, <2>4
<1> QED
  BY <1>2, <1>3, <1>4, <1>5

\* Pushing an object that is out puts it back, and no other.
LEMMA PoolPush ==
  ASSUME callback_args_pool_ \in Seq(PooledArgs), NEW a \in PooledArgs,
         callback_args_pool_' = Append(callback_args_pool_, a)
  PROVE  /\ callback_args_pool_' \in Seq(PooledArgs)
         /\ Range(callback_args_pool_') = Range(callback_args_pool_) \cup {a}
         /\ IsInjective(callback_args_pool_) /\ a \notin Range(callback_args_pool_)
              => IsInjective(callback_args_pool_')
<1> DEFINE n == Len(callback_args_pool_)
           new == callback_args_pool_'
<1>1. /\ n \in Nat /\ DOMAIN callback_args_pool_ = 1 .. n
      /\ new \in Seq(PooledArgs) /\ DOMAIN new = 1 .. n + 1
      /\ \A i \in 1 .. n : new[i] = callback_args_pool_[i]
      /\ new[n + 1] = a
  OBVIOUS
<1>2. Range(new) = Range(callback_args_pool_) \cup {a}
  BY <1>1 DEF Range
<1>3. IsInjective(callback_args_pool_) /\ a \notin Range(callback_args_pool_)
        => IsInjective(new)
  BY <1>1 DEF IsInjective, Range
<1> QED
  BY <1>1, <1>2, <1>3

\* The stack as it is created.
LEMMA FullPool ==
  FullStack \in Seq(PooledArgs) /\ IsInjective(FullStack) /\ Range(FullStack) = PooledArgs
<1>1. FullStack \in [1 .. ArgsPoolSize -> PooledArgs]
  BY DEF FullStack, PooledArgs
<1>2. FullStack \in Seq(PooledArgs)
  BY <1>1, Bounds
<1>3. IsInjective(FullStack) /\ Range(FullStack) = PooledArgs
  BY DEF IsInjective, Range, FullStack, PooledArgs
<1> QED
  BY <1>2, <1>3

\* Taking an object: it was not out, now it is; it serves seqnum s, and unless
\* it was reused it is not marked as unlinking.
LEMMA Alloc ==
  ASSUME UrbsTypeOK, NEW s \in Seqnums, NEW a \in Args, AllocArgs(a, s)
  PROVE  /\ args' \in [Args -> Fields]
         /\ callback_args_pool_' \in Seq(PooledArgs) /\ heap' \subseteq Args \ PooledArgs
         /\ reused' \in BOOLEAN /\ (reused => reused')
         /\ args'[a].seqnum = s /\ (args'[a].unlinking => reused')
         /\ \A b \in Args : b # a => args'[b] = args[b]
         /\ IsInjective(callback_args_pool_) =>
              /\ IsInjective(callback_args_pool_')
              /\ ~Out(a) /\ \A b \in Args : Out(b)' <=> Out(b) \/ b = a
<1> USE DEF UrbsTypeOK
<1>s. s \in 0 .. MaxUrbs
  BY Bounds DEF Seqnums
<1>1. CASE callback_args_pool_ # <<>>
  <2>1. /\ a = callback_args_pool_[Len(callback_args_pool_)] /\ heap' = heap
        /\ callback_args_pool_' = SubSeq(callback_args_pool_, 1, Len(callback_args_pool_) - 1)
        /\ args' = [args EXCEPT ![a].seqnum = s]
        /\ reused' = (reused \/ args[a].unlinking)
    BY <1>1 DEF AllocArgs
  <2>2. /\ a \in PooledArgs /\ a \in Range(callback_args_pool_)
        /\ callback_args_pool_' \in Seq(PooledArgs)
        /\ IsInjective(callback_args_pool_) =>
              /\ IsInjective(callback_args_pool_')
              /\ Range(callback_args_pool_') = Range(callback_args_pool_) \ {a}
    BY <1>1, <2>1, PoolPop
  <2>3. /\ args' \in [Args -> Fields]
        /\ args'[a].seqnum = s /\ args'[a].unlinking = args[a].unlinking
        /\ \A b \in Args : b # a => args'[b] = args[b]
    <3> DEFINE new == [args[a] EXCEPT !.seqnum = s]
    <3>1. args[a] \in Fields /\ args' = [args EXCEPT ![a] = new]
      BY <2>1
    <3>2. new \in Fields /\ new.seqnum = s /\ new.unlinking = args[a].unlinking
      BY <1>s, <3>1
    <3> QED
      BY <3>1, <3>2
  <2>4. a \notin heap
    BY <2>2
  <2>5. IsInjective(callback_args_pool_) =>
          ~Out(a) /\ \A b \in Args : Out(b)' <=> Out(b) \/ b = a
    BY <2>1, <2>2, <2>4 DEF Out, Lent
  <2> QED
    BY <2>1, <2>2, <2>3, <2>5
<1>2. CASE callback_args_pool_ = <<>>
  <2>1. /\ a \notin PooledArgs \cup heap /\ heap' = heap \cup {a}
        /\ callback_args_pool_' = callback_args_pool_ /\ reused' = reused
        /\ args' = [args EXCEPT ![a] = [Blank EXCEPT !.seqnum = s]]
    BY <1>2 DEF AllocArgs
  <2>2. /\ args' \in [Args -> Fields]
        /\ args'[a].seqnum = s /\ args'[a].unlinking = FALSE
        /\ \A b \in Args : b # a => args'[b] = args[b]
    BY <1>s, <2>1 DEF Blank
  <2>3. ~Out(a) /\ \A b \in Args : Out(b)' <=> Out(b) \/ b = a
    BY <2>1 DEF Out, Lent
  <2> QED
    BY <2>1, <2>2, <2>3
<1> QED
  BY <1>1, <1>2

\* Giving an object back that is out: it is out no more.
LEMMA Release ==
  ASSUME UrbsTypeOK, NEW a \in Args, FreeArgs(a)
  PROVE  /\ callback_args_pool_' \in Seq(PooledArgs) /\ heap' \subseteq Args \ PooledArgs
         /\ IsInjective(callback_args_pool_) =>
              /\ IsInjective(callback_args_pool_')
              /\ \A b \in Args : Out(b)' <=> Out(b) /\ b # a
<1> USE DEF UrbsTypeOK
<1>1. CASE Lent(a)
  <2>1. /\ a \in PooledArgs /\ a \notin Range(callback_args_pool_)
        /\ callback_args_pool_' = Append(callback_args_pool_, a) /\ heap' = heap \ {a}
    BY <1>1 DEF Lent, FreeArgs
  <2> QED
    BY <2>1, PoolPush DEF Out, Lent
<1>2. CASE ~Lent(a)
  BY <1>2 DEF FreeArgs, Out, Lent
<1> QED
  BY <1>1, <1>2

\* A reply goes to the end of the queue.
LEMMA Enqueued ==
  ASSUME ClientTypeOK, NEW k \in {"RET_SUBMIT", "RET_UNLINK"}, NEW q \in Nat,
         NEW st \in {"OK", "EPIPE", "ECONNRESET", "ESHUTDOWN"}, Enqueue(k, q, st)
  PROVE  /\ replies' \in Seq(Reply)
         /\ Len(replies) \in Nat /\ DOMAIN replies = 1 .. Len(replies)
         /\ DOMAIN replies' = 1 .. Len(replies) + 1
         /\ \A i \in DOMAIN replies : replies'[i] = replies[i]
         /\ replies'[Len(replies) + 1].kind = k /\ replies'[Len(replies) + 1].seqnum = q
         /\ \A k2, q2 : Replied(k2, q2)' <=> Replied(k2, q2) \/ (k2 = k /\ q2 = q)
<1> DEFINE r == [kind |-> k, seqnum |-> q, status |-> st]
<1>1. r \in Reply
  BY DEF Reply
<1>2. replies \in Seq(Reply) /\ replies' = Append(replies, r)
  BY DEF ClientTypeOK, Enqueue
<1>3. /\ replies' \in Seq(Reply)
      /\ Len(replies) \in Nat /\ DOMAIN replies = 1 .. Len(replies)
      /\ DOMAIN replies' = 1 .. Len(replies) + 1
      /\ \A i \in DOMAIN replies : replies'[i] = replies[i]
      /\ replies'[Len(replies) + 1] = r
  <2> HIDE DEF r
  <2> QED
    BY <1>1, <1>2
<1>4. \A k2, q2 : Replied(k2, q2)' <=> Replied(k2, q2) \/ (k2 = k /\ q2 = q)
  BY <1>3 DEF Replied
<1> QED
  BY <1>3, <1>4

\* An URB's own reply keeps the replies in order if it is the URB's first and
\* no unlink of it was answered.
LEMMA AddRetSubmit ==
  ASSUME ClientTypeOK, RepliesInOrder, NEW q \in Nat,
         NEW st \in {"OK", "EPIPE", "ECONNRESET", "ESHUTDOWN"}, Enqueue("RET_SUBMIT", q, st),
         q \in submitted', submitted \subseteq submitted', unlinks' = unlinks,
         ~Replied("RET_SUBMIT", q),
         \A u \in unlinks : u[1] = q => ~Replied("RET_UNLINK", u[2])
  PROVE  RepliesInOrder'
<1>1. /\ Len(replies) \in Nat /\ DOMAIN replies = 1 .. Len(replies)
      /\ DOMAIN replies' = 1 .. Len(replies) + 1
      /\ \A i \in DOMAIN replies : replies'[i] = replies[i]
      /\ replies'[Len(replies) + 1].kind = "RET_SUBMIT"
      /\ replies'[Len(replies) + 1].seqnum = q
  BY Enqueued
<1>2. \A i \in DOMAIN replies' : i \in DOMAIN replies \/ i = Len(replies) + 1
  BY <1>1
<1>3. \A i \in DOMAIN replies' :
        IF replies'[i].kind = "RET_SUBMIT" THEN replies'[i].seqnum \in submitted'
        ELSE \E u \in unlinks' : u[2] = replies'[i].seqnum
  <2>1. \A i \in DOMAIN replies :
          IF replies[i].kind = "RET_SUBMIT" THEN replies[i].seqnum \in submitted
          ELSE \E u \in unlinks : u[2] = replies[i].seqnum
    BY DEF RepliesInOrder
  <2>2. \A i \in DOMAIN replies :
          IF replies'[i].kind = "RET_SUBMIT" THEN replies'[i].seqnum \in submitted'
          ELSE \E u \in unlinks' : u[2] = replies'[i].seqnum
    BY <2>1, <1>1
  <2> QED
    BY <1>1, <1>2, <2>2
<1>4. \A i, j \in DOMAIN replies' :
        replies'[i].kind = replies'[j].kind /\ replies'[i].seqnum = replies'[j].seqnum => i = j
  BY <1>1, <1>2 DEF RepliesInOrder, Replied
<1>5. \A u \in unlinks' : \A i, j \in DOMAIN replies' :
        /\ replies'[i].kind = "RET_UNLINK" /\ replies'[i].seqnum = u[2]
        /\ replies'[j].kind = "RET_SUBMIT" /\ replies'[j].seqnum = u[1]
        => j < i
  BY <1>1, <1>2 DEF RepliesInOrder, Replied
<1> QED
  BY <1>3, <1>4, <1>5 DEF RepliesInOrder

\* The reply to an unlink keeps them in order if it is the unlink's first.
LEMMA AddRetUnlink ==
  ASSUME ClientTypeOK, RepliesInOrder, NEW q \in Nat,
         NEW st \in {"OK", "EPIPE", "ECONNRESET", "ESHUTDOWN"}, Enqueue("RET_UNLINK", q, st),
         submitted' = submitted, unlinks \subseteq unlinks',
         \E u \in unlinks' : u[2] = q,
         \A u \in unlinks' : u \in unlinks \/ u[2] = q,
         ~Replied("RET_UNLINK", q)
  PROVE  RepliesInOrder'
<1>1. /\ Len(replies) \in Nat /\ DOMAIN replies = 1 .. Len(replies)
      /\ DOMAIN replies' = 1 .. Len(replies) + 1
      /\ \A i \in DOMAIN replies : replies'[i] = replies[i]
      /\ replies'[Len(replies) + 1].kind = "RET_UNLINK"
      /\ replies'[Len(replies) + 1].seqnum = q
  BY Enqueued
<1>2. \A i \in DOMAIN replies' : i \in DOMAIN replies \/ i = Len(replies) + 1
  BY <1>1
<1>3. \A i \in DOMAIN replies' :
        IF replies'[i].kind = "RET_SUBMIT" THEN replies'[i].seqnum \in submitted'
        ELSE \E u \in unlinks' : u[2] = replies'[i].seqnum
  <2>1. \A i \in DOMAIN replies :
          IF replies[i].kind = "RET_SUBMIT" THEN replies[i].seqnum \in submitted
          ELSE \E u \in unlinks : u[2] = replies[i].seqnum
    BY DEF RepliesInOrder
  <2>2. \A i \in DOMAIN replies :
          IF replies'[i].kind = "RET_SUBMIT" THEN replies'[i].seqnum \in submitted'
          ELSE \E u \in unlinks' : u[2] = replies'[i].seqnum
    BY <2>1, <1>1
  <2> QED
    BY <1>1, <1>2, <2>2
<1>4. \A i, j \in DOMAIN replies' :
        replies'[i].kind = replies'[j].kind /\ replies'[i].seqnum = replies'[j].seqnum => i = j
  BY <1>1, <1>2 DEF RepliesInOrder, Replied
<1>5. \A u \in unlinks' : \A i, j \in DOMAIN replies' :
        /\ replies'[i].kind = "RET_UNLINK" /\ replies'[i].seqnum = u[2]
        /\ replies'[j].kind = "RET_SUBMIT" /\ replies'[j].seqnum = u[1]
        => j < i
  BY <1>1, <1>2 DEF RepliesInOrder, Replied
<1> QED
  BY <1>3, <1>4, <1>5 DEF RepliesInOrder

\* The next URB's number is new, the one after all before.
LEMMA NextSeqnum ==
  ASSUME ClientTypeOK, NEW s \in Seqnums, NextUrb(s)
  PROVE  s \notin submitted /\ \E n \in 0 .. MaxUrbs : submitted \cup {s} = 1 .. n
<1>1. PICK n \in 0 .. MaxUrbs : submitted = 1 .. n
  BY DEF ClientTypeOK
<1>2. Cardinality(1 .. n) = n
  <2>1. n \in Int /\ 1 \in Int /\ n >= 0
    BY <1>1, Bounds
  <2> QED
    BY <2>1, FS_Interval
<1>3. s = n + 1 /\ n + 1 \in 0 .. MaxUrbs
  BY <1>1, <1>2, Bounds DEF Seqnums, NextUrb
<1> QED
  BY <1>1, <1>3, Bounds

\* The next unlink's number is above all before.
LEMMA NextUnlink ==
  ASSUME ClientTypeOK, NEW s, MayUnlink(s), unlinks' = unlinks \cup {<<s, CmdSeqnum>>}
  PROVE  /\ s \in submitted /\ CmdSeqnum \in Nat
         /\ \A u \in unlinks : u[1] # s /\ u[2] # CmdSeqnum
         /\ unlinks' \subseteq submitted \X Nat /\ IsFiniteSet(unlinks')
         /\ \A u \in unlinks' : u[2] <= MaxUrbs + Cardinality(unlinks')
         /\ \A u, v \in unlinks' : u[1] = v[1] \/ u[2] = v[2] => u = v
<1> DEFINE new == <<s, CmdSeqnum>>
<1>1. /\ IsFiniteSet(unlinks) /\ Cardinality(unlinks) \in Nat /\ MaxUrbs \in Nat
      /\ unlinks \subseteq submitted \X Nat
      /\ \A u \in unlinks : u[1] # s /\ u[2] \in Nat /\ u[2] <= MaxUrbs + Cardinality(unlinks)
      /\ s \in submitted
  BY FS_CardinalityType, Bounds DEF ClientTypeOK, MayUnlink
<1>2. CmdSeqnum = MaxUrbs + Cardinality(unlinks) + 1 /\ CmdSeqnum \in Nat
  BY <1>1 DEF CmdSeqnum
<1>3. \A u \in unlinks : u[1] # s /\ u[2] # CmdSeqnum
  BY <1>1, <1>2
<1>4. new \notin unlinks /\ new[1] = s /\ new[2] = CmdSeqnum
  BY <1>3
<1>5. IsFiniteSet(unlinks') /\ Cardinality(unlinks') = Cardinality(unlinks) + 1
  BY <1>1, <1>4, FS_AddElement
<1>6. \A u \in unlinks' : u[2] <= MaxUrbs + Cardinality(unlinks')
  BY <1>1, <1>2, <1>5
<1>7. \A u, v \in unlinks' : u[1] = v[1] \/ u[2] = v[2] => u = v
  BY <1>3, <1>4 DEF ClientTypeOK
<1>8. unlinks' \subseteq submitted \X Nat
  BY <1>1, <1>2
<1> QED
  BY <1>1, <1>2, <1>3, <1>5, <1>6, <1>7, <1>8

-----------------------------------------------------------------------------
(* Types.                                                                  *)

\* No connection yet, nothing outstanding.
LEMMA HandlerStart == LibusbHandlerInit => HandlerInv
<1> SUFFICES ASSUME LibusbHandlerInit PROVE HandlerInv
  OBVIOUS
<1> USE DEF LibusbHandlerInit
<1>1. 0 \in 0 .. MaxUrbs /\ 0 \in Nat
  BY Bounds
<1>2. transfers_ = <<>> /\ DOMAIN transfers_ = {} /\ DOMAIN replies = {}
  OBVIOUS
<1>3. UrbsTypeOK
  <2>1. args \in [Args -> Fields]
    BY <1>1 DEF Blank
  <2>2. receiver \in Receivers
    OBVIOUS
  <2>3. event \in Events
    OBVIOUS
  <2>4. trx \in [Args -> {"none", "flying", "cancelling"}]
    OBVIOUS
  <2>5. receiver.pc = "away" /\ receiver.args = 0 /\ event.pc = "idle"
    OBVIOUS
  <2>6. callback_args_pool_ \in Seq(PooledArgs) /\ heap \subseteq Args \ PooledArgs
    BY FullPool
  <2>8. pending_count_ \in Int
    OBVIOUS
  <2>7. /\ client_disconnection \in BOOLEAN /\ device_removed \in BOOLEAN
        /\ reused \in BOOLEAN /\ overtaken \in BOOLEAN
    OBVIOUS
  <2> HIDE DEF LibusbHandlerInit
  <2> QED
    BY <1>2, <2>1, <2>2, <2>3, <2>4, <2>5, <2>6, <2>7, <2>8 DEF UrbsTypeOK
<1>4. ClientTypeOK
  <2>1. submitted = 1 .. 0 /\ IsFiniteSet(unlinks)
    BY FS_EmptySet
  <2>2. replies \in Seq(Reply)
    OBVIOUS
  <2> QED
    BY <1>1, <2>1, <2>2 DEF ClientTypeOK
<1>5. TrackInv
  <2>1. pending_count_ = Cardinality(DOMAIN transfers_)
    BY <1>2, FS_EmptySet
  <2>2. \A a \in Args : ~Busy(a)
    BY Bounds DEF Busy
  <2> QED
    BY <1>2, <2>1, <2>2, FullPool DEF TrackInv, Tracks
<1>6. AwayInv
  BY <1>2 DEF AwayInv
<1>7. ReplyInv
  BY <1>2 DEF ReplyInv, RepliesInOrder, OwedInv
<1> QED
  BY <1>3, <1>4, <1>5, <1>6, <1>7 DEF HandlerInv

\* A URB's status has a translation.
LEMMA Translated ==
  ASSUME NEW st \in {"COMPLETED", "ERROR", "NO_DEVICE", "CANCELLED"}
  PROVE  trxstat2error(st) \in {"OK", "EPIPE", "ECONNRESET", "ESHUTDOWN"}
BY DEF trxstat2error

\* However a transfer ends, the status is one of these.
LEMMA EndStatusType ==
  \A state : EndStatus(state) \subseteq {"COMPLETED", "ERROR", "NO_DEVICE", "CANCELLED"}
BY DEF EndStatus, Excused

\* Erasing a URB from the table.
LEMMA Erased ==
  ASSUME UrbsTypeOK, NEW q, Erase(q)
  PROVE  /\ DOMAIN transfers_' = DOMAIN transfers_ \ {q}
         /\ \A s \in DOMAIN transfers_' : transfers_'[s] = transfers_[s]
         /\ DOMAIN transfers_' \subseteq submitted
         /\ \A s \in DOMAIN transfers_' : transfers_'[s] \in Args
BY DEF UrbsTypeOK, Erase

\* Each step keeps the types of what the two threads and libusb work with ...
LEMMA UrbsTypeStep ==
  ASSUME UrbsTypeOK, ClientTypeOK, LibusbHandlerNext
  PROVE  UrbsTypeOK'
<1> USE DEF argsVars, trackVars, historyVars
<1>1. CASE on_new_connection
  BY <1>1 DEF on_new_connection, Idle, UrbsTypeOK
<1>2. CASE receive_urb_Submit
  <2>1. receiver.args \in Args
    BY <1>2 DEF receive_urb_Submit, UrbsTypeOK
  <2>2. receiver' = Idle \/ receiver' = [receiver EXCEPT !.pc = "refused"]
    BY <1>2 DEF receive_urb_Submit
  <2>3. /\ receiver' \in Receivers
        /\ receiver'.pc \in {"submit", "refused"} <=> receiver'.args # 0
    BY <1>2, <2>1, <2>2, Bounds DEF receive_urb_Submit, Idle, UrbsTypeOK
  <2>4. trx' \in [Args -> {"none", "flying", "cancelling"}]
    BY <1>2 DEF receive_urb_Submit, UrbsTypeOK
  <2> QED
    BY <1>2, <2>3, <2>4 DEF receive_urb_Submit, UrbsTypeOK
<1>3. CASE receive_urb_Refused
  <2>1. receiver.args \in Args
    BY <1>3 DEF receive_urb_Refused, UrbsTypeOK
  <2>2. callback_args_pool_' \in Seq(PooledArgs) /\ heap' \subseteq Args \ PooledArgs
    BY <1>3, <2>1, Release DEF receive_urb_Refused
  <2>3. /\ DOMAIN transfers_' \subseteq submitted
        /\ \A s \in DOMAIN transfers_' : transfers_'[s] \in Args
    BY <1>3, Erased DEF receive_urb_Refused
  <2>4. pending_count_' \in Int
    BY <1>3 DEF receive_urb_Refused, UrbsTypeOK
  <2>5. receiver' \in {Idle, Leaving} /\ device_removed' \in BOOLEAN
    BY <1>3 DEF receive_urb_Refused, RefusedAs, UrbsTypeOK
  <2> QED
    BY <1>3, <2>2, <2>3, <2>4, <2>5 DEF receive_urb_Refused, Idle, Leaving, UrbsTypeOK
<1>17. CASE receiver_Enter
  BY <1>17 DEF receiver_Enter, Entered, UrbsTypeOK
<1>4. ASSUME NEW s \in Seqnums, receive_urb_Answered(s) PROVE UrbsTypeOK'
  BY <1>4 DEF receive_urb_Answered, Idle, UrbsTypeOK
<1>14. ASSUME NEW s \in Seqnums, receive_urb_Removed(s) PROVE UrbsTypeOK'
  BY <1>14 DEF receive_urb_Removed, Idle, Leaving, UrbsTypeOK
<1>15. ASSUME NEW s \in Seqnums, handle_unlink_seqnum_Removed(s) PROVE UrbsTypeOK'
  BY <1>15 DEF handle_unlink_seqnum_Removed, UrbsTypeOK
<1>16. CASE on_device_removed
  BY <1>16 DEF on_device_removed, UrbsTypeOK
<1>5. ASSUME NEW s \in Seqnums, receive_urb_Track(s) PROVE UrbsTypeOK'
  <2>1. PICK a \in Args :
          /\ AllocArgs(a, s)
          /\ transfers_' =
               [q \in DOMAIN transfers_ \cup {s} |-> IF q = s THEN a ELSE transfers_[q]]
          /\ receiver' = [pc |-> "submit", args |-> a]
    BY <1>5 DEF receive_urb_Track
  <2>2. /\ args' \in [Args -> Fields]
        /\ callback_args_pool_' \in Seq(PooledArgs) /\ heap' \subseteq Args \ PooledArgs
        /\ reused' \in BOOLEAN
    BY <2>1, Alloc
  <2>3. /\ DOMAIN transfers_' \subseteq submitted'
        /\ \A q \in DOMAIN transfers_' : transfers_'[q] \in Args
    BY <1>5, <2>1 DEF receive_urb_Track, UrbsTypeOK
  <2>4. pending_count_' \in Int
    BY <1>5 DEF receive_urb_Track, UrbsTypeOK
  <2> QED
    BY <1>5, <2>1, <2>2, <2>3, <2>4, Bounds DEF receive_urb_Track, UrbsTypeOK
<1>6. ASSUME NEW as PROVE Cancelled(as) \in [Args -> {"none", "flying", "cancelling"}]
  BY DEF Cancelled, UrbsTypeOK
<1>7. ASSUME NEW s \in Seqnums, handle_unlink_seqnum_Found(s) PROVE UrbsTypeOK'
  <2>1. CmdSeqnum \in Nat
    BY <1>7, NextUnlink DEF handle_unlink_seqnum_Found
  <2>2. transfers_[s] \in Args
    BY <1>7 DEF handle_unlink_seqnum_Found, Tracked, UrbsTypeOK
  <2>3. args' \in [Args -> Fields]
    <3> DEFINE a == transfers_[s]
               old == args[a]
               new == [old EXCEPT !.unlinking = TRUE, !.unlink_cmd_seqnum = CmdSeqnum]
    <3>1. old \in Fields
      BY <2>2 DEF UrbsTypeOK
    <3>2. new \in Fields
      BY <2>1, <3>1
    <3>3. args' = [args EXCEPT ![a] = new]
      BY <1>7 DEF handle_unlink_seqnum_Found
    <3> HIDE DEF new, a
    <3> QED
      BY <3>2, <3>3 DEF UrbsTypeOK
  <2> QED
    BY <1>6, <1>7, <2>3 DEF handle_unlink_seqnum_Found, Idle, UrbsTypeOK
<1>8. ASSUME NEW s \in Seqnums, handle_unlink_seqnum_NotFound(s) PROVE UrbsTypeOK'
  BY <1>8 DEF handle_unlink_seqnum_NotFound, Idle, UrbsTypeOK
<1>9. CASE on_disconnection_Cancel
  BY <1>6, <1>9 DEF on_disconnection_Cancel, Idle, Leaving, UrbsTypeOK
<1>10. CASE on_disconnection_Reset
  <2>1. overtaken' \in BOOLEAN
    BY <1>10 DEF on_disconnection_Reset
  <2> QED
    BY <1>10, <2>1, FullPool DEF on_disconnection_Reset, Idle, UrbsTypeOK
<1>11. ASSUME NEW a \in Args, transfer_callback_Begin(a) PROVE UrbsTypeOK'
  <2>1. PICK status \in EndStatus(trx[a]) :
          /\ event' = [pc |-> IF client_disconnection THEN "drop" ELSE "answer",
                       args |-> a, status |-> status]
          /\ device_removed' =
               (device_removed \/ (status = "NO_DEVICE" /\ ~client_disconnection))
    BY <1>11 DEF transfer_callback_Begin
  <2>2. status \in {"COMPLETED", "ERROR", "NO_DEVICE", "CANCELLED"}
    BY EndStatusType
  <2>3. device_removed' \in BOOLEAN
    BY <2>1
  <2>4. trx' \in [Args -> {"none", "flying", "cancelling"}]
    BY <1>11 DEF transfer_callback_Begin, UrbsTypeOK
  <2> QED
    BY <1>11, <2>1, <2>2, <2>3, <2>4 DEF transfer_callback_Begin, UrbsTypeOK
<1>12. ASSUME transfer_callback_Answer \/ transfer_callback_Drop PROVE UrbsTypeOK'
  <2>1. /\ event' = [event EXCEPT !.pc = "free"] /\ Erase(args[event.args].seqnum)
        /\ pending_count_' = pending_count_ - 1 /\ event.pc # "idle"
    BY <1>12 DEF transfer_callback_Answer, transfer_callback_Drop
  <2>2. /\ DOMAIN transfers_' \subseteq submitted
        /\ \A s \in DOMAIN transfers_' : transfers_'[s] \in Args
    BY <2>1, Erased
  <2>3. /\ event' \in Events
        /\ event'.args \in Args /\ event'.status # "none"
    BY <2>1 DEF UrbsTypeOK
  <2>4. UNCHANGED <<receiver, argsVars, trx, client_disconnection, device_removed, historyVars>>
    BY <1>12 DEF transfer_callback_Answer, transfer_callback_Drop
  <2>5. pending_count_' \in Int
    BY <2>1 DEF UrbsTypeOK
  <2> QED
    BY <2>2, <2>3, <2>4, <2>5 DEF UrbsTypeOK
<1>13. CASE transfer_callback_Free
  <2>1. event.args \in Args
    BY <1>13 DEF transfer_callback_Free, UrbsTypeOK
  <2>2. callback_args_pool_' \in Seq(PooledArgs) /\ heap' \subseteq Args \ PooledArgs
    BY <1>13, <2>1, Release DEF transfer_callback_Free
  <2> QED
    BY <1>13, <2>2 DEF transfer_callback_Free, UrbsTypeOK
<1> QED
  BY <1>1, <1>2, <1>3, <1>4, <1>5, <1>7, <1>8, <1>9, <1>10, <1>11, <1>12, <1>13, <1>14,
     <1>15, <1>16, <1>17
     DEF LibusbHandlerNext

\* ... and of what the client sees.
LEMMA ClientTypeStep ==
  ASSUME UrbsTypeOK, ClientTypeOK, LibusbHandlerNext
  PROVE  ClientTypeOK'
<1> USE DEF argsVars, trackVars, historyVars
<1>1. ASSUME UNCHANGED <<replies, submitted, unlinks, ignored>> PROVE ClientTypeOK'
  BY <1>1 DEF ClientTypeOK
<1>2. ASSUME replies' \in Seq(Reply), UNCHANGED <<submitted, unlinks, ignored>>
      PROVE  ClientTypeOK'
  BY <1>2 DEF ClientTypeOK
<1>3. CASE receive_urb_Refused
  <2>1. args[receiver.args].seqnum \in Nat
    BY <1>3, Bounds DEF receive_urb_Refused, UrbsTypeOK
  <2>2. replies' \in Seq(Reply)
    BY <1>3, <2>1, Enqueued DEF receive_urb_Refused
  <2> QED
    BY <1>2, <1>3, <2>2 DEF receive_urb_Refused
<1>4. ASSUME NEW s \in Seqnums,
             receive_urb_Answered(s) \/ receive_urb_Track(s) \/ receive_urb_Removed(s)
      PROVE  ClientTypeOK'
  <2>1. \E n \in 0 .. MaxUrbs : submitted' = 1 .. n
    BY <1>4, NextSeqnum DEF receive_urb_Answered, receive_urb_Removed, receive_urb_Track
  <2>2. s \in Nat
    BY Bounds
  <2>3. replies' \in Seq(Reply)
    <3>1. CASE receive_urb_Answered(s)
      BY <2>2, <3>1, Enqueued DEF receive_urb_Answered
    <3>2. CASE receive_urb_Track(s)
      BY <3>2 DEF receive_urb_Track, ClientTypeOK
    <3>3. CASE receive_urb_Removed(s)
      BY <3>3 DEF receive_urb_Removed, ClientTypeOK
    <3> QED
      BY <1>4, <3>1, <3>2, <3>3
  <2>4. unlinks' = unlinks /\ ignored' = ignored /\ submitted \subseteq submitted'
    BY <1>4 DEF receive_urb_Answered, receive_urb_Removed, receive_urb_Track
  <2> QED
    BY <2>1, <2>3, <2>4 DEF ClientTypeOK
<1>5. ASSUME NEW s \in Seqnums,
             \/ handle_unlink_seqnum_Found(s) \/ handle_unlink_seqnum_NotFound(s)
             \/ handle_unlink_seqnum_Removed(s)
      PROVE  ClientTypeOK'
  <2>1. MayUnlink(s) /\ unlinks' = unlinks \cup {<<s, CmdSeqnum>>} /\ submitted' = submitted
    BY <1>5 DEF handle_unlink_seqnum_Found, handle_unlink_seqnum_NotFound,
                handle_unlink_seqnum_Removed
  <2>2. /\ CmdSeqnum \in Nat
        /\ unlinks' \subseteq submitted \X Nat /\ IsFiniteSet(unlinks')
        /\ \A u \in unlinks' : u[2] <= MaxUrbs + Cardinality(unlinks')
        /\ \A u, v \in unlinks' : u[1] = v[1] \/ u[2] = v[2] => u = v
    BY <2>1, NextUnlink
  <2>3. replies' \in Seq(Reply)
    <3>1. CASE handle_unlink_seqnum_Found(s)
      BY <3>1 DEF handle_unlink_seqnum_Found, ClientTypeOK
    <3>2. CASE handle_unlink_seqnum_NotFound(s)
      BY <2>2, <3>2, Enqueued DEF handle_unlink_seqnum_NotFound
    <3>3. CASE handle_unlink_seqnum_Removed(s)
      BY <3>3 DEF handle_unlink_seqnum_Removed, ClientTypeOK
    <3> QED
      BY <1>5, <3>1, <3>2, <3>3
  <2>4. ignored' \subseteq unlinks'
    BY <1>5 DEF handle_unlink_seqnum_Found, handle_unlink_seqnum_NotFound,
                handle_unlink_seqnum_Removed, ClientTypeOK
  <2> QED
    BY <2>1, <2>2, <2>3, <2>4 DEF ClientTypeOK
<1>6. CASE on_disconnection_Reset
  <2>1. replies' = <<>> /\ unlinks' = {} /\ ignored' = {} /\ submitted' = submitted
    BY <1>6 DEF on_disconnection_Reset
  <2> QED
    BY <2>1, FS_EmptySet DEF ClientTypeOK
<1>7. CASE transfer_callback_Answer
  <2>1. /\ args[event.args].seqnum \in Nat /\ args[event.args].unlink_cmd_seqnum \in Nat
        /\ event.status \in {"COMPLETED", "ERROR", "NO_DEVICE", "CANCELLED"}
    BY <1>7, Bounds DEF transfer_callback_Answer, UrbsTypeOK
  <2>2. replies' \in Seq(Reply)
    BY <1>7, <2>1, Translated, Enqueued DEF transfer_callback_Answer
  <2> QED
    BY <1>2, <1>7, <2>2 DEF transfer_callback_Answer
<1> QED
  BY <1>1, <1>3, <1>4, <1>5, <1>6, <1>7
     DEF LibusbHandlerNext, on_new_connection, receiver_Enter, receive_urb_Submit,
         on_disconnection_Cancel, on_device_removed, transfer_callback_Begin,
         transfer_callback_Drop, transfer_callback_Free

-----------------------------------------------------------------------------
(* What is outstanding.                                                    *)

\* The table has as many entries as a number says.
LEMMA TableFinite ==
  ASSUME UrbsTypeOK, ClientTypeOK
  PROVE  IsFiniteSet(DOMAIN transfers_) /\ Cardinality(DOMAIN transfers_) \in Nat
<1>1. PICK n \in 0 .. MaxUrbs : submitted = 1 .. n
  BY DEF ClientTypeOK
<1>2. n \in Int /\ 1 \in Int
  BY Bounds
<1>3. IsFiniteSet(submitted)
  BY <1>1, <1>2, FS_Interval
<1> QED
  BY <1>3, FS_Subset, FS_CardinalityType DEF UrbsTypeOK

\* A URB whose object is neither with a thread nor with libusb any more leaves
\* the table.
LEMMA Untrack ==
  ASSUME UrbsTypeOK, ClientTypeOK, Tracks, NEW a \in Args, Busy(a),
         Erase(args[a].seqnum), pending_count_' = pending_count_ - 1, UNCHANGED args,
         \A b \in Args : Busy(b)' <=> Busy(b) /\ b # a
  PROVE  /\ pending_count_' = Cardinality(DOMAIN transfers_')
         /\ \A s \in DOMAIN transfers_' : \A b \in Args :
              transfers_'[s] = b => args'[b].seqnum = s /\ Busy(b)' /\ Out(b) /\ b # a
         /\ \A b \in Args : Busy(b)' =>
              Tracked(args[b].seqnum)' /\ transfers_'[args'[b].seqnum] = b
<1> DEFINE q == args[a].seqnum
<1>1. q \in DOMAIN transfers_ /\ transfers_[q] = a
  BY DEF Tracks, Tracked
<1>2. /\ DOMAIN transfers_' = DOMAIN transfers_ \ {q}
      /\ \A s \in DOMAIN transfers_' : transfers_'[s] = transfers_[s] /\ transfers_'[s] \in Args
  BY Erased
<1>3. pending_count_' = Cardinality(DOMAIN transfers_')
  <2>1. IsFiniteSet(DOMAIN transfers_)
    BY TableFinite
  <2>2. Cardinality(DOMAIN transfers_ \ {q}) = Cardinality(DOMAIN transfers_) - 1
    BY <1>1, <2>1, FS_RemoveElement
  <2> QED
    BY <1>2, <2>2 DEF Tracks
<1>4. \A s \in DOMAIN transfers_' : \A b \in Args :
        transfers_'[s] = b => args'[b].seqnum = s /\ Busy(b)' /\ Out(b) /\ b # a
  BY <1>1, <1>2 DEF Tracks
<1>5. \A b \in Args : Busy(b)' =>
        Tracked(args[b].seqnum)' /\ transfers_'[args'[b].seqnum] = b
  BY <1>1, <1>2 DEF Tracks, Tracked
<1> QED
  BY <1>3, <1>4, <1>5

\* Every step of the model that is not the reset keeps Tracks.
LEMMA TrackStep ==
  ASSUME UrbsTypeOK, ClientTypeOK, TrackInv, AwayInv, LibusbHandlerNext
  PROVE  TrackInv'
<1> USE DEF argsVars, trackVars, historyVars
<1>o. overtaken \in BOOLEAN /\ overtaken' \in BOOLEAN
  BY UrbsTypeStep DEF UrbsTypeOK
<1>p. ASSUME overtaken PROVE TrackInv'
  BY <1>p DEF LibusbHandlerNext, on_new_connection, receiver_Enter, receive_urb_Submit,
     receive_urb_Refused, receive_urb_Answered, receive_urb_Removed, receive_urb_Track,
     handle_unlink_seqnum_Found, handle_unlink_seqnum_NotFound,
     handle_unlink_seqnum_Removed, on_device_removed, on_disconnection_Cancel,
     on_disconnection_Reset, transfer_callback_Begin,
     transfer_callback_Answer, transfer_callback_Drop, transfer_callback_Free, TrackInv
<1> SUFFICES ASSUME ~overtaken PROVE overtaken' \/ Tracks'
  BY <1>p DEF TrackInv
<1>q. Tracks
  BY DEF TrackInv
<1>1. CASE on_new_connection
  <2>1. \A a \in Args : Busy(a)' <=> Busy(a)
    BY <1>1 DEF on_new_connection, Busy, Idle, UrbsTypeOK
  <2> QED
    BY <1>q, <1>1, <2>1, Bounds
       DEF on_new_connection, Tracks, Tracked, Out, Lent, Idle, UrbsTypeOK
<1>2. ASSUME UNCHANGED <<event, argsVars, trackVars>>, receiver'.args = receiver.args
      PROVE  Tracks'
  BY <1>q, <1>2 DEF Tracks, Tracked, Busy, Out, Lent
<1>13. ASSUME NEW s \in Seqnums,
              \/ receive_urb_Answered(s) \/ receive_urb_Removed(s)
              \/ handle_unlink_seqnum_NotFound(s) \/ handle_unlink_seqnum_Removed(s)
       PROVE  Tracks'
  BY <1>2, <1>13 DEF receive_urb_Answered, receive_urb_Removed, Idle, Entered, Leaving,
                     handle_unlink_seqnum_NotFound, handle_unlink_seqnum_Removed
<1>14. CASE on_device_removed \/ receiver_Enter
  BY <1>2, <1>14 DEF on_device_removed, receiver_Enter, Idle, Entered
<1>3. ASSUME NEW s \in Seqnums, receive_urb_Track(s) PROVE Tracks'
  <2>1. PICK a \in Args :
          /\ AllocArgs(a, s)
          /\ transfers_' =
               [q \in DOMAIN transfers_ \cup {s} |-> IF q = s THEN a ELSE transfers_[q]]
          /\ receiver' = [pc |-> "submit", args |-> a]
    BY <1>3 DEF receive_urb_Track
  <2>2. /\ args'[a].seqnum = s /\ \A b \in Args : b # a => args'[b] = args[b]
        /\ IsInjective(callback_args_pool_')
        /\ ~Out(a) /\ \A b \in Args : Out(b)' <=> Out(b) \/ b = a
    BY <1>q, <2>1, Alloc DEF Tracks
  <2>3. receiver.args = 0 /\ UNCHANGED <<event, trx>> /\ a # 0
    BY <1>3, Bounds DEF receive_urb_Track, Entered
  <2>4. ~Busy(a) /\ \A b \in Args : Busy(b)' <=> Busy(b) \/ b = a
    <3>1. ~Busy(a)
      BY <1>q, <2>2 DEF Tracks, Tracked
    <3> QED
      BY <2>1, <2>3, <3>1, Bounds DEF Busy
  <2>5. s \notin DOMAIN transfers_
    BY <1>3, NextSeqnum DEF receive_urb_Track, UrbsTypeOK
  <2>6. /\ DOMAIN transfers_' = DOMAIN transfers_ \cup {s} /\ transfers_'[s] = a
        /\ \A q \in DOMAIN transfers_ : transfers_'[q] = transfers_[q]
    BY <2>1, <2>5
  <2>7. pending_count_' = Cardinality(DOMAIN transfers_')
    <3>1. IsFiniteSet(DOMAIN transfers_)
      BY TableFinite
    <3>2. Cardinality(DOMAIN transfers_ \cup {s}) = Cardinality(DOMAIN transfers_) + 1
      BY <2>5, <3>1, FS_AddElement
    <3> QED
      BY <1>3, <1>q, <2>6, <3>2 DEF receive_urb_Track, Tracks
  <2>8. \A q \in DOMAIN transfers_ : transfers_[q] \in Args /\ transfers_[q] # a
    BY <1>q, <2>2 DEF Tracks, UrbsTypeOK
  <2>9. \A q \in DOMAIN transfers_' : \A b \in Args :
          transfers_'[q] = b => args'[b].seqnum = q /\ Busy(b)' /\ Out(b)'
    BY <1>q, <2>2, <2>4, <2>6, <2>8 DEF Tracks
  <2>10. \A b \in Args : Busy(b)' =>
           Tracked(args[b].seqnum)' /\ transfers_'[args'[b].seqnum] = b
    BY <1>q, <2>2, <2>4, <2>6 DEF Tracks, Tracked
  <2>11. trx'[receiver'.args] = "none"
    BY <2>1, <2>3, <2>4 DEF Busy
  <2>12. event'.pc \in {"answer", "drop"} =>
        trx'[event'.args] = "none" /\ receiver'.args # event'.args
    BY <1>q, <2>1, <2>3, <2>4 DEF Tracks, Busy
  <2>13. event'.pc = "free" => /\ Out(event.args)'
                               /\ \A q \in DOMAIN transfers_' : transfers_'[q] # event'.args
    BY <1>q, <2>2, <2>3, <2>6 DEF Tracks, UrbsTypeOK
  <2> QED
    BY <2>2, <2>7, <2>9, <2>10, <2>11, <2>12, <2>13 DEF Tracks
<1>4. CASE receive_urb_Submit
  <2>1. receiver.args \in Args
    BY <1>4 DEF receive_urb_Submit, UrbsTypeOK
  <2>2. \A b \in Args : Busy(b)' <=> Busy(b)
    BY <1>4, <2>1, Bounds DEF receive_urb_Submit, Idle, Busy, UrbsTypeOK
  <2>3. receiver'.args # 0 => trx'[receiver'.args] = "none"
    BY <1>q, <1>4 DEF receive_urb_Submit, Idle, Tracks, UrbsTypeOK
  <2>4. event.pc \in {"answer", "drop"} =>
        trx'[event.args] = "none" /\ receiver'.args # event.args
    BY <1>q, <1>4, <2>1, Bounds DEF receive_urb_Submit, Idle, Tracks, UrbsTypeOK
  <2>5. UNCHANGED <<event, argsVars, transfers_, pending_count_>>
    BY <1>4 DEF receive_urb_Submit
  <2> QED
    BY <1>q, <2>2, <2>3, <2>4, <2>5 DEF Tracks, Tracked, Out, Lent
<1>5. CASE receive_urb_Refused
  <2> DEFINE a == receiver.args
  <2>1. a \in Args /\ Busy(a)
    BY <1>5 DEF receive_urb_Refused, UrbsTypeOK, Busy
  <2>2. \A b \in Args : Busy(b)' <=> Busy(b) /\ b # a
    BY <1>q, <1>5, <2>1, Bounds
       DEF receive_urb_Refused, RefusedAs, Idle, Leaving, Tracks, Busy
  <2>3. /\ pending_count_' = Cardinality(DOMAIN transfers_')
        /\ \A s \in DOMAIN transfers_' : \A b \in Args :
              transfers_'[s] = b => args'[b].seqnum = s /\ Busy(b)' /\ Out(b) /\ b # a
        /\ \A b \in Args : Busy(b)' =>
              Tracked(args[b].seqnum)' /\ transfers_'[args'[b].seqnum] = b
    BY <1>q, <1>5, <2>1, <2>2, Untrack DEF receive_urb_Refused
  <2>4. /\ IsInjective(callback_args_pool_')
        /\ \A b \in Args : Out(b)' <=> Out(b) /\ b # a
    BY <1>q, <1>5, <2>1, Release DEF receive_urb_Refused, Tracks
  <2>5. receiver'.args = 0 /\ UNCHANGED <<event, trx>> /\ 0 \notin Args
    BY <1>5, Bounds DEF receive_urb_Refused, RefusedAs, Idle, Leaving
  <2>6. event.pc # "idle" => event.args \in Args
    BY DEF UrbsTypeOK
  <2>7. event'.pc \in {"answer", "drop"} =>
        trx'[event'.args] = "none" /\ receiver'.args # event'.args
    BY <1>q, <2>5, <2>6 DEF Tracks
  <2>8. event'.pc = "free" => /\ Out(event.args)'
                              /\ \A s \in DOMAIN transfers_' : transfers_'[s] # event'.args
    <3>1. args[a].seqnum \in DOMAIN transfers_ /\ transfers_[args[a].seqnum] = a
      BY <1>q, <2>1 DEF Tracks, Tracked
    <3>2. /\ DOMAIN transfers_' \subseteq DOMAIN transfers_
          /\ \A s \in DOMAIN transfers_' : transfers_'[s] = transfers_[s]
      BY <1>5, Erased DEF receive_urb_Refused
    <3> QED
      BY <1>q, <2>4, <2>5, <2>6, <3>1, <3>2 DEF Tracks
  <2> QED
    BY <2>3, <2>4, <2>5, <2>7, <2>8 DEF Tracks
<1>6. ASSUME NEW as
      PROVE  \A a \in Args : Cancelled(as)[a] = "none" <=> trx[a] = "none"
  BY DEF Cancelled, UrbsTypeOK
<1>7. ASSUME NEW s \in Seqnums, handle_unlink_seqnum_Found(s) PROVE Tracks'
  <2>1. \A a \in Args : args'[a].seqnum = args[a].seqnum
    BY <1>7 DEF handle_unlink_seqnum_Found, UrbsTypeOK
  <2>2. \A a \in Args : trx'[a] = "none" <=> trx[a] = "none"
    BY <1>6, <1>7 DEF handle_unlink_seqnum_Found
  <2>3. /\ UNCHANGED <<event, callback_args_pool_, heap, transfers_, pending_count_>>
        /\ receiver.args = 0 /\ receiver'.args = 0
    BY <1>7 DEF handle_unlink_seqnum_Found, Entered, Idle
  <2>4. \A a \in Args : (Busy(a)' <=> Busy(a)) /\ (Out(a)' <=> Out(a))
    BY <2>2, <2>3 DEF Busy, Out, Lent
  <2> QED
    BY <1>q, <2>1, <2>2, <2>3, <2>4 DEF Tracks, Tracked, UrbsTypeOK
<1>8. CASE on_disconnection_Cancel
  <2>1. \A a \in Args : trx'[a] = "none" <=> trx[a] = "none"
    BY <1>6, <1>8 DEF on_disconnection_Cancel
  <2>2. /\ UNCHANGED <<event, argsVars, transfers_, pending_count_>>
        /\ receiver.args = 0 /\ receiver'.args = 0
    BY <1>8 DEF on_disconnection_Cancel, Idle, Leaving
  <2>3. \A a \in Args : (Busy(a)' <=> Busy(a)) /\ (Out(a)' <=> Out(a))
    BY <2>1, <2>2 DEF Busy, Out, Lent
  <2> QED
    BY <1>q, <2>1, <2>2, <2>3 DEF Tracks, Tracked, UrbsTypeOK
<1>9. ASSUME on_disconnection_Reset, ~overtaken' PROVE Tracks'
  <2>1. DOMAIN transfers_ = {} /\ UNCHANGED <<event, args, trackVars>> /\ event.pc # "free"
    <3>1. Cardinality(DOMAIN transfers_) = 0 /\ IsFiniteSet(DOMAIN transfers_)
      BY <1>q, <1>9, TableFinite DEF on_disconnection_Reset, Tracks
    <3> QED
      BY <1>9, <3>1, FS_EmptySet DEF on_disconnection_Reset
  <2>2. receiver.args = 0 /\ receiver'.args = 0
    BY <1>9 DEF on_disconnection_Reset, Idle, UrbsTypeOK
  <2>3. \A a \in Args : ~Busy(a) /\ ~Busy(a)'
    BY <1>q, <2>1, <2>2 DEF Tracks, Tracked, Busy
  <2>4. IsInjective(callback_args_pool_')
    BY <1>9, FullPool DEF on_disconnection_Reset
  <2> QED
    BY <1>q, <2>1, <2>2, <2>3, <2>4 DEF Tracks
<1>10. ASSUME NEW a \in Args, transfer_callback_Begin(a) PROVE Tracks'
  <2>1. /\ event'.pc \in {"answer", "drop"} /\ event'.args = a /\ event.pc = "idle"
        /\ trx[a] # "none" /\ trx' = [trx EXCEPT ![a] = "none"]
        /\ UNCHANGED <<receiver, argsVars, transfers_, pending_count_>>
    BY <1>10 DEF transfer_callback_Begin
  <2>2. trx'[a] = "none" /\ \A b \in Args : b # a => trx'[b] = trx[b]
    BY <2>1 DEF UrbsTypeOK
  <2>3. \A b \in Args : (Busy(b)' <=> Busy(b)) /\ (Out(b)' <=> Out(b))
    BY <2>1, <2>2 DEF Busy, Out, Lent
  <2>4. receiver.args # a
    BY <1>q, <2>1, Bounds DEF Tracks
  <2>5. receiver.args # 0 => receiver.args \in Args
    BY DEF UrbsTypeOK
  <2> QED
    BY <1>q, <2>1, <2>2, <2>3, <2>4, <2>5 DEF Tracks, Tracked
<1>11. ASSUME transfer_callback_Answer \/ transfer_callback_Drop PROVE Tracks'
  <2> DEFINE a == event.args
  <2>1. /\ event' = [event EXCEPT !.pc = "free"] /\ event.pc \in {"answer", "drop"}
        /\ Erase(args[a].seqnum)
        /\ pending_count_' = pending_count_ - 1 /\ UNCHANGED <<receiver, argsVars, trx>>
    BY <1>11 DEF transfer_callback_Answer, transfer_callback_Drop
  <2>2. a \in Args /\ Busy(a) /\ event'.pc = "free" /\ event'.args = a
    BY <2>1 DEF UrbsTypeOK, Busy
  <2>3. \A b \in Args : Busy(b)' <=> Busy(b) /\ b # a
    BY <1>q, <2>1, <2>2 DEF Tracks, Busy
  <2>4. \A b \in Args : Out(b)' <=> Out(b)
    BY <2>1 DEF Out, Lent
  <2>5. Out(a)
    BY <1>q, <2>2 DEF Tracks, Tracked
  <2>6. /\ pending_count_' = Cardinality(DOMAIN transfers_')
        /\ \A s \in DOMAIN transfers_' : \A b \in Args :
              transfers_'[s] = b => args'[b].seqnum = s /\ Busy(b)' /\ Out(b) /\ b # a
        /\ \A b \in Args : Busy(b)' =>
              Tracked(args[b].seqnum)' /\ transfers_'[args'[b].seqnum] = b
    BY <1>q, <2>1, <2>2, <2>3, Untrack
  <2>7. Out(event.args)'
    BY <2>2, <2>4, <2>5
  <2>8. \A s \in DOMAIN transfers_' : transfers_'[s] # event'.args
    BY <2>2, <2>6
  <2> HIDE DEF a
  <2> QED
    BY <1>q, <2>1, <2>2, <2>4, <2>6, <2>7, <2>8 DEF Tracks
<1>12. CASE transfer_callback_Free
  <2> DEFINE a == event.args
  <2>1. /\ event.pc = "free" /\ event'.pc = "idle" /\ a \in Args /\ FreeArgs(a)
        /\ UNCHANGED <<receiver, args, trackVars>>
    BY <1>12 DEF transfer_callback_Free, UrbsTypeOK
  <2>2. /\ IsInjective(callback_args_pool_')
        /\ \A b \in Args : Out(b)' <=> Out(b) /\ b # a
    BY <1>q, <2>1, Release DEF Tracks
  <2>3. \A b \in Args : Busy(b)' <=> Busy(b)
    BY <2>1 DEF Busy
  <2> QED
    BY <1>q, <2>1, <2>2, <2>3 DEF Tracks, Tracked
<1> QED
  BY <1>1, <1>3, <1>4, <1>5, <1>7, <1>8, <1>9, <1>10, <1>11, <1>12, <1>13, <1>14
     DEF LibusbHandlerNext

-----------------------------------------------------------------------------
(* Away, and what is answered.                                             *)

\* Nobody is there: nothing moves until the next connection.
LEMMA AwayStep ==
  ASSUME UrbsTypeOK, ClientTypeOK, TrackInv, AwayInv, LibusbHandlerNext
  PROVE  AwayInv'
<1> USE DEF argsVars, trackVars, historyVars
<1> SUFFICES ASSUME ~overtaken', receiver'.pc = "away"
             PROVE  /\ event'.pc = "idle" /\ DOMAIN transfers_' = {}
                    /\ replies' = <<>> /\ unlinks' = {}
  BY DEF AwayInv
<1>1. ~overtaken /\ Tracks
  BY DEF TrackInv, LibusbHandlerNext, on_new_connection, receiver_Enter, receive_urb_Submit,
     receive_urb_Refused, receive_urb_Answered, receive_urb_Removed, receive_urb_Track,
     handle_unlink_seqnum_Found, handle_unlink_seqnum_NotFound, handle_unlink_seqnum_Removed,
     on_device_removed, on_disconnection_Cancel, on_disconnection_Reset,
     transfer_callback_Begin, transfer_callback_Answer, transfer_callback_Drop,
     transfer_callback_Free, UrbsTypeOK
<1>2. CASE on_disconnection_Reset
  <2>1. Cardinality(DOMAIN transfers_) = 0 /\ IsFiniteSet(DOMAIN transfers_)
    BY <1>1, <1>2, TableFinite DEF on_disconnection_Reset, Tracks
  <2>2. DOMAIN transfers_ = {}
    BY <2>1, FS_EmptySet
  <2>3. event.pc \notin {"answer", "drop"}
    <3>1. event.pc \in {"answer", "drop"} => event.args \in Args /\ Busy(event.args)
      BY DEF UrbsTypeOK, Busy
    <3> QED
      BY <1>1, <2>2, <3>1 DEF Tracks, Tracked
  <2> QED
    BY <1>2, <2>2, <2>3 DEF on_disconnection_Reset, UrbsTypeOK
<1>3. CASE receiver.pc = "away" /\ UNCHANGED receiver
  <2>1. event.pc = "idle" /\ DOMAIN transfers_ = {} /\ replies = <<>> /\ unlinks = {}
    BY <1>1, <1>3 DEF AwayInv
  <2>2. \A a \in Args : trx[a] = "none"
    BY <1>1, <2>1 DEF Tracks, Tracked, Busy
  <2>3. /\ receiver.pc = "away" /\ receiver \notin {Idle, Entered, Leaving}
        /\ receiver.args = 0
    BY <1>3 DEF Idle, Entered, Leaving, UrbsTypeOK
  <2> QED
    BY <1>3, <2>1, <2>2, <2>3
       DEF LibusbHandlerNext, on_new_connection, receiver_Enter, receive_urb_Submit,
           receive_urb_Refused,
           receive_urb_Answered, receive_urb_Removed, receive_urb_Track,
           handle_unlink_seqnum_Found, handle_unlink_seqnum_NotFound,
           handle_unlink_seqnum_Removed, on_device_removed, on_disconnection_Cancel,
           on_disconnection_Reset, transfer_callback_Begin, transfer_callback_Answer,
           transfer_callback_Drop, transfer_callback_Free
<1>4. on_disconnection_Reset \/ (receiver.pc = "away" /\ UNCHANGED receiver)
  <2>1. ~on_new_connection
    BY DEF on_new_connection, Idle
  <2>2. ASSUME NEW s \in Seqnums PROVE ~receive_urb_Track(s)
    BY DEF receive_urb_Track
  <2>3. ~receive_urb_Submit
    BY DEF receive_urb_Submit, Idle, UrbsTypeOK
  <2>4. ~receive_urb_Refused
    <3>1. ASSUME receive_urb_Refused PROVE receiver' \in {Idle, Leaving}
      BY <3>1 DEF receive_urb_Refused, RefusedAs
    <3> QED
      BY <3>1 DEF Idle, Leaving
  <2>5. ~on_disconnection_Cancel
    BY DEF on_disconnection_Cancel, Idle
  <2>6. ~receiver_Enter
    BY DEF receiver_Enter, Entered
  <2>7. ASSUME NEW s \in Seqnums
        PROVE  /\ ~receive_urb_Removed(s) /\ ~receive_urb_Answered(s)
               /\ ~handle_unlink_seqnum_Found(s) /\ ~handle_unlink_seqnum_NotFound(s)
    BY DEF receive_urb_Removed, receive_urb_Answered, handle_unlink_seqnum_Found,
           handle_unlink_seqnum_NotFound, Idle, Leaving
  <2> QED
    BY <2>1, <2>2, <2>3, <2>4, <2>5, <2>6, <2>7
       DEF LibusbHandlerNext, handle_unlink_seqnum_Removed, on_device_removed,
           transfer_callback_Begin, transfer_callback_Answer, transfer_callback_Drop,
           transfer_callback_Free
<1> QED
  BY <1>2, <1>3, <1>4

\* Every step keeps what is owed and what was answered.
LEMMA ReplyStep ==
  ASSUME UrbsTypeOK, ClientTypeOK, TrackInv, AwayInv, ReplyInv, LibusbHandlerNext
  PROVE  ReplyInv'
<1> USE DEF argsVars, trackVars, historyVars
<1> SUFFICES ASSUME ~reused', ~overtaken', ~client_disconnection'
             PROVE  RepliesInOrder' /\ OwedInv'
  BY DEF ReplyInv
<1>0. ~reused /\ ~overtaken /\ Tracks
  <2>1. ~overtaken
    BY DEF LibusbHandlerNext, on_new_connection, receiver_Enter, receive_urb_Submit,
       receive_urb_Refused, receive_urb_Answered, receive_urb_Removed, receive_urb_Track,
       handle_unlink_seqnum_Found, handle_unlink_seqnum_NotFound,
       handle_unlink_seqnum_Removed, on_device_removed, on_disconnection_Cancel,
       on_disconnection_Reset, transfer_callback_Begin,
       transfer_callback_Answer, transfer_callback_Drop, transfer_callback_Free
  <2>2. ~reused
    <3>1. ASSUME NEW s \in Seqnums, receive_urb_Track(s) PROVE reused => reused'
      BY <3>1, Alloc DEF receive_urb_Track
    <3> QED
      BY <3>1 DEF LibusbHandlerNext, on_new_connection, receiver_Enter, receive_urb_Submit,
         receive_urb_Refused, receive_urb_Answered, receive_urb_Removed,
         handle_unlink_seqnum_Found, handle_unlink_seqnum_NotFound,
         handle_unlink_seqnum_Removed, on_device_removed, on_disconnection_Cancel,
         on_disconnection_Reset,
         transfer_callback_Begin, transfer_callback_Answer, transfer_callback_Drop,
         transfer_callback_Free
  <2> QED
    BY <2>1, <2>2 DEF TrackInv
<1>1. CASE on_new_connection
  <2>1. /\ event.pc = "idle" /\ DOMAIN transfers_ = {} /\ replies = <<>> /\ unlinks = {}
        /\ ignored = {} /\ receiver'.args = 0
        /\ UNCHANGED <<event, transfers_, replies, unlinks, ignored>>
    BY <1>0, <1>1 DEF on_new_connection, AwayInv, ClientTypeOK, Idle
  <2> QED
    BY <2>1 DEF RepliesInOrder, OwedInv
<1>2. CASE on_disconnection_Reset
  <2>1. /\ event.pc = "idle" /\ DOMAIN transfers_' = {} /\ replies' = <<>>
        /\ unlinks' = {} /\ ignored' = {}
    <3>1. AwayInv' /\ receiver'.pc = "away"
      BY <1>2, AwayStep DEF on_disconnection_Reset, Idle
    <3> QED
      BY <1>2, <3>1 DEF AwayInv, on_disconnection_Reset
  <2> QED
    BY <1>2, <2>1 DEF RepliesInOrder, OwedInv, on_disconnection_Reset, Idle
<1>3. CASE on_disconnection_Cancel
  BY <1>3 DEF on_disconnection_Cancel
<1> SUFFICES ASSUME ~on_new_connection, ~on_disconnection_Reset, ~on_disconnection_Cancel
             PROVE  RepliesInOrder' /\ OwedInv'
  BY <1>1, <1>2, <1>3
<1>4. RepliesInOrder /\ OwedInv
  BY <1>0 DEF ReplyInv, LibusbHandlerNext, receiver_Enter, receive_urb_Submit,
     receive_urb_Refused,
     receive_urb_Answered, receive_urb_Removed, receive_urb_Track, handle_unlink_seqnum_Found,
     handle_unlink_seqnum_NotFound, handle_unlink_seqnum_Removed, on_device_removed,
     transfer_callback_Begin, transfer_callback_Answer, transfer_callback_Drop,
     transfer_callback_Free
\* A removal is for good.
<1>r. device_removed => device_removed'
  BY DEF LibusbHandlerNext, receiver_Enter, receive_urb_Submit, receive_urb_Refused, RefusedAs,
     receive_urb_Answered, receive_urb_Removed, receive_urb_Track, handle_unlink_seqnum_Found,
     handle_unlink_seqnum_NotFound, handle_unlink_seqnum_Removed, on_device_removed,
     transfer_callback_Begin, transfer_callback_Answer, transfer_callback_Drop,
     transfer_callback_Free
\* Steps that only move a thread, or take the device.
<1>5. ASSUME UNCHANGED <<args, transfers_, replies, submitted, unlinks, ignored>>,
             event'.pc # "drop", receiver'.args \in {receiver.args, 0}
      PROVE  RepliesInOrder' /\ OwedInv'
  BY <1>4, <1>5, <1>r DEF RepliesInOrder, OwedInv, Replied, Tracked
<1>6. CASE receive_urb_Submit
  <2>1. receiver'.args \in {receiver.args, 0}
    BY <1>6 DEF receive_urb_Submit, Idle, UrbsTypeOK
  <2>2. event' = event /\ event.pc # "drop"
    BY <1>4, <1>6 DEF receive_urb_Submit, OwedInv
  <2> QED
    BY <1>5, <1>6, <2>1, <2>2 DEF receive_urb_Submit
<1>7. ASSUME NEW a \in Args, transfer_callback_Begin(a) PROVE RepliesInOrder' /\ OwedInv'
  <2>1. event'.pc = "answer"
    BY <1>7 DEF transfer_callback_Begin
  <2> QED
    BY <1>5, <1>7, <2>1 DEF transfer_callback_Begin
<1>8. CASE transfer_callback_Free
  <2>1. event'.pc = "idle"
    BY <1>8 DEF transfer_callback_Free, UrbsTypeOK
  <2> QED
    BY <1>5, <1>8, <2>1 DEF transfer_callback_Free
<1>9. ~transfer_callback_Drop
  BY <1>4 DEF OwedInv, transfer_callback_Drop
<1>16. CASE on_device_removed \/ receiver_Enter
  BY <1>4, <1>5, <1>16 DEF on_device_removed, receiver_Enter, Idle, Entered, OwedInv
\* The URB is taken, and nothing else.
<1>17. ASSUME NEW s \in Seqnums, receive_urb_Removed(s) PROVE RepliesInOrder' /\ OwedInv'
  <2>1. /\ submitted \subseteq submitted' /\ receiver'.args = 0
        /\ UNCHANGED <<event, args, transfers_, replies, unlinks, ignored>>
    BY <1>17 DEF receive_urb_Removed, Leaving
  <2>2. RepliesInOrder'
    BY <1>4, <2>1 DEF RepliesInOrder
  <2>3. OwedInv'
    BY <1>4, <1>r, <2>1 DEF OwedInv, Replied, Tracked
  <2> QED
    BY <2>2, <2>3
\* The unlink is taken, and nobody owes it anything.
<1>18. ASSUME NEW s \in Seqnums, handle_unlink_seqnum_Removed(s)
       PROVE  RepliesInOrder' /\ OwedInv'
  <2> DEFINE c == CmdSeqnum
  <2>1. /\ MayUnlink(s) /\ device_removed' /\ unlinks' = unlinks \cup {<<s, c>>}
        /\ ignored' = ignored \cup {<<s, c>>}
        /\ UNCHANGED <<receiver, event, args, transfers_, submitted, replies>>
    BY <1>18 DEF handle_unlink_seqnum_Removed
  <2>2. c \in Nat /\ \A u \in unlinks : u[1] # s /\ u[2] # c
    BY <2>1, NextUnlink
  <2> HIDE DEF c
  <2>3. ~Replied("RET_UNLINK", c)
    BY <1>4, <2>2 DEF RepliesInOrder, Replied
  <2>4. RepliesInOrder'
    <3>1. \A i \in DOMAIN replies' :
            IF replies'[i].kind = "RET_SUBMIT" THEN replies'[i].seqnum \in submitted'
            ELSE \E u \in unlinks' : u[2] = replies'[i].seqnum
      BY <1>4, <2>1 DEF RepliesInOrder
    <3>2. \A u \in unlinks' : \A i, j \in DOMAIN replies' :
            /\ replies'[i].kind = "RET_UNLINK" /\ replies'[i].seqnum = u[2]
            /\ replies'[j].kind = "RET_SUBMIT" /\ replies'[j].seqnum = u[1]
            => j < i
      BY <1>4, <2>1, <2>3 DEF RepliesInOrder, Replied
    <3> QED
      BY <1>4, <2>1, <3>1, <3>2 DEF RepliesInOrder
  <2>5. /\ unlinks' \ ignored' = unlinks \ ignored
        /\ \A u \in ignored' : u \in ignored \/ u[2] = c
        /\ \A k, p : Replied(k, p)' <=> Replied(k, p)
    <3>1. <<s, c>> \notin unlinks /\ <<s, c>>[2] = c
      BY <2>2
    <3> QED
      BY <2>1, <3>1 DEF Replied
  <2>6. OwedInv'
    BY <1>4, <2>1, <2>3, <2>5 DEF OwedInv, Tracked
  <2> QED
    BY <2>4, <2>6
<1>10. ASSUME NEW s \in Seqnums, receive_urb_Answered(s) PROVE RepliesInOrder' /\ OwedInv'
  <2>1. /\ s \in Nat /\ s \notin submitted /\ s \in submitted' /\ submitted \subseteq submitted'
        /\ receiver'.args = 0 /\ UNCHANGED <<event, args, transfers_, unlinks, ignored>>
    BY <1>10, NextSeqnum, Bounds DEF receive_urb_Answered, Idle
  <2>2. PICK st \in {"OK", "EPIPE"} : Enqueue("RET_SUBMIT", s, st)
    BY <1>10 DEF receive_urb_Answered
  <2>3. ~Replied("RET_SUBMIT", s) /\ \A u \in unlinks : u[1] # s
    BY <1>4, <2>1 DEF RepliesInOrder, Replied, ClientTypeOK
  <2>4. RepliesInOrder'
    BY <1>4, <2>1, <2>2, <2>3, AddRetSubmit
  <2>5. \A k, q : Replied(k, q)' <=> Replied(k, q) \/ (k = "RET_SUBMIT" /\ q = s)
    BY <2>1, <2>2, Enqueued
  <2>6. s \notin DOMAIN transfers_
    BY <2>1 DEF UrbsTypeOK
  <2>7. OwedInv'
    BY <1>4, <1>r, <2>1, <2>5, <2>6 DEF OwedInv, Tracked
  <2> QED
    BY <2>4, <2>7
<1>11. ASSUME NEW s \in Seqnums, receive_urb_Track(s) PROVE RepliesInOrder' /\ OwedInv'
  <2>1. PICK a \in Args :
          /\ AllocArgs(a, s)
          /\ transfers_' =
               [q \in DOMAIN transfers_ \cup {s} |-> IF q = s THEN a ELSE transfers_[q]]
          /\ receiver' = [pc |-> "submit", args |-> a]
    BY <1>11 DEF receive_urb_Track
  <2>2. /\ ~args'[a].unlinking /\ \A b \in Args : b # a => args'[b] = args[b]
        /\ ~Out(a)
    BY <1>0, <2>1, Alloc DEF Tracks
  <2>3. /\ s \notin submitted /\ submitted \subseteq submitted'
        /\ UNCHANGED <<event, replies, unlinks, ignored>>
    BY <1>11, NextSeqnum DEF receive_urb_Track
  <2>4. \A q \in DOMAIN transfers_ : transfers_[q] \in Args /\ transfers_[q] # a
    BY <1>0, <2>2 DEF Tracks, UrbsTypeOK
  <2>5. ~Replied("RET_SUBMIT", s) /\ \A u \in unlinks : u[1] # s
    BY <1>4, <2>3 DEF RepliesInOrder, Replied, ClientTypeOK
  <2>6. RepliesInOrder'
    BY <1>4, <2>3 DEF RepliesInOrder
  <2>7. /\ DOMAIN transfers_' = DOMAIN transfers_ \cup {s} /\ transfers_'[s] = a
        /\ \A q \in DOMAIN transfers_ : q # s => transfers_'[q] = transfers_[q]
    BY <2>1
  <2>8. s \notin DOMAIN transfers_
    BY <2>3 DEF UrbsTypeOK
  <2>9. \A k, q : Replied(k, q)' <=> Replied(k, q)
    BY <2>3 DEF Replied
  <2>10. OwedInv'
    BY <1>4, <1>r, <2>1, <2>2, <2>3, <2>4, <2>5, <2>7, <2>8, <2>9
       DEF OwedInv, Tracked, ClientTypeOK
  <2> QED
    BY <2>6, <2>10
<1>12. CASE receive_urb_Refused
  <2> DEFINE a == receiver.args
             q == args[a].seqnum
  <2>1. /\ a \in Args /\ a # 0 /\ Erase(q) /\ Enqueue("RET_SUBMIT", q, "EPIPE")
        /\ receiver'.args = 0 /\ UNCHANGED <<event, args, submitted, unlinks, ignored>>
        /\ q \in Nat
    BY <1>12, Bounds DEF receive_urb_Refused, RefusedAs, Idle, Leaving, UrbsTypeOK
  <2>2. q \in DOMAIN transfers_ /\ transfers_[q] = a
    BY <1>0, <2>1 DEF Tracks, Tracked, Busy
  <2>3. ~args[a].unlinking /\ q \in submitted
    BY <1>4, <2>1, <2>2 DEF OwedInv, UrbsTypeOK
  <2>4. /\ ~Replied("RET_SUBMIT", q) /\ \A u \in unlinks \ ignored : u[1] # q
        /\ \A u \in unlinks : u[1] = q => ~Replied("RET_UNLINK", u[2])
    BY <1>4, <2>2, <2>3 DEF OwedInv, Tracked
  <2>5. RepliesInOrder'
    <3> HIDE DEF q
    <3> QED
      BY <1>4, <2>1, <2>3, <2>4, AddRetSubmit
  <2>6. \A k, p : Replied(k, p)' <=> Replied(k, p) \/ (k = "RET_SUBMIT" /\ p = q)
    <3> HIDE DEF q
    <3> QED
      BY <2>1, Enqueued
  <2>7. /\ DOMAIN transfers_' = DOMAIN transfers_ \ {q}
        /\ \A p \in DOMAIN transfers_' : transfers_'[p] = transfers_[p]
    BY <2>1, Erased
  <2>8. OwedInv'
    <3> HIDE DEF q
    <3> QED
      BY <1>4, <1>r, <2>1, <2>4, <2>6, <2>7 DEF OwedInv, Tracked
  <2> QED
    BY <2>5, <2>8
<1>13. ASSUME NEW s \in Seqnums, handle_unlink_seqnum_NotFound(s)
       PROVE  RepliesInOrder' /\ OwedInv'
  <2> DEFINE c == CmdSeqnum
  <2>1. /\ MayUnlink(s) /\ ~Tracked(s) /\ unlinks' = unlinks \cup {<<s, c>>}
        /\ Enqueue("RET_UNLINK", c, "OK")
        /\ receiver'.args = 0 /\ UNCHANGED <<event, args, transfers_, submitted, ignored>>
    BY <1>13 DEF handle_unlink_seqnum_NotFound, Idle
  <2>2. c \in Nat /\ \A u \in unlinks : u[1] # s /\ u[2] # c
    BY <2>1, NextUnlink
  <2> HIDE DEF c
  <2>3. ~Replied("RET_UNLINK", c)
    BY <1>4, <2>2 DEF RepliesInOrder, Replied
  <2>4. RepliesInOrder'
    <3>1. /\ \E u \in unlinks' : u[2] = c
          /\ \A u \in unlinks' : u \in unlinks \/ u[2] = c
      <4>1. <<s, c>> \in unlinks' /\ <<s, c>>[2] = c
        BY <2>1
      <4> QED
        BY <2>1, <4>1
    <3> QED
      BY <1>4, <2>1, <2>2, <2>3, <3>1, AddRetUnlink
  <2>5. \A k, p : Replied(k, p)' <=> Replied(k, p) \/ (k = "RET_UNLINK" /\ p = c)
    BY <2>1, <2>2, Enqueued
  <2>6. OwedInv'
    BY <1>4, <1>r, <2>1, <2>2, <2>5 DEF OwedInv, Tracked, ClientTypeOK
  <2> QED
    BY <2>4, <2>6
<1>14. ASSUME NEW s \in Seqnums, handle_unlink_seqnum_Found(s)
       PROVE  RepliesInOrder' /\ OwedInv'
  <2> DEFINE a == transfers_[s]
             c == CmdSeqnum
  <2>1. /\ MayUnlink(s) /\ s \in DOMAIN transfers_ /\ unlinks' = unlinks \cup {<<s, c>>}
        /\ args' = [args EXCEPT ![a].unlinking = TRUE, ![a].unlink_cmd_seqnum = c]
        /\ UNCHANGED <<event, transfers_, submitted, replies, ignored>>
        /\ receiver'.args = 0
    BY <1>14 DEF handle_unlink_seqnum_Found, Idle, Tracked
  <2>2. c \in Nat /\ \A u \in unlinks : u[1] # s /\ u[2] # c
    BY <2>1, NextUnlink
  <2>3. ~Replied("RET_UNLINK", c)
    BY <1>4, <2>2 DEF RepliesInOrder, Replied
  <2>4. /\ a \in Args /\ args'[a].unlinking /\ args'[a].unlink_cmd_seqnum = c
        /\ \A b \in Args : b # a => args'[b] = args[b]
    BY <2>1 DEF UrbsTypeOK
  <2>5. \A q \in DOMAIN transfers_ : transfers_[q] \in Args /\ (transfers_[q] = a => q = s)
    BY <1>0, <2>1 DEF Tracks, UrbsTypeOK
  <2>6. \A k, p : Replied(k, p)' <=> Replied(k, p)
    BY <2>1 DEF Replied
  <2> HIDE DEF c
  <2>7. RepliesInOrder'
    <3>1. \A i \in DOMAIN replies' :
            IF replies'[i].kind = "RET_SUBMIT" THEN replies'[i].seqnum \in submitted'
            ELSE \E u \in unlinks' : u[2] = replies'[i].seqnum
      BY <1>4, <2>1 DEF RepliesInOrder
    <3>2. \A u \in unlinks' : \A i, j \in DOMAIN replies' :
            /\ replies'[i].kind = "RET_UNLINK" /\ replies'[i].seqnum = u[2]
            /\ replies'[j].kind = "RET_SUBMIT" /\ replies'[j].seqnum = u[1]
            => j < i
      BY <1>4, <2>1, <2>3 DEF RepliesInOrder, Replied
    <3> QED
      BY <1>4, <2>1, <3>1, <3>2 DEF RepliesInOrder
  <2>8. OwedInv'
    <3>1. /\ event'.pc # "drop" /\ receiver'.args = 0
          /\ DOMAIN transfers_' = DOMAIN transfers_
      BY <1>4, <2>1 DEF OwedInv
    <3>4. \A u \in ignored' : device_removed' /\ ~Replied("RET_UNLINK", u[2])'
      BY <1>4, <1>r, <2>1, <2>6 DEF OwedInv
    <3>2. ASSUME NEW u \in unlinks' \ ignored'
          PROVE  (IF Tracked(u[1])
                  THEN /\ args[transfers_[u[1]]].unlinking
                       /\ args[transfers_[u[1]]].unlink_cmd_seqnum = u[2]
                  ELSE Replied("RET_UNLINK", u[2]))'
      <4>1. CASE u = <<s, c>>
        BY <2>1, <2>4, <4>1 DEF Tracked
      <4>2. CASE u \in unlinks \ ignored
        <5>1. Tracked(u[1]) => args'[transfers_'[u[1]]] = args[transfers_[u[1]]]
          BY <2>1, <2>2, <2>4, <2>5, <4>2 DEF Tracked
        <5> QED
          BY <1>4, <2>1, <4>2, <5>1 DEF OwedInv, Tracked, Replied
      <4> QED
        BY <2>1, <4>1, <4>2
    <3>3. ASSUME NEW q \in DOMAIN transfers_'
          PROVE  (/\ ~Replied("RET_SUBMIT", q)
                  /\ args[transfers_[q]].unlinking =>
                       /\ <<q, args[transfers_[q]].unlink_cmd_seqnum>> \in unlinks \ ignored
                       /\ ~Replied("RET_UNLINK", args[transfers_[q]].unlink_cmd_seqnum))'
      <4>1. /\ ~Replied("RET_SUBMIT", q)
            /\ args[transfers_[q]].unlinking =>
                 /\ <<q, args[transfers_[q]].unlink_cmd_seqnum>> \in unlinks \ ignored
                 /\ ~Replied("RET_UNLINK", args[transfers_[q]].unlink_cmd_seqnum)
        BY <1>4, <3>1 DEF OwedInv
      <4>2. CASE q = s
        <5>1. /\ <<s, c>> \in unlinks' \ ignored'
              /\ args'[transfers_'[q]].unlink_cmd_seqnum = c
          BY <2>1, <2>2, <2>4, <4>2 DEF ClientTypeOK
        <5> QED
          BY <2>1, <2>3, <4>1, <4>2, <5>1 DEF Replied
      <4>3. CASE q # s
        <5>1. /\ args'[transfers_'[q]] = args[transfers_[q]]
              /\ unlinks \ ignored \subseteq unlinks' \ ignored'
          BY <2>1, <2>4, <2>5, <3>1, <4>3
        <5> QED
          BY <2>1, <4>1, <5>1 DEF Replied
      <4> QED
        BY <4>2, <4>3
    <3> QED
      BY <3>1, <3>2, <3>3, <3>4 DEF OwedInv
  <2> QED
    BY <2>7, <2>8
<1>15. CASE transfer_callback_Answer
  <2> DEFINE a == event.args
             q == args[a].seqnum
             c == args[a].unlink_cmd_seqnum
             st == trxstat2error(event.status)
  <2>1. /\ event.pc = "answer" /\ event' = [event EXCEPT !.pc = "free"] /\ Erase(q)
        /\ IF args[a].unlinking THEN Enqueue("RET_UNLINK", c, st)
                                ELSE Enqueue("RET_SUBMIT", q, st)
        /\ UNCHANGED <<receiver, args, submitted, unlinks, ignored>>
    BY <1>15 DEF transfer_callback_Answer
  <2>2. /\ a \in Args /\ q \in Nat /\ c \in Nat /\ event'.pc = "free"
        /\ event.status \in {"COMPLETED", "ERROR", "NO_DEVICE", "CANCELLED"}
    BY <2>1, Bounds DEF UrbsTypeOK
  <2>3. st \in {"OK", "EPIPE", "ECONNRESET", "ESHUTDOWN"}
    BY <2>2, Translated
  <2>4. q \in DOMAIN transfers_ /\ transfers_[q] = a /\ q \in submitted
    BY <1>0, <2>1, <2>2 DEF Tracks, Tracked, Busy, UrbsTypeOK
  <2>5. /\ DOMAIN transfers_' = DOMAIN transfers_ \ {q}
        /\ \A p \in DOMAIN transfers_' : transfers_'[p] = transfers_[p]
    BY <2>1, Erased
  <2>6. CASE args[a].unlinking
    <3>1. <<q, c>> \in unlinks \ ignored /\ ~Replied("RET_UNLINK", c)
      BY <1>4, <2>4, <2>6 DEF OwedInv
    <3>2. \A u \in unlinks : u[1] = q \/ u[2] = c => u = <<q, c>>
      BY <3>1 DEF ClientTypeOK
    <3> HIDE DEF q, c, st
    <3>3. RepliesInOrder'
      BY <1>4, <2>1, <2>2, <2>3, <2>6, <3>1, AddRetUnlink
    <3>4. \A k, p : Replied(k, p)' <=> Replied(k, p) \/ (k = "RET_UNLINK" /\ p = c)
      BY <2>1, <2>2, <2>3, <2>6, Enqueued
    <3>5. \A p \in DOMAIN transfers_' :
            args[transfers_[p]].unlinking => args[transfers_[p]].unlink_cmd_seqnum # c
      BY <1>4, <2>5, <3>2 DEF OwedInv
    <3>6. OwedInv'
      BY <1>4, <1>r, <2>1, <2>2, <2>5, <3>1, <3>2, <3>4, <3>5
         DEF OwedInv, Tracked, ClientTypeOK
    <3> QED
      BY <3>3, <3>6
  <2>7. CASE ~args[a].unlinking
    <3>1. /\ ~Replied("RET_SUBMIT", q) /\ \A u \in unlinks \ ignored : u[1] # q
          /\ \A u \in unlinks : u[1] = q => ~Replied("RET_UNLINK", u[2])
      BY <1>4, <2>4, <2>7 DEF OwedInv, Tracked
    <3> HIDE DEF q, c, st
    <3>2. RepliesInOrder'
      BY <1>4, <2>1, <2>2, <2>3, <2>4, <2>7, <3>1, AddRetSubmit
    <3>3. \A k, p : Replied(k, p)' <=> Replied(k, p) \/ (k = "RET_SUBMIT" /\ p = q)
      BY <2>1, <2>2, <2>3, <2>7, Enqueued
    <3>4. OwedInv'
      BY <1>4, <1>r, <2>1, <2>2, <2>5, <3>1, <3>3 DEF OwedInv, Tracked
    <3> QED
      BY <3>2, <3>4
  <2> QED
    BY <2>6, <2>7
<1> QED
  BY <1>6, <1>7, <1>8, <1>9, <1>10, <1>11, <1>12, <1>13, <1>14, <1>15, <1>16, <1>17, <1>18
     DEF LibusbHandlerNext

\* The invariant is inductive.
LEMMA HandlerStep ==
  ASSUME HandlerInv, [LibusbHandlerNext]_handlerVars
  PROVE  HandlerInv'
<1>1. CASE LibusbHandlerNext
  BY <1>1, UrbsTypeStep, ClientTypeStep, TrackStep, AwayStep, ReplyStep DEF HandlerInv
<1>2. CASE UNCHANGED handlerVars
  <2> USE <1>2 DEF handlerVars, argsVars, trackVars, historyVars
  <2>1. UrbsTypeOK' /\ ClientTypeOK'
    BY DEF HandlerInv, UrbsTypeOK, ClientTypeOK
  <2>2. TrackInv' /\ AwayInv'
    BY DEF HandlerInv, TrackInv, Tracks, Tracked, Busy, Out, Lent, AwayInv
  <2>3. ReplyInv'
    BY DEF HandlerInv, ReplyInv, RepliesInOrder, OwedInv, Replied, Tracked
  <2> QED
    BY <2>1, <2>2, <2>3 DEF HandlerInv
<1> QED
  BY <1>1, <1>2

\* Every reachable state satisfies the invariant.
LEMMA HandlerInvariance == LibusbHandlerSpec => []HandlerInv
  BY HandlerStart, HandlerStep, PTL DEF LibusbHandlerSpec

\* PendingIsOutstanding for any number of URBs, unlinks and sessions and any
\* pool: when on_disconnection sees the count at zero nothing is left with
\* libusb, and every transfer that is left is one it has just cancelled.
THEOREM OutstandingCorrect == LibusbHandlerSpec => []PendingIsOutstanding
<1>1. HandlerInv => PendingIsOutstanding
  BY DEF HandlerInv, UrbsTypeOK, TrackInv, Tracks, PendingIsOutstanding, Out
<1> QED
  BY <1>1, HandlerInvariance, PTL

\* One reply to a seqnum: the set of its places is a singleton.
LEMMA SentOnce ==
  ASSUME RepliesInOrder, NEW k, NEW q
  PROVE  /\ Sent(k, q) = {} <=> ~Replied(k, q)
         /\ Replied(k, q) => Cardinality(Sent(k, q)) = 1
<1>1. Sent(k, q) = {} <=> ~Replied(k, q)
  BY DEF Sent, Replied
<1>2. ASSUME Replied(k, q) PROVE Cardinality(Sent(k, q)) = 1
  <2>1. PICK i \in DOMAIN replies : replies[i].kind = k /\ replies[i].seqnum = q
    BY <1>2 DEF Replied
  <2>2. Sent(k, q) = {i}
    BY <2>1 DEF Sent, RepliesInOrder
  <2> QED
    BY <2>2, FS_Singleton
<1> QED
  BY <1>1, <1>2

\* UnlinkProtocolUnlessReused for any number of URBs, unlinks and sessions and
\* any pool: as long as no object comes back from the pool with its unlinking
\* still set, what DeviceHandler.h asks of handle_unlink_seqnum holds of the
\* unlinks taken before the device is removed, and the later ones are dropped:
\* none is ever answered.
THEOREM UnlinkCorrect == LibusbHandlerSpec => []UnlinkProtocolUnlessReused
<1>1. ASSUME HandlerInv PROVE UnlinkProtocolUnlessReused
  <2> SUFFICES ASSUME ~reused, ~overtaken, ~client_disconnection PROVE UnlinkProtocol
    BY DEF UnlinkProtocolUnlessReused
  <2>1. RepliesInOrder /\ OwedInv /\ ClientTypeOK
    BY <1>1 DEF HandlerInv, ReplyInv
  <2>5. \A u \in ignored : device_removed /\ Sent("RET_UNLINK", u[2]) = {}
    BY <2>1, SentOnce DEF OwedInv
  <2>2. \A u \in unlinks \ ignored :
          \/ Cardinality(Sent("RET_UNLINK", u[2])) = 1
          \/ /\ Sent("RET_UNLINK", u[2]) = {} /\ Tracked(u[1])
             /\ args[transfers_[u[1]]].unlink_cmd_seqnum = u[2]
    BY <2>1, SentOnce DEF OwedInv, Tracked
  <2>3. \A u \in unlinks :
          \A i \in Sent("RET_UNLINK", u[2]) : \A j \in Sent("RET_SUBMIT", u[1]) : j < i
    BY <2>1 DEF Sent, RepliesInOrder
  <2>4. \A i \in DOMAIN replies : replies[i].kind = "RET_UNLINK" =>
          \E u \in unlinks : u[2] = replies[i].seqnum
    BY <2>1 DEF RepliesInOrder
  <2> QED
    BY <2>1, <2>2, <2>3, <2>4, <2>5 DEF UnlinkProtocol, RepliesInOrder
<1> QED
  BY <1>1, HandlerInvariance, PTL
=============================================================================
