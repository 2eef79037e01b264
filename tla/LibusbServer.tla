--------------------------- MODULE LibusbServer ---------------------------
(***************************************************************************)
(* LibusbHandler/LibusbServer.cpp: which handlers are bound to one busid,  *)
(* which of them is offered or in use, whose device is open, and what      *)
(* happens when the device is unplugged at any moment.  Handlers are       *)
(* numbered as they are bound.  One session at a time imports (two at once *)
(* are DeviceRegistry's question); its steps are those of Session.cpp      *)
(* around the handler.  The device lists are behind one mutex, so that     *)
(* each call below is one step.                                            *)
(***************************************************************************)
EXTENDS Integers, Sequences, FiniteSets

CONSTANTS MaxBinds, MaxUnplugs

ASSUME LibusbServerAssumption == MaxBinds \in Nat /\ MaxUnplugs \in Nat

None == 0
Bound == 1 .. MaxBinds

VARIABLES
  handlers,    \* the LibusbDeviceHandler objects created so far
  available,   \* of available_devices, the handlers offered under this busid: a
               \* set, as they are found by busid
  using,       \* using_devices[busid]
  left,        \* unplugs not yet told by libusb or by the application
  hotplug_enabled_,
  server,      \* "down", "up", or "stopping" inside stop()
  session,     \* where the importing session is, with which handler
  inflight,    \* whether libusb has a transfer of that session
  unseen,      \* history: an unplug nobody was registered to hear of
  misused      \* history: try_remove_dead_device was called for a used device

listVars == <<handlers, available, using>>
hotplugVars == <<left, hotplug_enabled_, unseen>>
serverVars == <<listVars, hotplugVars, server, session, inflight, misused>>

NoSession == [pc |-> "none", handler |-> None, stopped |-> FALSE]

LibusbServerInit ==
  /\ handlers = <<>> /\ available = {} /\ using = None
  /\ left = 0 /\ hotplug_enabled_ = FALSE /\ unseen = FALSE
  /\ server = "down" /\ session = NoSession /\ inflight = FALSE /\ misused = FALSE

Listed == available \cup ({using} \ {None})

(***************************************************************************)
(* The application's calls.                                                *)
(***************************************************************************)
\* The handler keeps the reference the caller brings, or the descriptor; the
\* application does not bind again what is listed.
Bind(device) ==
  /\ Len(handlers) < MaxBinds /\ Listed = {}
  /\ handlers' = Append(handlers,
       [device |-> device, native_handle |-> FALSE, interfaces_claimed_ |-> FALSE,
        device_removed |-> FALSE, plugged |-> TRUE])
  /\ available' = available \cup {Len(handlers) + 1}
  /\ UNCHANGED <<using, hotplugVars, server, session, inflight, misused>>

bind_host_device == Bind("native")
bind_host_device_with_wrapped_fd == Bind("fd")

\* The first handler found under the busid leaves the list.
TakeOff(h) == h \in available /\ available' = available \ {h}

\* What every removal does to the handler it takes off a list: close what is
\* open and give the reference back (release_and_close_device, used by some,
\* also clears the mark of the interfaces).
Released(h, unclaimed) ==
  [handlers EXCEPT ![h].native_handle = FALSE,
                   ![h].device = IF @ = "native" THEN "none" ELSE @,
                   ![h].interfaces_claimed_ = @ /\ ~unclaimed]

unbind_host_device ==
  /\ \E h \in available :    \* otherwise not found, or in use: nothing changes
       TakeOff(h) /\ handlers' = Released(h, TRUE)
  /\ UNCHANGED <<using, hotplugVars, server, session, inflight, misused>>

\* The descriptor is not the handler's to close.
unbind_host_device_by_fd ==
  /\ \E h \in available :
       handlers[h].device = "fd" /\ TakeOff(h) /\ handlers' = Released(h, TRUE)
  /\ UNCHANGED <<using, hotplugVars, server, session, inflight, misused>>

\* Looks in both lists; a device whose interfaces are claimed keeps the mark.
try_remove_dead_device ==
  \/ /\ \E h \in available : TakeOff(h) /\ handlers' = Released(h, FALSE)
     /\ UNCHANGED <<using, hotplugVars, server, session, inflight, misused>>
  \/ /\ available = {} /\ using # None
     /\ handlers' = Released(using, FALSE)
     /\ using' = None
     /\ misused' = TRUE
     /\ UNCHANGED <<available, hotplugVars, server, session, inflight>>

\* Registers the callback if the user wants it and libusb can.
start_hotplug_monitor == hotplug_enabled_' \in BOOLEAN

start ==
  /\ server = "down" /\ server' = "up"
  /\ start_hotplug_monitor
  /\ UNCHANGED <<listVars, left, unseen, session, inflight, misused>>

\* The monitor goes first, with the events it has not delivered; then the
\* sessions are shut down.
stop_Sessions ==
  /\ server = "up" /\ server' = "stopping"
  /\ left' = IF hotplug_enabled_ THEN 0 ELSE left
  /\ unseen' = (unseen \/ (hotplug_enabled_ /\ left > 0))
  /\ hotplug_enabled_' = FALSE
  /\ session' = [session EXCEPT !.stopped = @ \/ session.pc # "none"]
  /\ UNCHANGED <<listVars, inflight, misused>>

\* Once the last session is out, both lists are emptied.
stop_Lists ==
  /\ server = "stopping" /\ session.pc = "none" /\ server' = "down"
  /\ handlers' = [h \in DOMAIN handlers |->
                    IF h \in Listed THEN Released(h, TRUE)[h] ELSE handlers[h]]
  /\ available' = {} /\ using' = None
  /\ UNCHANGED <<hotplugVars, session, inflight, misused>>

(***************************************************************************)
(* The device and the word of its going.                                   *)
(***************************************************************************)
Unplugged == {h \in DOMAIN handlers : ~handlers[h].plugged}

\* Told by libusb while the monitor runs; otherwise the application may call
\* notify_device_removed, or nobody says anything.
Unplug ==
  /\ Cardinality(Unplugged) < MaxUnplugs /\ Unplugged # DOMAIN handlers
  /\ handlers' = [h \in DOMAIN handlers |-> [handlers[h] EXCEPT !.plugged = FALSE]]
  /\ \/ left' = left + 1 /\ UNCHANGED unseen
     \/ ~hotplug_enabled_ /\ unseen' = TRUE /\ UNCHANGED left
  /\ UNCHANGED <<available, using, hotplug_enabled_, server, session, inflight, misused>>

\* From libusb's thread, or notify_device_removed from the application's: an
\* offered device is taken off the list.
handle_device_left_Offered ==
  /\ left > 0 /\ left' = left - 1
  /\ \E h \in available : TakeOff(h) /\ handlers' = Released(h, FALSE)
  /\ UNCHANGED <<using, hotplug_enabled_, unseen, server, session, inflight, misused>>

\* A used one is marked, and its session told to stop if the handler has one.
handle_device_left_Used ==
  /\ left > 0 /\ left' = left - 1
  /\ available = {}
  /\ handlers' = [h \in DOMAIN handlers |->
                    [handlers[h] EXCEPT !.device_removed = @ \/ h = using]]
  /\ session' = [session EXCEPT !.stopped =
                   @ \/ (using # None /\ session.pc \in {"transfer", "drain"})]
  /\ UNCHANGED <<available, using, hotplug_enabled_, unseen, server, inflight, misused>>

(***************************************************************************)
(* The importing session.                                                  *)
(***************************************************************************)
\* try_moving_device_to_using
session_Import ==
  /\ server = "up" /\ session.pc = "none" /\ using = None
  /\ \E h \in available :
       /\ TakeOff(h) /\ using' = h
       /\ session' = [pc |-> "open", handler |-> h, stopped |-> FALSE]
  /\ UNCHANGED <<handlers, hotplugVars, server, inflight, misused>>

At(pc) == session.pc = pc
Goto(pc) == session' = [session EXCEPT !.pc = pc]

\* Opens the device, or wraps the descriptor, and claims its interfaces: all
\* of them, or what was claimed is released again.
Opened(device) ==
  /\ At("open") /\ Goto("transfer")
  /\ handlers[session.handler].device = device /\ handlers[session.handler].plugged
  /\ handlers' = [handlers EXCEPT ![session.handler].native_handle = TRUE,
                                  ![session.handler].interfaces_claimed_ = TRUE]
  /\ UNCHANGED <<available, using, hotplugVars, server, inflight, misused>>

open_and_claim_device == Opened("native")
wrap_fd_and_claim_interfaces == Opened("fd")

\* A handler that has lost its device opens nothing and reports success.
on_new_connection_Unopened ==
  /\ At("open") /\ Goto("transfer")
  /\ handlers[session.handler].device = "none"
  /\ UNCHANGED <<listVars, hotplugVars, server, inflight, misused>>

\* try_moving_device_to_available: whatever is in use under this busid.
MoveBack ==
  /\ available' = available \cup ({using} \ {None})
  /\ using' = None

\* What was claimed is released again, the handle closed, the device offered.
session_OpenFailed ==
  /\ At("open") /\ handlers[session.handler].device # "none" /\ Goto("exit")
  /\ MoveBack
  /\ UNCHANGED <<handlers, hotplugVars, server, inflight, misused>>

session_Transfer ==
  /\ At("transfer") /\ ~session.stopped /\ ~inflight
  /\ ~handlers[session.handler].device_removed
  /\ inflight' = TRUE
  /\ UNCHANGED <<listVars, hotplugVars, server, session, misused>>

\* A transfer the unplugged device lost marks the handler, unless the client
\* is already gone.
session_TransferDone ==
  /\ inflight /\ inflight' = FALSE
  /\ handlers' = [handlers EXCEPT ![session.handler].device_removed =
                    @ \/ (At("transfer") /\ ~handlers[session.handler].plugged)]
  /\ UNCHANGED <<available, using, hotplugVars, server, session, misused>>

\* The client goes, or the session was told to stop.
session_Drain ==
  /\ At("transfer") /\ Goto("drain")
  /\ UNCHANGED <<listVars, hotplugVars, server, inflight, misused>>

\* Variant: the device is closed before the last transfer is back.
session_Close_Early ==
  /\ At("drain") /\ Goto("back")
  /\ handlers' = [handlers EXCEPT ![session.handler].native_handle = FALSE,
                                  ![session.handler].interfaces_claimed_ = FALSE]
  /\ UNCHANGED <<available, using, hotplugVars, server, inflight, misused>>

\* release_and_close_device, which leaves the mark of the interfaces if the
\* handle is gone already.
session_Close ==
  /\ At("drain") /\ ~inflight /\ Goto("back")
  /\ handlers' = [handlers EXCEPT ![session.handler].native_handle = FALSE,
                    ![session.handler].interfaces_claimed_ =
                      @ /\ ~handlers[session.handler].native_handle]
  /\ UNCHANGED <<available, using, hotplugVars, server, inflight, misused>>

\* is_device_removed is read here ...
session_Removed ==
  /\ At("back") /\ handlers[session.handler].device_removed /\ Goto("exit")
  /\ using' = None
  /\ UNCHANGED <<handlers, available, hotplugVars, server, inflight, misused>>

session_Kept ==
  /\ At("back") /\ ~handlers[session.handler].device_removed /\ Goto("kept")
  /\ UNCHANGED <<listVars, hotplugVars, server, inflight, misused>>

\* ... and acted on here.
session_MoveBack ==
  /\ At("kept") /\ Goto("exit")
  /\ MoveBack
  /\ UNCHANGED <<handlers, hotplugVars, server, inflight, misused>>

\* Variant: nothing is registered to run when a session exits.
session_exit_callback_None(offered) == offered

\* The callback of LibusbServer's constructor: removed devices leave the list.
session_exit_callback(offered) == {h \in offered : ~handlers[h].device_removed}

remove_session ==
  /\ At("exit")
  /\ available' = session_exit_callback(available)
  /\ session' = NoSession
  /\ UNCHANGED <<handlers, using, hotplugVars, server, inflight, misused>>

LibusbServerNext ==
  \/ bind_host_device \/ bind_host_device_with_wrapped_fd
  \/ unbind_host_device \/ unbind_host_device_by_fd \/ try_remove_dead_device
  \/ start \/ stop_Sessions \/ stop_Lists
  \/ Unplug \/ handle_device_left_Offered \/ handle_device_left_Used
  \/ session_Import
  \/ open_and_claim_device \/ wrap_fd_and_claim_interfaces \/ on_new_connection_Unopened
  \/ session_OpenFailed
  \/ session_Transfer \/ session_TransferDone
  \/ session_Drain \/ session_Close
  \/ session_Removed \/ session_Kept \/ session_MoveBack \/ remove_session

LibusbServerSpec == LibusbServerInit /\ [][LibusbServerNext]_serverVars

(***************************************************************************)
(* Properties.                                                             *)
(***************************************************************************)
\* While libusb has a transfer its device handle is open, and no device is
\* offered with its handle open: the session drains before it closes, and
\* closes before it moves the device back; nothing that removes an offered
\* device can close the handle of a used one.  Only try_remove_dead_device
\* on a used device, which its comment forbids, breaks it.
HandleOutlivesTransfers ==
  misused \/ /\ inflight => handlers[session.handler].native_handle
             /\ \A h \in available : ~handlers[h].native_handle

\* A device that is gone is not offered for long: either the word of it is
\* still to come, or a session that will drop it is still to exit, wherever
\* in the import, the transfers or the clean-up the unplug fell.
NoDeadDeviceOffered ==
  unseen \/ misused \/
  \A h \in available :
    ~handlers[h].plugged => left > 0 \/ (handlers[h].device_removed /\ ~At("none"))
=============================================================================
