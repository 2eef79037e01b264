--------------------------- MODULE DeviceRegistry ---------------------------
(***************************************************************************)
(* Which devices clients may import: the two lists of Server (available_   *)
(* devices, using_devices), the sessions that move devices between them    *)
(* (Session::parse_op and the end of Session::receiver), and the hotplug   *)
(* events of Esp32Server that add and remove devices.                      *)
(*                                                                         *)
(* A Device is one plugging-in of a device: its handle and its handler.    *)
(* The lists are keyed by busid, made from the bus address, and an address *)
(* is given out again once its last device has been closed.  Every locked  *)
(* section of the code is one step; what the code does after releasing     *)
(* devices_mutex is another.                                               *)
(***************************************************************************)
EXTENDS Naturals, Sequences, Functions

CONSTANTS
  Devices,   \* the pluggings-in
  Sessions,  \* the client connections
  BusidOf    \* the busid of each device's address

ASSUME BusidAssumption == DOMAIN BusidOf = Devices
ASSUME NoDeviceAssumption == "none" \notin Devices \cup Sessions

Busids == {BusidOf[d] : d \in Devices}

VARIABLES
  bus,        \* what has happened to each device on the bus
  host_devices, \* the devices the server knows, by address
  available,  \* Server::available_devices, in list order
  using,      \* Server::using_devices: busid -> device or "none"
  removed,    \* the devices whose handler has device_removed_ set
  session,    \* AbstDeviceHandler::session of each device
  pc,         \* where each session is
  busid,      \* the busid it asked for
  dev,        \* the device it imported: current_handler
  stop        \* should_immediately_stop of each session

vars == <<bus, host_devices, available, using, removed, session, pc, busid, dev, stop>>
hostVars    == <<bus, host_devices>>
listVars    == <<available, using>>
handlerVars == <<removed, session>>
sessionVars == <<pc, busid, dev, stop>>

TypeOK ==
  /\ bus \in [Devices -> {"out", "in", "open", "unplugged", "gone"}]
  /\ host_devices \subseteq Devices
  /\ available \in Seq(Devices)
  /\ using \in [Busids -> Devices \cup {"none"}]
  /\ removed \subseteq Devices
  /\ session \in [Devices -> Sessions \cup {"none"}]
  /\ pc \in [Sessions -> {"start", "checked", "moved", "attached", "transfer",
                          "detached", "erase", "restore", "exiting", "done"}]
  /\ busid \in [Sessions -> Busids]
  /\ dev \in [Sessions -> Devices \cup {"none"}]
  /\ stop \subseteq Sessions

Init ==
  /\ bus = [d \in Devices |-> "out"] /\ host_devices = {}
  /\ available = <<>> /\ using = [b \in Busids |-> "none"]
  /\ removed = {} /\ session = [d \in Devices |-> "none"]
  /\ pc = [s \in Sessions |-> "start"] /\ busid \in [Sessions -> Busids]
  /\ dev = [s \in Sessions |-> "none"] /\ stop = {}

Go(s, from, to) == pc[s] = from /\ pc' = [pc EXCEPT ![s] = to]

-----------------------------------------------------------------------------
(* Session::parse_op.                                                      *)

\* OP_REQ_DEVLIST, a failed read or an unknown op: the session just ends.
OtherOp(s) ==
  /\ Go(s, "start", "exiting")
  /\ UNCHANGED <<hostVars, listVars, handlerVars, busid, dev, stop>>

\* OP_REQ_IMPORT: is_device_using, under the mutex, which is released again.
Import_IsUsing(s) ==
  /\ Go(s, "start", IF using[busid[s]] # "none" THEN "exiting" ELSE "checked")
  /\ UNCHANGED <<hostVars, listVars, handlerVars, busid, dev, stop>>

\* Variant: the device stays in the available list.
try_moving_device_to_using_Copy(s) ==
  /\ \E i \in 1 .. Len(available) :
       /\ BusidOf[available[i]] = busid[s]
       /\ Go(s, "checked", "moved")
       /\ using' = [using EXCEPT ![busid[s]] = available[i]]
       /\ dev' = [dev EXCEPT ![s] = available[i]]
  /\ UNCHANGED <<hostVars, available, handlerVars, busid, stop>>

\* available_devices.erase
Without(i) == [j \in 1 .. Len(available) - 1 |-> available[IF j < i THEN j ELSE j + 1]]

\* try_moving_device_to_using: the first entry with the busid changes lists.
try_moving_device_to_using(s) ==
  /\ \E i \in 1 .. Len(available) :
       /\ BusidOf[available[i]] = busid[s]
       /\ \A j \in 1 .. i - 1 : BusidOf[available[j]] # busid[s]
       /\ Go(s, "checked", "moved")
       /\ using' = [using EXCEPT ![busid[s]] = available[i]]
       /\ available' = Without(i)
       /\ dev' = [dev EXCEPT ![s] = available[i]]
  /\ UNCHANGED <<hostVars, handlerVars, busid, stop>>

Import_NoDevice(s) ==
  /\ \A i \in 1 .. Len(available) : BusidOf[available[i]] # busid[s]
  /\ Go(s, "checked", "exiting")
  /\ UNCHANGED <<hostVars, listVars, handlerVars, busid, dev, stop>>

\* on_new_connection: the handler learns its session (session_mutex_) ...
on_new_connection_Attach(s) ==
  /\ Go(s, "moved", "attached")
  /\ session' = [session EXCEPT ![dev[s]] = s]
  /\ UNCHANGED <<hostVars, listVars, removed, busid, dev, stop>>

\* ... and then clears device_removed_, whoever set it; transfer_loop begins.
on_new_connection_Reset(s) ==
  /\ Go(s, "attached", "transfer")
  /\ removed' = removed \ {dev[s]}
  /\ UNCHANGED <<hostVars, listVars, session, busid, dev, stop>>

-----------------------------------------------------------------------------
(* Session::receiver.                                                      *)

\* A transfer comes back NO_DEVICE (the session goes on until its next command),
\* or is refused with NOT_FOUND (the session ends).
TransferFindsNoDevice(s) ==
  /\ pc[s] = "transfer" /\ bus[dev[s]] \in {"unplugged", "gone"}
  /\ removed' = removed \cup {dev[s]}
  /\ stop' \in {stop, stop \cup {s}}
  /\ UNCHANGED <<hostVars, listVars, session, pc, busid, dev>>

\* The client leaves or the session was stopped: on_disconnection has returned.
on_disconnection(s) ==
  /\ Go(s, "transfer", "detached")
  /\ session' = [session EXCEPT ![dev[s]] = "none"]
  /\ UNCHANGED <<hostVars, listVars, removed, busid, dev, stop>>

\* Variant: a device that is still there is not given back.
Receiver_IsRemoved_Keeps(s) ==
  /\ Go(s, "detached", IF dev[s] \in removed THEN "erase" ELSE "exiting")
  /\ UNCHANGED <<hostVars, listVars, handlerVars, busid, dev, stop>>

\* is_device_removed() is read without devices_mutex ...
Receiver_IsRemoved(s) ==
  /\ Go(s, "detached", IF dev[s] \in removed THEN "erase" ELSE "restore")
  /\ UNCHANGED <<hostVars, listVars, handlerVars, busid, dev, stop>>

\* ... which is then taken for one or the other.  Both go by the busid.
Receiver_Erase(s) ==
  /\ Go(s, "erase", "exiting")
  /\ using' = [using EXCEPT ![busid[s]] = "none"]
  /\ UNCHANGED <<hostVars, available, handlerVars, busid, dev, stop>>

try_moving_device_to_available(s) ==
  /\ Go(s, "restore", "exiting")
  /\ available' = IF using[busid[s]] = "none" THEN available
                  ELSE Append(available, using[busid[s]])
  /\ using' = [using EXCEPT ![busid[s]] = "none"]
  /\ UNCHANGED <<hostVars, handlerVars, busid, dev, stop>>

\* Server::remove_session runs the exit callback, Esp32Server::on_session_exit,
\* which sweeps every removed device out of using_devices.
on_session_exit(s) ==
  /\ Go(s, "exiting", "done")
  /\ using' = [b \in Busids |-> IF using[b] \in removed THEN "none" ELSE using[b]]
  /\ UNCHANGED <<hostVars, available, handlerVars, busid, dev, stop>>

-----------------------------------------------------------------------------
(* Esp32Server::client_event_callback, on the USB event thread.            *)

\* NEW_DEV: opened, and bound unless a descriptor or an interface fails.
NewDev(d) ==
  /\ bus[d] = "in"
  /\ bus' = [bus EXCEPT ![d] = "open"]
  /\ host_devices' = host_devices \cup {d}
  /\ available' \in {available, Append(available, d)}
  /\ UNCHANGED <<using, handlerVars, sessionVars>>

\* trigger_session_stop: nothing to stop while the handler has no session.
SessionsOf(d) == {session[d]} \ {"none"}

\* Variant: only devices that nobody uses are looked for.
remove_gone_device_AvailableOnly(d) ==
  /\ host_devices' = host_devices \ {d}
  /\ available' = SelectSeq(available, LAMBDA e : BusidOf[e] # BusidOf[d])
  /\ UNCHANGED <<using, handlerVars, stop>>

\* DEV_GONE: out of the available list if an entry has the busid; else the
\* handler in using_devices is told, and its session, if it has one, is stopped.
remove_gone_device(d) ==
  LET listed == {i \in 1 .. Len(available) : BusidOf[available[i]] = BusidOf[d]}
      user   == using[BusidOf[d]]
  IN  /\ host_devices' = host_devices \ {d}
      /\ \/ \E i \in listed :
              /\ \A j \in listed : i <= j
              /\ available' = Without(i)
              /\ UNCHANGED <<removed, stop>>
         \/ /\ listed = {} /\ user # "none"
            /\ removed' = removed \cup {user}
            /\ stop' = stop \cup SessionsOf(user)
            /\ UNCHANGED available
         \/ listed = {} /\ user = "none" /\ UNCHANGED <<available, removed, stop>>
      /\ UNCHANGED <<using, session>>

\* The handle is closed afterwards: from then on the address may be given again.
DevGone(d) ==
  /\ bus[d] = "unplugged"
  /\ bus' = [bus EXCEPT ![d] = "gone"]
  /\ IF d \in host_devices THEN remove_gone_device(d)
     ELSE UNCHANGED <<host_devices, listVars, handlerVars, stop>>
  /\ UNCHANGED <<pc, busid, dev>>

\* The bus: a new device gets an address no other open device has.
Plug(d) ==
  /\ bus[d] = "out"
  /\ \A e \in Devices : BusidOf[e] = BusidOf[d] => bus[e] \in {"out", "gone"}
  /\ bus' = [bus EXCEPT ![d] = "in"]
  /\ UNCHANGED <<host_devices, listVars, handlerVars, sessionVars>>

Unplug(d) ==
  /\ bus[d] = "open"
  /\ bus' = [bus EXCEPT ![d] = "unplugged"]
  /\ UNCHANGED <<host_devices, listVars, handlerVars, sessionVars>>

-----------------------------------------------------------------------------
SessionGoesOn(s) ==
  \/ try_moving_device_to_using(s) \/ Import_NoDevice(s)
  \/ on_new_connection_Attach(s) \/ on_new_connection_Reset(s)
  \/ Receiver_IsRemoved(s) \/ Receiver_Erase(s) \/ try_moving_device_to_available(s)
  \/ on_session_exit(s)

Next ==
  \/ \E s \in Sessions :
       \/ OtherOp(s) \/ Import_IsUsing(s) \/ SessionGoesOn(s)
       \/ TransferFindsNoDevice(s) \/ on_disconnection(s)
  \/ \E d \in Devices : NewDev(d) \/ DevGone(d) \/ Plug(d) \/ Unplug(d)

Spec == Init /\ [][Next]_vars

-----------------------------------------------------------------------------
(* Properties.                                                             *)

Busy(s) == pc[s] \in {"moved", "attached", "transfer", "detached"}
AvailableDevices == Range(available)

\* One device, one client: no two sessions ever hold the same device, and none
\* that a session holds is offered for import (Esp32Server.cpp:363 relies on it).
Exclusive ==
  /\ \A s, t \in Sessions : Busy(s) /\ Busy(t) /\ dev[s] = dev[t] => s = t
  /\ \A s \in Sessions : Busy(s) => dev[s] \notin AvailableDevices

\* No device is listed twice, in one list or across both.
ListedOnce ==
  /\ IsInjective(available)
  /\ \A b \in Busids : using[b] \notin AvailableDevices

\* A device on the bus that a session works with is in using_devices under its
\* busid: only there does DEV_GONE find it, and only there can it come back from.
UsedIsRegistered ==
  \A s \in Sessions : Busy(s) /\ bus[dev[s]] = "open" => using[busid[s]] = dev[s]

\* README.md:8, hot-plug: once DEV_GONE has been handled and no session holds the
\* device, it is not offered to clients.
NoGhostDevice ==
  \A d \in Devices : bus[d] = "gone" => d \notin AvailableDevices

\* No device is left behind in using_devices: an entry always belongs to a session
\* that is importing it, working with it or about to give it back.
NoStrandedDevice ==
  \A b \in Busids : using[b] # "none" =>
    \E s \in Sessions : dev[s] = using[b] /\ (Busy(s) \/ pc[s] \in {"erase", "restore"})

\* Both at once, the registry as its users see it: a device is in one place only,
\* offered or with one session; and using_devices holds what sessions work with.
OneOwner == Exclusive /\ ListedOnce
UsingIsTheUsed == UsedIsRegistered /\ NoStrandedDevice

DevGoneHandled(d, s) ==
  bus[d] = "unplugged" /\ bus'[d] = "gone" /\ pc[s] = "transfer" /\ dev[s] = d

\* Unless a transfer has found out before, DEV_GONE reaches the session that works
\* with the device, wherever the device has moved since it was plugged in: the
\* handler is told and the session stopped.
DevGoneReachesUnaware ==
  [][\A d \in Devices \ removed : \A s \in Sessions :
       DevGoneHandled(d, s) => d \in removed' /\ s \in stop']_vars

\* spec/AI2AI, hot-plug sequence: DEV_GONE always force-closes the session.
DevGoneStopsSession ==
  [][\A d \in Devices : \A s \in Sessions : DevGoneHandled(d, s) => s \in stop']_vars
=============================================================================
