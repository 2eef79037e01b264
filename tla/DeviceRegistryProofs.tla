------------------------ MODULE DeviceRegistryProofs ------------------------
(***************************************************************************)
(* Proofs about DeviceRegistry for devices on ports of their own: any      *)
(* number of them, and any number of clients.                              *)
(*                                                                         *)
(* The lists go by busid while sessions go by device, so everything rests  *)
(* on a busid naming one device for good (OneDevicePerAddress; without it  *)
(* Exclusive is refuted).  A session that has passed is_device_removed     *)
(* still holds its device until it has given it back: that is what keeps   *)
(* the device out of the available list in the gap (HeldInv).  The pieces  *)
(* of WordInv say how device_removed_, set by DEV_GONE or by a transfer    *)
(* and cleared by a new connection, may differ from what happened.         *)
(***************************************************************************)
EXTENDS DeviceRegistry, SequenceTheorems, TLAPS

\* No address is ever given to a second device.
OneDevicePerAddress == \A d, e \in Devices : BusidOf[d] = BusidOf[e] => d = e

\* From the import until the device is given back or dropped.
Held(s) == Busy(s) \/ pc[s] \in {"erase", "restore"}

\* What is offered is there, or was, and is offered once.
ListInv ==
  /\ IsInjective(available)
  /\ \A d \in AvailableDevices :
       bus[d] \notin {"out", "in"} /\ (d \in removed => bus[d] = "gone")

\* An entry of using_devices has its own busid and a session that holds it.
UsingInv ==
  \A b \in Busids : using[b] # "none" =>
    /\ BusidOf[using[b]] = b /\ using[b] \notin AvailableDevices
    /\ \E s \in Sessions : Held(s) /\ dev[s] = using[b]

\* A held device is the one asked for, held once, and not offered.
HeldInv ==
  \A s \in Sessions : Held(s) =>
    /\ dev[s] \in Devices /\ BusidOf[dev[s]] = busid[s]
    /\ dev[s] \notin AvailableDevices /\ bus[dev[s]] \notin {"out", "in"}
    /\ \A t \in Sessions : Held(t) /\ dev[t] = dev[s] => t = s

\* Until word of its removal has come, a held device is registered; before its
\* transfers and after is_device_removed only DEV_GONE can have brought it; and
\* from the attachment on its handler knows the session.
WordInv ==
  \A s \in Sessions : Held(s) =>
    /\ dev[s] \notin removed /\ bus[dev[s]] # "gone" => using[busid[s]] = dev[s]
    /\ pc[s] \in {"moved", "attached", "restore"} /\ dev[s] \in removed
         => bus[dev[s]] = "gone"
    /\ pc[s] \in {"attached", "transfer"} => session[dev[s]] = s

\* The marks follow the bus.
BusInv ==
  \A d \in Devices :
    /\ d \in removed => bus[d] \in {"unplugged", "gone"}
    /\ bus[d] \in {"open", "unplugged"} => d \in host_devices

\* The inductive invariant.
IInv ==
  /\ OneDevicePerAddress /\ TypeOK
  /\ ListInv /\ UsingInv /\ HeldInv /\ WordInv /\ BusInv

-----------------------------------------------------------------------------
\* Erasing entry i takes just its device out of an injective list.
LEMMA WithoutList ==
  ASSUME available \in Seq(Devices), IsInjective(available), NEW i \in 1 .. Len(available)
  PROVE  /\ Without(i) \in Seq(Devices) /\ IsInjective(Without(i))
         /\ Range(Without(i)) = AvailableDevices \ {available[i]}
<1> DEFINE new == Without(i)
           from(j) == IF j < i THEN j ELSE j + 1
<1>1. Len(available) \in Nat /\ DOMAIN available = 1 .. Len(available)
      /\ Len(available) - 1 \in Nat /\ \A j \in 1 .. Len(available) : available[j] \in Devices
  OBVIOUS
<1>2. \A j \in 1 .. Len(available) - 1 : from(j) \in 1 .. Len(available) /\ from(j) # i
  BY <1>1
<1>3. DOMAIN new = 1 .. Len(available) - 1
      /\ \A j \in 1 .. Len(available) - 1 : new[j] = available[from(j)]
  BY DEF Without
<1>4. new \in Seq(Devices)
  <2>1. new \in [1 .. Len(available) - 1 -> Devices]
    BY <1>1, <1>2 DEF Without
  <2> QED
    BY <2>1, <1>1, IsASeq
<1>5. IsInjective(new)
  <2>1. \A j, k \in 1 .. Len(available) - 1 : from(j) = from(k) => j = k
    BY <1>1
  <2>2. \A j, k \in 1 .. Len(available) : available[j] = available[k] => j = k
    BY <1>1 DEF IsInjective
  <2> HIDE DEF new, from
  <2> QED
    BY <1>2, <1>3, <2>1, <2>2 DEF IsInjective
<1>6. Range(new) = AvailableDevices \ {available[i]}
  <2>1. \A k \in 1 .. Len(available) :
          k # i => \E j \in 1 .. Len(available) - 1 : from(j) = k
    <3> TAKE k \in 1 .. Len(available)
    <3>1. CASE k < i
      <4>1. k \in 1 .. Len(available) - 1 /\ from(k) = k
        BY <3>1, <1>1
      <4> QED BY <4>1
    <3>2. CASE k > i
      <4>1. k - 1 \in 1 .. Len(available) - 1 /\ from(k - 1) = k
        BY <3>2, <1>1
      <4> QED BY <4>1
    <3> QED
      BY <3>1, <3>2, <1>1
  <2>2. \A j, k \in 1 .. Len(available) : available[j] = available[k] => j = k
    BY <1>1 DEF IsInjective
  <2>3. \A j \in 1 .. Len(available) - 1 :
          new[j] \in AvailableDevices /\ new[j] # available[i]
    <3> HIDE DEF new, from
    <3> QED BY <1>1, <1>2, <1>3, <2>2 DEF Range, AvailableDevices
  <2>4. \A k \in 1 .. Len(available) : available[k] # available[i] =>
          \E j \in 1 .. Len(available) - 1 : new[j] = available[k]
    <3> HIDE DEF new, from
    <3> QED BY <1>3, <2>1
  <2> HIDE DEF new, from
  <2>5. Range(new) \subseteq AvailableDevices \ {available[i]}
    BY <1>3, <2>3 DEF Range
  <2>6. ASSUME NEW x \in AvailableDevices, x # available[i] PROVE x \in Range(new)
    <3>1. PICK k \in 1 .. Len(available) : x = available[k]
      BY <1>1, <2>6 DEF AvailableDevices, Range
    <3>2. PICK j \in 1 .. Len(available) - 1 : new[j] = x
      BY <2>4, <2>6, <3>1
    <3> QED
      BY <1>3, <3>2 DEF Range
  <2> QED
    BY <2>5, <2>6
<1> QED
  BY <1>4, <1>5, <1>6

\* Appending a device that is not listed adds just that device.
LEMMA AppendList ==
  ASSUME available \in Seq(Devices), IsInjective(available),
         NEW d \in Devices, d \notin AvailableDevices
  PROVE  /\ Append(available, d) \in Seq(Devices) /\ IsInjective(Append(available, d))
         /\ Range(Append(available, d)) = AvailableDevices \cup {d}
<1> DEFINE new == Append(available, d)
           n == Len(available)
<1>1. /\ n \in Nat /\ DOMAIN available = 1 .. n /\ DOMAIN new = 1 .. n + 1
      /\ new[n + 1] = d /\ \A j \in 1 .. n : new[j] = available[j]
      /\ new \in Seq(Devices)
  OBVIOUS
<1>2. \A j \in 1 .. n : available[j] # d
  BY <1>1 DEF AvailableDevices, Range
<1>3. \A j \in 1 .. n + 1 : j \in 1 .. n \/ j = n + 1
  BY <1>1
<1>4. n + 1 \in 1 .. n + 1 /\ \A j \in 1 .. n : j \in 1 .. n + 1
  BY <1>1
<1> HIDE DEF new, n
<1>5. IsInjective(new)
  BY <1>1, <1>2, <1>3 DEF IsInjective
<1>6. Range(new) = AvailableDevices \cup {d}
  BY <1>1, <1>3, <1>4 DEF AvailableDevices, Range
<1> QED
  BY <1>1, <1>5, <1>6 DEF new

\* The first state is right: nothing is listed.
LEMMA InitInv == OneDevicePerAddress /\ Init => IInv
<1> SUFFICES ASSUME OneDevicePerAddress, Init PROVE IInv
    OBVIOUS
<1>1. TypeOK
  BY NoDeviceAssumption DEF Init, TypeOK
<1>2. ListInv
  BY DEF Init, ListInv, IsInjective, AvailableDevices, Range
<1>3. UsingInv
  BY DEF Init, UsingInv
<1>4. HeldInv /\ WordInv /\ BusInv
  BY DEF Init, HeldInv, WordInv, BusInv, Held, Busy
<1> QED
  BY <1>1, <1>2, <1>3, <1>4 DEF IInv

\* Every step keeps the inductive invariant.
LEMMA StepInv == IInv /\ [Next]_vars => IInv'
<1> SUFFICES ASSUME IInv, [Next]_vars PROVE IInv'
    OBVIOUS
<1> USE NoDeviceAssumption
<1>o. OneDevicePerAddress /\ OneDevicePerAddress' /\ Busids' = Busids
  BY DEF IInv, OneDevicePerAddress, Busids
<1>t. TypeOK /\ ListInv /\ UsingInv /\ HeldInv /\ WordInv /\ BusInv
  BY DEF IInv
<1>b. \A d \in Devices : BusidOf[d] \in Busids
  BY DEF Busids
<1>a. available' = available => AvailableDevices' = AvailableDevices
  BY DEF AvailableDevices
<1>1. ASSUME NEW s \in Sessions, NEW to \in {"checked", "exiting"}, ~Held(s), Go(s, pc[s], to),
             UNCHANGED <<hostVars, listVars, handlerVars, busid, dev, stop>>
      PROVE  IInv'
  <2>h. \A t \in Sessions : Held(t)' = Held(t) /\ (Held(t) => pc'[t] = pc[t])
    BY <1>1, <1>t DEF Go, Held, Busy, TypeOK
  <2>1. TypeOK' /\ ListInv' /\ BusInv'
    BY <1>1, <1>t, <1>a DEF Go, hostVars, listVars, handlerVars, TypeOK, ListInv, BusInv
  <2>2. UsingInv' /\ HeldInv'
    BY <1>1, <2>h, <1>t, <1>a DEF hostVars, listVars, UsingInv, HeldInv
  <2>3. WordInv'
    BY <1>1, <2>h, <1>t DEF hostVars, listVars, handlerVars, WordInv
  <2> QED
    BY <1>o, <2>1, <2>2, <2>3 DEF IInv
<1>2. ASSUME NEW s \in Sessions, try_moving_device_to_using(s) PROVE IInv'
  <2>p. PICK i \in 1 .. Len(available) :
          /\ BusidOf[available[i]] = busid[s]
          /\ using' = [using EXCEPT ![busid[s]] = available[i]]
          /\ available' = Without(i)
          /\ dev' = [dev EXCEPT ![s] = available[i]]
    BY <1>2 DEF try_moving_device_to_using
  <2>g. /\ pc[s] = "checked" /\ pc' = [pc EXCEPT ![s] = "moved"]
        /\ UNCHANGED <<bus, host_devices, removed, session, busid, stop>>
    BY <1>2 DEF try_moving_device_to_using, Go, hostVars, handlerVars
  <2>d. available[i] \in Devices /\ available[i] \in AvailableDevices
    BY <1>t DEF TypeOK, AvailableDevices, Range
  <2>w. /\ available' \in Seq(Devices) /\ IsInjective(available')
        /\ AvailableDevices' = AvailableDevices \ {available[i]}
    BY <1>t, <2>p, WithoutList DEF TypeOK, ListInv, AvailableDevices
  <2> DEFINE x == available[i]
  <2> HIDE DEF x
  <2>q. /\ BusidOf[x] = busid[s] /\ using' = [using EXCEPT ![busid[s]] = x]
        /\ dev' = [dev EXCEPT ![s] = x] /\ x \in Devices /\ x \in AvailableDevices
        /\ AvailableDevices' = AvailableDevices \ {x}
    BY <2>p, <2>d, <2>w DEF x
  <2>1. TypeOK'
    BY <1>t, <2>g, <2>w, <2>q DEF TypeOK
  <2>2. ListInv'
    BY <1>t, <2>g, <2>w DEF ListInv
  <2>3. UsingInv'
    BY <1>t, <2>g, <2>q DEF TypeOK, UsingInv, Held, Busy, HeldInv
  <2>4. HeldInv'
    BY <1>t, <2>g, <2>q DEF TypeOK, HeldInv, Held, Busy, ListInv
  <2>5. WordInv'
    BY <1>o, <1>t, <2>g, <2>q
       DEF TypeOK, WordInv, HeldInv, Held, Busy, ListInv, OneDevicePerAddress
  <2>6. BusInv'
    BY <1>t, <2>g DEF BusInv
  <2> QED
    BY <1>o, <2>1, <2>2, <2>3, <2>4, <2>5, <2>6 DEF IInv
<1>3. ASSUME NEW s \in Sessions, on_new_connection_Attach(s) PROVE IInv'
  <2>1. TypeOK' /\ ListInv' /\ BusInv'
    BY <1>3, <1>t, <1>a
       DEF on_new_connection_Attach, Go, hostVars, listVars, TypeOK, ListInv, BusInv
  <2>2. UsingInv' /\ HeldInv'
    BY <1>3, <1>t, <1>a
       DEF on_new_connection_Attach, Go, hostVars, listVars, UsingInv, Held, Busy, HeldInv
  <2>3. WordInv'
    BY <1>3, <1>t
       DEF on_new_connection_Attach, Go, hostVars, listVars, TypeOK, WordInv, HeldInv,
           Held, Busy
  <2> QED
    BY <1>o, <2>1, <2>2, <2>3 DEF IInv
<1>4. ASSUME NEW s \in Sessions, on_new_connection_Reset(s) PROVE IInv'
  <2>1. TypeOK' /\ ListInv' /\ BusInv'
    BY <1>4, <1>t, <1>a
       DEF on_new_connection_Reset, Go, hostVars, listVars, TypeOK, ListInv, BusInv
  <2>2. UsingInv' /\ HeldInv'
    BY <1>4, <1>t, <1>a
       DEF on_new_connection_Reset, Go, hostVars, listVars, UsingInv, Held, Busy, HeldInv
  <2>3. WordInv'
    BY <1>4, <1>t DEF on_new_connection_Reset, Go, hostVars, listVars, WordInv, Held, Busy
  <2> QED
    BY <1>o, <2>1, <2>2, <2>3 DEF IInv
<1>5. ASSUME NEW s \in Sessions, TransferFindsNoDevice(s) PROVE IInv'
  <2>d. dev[s] \in Devices
    BY <1>5, <1>t DEF TransferFindsNoDevice, HeldInv, Held, Busy
  <2>1. TypeOK' /\ ListInv' /\ BusInv'
    BY <1>5, <1>t, <1>a
       DEF TransferFindsNoDevice, hostVars, listVars, TypeOK, ListInv, HeldInv, BusInv,
           Held, Busy
  <2>2. UsingInv' /\ HeldInv'
    BY <1>5, <1>t, <1>a
       DEF TransferFindsNoDevice, hostVars, listVars, UsingInv, Held, Busy, HeldInv
  <2>3. WordInv'
    BY <1>5, <1>t
       DEF TransferFindsNoDevice, hostVars, listVars, WordInv, HeldInv, Held, Busy
  <2> QED
    BY <1>o, <2>1, <2>2, <2>3 DEF IInv
<1>6. ASSUME NEW s \in Sessions, on_disconnection(s) PROVE IInv'
  <2>1. TypeOK' /\ ListInv' /\ BusInv'
    BY <1>6, <1>t, <1>a
       DEF on_disconnection, Go, hostVars, listVars, TypeOK, ListInv, BusInv
  <2>2. UsingInv' /\ HeldInv'
    BY <1>6, <1>t, <1>a
       DEF on_disconnection, Go, hostVars, listVars, UsingInv, Held, Busy, HeldInv
  <2>3. WordInv'
    BY <1>6, <1>t DEF on_disconnection, Go, hostVars, listVars, TypeOK, WordInv, Held, Busy
  <2> QED
    BY <1>o, <2>1, <2>2, <2>3 DEF IInv
<1>7. ASSUME NEW s \in Sessions, Receiver_IsRemoved(s) PROVE IInv'
  <2>1. TypeOK' /\ ListInv' /\ BusInv'
    BY <1>7, <1>t, <1>a
       DEF Receiver_IsRemoved, Go, hostVars, listVars, handlerVars, TypeOK, ListInv, BusInv
  <2>2. UsingInv' /\ HeldInv'
    BY <1>7, <1>t, <1>a
       DEF Receiver_IsRemoved, Go, hostVars, listVars, UsingInv, Held, Busy, HeldInv
  <2>3. WordInv'
    BY <1>7, <1>t
       DEF Receiver_IsRemoved, Go, hostVars, listVars, handlerVars, WordInv, Held, Busy
  <2> QED
    BY <1>o, <2>1, <2>2, <2>3 DEF IInv
<1>8. ASSUME NEW s \in Sessions, Receiver_Erase(s) PROVE IInv'
  <2>1. TypeOK' /\ ListInv' /\ BusInv'
    BY <1>8, <1>t, <1>a
       DEF Receiver_Erase, Go, hostVars, handlerVars, TypeOK, ListInv, BusInv
  <2>2. UsingInv' /\ HeldInv'
    BY <1>8, <1>t, <1>a
       DEF Receiver_Erase, Go, hostVars, TypeOK, UsingInv, Held, Busy, HeldInv
  <2>3. WordInv'
    BY <1>8, <1>o, <1>t
       DEF Receiver_Erase, Go, hostVars, handlerVars, TypeOK, WordInv, HeldInv, Held, Busy,
           OneDevicePerAddress
  <2> QED
    BY <1>o, <2>1, <2>2, <2>3 DEF IInv
<1>9. ASSUME NEW s \in Sessions, try_moving_device_to_available(s) PROVE IInv'
  <2>g. /\ pc[s] = "restore" /\ pc' = [pc EXCEPT ![s] = "exiting"]
        /\ using' = [using EXCEPT ![busid[s]] = "none"]
        /\ UNCHANGED <<bus, host_devices, removed, session, busid, dev, stop>>
    BY <1>9 DEF try_moving_device_to_available, Go, hostVars, handlerVars
  <2> DEFINE x == using[busid[s]]
  <2>x. busid[s] \in Busids /\ (x = "none" \/ x \in Devices)
    BY <1>t DEF TypeOK
  <2>y. x # "none" => x = dev[s] /\ x \notin AvailableDevices /\ dev[s] \in Devices
    BY <1>o, <1>t, <2>g, <2>x DEF UsingInv, HeldInv, Held, OneDevicePerAddress
  <2>w. /\ available' \in Seq(Devices) /\ IsInjective(available')
        /\ AvailableDevices' = AvailableDevices \cup ({x} \ {"none"})
    <3>1. CASE x = "none"
      BY <1>9, <1>t, <1>a, <3>1 DEF try_moving_device_to_available, TypeOK, ListInv
    <3>2. CASE x # "none"
      <4>1. available' = Append(available, x) /\ x \in Devices
        BY <1>9, <2>x, <3>2 DEF try_moving_device_to_available
      <4>2. /\ Append(available, x) \in Seq(Devices) /\ IsInjective(Append(available, x))
            /\ Range(Append(available, x)) = AvailableDevices \cup {x}
        <5> HIDE DEF x
        <5> QED BY <1>t, <2>y, <3>2, <4>1, AppendList DEF TypeOK, ListInv
      <4> QED
        BY <3>2, <4>1, <4>2 DEF AvailableDevices
    <3> QED
      BY <3>1, <3>2
  <2>n. "none" \notin AvailableDevices
    BY <1>t DEF TypeOK, AvailableDevices, Range
  <2>1. TypeOK'
    BY <1>t, <2>g, <2>w DEF TypeOK
  <2>2. ListInv'
    BY <1>t, <2>g, <2>y, <2>w DEF ListInv, HeldInv, WordInv, Held
  <2>3. UsingInv'
    BY <1>t, <2>g, <2>w DEF TypeOK, UsingInv, Held, Busy, HeldInv
  <2>4. HeldInv'
    BY <1>t, <2>g, <2>y, <2>w DEF TypeOK, HeldInv, Held, Busy
  <2>5. WordInv'
    BY <1>t, <2>g, <2>y DEF TypeOK, WordInv, HeldInv, Held, Busy
  <2>6. BusInv'
    BY <1>t, <2>g DEF BusInv
  <2> QED
    BY <1>o, <2>1, <2>2, <2>3, <2>4, <2>5, <2>6 DEF IInv
<1>10. ASSUME NEW s \in Sessions, on_session_exit(s) PROVE IInv'
  <2>1. TypeOK' /\ ListInv' /\ BusInv'
    BY <1>10, <1>t, <1>a
       DEF on_session_exit, Go, hostVars, handlerVars, TypeOK, ListInv, BusInv
  <2>2. UsingInv' /\ HeldInv'
    BY <1>10, <1>t, <1>a DEF on_session_exit, Go, hostVars, UsingInv, Held, Busy, HeldInv
  <2>3. WordInv'
    BY <1>10, <1>t
       DEF on_session_exit, Go, hostVars, handlerVars, TypeOK, WordInv, Held, Busy
  <2> QED
    BY <1>o, <2>1, <2>2, <2>3 DEF IInv
<1>11. ASSUME NEW d \in Devices, NewDev(d) PROVE IInv'
  <2>g. /\ bus[d] = "in" /\ bus' = [bus EXCEPT ![d] = "open"]
        /\ host_devices' = host_devices \cup {d}
        /\ UNCHANGED <<using, removed, session, pc, busid, dev, stop>>
    BY <1>11 DEF NewDev, handlerVars, sessionVars
  <2>x. d \notin AvailableDevices
    BY <1>t, <2>g DEF ListInv
  <2>w. /\ available' \in Seq(Devices) /\ IsInjective(available')
        /\ AvailableDevices' \in {AvailableDevices, AvailableDevices \cup {d}}
    BY <1>11, <1>t, <1>a, <2>x, AppendList DEF NewDev, TypeOK, ListInv, AvailableDevices
  <2>1. TypeOK'
    BY <1>t, <2>g, <2>w DEF TypeOK
  <2>2. ListInv'
    BY <1>t, <2>g, <2>w DEF TypeOK, ListInv, BusInv
  <2>3. UsingInv'
    BY <1>t, <2>g, <2>w DEF UsingInv, Held, Busy, HeldInv
  <2>4. HeldInv'
    BY <1>t, <2>g, <2>w DEF HeldInv, Held, Busy
  <2>5. WordInv'
    BY <1>t, <2>g DEF WordInv, Held, Busy
  <2>6. BusInv'
    BY <1>t, <2>g DEF BusInv
  <2> QED
    BY <1>o, <2>1, <2>2, <2>3, <2>4, <2>5, <2>6 DEF IInv
<1>12. ASSUME NEW d \in Devices, DevGone(d) PROVE IInv'
  <2>g. /\ bus[d] = "unplugged" /\ bus' = [bus EXCEPT ![d] = "gone"]
        /\ UNCHANGED <<using, session, pc, busid, dev>>
        /\ host_devices' \in {host_devices, host_devices \ {d}}
        /\ d \in host_devices => remove_gone_device(d)
        /\ d \notin host_devices => UNCHANGED <<available, removed, stop>>
    BY <1>12 DEF DevGone, remove_gone_device, listVars, handlerVars
  <2>r. removed' \subseteq removed \cup {d} /\ removed \subseteq removed'
    <3>1. ASSUME using[BusidOf[d]] # "none" PROVE using[BusidOf[d]] = d
      BY <1>o, <1>t, <1>b, <3>1 DEF UsingInv, OneDevicePerAddress, TypeOK
    <3> QED
      BY <2>g, <3>1 DEF remove_gone_device
  <2>s. stop' \subseteq Sessions
    <3>1. SessionsOf(using[BusidOf[d]]) \subseteq Sessions \/ using[BusidOf[d]] = "none"
      BY <1>t, <1>b DEF SessionsOf, TypeOK
    <3> QED
      BY <1>t, <2>g, <3>1 DEF remove_gone_device, TypeOK
  <2>w. /\ available' \in Seq(Devices) /\ IsInjective(available')
        /\ AvailableDevices' \subseteq AvailableDevices
    <3>1. CASE available' = available
      BY <1>t, <1>a, <3>1 DEF TypeOK, ListInv
    <3>2. ASSUME NEW i \in 1 .. Len(available), available' = Without(i)
          PROVE  /\ available' \in Seq(Devices) /\ IsInjective(available')
                 /\ AvailableDevices' \subseteq AvailableDevices
      BY <1>t, <3>2, WithoutList DEF TypeOK, ListInv, AvailableDevices
    <3> QED
      BY <2>g, <3>1, <3>2 DEF remove_gone_device
  <2>1. TypeOK'
    BY <1>t, <2>g, <2>r, <2>s, <2>w DEF TypeOK
  <2>2. ListInv'
    BY <1>t, <2>g, <2>r, <2>w DEF TypeOK, ListInv
  <2>3. UsingInv'
    BY <1>t, <2>g, <2>w DEF UsingInv, Held, Busy
  <2>4. HeldInv'
    BY <1>t, <2>g, <2>w DEF HeldInv, Held, Busy
  <2>5. WordInv'
    BY <1>t, <2>g, <2>r DEF TypeOK, WordInv, Held, Busy
  <2>6. BusInv'
    BY <1>t, <2>g, <2>r DEF TypeOK, BusInv
  <2> QED
    BY <1>o, <2>1, <2>2, <2>3, <2>4, <2>5, <2>6 DEF IInv
<1>13. ASSUME NEW d \in Devices, Plug(d) PROVE IInv'
  <2>1. TypeOK' /\ ListInv' /\ BusInv'
    BY <1>13, <1>t, <1>a
       DEF Plug, listVars, handlerVars, sessionVars, TypeOK, ListInv, BusInv
  <2>2. UsingInv' /\ HeldInv'
    BY <1>13, <1>t, <1>a DEF Plug, listVars, sessionVars, UsingInv, Held, Busy, HeldInv
  <2>3. WordInv'
    BY <1>13, <1>t DEF Plug, listVars, handlerVars, sessionVars, WordInv, Held, Busy
  <2> QED
    BY <1>o, <2>1, <2>2, <2>3 DEF IInv
<1>14. ASSUME NEW d \in Devices, Unplug(d) PROVE IInv'
  <2>1. TypeOK' /\ ListInv' /\ BusInv'
    BY <1>14, <1>t, <1>a
       DEF Unplug, listVars, handlerVars, sessionVars, TypeOK, ListInv, BusInv
  <2>2. UsingInv' /\ HeldInv'
    BY <1>14, <1>t, <1>a DEF Unplug, listVars, sessionVars, UsingInv, Held, Busy, HeldInv
  <2>3. WordInv'
    BY <1>14, <1>t DEF Unplug, listVars, handlerVars, sessionVars, WordInv, Held, Busy
  <2> QED
    BY <1>o, <2>1, <2>2, <2>3 DEF IInv
<1>15. CASE UNCHANGED vars
  BY <1>15, <1>a
     DEF vars, IInv, TypeOK, ListInv, UsingInv, HeldInv, WordInv, BusInv, Held, Busy
<1>16. ASSUME NEW s \in Sessions, OtherOp(s) \/ Import_IsUsing(s) \/ Import_NoDevice(s)
      PROVE  IInv'
  <2>1. ~Held(s) /\ \E to \in {"checked", "exiting"} : Go(s, pc[s], to)
    BY <1>16 DEF OtherOp, Import_IsUsing, Import_NoDevice, Go, Held, Busy
  <2> QED
    BY <1>1, <1>16, <2>1 DEF OtherOp, Import_IsUsing, Import_NoDevice
<1> QED
  BY <1>2, <1>3, <1>4, <1>5, <1>6, <1>7, <1>8, <1>9, <1>10, <1>11, <1>12, <1>13, <1>14, <1>15, <1>16
     DEF Next, SessionGoesOn

\* Every reachable state satisfies the inductive invariant.
THEOREM Invariance == OneDevicePerAddress /\ Spec => []IInv
BY InitInv, StepInv, PTL DEF Spec

\* A device is in one place only: offered once, or with one session.
THEOREM OneOwnerCorrect == OneDevicePerAddress /\ Spec => []OneOwner
<1>1. IInv => Exclusive
  BY DEF IInv, HeldInv, Held, Exclusive
<1>2. IInv => ListedOnce
  <2> SUFFICES ASSUME IInv PROVE ListedOnce
      OBVIOUS
  <2>1. "none" \notin AvailableDevices
    BY NoDeviceAssumption DEF IInv, TypeOK, AvailableDevices, Range
  <2> QED
    BY <2>1 DEF IInv, ListInv, UsingInv, ListedOnce
<1> QED
  BY <1>1, <1>2, Invariance, PTL DEF OneOwner

\* using_devices holds what sessions work with, all of it and nothing else.
THEOREM UsingCorrect == OneDevicePerAddress /\ Spec => []UsingIsTheUsed
<1>1. IInv => UsedIsRegistered
  BY DEF IInv, HeldInv, WordInv, BusInv, Held, Busy, UsedIsRegistered
<1>2. IInv => NoStrandedDevice
  BY DEF IInv, UsingInv, Held, NoStrandedDevice
<1> QED
  BY <1>1, <1>2, Invariance, PTL DEF UsingIsTheUsed

\* DEV_GONE tells the handler and stops the session that works with the device,
\* wherever the device has moved, unless a transfer has found out before.
THEOREM GoneReaches == OneDevicePerAddress /\ Spec => DevGoneReachesUnaware
<1>1. IInv /\ [Next]_vars =>
        [\A d \in Devices \ removed : \A s \in Sessions :
           DevGoneHandled(d, s) => d \in removed' /\ s \in stop']_vars
  <2> SUFFICES ASSUME IInv, Next, NEW d \in Devices \ removed, NEW s \in Sessions,
                      DevGoneHandled(d, s)
               PROVE  d \in removed' /\ s \in stop'
      OBVIOUS
  <2>1. /\ pc[s] = "transfer" /\ dev[s] = d /\ bus[d] = "unplugged" /\ bus'[d] = "gone"
        /\ Held(s)
    BY DEF DevGoneHandled, Held, Busy
  <2>2. /\ d \in host_devices /\ using[BusidOf[d]] = d /\ session[d] = s
        /\ d \notin AvailableDevices
    BY <2>1 DEF IInv, BusInv, WordInv, HeldInv
  <2>3. ASSUME NEW e \in Devices, DevGone(e) PROVE d \in removed' /\ s \in stop'
    <3>1. e = d
      BY <2>1, <2>3 DEF DevGone, IInv, TypeOK
    <3>2. remove_gone_device(d)
      BY <2>2, <2>3, <3>1 DEF DevGone
    <3>3. \A i \in 1 .. Len(available) : BusidOf[available[i]] # BusidOf[d]
      <4>1. \A i \in 1 .. Len(available) : available[i] \in Devices /\ available[i] # d
        BY <2>2 DEF IInv, TypeOK, AvailableDevices, Range
      <4> QED
        BY <4>1 DEF IInv, OneDevicePerAddress
    <3>4. d # "none" /\ s # "none"
      BY NoDeviceAssumption
    <3> QED
      BY <2>2, <3>2, <3>3, <3>4 DEF remove_gone_device, SessionsOf
  <2>4. ASSUME NEW t \in Sessions,
               OtherOp(t) \/ Import_IsUsing(t) \/ SessionGoesOn(t)
                 \/ TransferFindsNoDevice(t) \/ on_disconnection(t)
        PROVE  bus' = bus
    BY <2>4
       DEF OtherOp, Import_IsUsing, SessionGoesOn, TransferFindsNoDevice, on_disconnection,
         try_moving_device_to_using, Import_NoDevice, on_new_connection_Attach,
         on_new_connection_Reset, Receiver_IsRemoved, Receiver_Erase,
         try_moving_device_to_available, on_session_exit, hostVars
  <2>5. ASSUME NEW e \in Devices, NewDev(e) \/ Plug(e) \/ Unplug(e)
        PROVE  bus'[d] # "gone"
    BY <2>1, <2>5 DEF NewDev, Plug, Unplug, IInv, TypeOK
  <2> QED
    BY <2>1, <2>3, <2>4, <2>5 DEF Next
<1> QED
  BY <1>1, Invariance, PTL DEF Spec, DevGoneReachesUnaware
=============================================================================
