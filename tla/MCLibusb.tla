------------------------------ MODULE MCLibusb ------------------------------
(* The host-side server for devices behind libusb: its device lists, its    *)
(* URBs, and the containers the handlers are built on.  They share no state *)
(* here: each is exercised while the others are as they were created.       *)
EXTENDS LibusbServer, LibusbDeviceHandler, ObjectPool, RingBuffer
MCBytes == {0, 1}

Init == LibusbServerInit /\ LibusbHandlerInit /\ PoolInit /\ RingInit
ServerIsNew == handlers = <<>> /\ server = "down"
HandlerIsNew == sessions = 0
PoolIsNew == ret = "none" /\ ~deleted /\ free_stack = [i \in Index |-> i]
             /\ free_top = PoolSize
RingIsNew == capacity_ = 0 /\ DOMAIN buffer_ = {} /\ out = <<>>

Next ==
  \/ HandlerIsNew /\ PoolIsNew /\ RingIsNew /\ LibusbServerNext
     /\ UNCHANGED <<handlerVars, poolVars, ringVars>>
  \/ ServerIsNew /\ PoolIsNew /\ RingIsNew /\ LibusbHandlerNext
     /\ UNCHANGED <<serverVars, poolVars, ringVars>>
  \/ ServerIsNew /\ HandlerIsNew /\ RingIsNew /\ PoolNext
     /\ UNCHANGED <<serverVars, handlerVars, ringVars>>
  \/ ServerIsNew /\ HandlerIsNew /\ PoolIsNew /\ RingNext
     /\ UNCHANGED <<serverVars, handlerVars, poolVars>>
Spec == Init /\ [][Next]_<<serverVars, handlerVars, poolVars, ringVars>>
=============================================================================
