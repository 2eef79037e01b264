-------------------------- MODULE MCDeviceRegistry --------------------------
(* DeviceRegistry: two devices on two ports, or two pluggings-in that get   *)
(* the same address one after the other.                                    *)
EXTENDS DeviceRegistry
MCDevices == {"d1", "d2"}
MCSessions == {"s1", "s2", "s3"}
MCTwoPorts == [d \in MCDevices |-> IF d = "d1" THEN "1-1" ELSE "1-2"]
MCReplug == [d \in MCDevices |-> "1-1"]
MCOne == {"d1"}
MCOnePort == [d \in MCOne |-> "1-1"]
=============================================================================
