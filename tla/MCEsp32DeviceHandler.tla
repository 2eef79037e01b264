----------------------- MODULE MCEsp32DeviceHandler -----------------------
(* Small instances of Esp32DeviceHandler: URBs 1 and 2 share an interface  *)
(* endpoint (so an unlink of one cancels the other), URB 3 goes to         *)
(* endpoint 0.                                                             *)
EXTENDS Esp32DeviceHandler

MCUrbs == 1 .. 3
MCShared == 1 .. 2
MCEndpoints == {"ep0", "ep81"}
MCControl == {"ep0"}
MCEpOf == [u \in MCUrbs |-> IF u = 3 THEN "ep0" ELSE "ep81"]
MCSharedEpOf == [u \in MCShared |-> "ep81"]
=============================================================================
