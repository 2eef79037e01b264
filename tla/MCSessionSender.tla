--------------------------- MODULE MCSessionSender ---------------------------
(* SessionSender with two callback threads besides the receiver: two may be   *)
(* inside wakeup_sender at once, and a reply may come during a swap.          *)
EXTENDS SessionSender
MCProducers == {"usb", "timer"}
=============================================================================
