-------------------------- MODULE MCVirtualDevices --------------------------
(* The devices a program can pretend to have, and the session that carries  *)
(* commands to them and replies back.  Each interface handler, and the      *)
(* session with all kinds of interface behind it, is exercised while the    *)
(* others, with which it shares no state, are as they were created.         *)
EXTENDS HidInterface, CdcAcmInterface, MscBulkOnly, AbsoluteMouse, CommandStream
MCPixels == {-1, 2, 5}

MCHandlers == <<"hid", "none", "cdc_data", "iso">>
MCEndpoints ==
  <<[type |-> "interrupt", interface |-> 1], [type |-> "bulk", interface |-> 2],
    [type |-> "bulk", interface |-> 3], [type |-> "isochronous", interface |-> 4]>>
Nowhere == 5
MCStrings == <<1>>

Setup(type, recipient, request, in, descriptor, value, index, length) ==
  [type |-> type, recipient |-> recipient, request |-> request, in |-> in,
   descriptor |-> descriptor, value |-> value, index |-> index, length |-> length]
NoSetup == Setup("standard", "other", "none", FALSE, "none", 0, 0, 0)
Submit(ep, in, length, packets, setup) ==
  [kind |-> "CMD_SUBMIT", seqnum |-> 0, ep |-> ep, in |-> in, length |-> length,
   packets |-> packets, setup |-> setup, target |-> 0]
Control(setup) == Submit(Ep0, setup.in, setup.length, NonIso, setup)

\* One request of each kind of answer.
MCSetups ==
  {Setup("standard", "device", "get_descriptor", TRUE, "device", 0, 0, 2),
   Setup("standard", "device", "get_descriptor", TRUE, "string", 7, 0, 2),
   Setup("standard", "device", "get_status", TRUE, "none", 0, 0, 0),
   Setup("standard", "device", "set_configuration", FALSE, "none", 0, 0, 0),
   Setup("standard", "interface", "get_interface", TRUE, "none", 0, 1, 1),
   Setup("standard", "interface", "clear_feature", FALSE, "none", 0, 2, 0),
   Setup("standard", "endpoint", "clear_feature", FALSE, "none", 0, 3, 0),
   Setup("standard", "endpoint", "get_status", TRUE, "none", 0, Ep0, 2),
   Setup("standard", "endpoint", "get_status", TRUE, "none", 0, Nowhere, 2),
   Setup("class", "interface", "set_idle", FALSE, "none", 0, 1, 1),
   Setup("vendor", "endpoint", "any", FALSE, "none", 0, 2, 0)}
MCCommands ==
  {Control(s) : s \in MCSetups}
  \cup {Submit(1, TRUE, 2, 0, NoSetup), Submit(1, FALSE, 1, 0, NoSetup),
        Submit(2, TRUE, 2, 0, NoSetup), Submit(3, TRUE, 3, NonIso, NoSetup),
        Submit(4, TRUE, 2, 2, NoSetup), Submit(Nowhere, TRUE, 2, 0, NoSetup),
        Submit(3, TRUE, 9, 0, NoSetup)}
  \cup {[Submit(Ep0, FALSE, 0, 0, NoSetup) EXCEPT !.kind = "CMD_UNLINK", !.target = t] : t \in {1, 2}}
  \cup {[Submit(Ep0, FALSE, 0, 0, NoSetup) EXCEPT !.kind = "CMD_OTHER"]}

Init == HidInit /\ CdcInit /\ MscInit /\ MouseInit /\ StreamInit
HidIsNew == hid_connections = 0 /\ hid_sent = 0
CdcIsNew == cdc_connections = 0 /\ \A c \in DOMAIN calls : calls[c] = 0
MscIsNew == msc_sessions = 0
MouseIsNew == mouse_connections = 0 /\ \A c \in Callers : gestures[c] = 0
StreamIsNew == phase = "op"

deviceVars == <<hidVars, cdcVars, mscVars, mouseVars>>
Next ==
  \/ CdcIsNew /\ MscIsNew /\ MouseIsNew /\ StreamIsNew /\ HidNext
     /\ UNCHANGED <<cdcVars, mscVars, mouseVars, csVars>>
  \/ HidIsNew /\ MscIsNew /\ MouseIsNew /\ StreamIsNew /\ CdcNext
     /\ UNCHANGED <<hidVars, mscVars, mouseVars, csVars>>
  \/ HidIsNew /\ CdcIsNew /\ MouseIsNew /\ StreamIsNew /\ MscNext
     /\ UNCHANGED <<hidVars, cdcVars, mouseVars, csVars>>
  \/ HidIsNew /\ CdcIsNew /\ MscIsNew /\ StreamIsNew /\ MouseNext
     /\ UNCHANGED <<hidVars, cdcVars, mscVars, csVars>>
  \/ HidIsNew /\ CdcIsNew /\ MscIsNew /\ MouseIsNew /\ StreamNext /\ UNCHANGED deviceVars
Spec == Init /\ [][Next]_<<deviceVars, csVars>>

\* Both kinds of device reach a session only while it is there.
SessionOutlivesRequests == HidSessionOutlivesRequests /\ CdcSessionOutlivesRequests
\* Neither the bytes of a serial port nor its blocked senders are left waiting
\* for something that has already come.
CdcKeepsMoving == CdcBytesFlow /\ CdcNoStrandedSender
\* The disk does what the command block says, and host and disk agree which
\* of the two speaks next.
MscFollowsTransport == MscDoesWhatItSays /\ MscInStep
=============================================================================
