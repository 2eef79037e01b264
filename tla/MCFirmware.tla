----------------------------- MODULE MCFirmware -----------------------------
(* The firmware around the USB/IP server: the boot and its WiFi, the BOOT  *)
(* button and the LED, and the GPIO server.  Each is exercised while the   *)
(* others, with which it shares no modelled state, are as they started.    *)
EXTENDS WifiManager, Board, GpioTcpServer

Char(is, pin, lev) == [is |-> is, pin |-> pin, level |-> lev]
MCAlphabet ==
  {Char("SET", "out", 1), Char("GET", "boot", 0), Char("LED", "-", 0),
   Char(" ", "-", 0), Char("CR", "-", 0), Char("LF", "-", 0)}

WifiIsNew == ~nvs /\ pc = "boot" /\ boots = 0 /\ attempts = 0 /\ ~restart /\ queue = <<>> /\ link = "down"
BoardIsNew == BoardInit
GpioIsNew == task = "wait" /\ ~network

FirmwareInit == Init /\ BoardInit /\ GpioInit
FirmwareNext ==
  \/ BoardIsNew /\ GpioIsNew /\ Next /\ UNCHANGED <<boardVars, gpioVars>>
  \/ WifiIsNew /\ GpioIsNew /\ BoardNext /\ UNCHANGED <<vars, gpioVars>>
  \/ WifiIsNew /\ BoardIsNew /\ GpioNext /\ UNCHANGED <<vars, boardVars>>

\* As in WifiManager: the main thread and the event task run when they can.
FirmwareSpec ==
  /\ FirmwareInit /\ [][FirmwareNext]_<<vars, boardVars, gpioVars>>
  /\ WF_vars(MainStep) /\ WF_vars(EventStep) /\ WF_vars(esp_restart)
=============================================================================
