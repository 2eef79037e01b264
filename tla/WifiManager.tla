---------------------------- MODULE WifiManager ----------------------------
(***************************************************************************)
(* wifi_manager.c as the firmware uses it: wifi_init on the main thread    *)
(* connects as a station with retries, or opens the configuration portal   *)
(* (access point and web server); the event task handles what the driver   *)
(* posts; the web server's POST /config and the BOOT button change the     *)
(* stored credentials and restart the chip, which loses all but NVS.       *)
(*                                                                         *)
(* Timing: the 1 s pause of wifi_prepare_sta_disconnect and the portal's   *)
(* scan are longer than the event task needs for what is queued (Quiet);   *)
(* nothing else is assumed about speeds.  wifi_reconnect, wifi_disconnect  *)
(* and wifi_start_ap_provisioning have no caller in the firmware.          *)
(***************************************************************************)
EXTENDS Naturals, Sequences

CONSTANTS
  WIFI_STA_FAIL_BEFORE_AP,  \* how often the station is tried
  MaxBoots                  \* bound: how often somebody restarts the chip

ASSUME RetriesAssumption == WIFI_STA_FAIL_BEFORE_AP \in Nat \ {0} /\ MaxBoots \in Nat

VARIABLES
  pc,        \* where the main thread is
  after,     \* where wifi_prepare_sta_disconnect returns to
  retry,
  bits,      \* the event group: the attempt that set each bit, 0 if clear
  woken,     \* the bits a blocked xEventGroupWaitBits was woken with
  s_sta_has_ip, s_sta_connecting, s_intentional_disconnect, s_ap_mode_active,
  s_http_server,
  g_wifi_status, \* what the LED shows: 0 no link, 1 connecting or portal, 2 online
  sync,      \* what board_sync_wifi_led has read and is about to write
  link,      \* the station: down, joining an access point, up with an IP
  queue,     \* the events the driver has posted, each with its attempt
  epc,       \* the event task: idle, or before the last step of a handler
  handling,  \* the attempt of the event it handles there
  nvs,       \* whether credentials are stored
  restart,   \* whether somebody is about to restart the chip
  attempts,  \* history: the esp_wifi_connect calls since the last restart
  boots      \* history: the restarts

vars == <<pc, after, retry, bits, woken, s_sta_has_ip, s_sta_connecting,
          s_intentional_disconnect, s_ap_mode_active, s_http_server, g_wifi_status,
          sync, link, queue, epc, handling, nvs, restart, attempts, boots>>
mainVars   == <<pc, after, retry, attempts, sync>>
waitVars   == <<bits, woken>>
flagVars   == <<s_sta_connecting, s_intentional_disconnect>>
apVars     == <<s_ap_mode_active, s_http_server>>
statusVars == <<s_sta_has_ip, g_wifi_status>>
linkVars   == <<link, queue>>
taskVars   == <<epc, handling>>
userVars   == <<nvs, restart, boots>>

Bits == {"CONNECTED", "FAIL"}
NoBits == [b \in Bits |-> 0]
Attempts == 0 .. WIFI_STA_FAIL_BEFORE_AP
Event == [kind : {"AP_START", "STA_START", "STA_DISCONNECTED", "STA_GOT_IP"},
          of : Attempts]
Portal == {"portal", "scan", "web"}

\* Types: the retry counter overshoots its limit by one at most.
TypeOK ==
  /\ pc \in {"boot", "load", "next", "prepare", "disconnect", "settle", "setup",
             "wait", "blocked", "failed", "sync", "led", "idle"} \cup Portal
  /\ after \in {"setup", "failed"}
  /\ retry \in 0 .. WIFI_STA_FAIL_BEFORE_AP + 1
  /\ bits \in [Bits -> Attempts] /\ woken \in [Bits -> Attempts]
  /\ s_sta_has_ip \in BOOLEAN /\ s_sta_connecting \in BOOLEAN
  /\ s_intentional_disconnect \in BOOLEAN
  /\ s_ap_mode_active \in BOOLEAN /\ s_http_server \in BOOLEAN
  /\ g_wifi_status \in 0 .. 2 /\ sync \in 0 .. 2
  /\ link \in {"down", "joining", "up"}
  /\ queue \in Seq(Event) /\ epc \in {"idle", "fail", "ip"} /\ handling \in Attempts
  /\ nvs \in BOOLEAN /\ restart \in BOOLEAN
  /\ attempts \in Attempts /\ boots \in 0 .. MaxBoots

\* The event task has nothing left to do.
Quiet == queue = <<>> /\ epc = "idle"

Init ==
  /\ pc = "boot" /\ after = "setup" /\ retry = 0 /\ bits = NoBits /\ woken = NoBits
  /\ s_sta_has_ip = FALSE /\ s_sta_connecting = FALSE
  /\ s_intentional_disconnect = FALSE
  /\ s_ap_mode_active = FALSE /\ s_http_server = FALSE
  /\ g_wifi_status = 0 /\ sync = 0 /\ link = "down" /\ queue = <<>>
  /\ epc = "idle" /\ handling = 0
  /\ nvs \in BOOLEAN /\ restart = FALSE /\ attempts = 0 /\ boots = 0

(***************************************************************************)
(* The driver and the event group.                                         *)
(***************************************************************************)
post(kind) == queue' = Append(queue, [kind |-> kind, of |-> attempts])

\* xEventGroupSetBits: a blocked waiter is woken with the bits of this moment.
setBit(b) ==
  /\ bits' = [bits EXCEPT ![b] = handling]
  /\ woken' = IF pc = "blocked" /\ woken = NoBits THEN bits' ELSE woken

\* Variant: clears one bit of the two.
wifi_clear_connect_events_One == bits' = [bits EXCEPT !["CONNECTED"] = 0]

wifi_clear_connect_events == bits' = NoBits

\* The station gets an address, or its attempt or its connection ends.
DriverConnects ==
  /\ link = "joining" /\ link' = "up" /\ post("STA_GOT_IP")
  /\ UNCHANGED <<mainVars, waitVars, flagVars, apVars, statusVars, taskVars, userVars>>

DriverDrops ==
  /\ link \in {"joining", "up"} /\ link' = "down" /\ post("STA_DISCONNECTED")
  /\ UNCHANGED <<mainVars, waitVars, flagVars, apVars, statusVars, taskVars, userVars>>

(***************************************************************************)
(* wifi_init and what it calls, on the main thread.                        *)
(***************************************************************************)
goto(l) == pc' = l

\* esp_wifi_start posts STA_START; wifi_has_saved_config decides the path.
wifi_init ==
  /\ pc = "boot" /\ goto(IF nvs THEN "load" ELSE "portal")
  /\ post("STA_START")
  /\ UNCHANGED <<after, retry, attempts, sync, waitVars, flagVars, apVars, statusVars,
                 link, taskVars, userVars>>

\* The entry of wifi_try_connect_saved, which reads the credentials again.
wifi_nvs_load ==
  /\ pc = "load"
  /\ IF nvs THEN goto("next") /\ wifi_clear_connect_events
            ELSE goto("portal") /\ UNCHANGED bits
  /\ UNCHANGED <<after, retry, attempts, sync, woken, flagVars, apVars, statusVars,
                 linkVars, taskVars, userVars>>

\* The head of the retry loop.
NextRetry ==
  /\ pc = "next"
  /\ goto(CASE retry >= WIFI_STA_FAIL_BEFORE_AP -> "portal"
            [] retry = 0 -> "setup"
            [] OTHER -> "prepare")
  /\ after' = "setup"
  /\ UNCHANGED <<retry, attempts, sync, waitVars, flagVars, apVars, statusVars,
                 linkVars, taskVars, userVars>>

wifi_prepare_Mark ==
  /\ pc = "prepare" /\ goto("disconnect") /\ s_intentional_disconnect' = TRUE
  /\ UNCHANGED <<after, retry, attempts, sync, waitVars, s_sta_connecting, apVars,
                 statusVars, linkVars, taskVars, userVars>>

\* Variant: waits without having disconnected.
wifi_prepare_Disconnect_None ==
  /\ pc = "disconnect" /\ goto("settle")
  /\ UNCHANGED <<after, retry, attempts, sync, waitVars, flagVars, apVars, statusVars,
                 linkVars, taskVars, userVars>>

wifi_prepare_Disconnect ==
  /\ pc = "disconnect" /\ goto("settle") /\ link' = "down"
  /\ IF link = "down" THEN UNCHANGED queue ELSE post("STA_DISCONNECTED")
  /\ UNCHANGED <<after, retry, attempts, sync, waitVars, flagVars, apVars, statusVars,
                 taskVars, userVars>>

\* Variant: leaves the disconnect intentional for ever.
wifi_prepare_Settle_KeepsFlag ==
  /\ pc = "settle" /\ Quiet /\ goto(after) /\ wifi_clear_connect_events
  /\ UNCHANGED <<after, retry, attempts, sync, woken, flagVars, apVars,
                 statusVars, linkVars, taskVars, userVars>>

wifi_prepare_Settle ==
  /\ pc = "settle" /\ Quiet /\ goto(after)
  /\ s_intentional_disconnect' = FALSE /\ wifi_clear_connect_events
  /\ UNCHANGED <<after, retry, attempts, sync, woken, s_sta_connecting, apVars,
                 statusVars, linkVars, taskVars, userVars>>

\* wifi_ensure_sta_mode or esp_wifi_set_config fails: the loop counts twice.
SetupFails ==
  /\ pc = "setup" /\ goto("next") /\ retry' = retry + 2
  /\ UNCHANGED <<after, attempts, sync, waitVars, flagVars, apVars, statusVars,
                 linkVars, taskVars, userVars>>

esp_wifi_connect ==
  /\ pc = "setup" /\ goto("wait")
  /\ wifi_clear_connect_events /\ woken' = NoBits
  /\ s_sta_connecting' = TRUE /\ attempts' = attempts + 1 /\ link' = "joining"
  /\ UNCHANGED <<after, retry, sync, s_intentional_disconnect, apVars, statusVars,
                 queue, taskVars, userVars>>

ConnectFails ==
  /\ pc = "setup" /\ goto("next") /\ retry' = retry + 2
  /\ wifi_clear_connect_events /\ s_sta_connecting' = FALSE
  /\ attempts' = attempts + 1
  /\ UNCHANGED <<after, sync, woken, s_intentional_disconnect, apVars, statusVars,
                 linkVars, taskVars, userVars>>

\* xEventGroupWaitBits finds a bit set, or blocks.
wifi_wait_Enter ==
  /\ pc = "wait" /\ goto("blocked") /\ woken' = bits
  /\ UNCHANGED <<after, retry, attempts, sync, bits, flagVars, apVars, statusVars,
                 linkVars, taskVars, userVars>>

\* Variant: waits for ever.
wifi_wait_Return_NoTimeout ==
  /\ pc = "blocked" /\ woken # NoBits
  /\ IF woken["CONNECTED"] # 0
       THEN goto("sync") /\ s_sta_connecting' = FALSE
       ELSE goto("failed") /\ UNCHANGED s_sta_connecting
  /\ UNCHANGED <<after, retry, attempts, sync, waitVars, s_intentional_disconnect,
                 apVars, statusVars, linkVars, taskVars, userVars>>

\* It returns: connected, failed, or (no bit set) after WIFI_CONNECT_WAIT_MS.
wifi_wait_Return ==
  /\ pc = "blocked"
  /\ IF woken["CONNECTED"] # 0
       THEN goto("sync") /\ s_sta_connecting' = FALSE /\ UNCHANGED after
       ELSE /\ IF woken["FAIL"] # 0 THEN goto("failed") /\ UNCHANGED after
                                    ELSE goto("prepare") /\ after' = "failed"
            /\ UNCHANGED s_sta_connecting
  /\ UNCHANGED <<retry, attempts, sync, waitVars, s_intentional_disconnect, apVars,
                 statusVars, linkVars, taskVars, userVars>>

AttemptFailed ==
  /\ pc = "failed" /\ goto("next")
  /\ s_sta_connecting' = FALSE /\ retry' = retry + 1
  /\ UNCHANGED <<after, attempts, sync, waitVars, s_intentional_disconnect, apVars,
                 statusVars, linkVars, taskVars, userVars>>

(***************************************************************************)
(* The portal, and the LED after wifi_init.                                *)
(***************************************************************************)
wifi_start_ap ==
  /\ pc = "portal" /\ goto("scan")
  /\ IF s_ap_mode_active THEN UNCHANGED <<s_ap_mode_active, queue>>
                         ELSE s_ap_mode_active' = TRUE /\ post("AP_START")
  /\ UNCHANGED <<after, retry, attempts, sync, waitVars, flagVars, s_http_server,
                 statusVars, link, taskVars, userVars>>

wifi_scan_and_update_list ==
  /\ pc = "scan" /\ Quiet /\ goto("web")
  /\ UNCHANGED <<after, retry, attempts, sync, waitVars, flagVars, apVars, statusVars,
                 linkVars, taskVars, userVars>>

\* httpd_start may fail; the portal is announced all the same.
wifi_start_webserver ==
  /\ pc = "web" /\ goto("sync")
  /\ s_http_server' \in {TRUE, s_http_server} /\ g_wifi_status' = 1
  /\ UNCHANGED <<after, retry, attempts, sync, waitVars, flagVars, s_ap_mode_active,
                 s_sta_has_ip, linkVars, taskVars, userVars>>

\* board_sync_wifi_led reads the state, then writes the LED.
StatusNow == IF s_sta_has_ip THEN 2 ELSE IF s_ap_mode_active THEN 1 ELSE 0

board_sync_Read ==
  /\ pc = "sync" /\ goto("led") /\ sync' = StatusNow
  /\ UNCHANGED <<after, retry, attempts, waitVars, flagVars, apVars, statusVars,
                 linkVars, taskVars, userVars>>

board_sync_Write ==
  /\ pc = "led" /\ goto("idle") /\ g_wifi_status' = sync
  /\ UNCHANGED <<after, retry, attempts, sync, waitVars, flagVars, apVars, s_sta_has_ip,
                 linkVars, taskVars, userVars>>

MainStep ==
  \/ wifi_init \/ wifi_nvs_load \/ NextRetry
  \/ wifi_prepare_Mark \/ wifi_prepare_Disconnect \/ wifi_prepare_Settle
  \/ SetupFails \/ esp_wifi_connect \/ ConnectFails
  \/ wifi_wait_Enter \/ wifi_wait_Return \/ AttemptFailed
  \/ wifi_start_ap \/ wifi_scan_and_update_list \/ wifi_start_webserver
  \/ board_sync_Read \/ board_sync_Write

(***************************************************************************)
(* wifi_event_handler, on the event task.                                  *)
(***************************************************************************)
Received(kind) == epc = "idle" /\ queue # <<>> /\ Head(queue).kind = kind
                  /\ queue' = Tail(queue)

EventApStart ==
  /\ Received("AP_START") /\ s_ap_mode_active' = TRUE
  /\ UNCHANGED <<mainVars, waitVars, flagVars, s_http_server, statusVars, link, taskVars,
                 userVars>>

EventStaStart ==
  /\ Received("STA_START") /\ g_wifi_status' = 1
  /\ UNCHANGED <<mainVars, waitVars, flagVars, apVars, s_sta_has_ip, link, taskVars, userVars>>

EventExpectedDisconnect ==
  /\ Received("STA_DISCONNECTED") /\ s_intentional_disconnect
  /\ UNCHANGED <<mainVars, waitVars, flagVars, apVars, statusVars, link, taskVars, userVars>>

EventDisconnect ==
  /\ Received("STA_DISCONNECTED") /\ ~s_intentional_disconnect
  /\ s_sta_has_ip' = FALSE /\ g_wifi_status' = 0
  /\ bits' = [bits EXCEPT !["CONNECTED"] = 0]
  /\ epc' = "fail" /\ handling' = Head(queue).of
  /\ UNCHANGED <<mainVars, woken, flagVars, apVars, link, userVars>>

\* The flags are read again, after the notification, to wake the waiter.
EventDisconnectWakes ==
  /\ epc = "fail" /\ epc' = "idle" /\ handling' = 0
  /\ IF ~s_ap_mode_active /\ s_sta_connecting THEN setBit("FAIL") ELSE UNCHANGED waitVars
  /\ UNCHANGED <<mainVars, flagVars, apVars, statusVars, linkVars, userVars>>

EventGotIp ==
  /\ Received("STA_GOT_IP") /\ s_sta_has_ip' = TRUE /\ g_wifi_status' = 2
  /\ epc' = "ip" /\ handling' = Head(queue).of
  /\ UNCHANGED <<mainVars, waitVars, flagVars, apVars, link, userVars>>

\* wifi_stop_ap, when the portal is open, and the bit.
EventGotIpWakes ==
  /\ epc = "ip" /\ epc' = "idle" /\ handling' = 0 /\ setBit("CONNECTED")
  /\ s_ap_mode_active' = FALSE
  /\ s_http_server' = (s_http_server /\ ~s_ap_mode_active)
  /\ UNCHANGED <<mainVars, flagVars, statusVars, linkVars, userVars>>

EventStep ==
  \/ EventApStart \/ EventStaStart \/ EventExpectedDisconnect \/ EventDisconnect
  \/ EventDisconnectWakes \/ EventGotIp \/ EventGotIpWakes

(***************************************************************************)
(* The user: POST /config, the BOOT button, and the restart that follows.  *)
(* Writing or erasing NVS may fail; the chip restarts all the same.        *)
(***************************************************************************)
web_config_handler ==
  /\ s_http_server /\ ~restart /\ boots < MaxBoots
  /\ nvs' \in {TRUE, nvs} /\ restart' = TRUE
  /\ UNCHANGED <<mainVars, waitVars, flagVars, apVars, statusVars, linkVars, taskVars, boots>>

wifi_clear_saved_config ==
  /\ ~restart /\ boots < MaxBoots
  /\ nvs' \in {FALSE, nvs} /\ restart' = TRUE
  /\ UNCHANGED <<mainVars, waitVars, flagVars, apVars, statusVars, linkVars, taskVars, boots>>

esp_restart ==
  /\ restart /\ restart' = FALSE /\ boots' = boots + 1
  /\ pc' = "boot" /\ after' = "setup" /\ retry' = 0 /\ attempts' = 0 /\ sync' = 0
  /\ bits' = NoBits /\ woken' = NoBits
  /\ s_sta_has_ip' = FALSE /\ g_wifi_status' = 0
  /\ s_sta_connecting' = FALSE /\ s_intentional_disconnect' = FALSE
  /\ s_ap_mode_active' = FALSE /\ s_http_server' = FALSE
  /\ link' = "down" /\ queue' = <<>> /\ epc' = "idle" /\ handling' = 0
  /\ UNCHANGED nvs

Next == MainStep \/ EventStep \/ DriverConnects \/ DriverDrops
        \/ web_config_handler \/ wifi_clear_saved_config \/ esp_restart

Spec == Init /\ [][Next]_vars

\* The main thread and the event task run when they can, and a requested
\* restart comes.  The driver and the user owe nothing.
FairSpec == Spec /\ WF_vars(MainStep) /\ WF_vars(EventStep) /\ WF_vars(esp_restart)

(***************************************************************************)
(* Properties.                                                             *)
(***************************************************************************)

\* A result that xEventGroupWaitBits returns belongs to the attempt it waits
\* for: neither a late event of the attempt before nor the disconnect that
\* wifi_prepare_sta_disconnect asked for decides the next attempt.
OutcomeIsOwn ==
  /\ pc \in {"wait", "blocked"} => \A b \in Bits : bits[b] \in {0, attempts}
  /\ pc = "blocked" => \A b \in Bits : woken[b] \in {0, attempts}

\* The portal opens only once no connection, and no attempt at one, is left:
\* a GOT_IP after it would close the portal under the user.
NoPortalWhileOnline ==
  pc \in Portal \/ s_ap_mode_active =>
    /\ link = "down" /\ epc # "ip"
    /\ \A i \in DOMAIN queue : queue[i].kind # "STA_GOT_IP"

\* Once an attempt succeeded, wifi_is_connected follows the station: it says
\* connected exactly while the station is, as soon as the event task is idle.
ConnectedIsTrue ==
  pc \in {"sync", "led", "idle"} /\ ~s_ap_mode_active /\ Quiet =>
    (s_sta_has_ip <=> link = "up")

\* Every boot reaches its end: wifi_init returns, online or with the portal
\* open, whatever the driver does or leaves undone.
BootEnds == (pc = "boot") ~> (pc = "idle" \/ restart)

\* Not true of the code, see the README: the LED shows what wifi_get_status
\* would return once everybody is at rest.
LedIsRight == pc = "idle" /\ Quiet => g_wifi_status = StatusNow

\* Not true of the code: at rest, wifi_is_connected returns TRUE only while the
\* station has its address.  A GOT_IP handled between the timeout of an attempt
\* and the disconnect that follows sets the flag; the disconnect, being
\* intentional, does not clear it.
NoStaleIp == pc = "idle" /\ Quiet /\ s_sta_has_ip => link = "up"
=============================================================================
