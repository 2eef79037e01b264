--------------------------- MODULE FirmwareProofs ---------------------------
(***************************************************************************)
(* Proofs about WifiManager, Board and GpioTcpServer: for any number of    *)
(* retries and of restarts, for any lengths of a press and of a poll, and  *)
(* for any buffer, alphabet and pins.                                      *)
(*                                                                         *)
(* Why no event of one connection attempt decides another: an attempt is   *)
(* made only when the station is down and nothing of it is queued or being *)
(* handled (Calm), the driver says a disconnect last (QueueInv), and every *)
(* way out of a wait leads through the handled disconnect or through the   *)
(* pause that outlasts it (PlaceInv).  AttemptInv says what that means for *)
(* the bits.                                                               *)
(*                                                                         *)
(* Why the BOOT button does what it says: while a press is timed the clock *)
(* is one poll behind it at most (ClockInv), so no poll can jump over the  *)
(* window of a long press when polls are no longer than the window.        *)
(*                                                                         *)
(* Why what a GPIO client's lines do is not decided by how TCP cuts them:  *)
(* the buffer begins at a place of the stream before which everything is   *)
(* done (ExecutedInv), and that place is a cut, one that is whole buffers  *)
(* away from the start of its line (BufferInv).  Every step either leaves  *)
(* the place, or moves it behind the next line feed, or behind a full      *)
(* buffer; the lemmas on lines say what that does to the lines before it.  *)
(***************************************************************************)
EXTENDS WifiManager, Board, GpioTcpServer, SequenceTheorems, FiniteSetTheorems,
        WellFoundedInduction, TLAPS

-----------------------------------------------------------------------------
(* WifiManager.                                                            *)

\* No station event is on its way, and none will come until the next attempt.
Calm ==
  /\ link = "down" /\ epc = "idle"
  /\ \A i \in DOMAIN queue : queue[i].kind \in {"STA_START", "AP_START"}

\* The retry counter is behind the attempts by the open one at most; a restart
\* that is asked for is within the bound.
CountInv ==
  /\ pc \in {"boot", "load"} => retry = 0 /\ attempts = 0
  /\ pc \in {"setup", "prepare", "disconnect", "settle", "wait", "blocked", "failed"}
       => retry < WIFI_STA_FAIL_BEFORE_AP
  /\ pc \in {"next", "setup"} \/ (pc \in {"prepare", "disconnect", "settle"} /\ after = "setup")
       => attempts <= retry
  /\ attempts <= retry + 1
  /\ restart => boots < MaxBoots

\* Where the main thread is tells what the station and the events can be.
PlaceInv ==
  /\ pc = "boot" => queue = <<>>
  /\ pc \in {"boot", "load", "next", "setup", "failed"} \cup Portal => Calm
  /\ pc \in {"prepare", "disconnect"} /\ after = "setup" => Calm
  /\ pc = "settle" => link = "down"
  /\ s_intentional_disconnect <=> pc \in {"disconnect", "settle"}
  /\ link = "joining" => pc \in {"wait", "blocked", "prepare", "disconnect"}

\* The access point is up once the portal has been opened, and then the
\* station is down.
PortalInv ==
  /\ pc \in {"scan", "web"} => s_ap_mode_active
  /\ s_ap_mode_active => Calm /\ pc \in {"scan", "web", "sync", "led", "idle"}
  /\ \A i \in DOMAIN queue : queue[i].kind = "AP_START" => s_ap_mode_active

\* A disconnect is the last thing that is heard of an attempt.
QueueInv ==
  /\ \A i \in DOMAIN queue :
       queue[i].kind = "STA_DISCONNECTED" => i = Len(queue) /\ link = "down"
  /\ \A i \in DOMAIN queue : queue[i].kind = "STA_GOT_IP" =>
       \/ link = "up" /\ i = Len(queue)
       \/ link = "down" /\ queue[Len(queue)].kind = "STA_DISCONNECTED"
  /\ epc = "fail" => queue = <<>> /\ link = "down"
  /\ epc = "ip" => link # "joining"

\* An attempt is open, or has succeeded: what is heard, and the bits, are the
\* attempt's own; a failed one is over; and the last event tells the link.
AttemptInv ==
  /\ pc \in {"wait", "blocked"} =>
       /\ \A b \in Bits : bits[b] \in {0, attempts}
       /\ \A i \in DOMAIN queue : queue[i].kind # "STA_START" => queue[i].of = attempts
       /\ epc # "idle" => handling = attempts
       /\ bits["FAIL"] # 0 => Calm
       /\ link = "joining" =>
            /\ bits = NoBits /\ woken = NoBits /\ epc = "idle"
            /\ \A i \in DOMAIN queue : queue[i].kind = "STA_START"
  /\ pc = "wait" => woken = NoBits
  /\ pc = "blocked" =>
       /\ \A b \in Bits : woken[b] \in {0, attempts}
       /\ woken["FAIL"] # 0 => Calm
  /\ pc \in {"wait", "blocked", "sync", "led", "idle"} /\ ~s_ap_mode_active
     /\ link # "joining" =>
       IF queue = <<>> THEN s_sta_has_ip <=> link = "up"
       ELSE queue[Len(queue)].kind = (IF link = "up" THEN "STA_GOT_IP" ELSE "STA_DISCONNECTED")

\* The inductive invariant.
WifiInv == TypeOK /\ CountInv /\ PlaceInv /\ PortalInv /\ QueueInv /\ AttemptInv

\* The number of retries.
LEMMA Retries ==
  /\ WIFI_STA_FAIL_BEFORE_AP \in Nat /\ WIFI_STA_FAIL_BEFORE_AP >= 1 /\ MaxBoots \in Nat
  /\ 0 \in Attempts /\ Attempts \subseteq Nat
  /\ \A n \in Nat : n <= WIFI_STA_FAIL_BEFORE_AP => n \in Attempts
BY RetriesAssumption DEF RetriesAssumption, Attempts

\* What the driver posts goes to the end of the queue, with the attempt it is of.
LEMMA Posted ==
  ASSUME TypeOK, NEW k \in {"AP_START", "STA_START", "STA_DISCONNECTED", "STA_GOT_IP"}, post(k)
  PROVE  /\ queue' \in Seq(Event) /\ queue' # <<>>
         /\ Len(queue) \in Nat /\ Len(queue') = Len(queue) + 1
         /\ DOMAIN queue = 1 .. Len(queue) /\ DOMAIN queue' = 1 .. Len(queue) + 1
         /\ \A i \in DOMAIN queue' : i \in DOMAIN queue \/ i = Len(queue) + 1
         /\ \A i \in DOMAIN queue : queue'[i] = queue[i]
         /\ queue'[Len(queue) + 1].kind = k /\ queue'[Len(queue) + 1].of = attempts
<1> DEFINE e == [kind |-> k, of |-> attempts]
<1>1. e \in Event /\ e.kind = k /\ e.of = attempts
  BY DEF Event, TypeOK
<1>2. queue \in Seq(Event) /\ queue' = Append(queue, e)
  BY DEF TypeOK, post
<1> HIDE DEF e
<1> QED
  BY <1>1, <1>2

\* What the event task receives is the head of the queue; the rest moves up.
LEMMA Taken ==
  ASSUME TypeOK, NEW k, Received(k)
  PROVE  /\ queue # <<>> /\ queue' \in Seq(Event) /\ epc = "idle"
         /\ 1 \in DOMAIN queue /\ queue[1].kind = k
         /\ Head(queue).of = queue[1].of /\ Head(queue).of \in Attempts
         /\ Len(queue) \in Nat /\ Len(queue') = Len(queue) - 1
         /\ DOMAIN queue = 1 .. Len(queue) /\ DOMAIN queue' = 1 .. Len(queue')
         /\ \A i \in DOMAIN queue' : i + 1 \in DOMAIN queue /\ queue'[i] = queue[i + 1]
         /\ queue' = <<>> <=> Len(queue) = 1
<1>1. queue \in Seq(Event) /\ queue # <<>> /\ queue' = Tail(queue) /\ Head(queue).kind = k
      /\ epc = "idle"
  BY DEF TypeOK, Received
<1>2. Head(queue) = queue[1] /\ queue[1] \in Event /\ Len(queue) \in Nat \ {0}
  BY <1>1
<1>3. /\ queue' \in Seq(Event) /\ Len(queue') = Len(queue) - 1
      /\ \A i \in 1 .. Len(queue') : queue'[i] = queue[i + 1]
  BY <1>1, <1>2
<1>4. \A i \in 1 .. Len(queue') : i + 1 \in 1 .. Len(queue)
  BY <1>2, <1>3
<1>5. /\ DOMAIN queue = 1 .. Len(queue) /\ DOMAIN queue' = 1 .. Len(queue')
      /\ queue' = <<>> <=> Len(queue') = 0
  <2>1. ASSUME NEW q \in Seq(Event)
        PROVE  DOMAIN q = 1 .. Len(q) /\ (q = <<>> <=> Len(q) = 0)
    OBVIOUS
  <2> QED
    BY <1>1, <1>3, <2>1
<1>6. queue' = <<>> <=> Len(queue) = 1
  BY <1>2, <1>3, <1>5
<1>7. queue[1].kind = k /\ queue[1].of \in Attempts
  BY <1>1, <1>2 DEF Event
<1> QED
  BY <1>1, <1>2, <1>3, <1>4, <1>5, <1>6, <1>7


\* TypeOK is inductive, given CountInv: an attempt counts only below the limit.
LEMMA TypeOKStep ==
  ASSUME TypeOK, CountInv, PlaceInv, PortalInv, QueueInv, AttemptInv, Next
  PROVE  TypeOK'
<1> USE DEF mainVars, waitVars, flagVars, apVars, statusVars, linkVars, taskVars,
        userVars, goto, Portal, TypeOK
<1>1. CASE wifi_init
  BY <1>1, Retries, Posted DEF wifi_init
<1>2. CASE wifi_nvs_load
  BY <1>2, Retries DEF wifi_nvs_load, wifi_clear_connect_events, Bits, NoBits
<1>3. CASE NextRetry
  BY <1>3, Retries DEF NextRetry
<1>4. CASE wifi_prepare_Mark
  BY <1>4, Retries DEF wifi_prepare_Mark
<1>5. CASE wifi_prepare_Disconnect
  BY <1>5, Retries, Posted DEF wifi_prepare_Disconnect
<1>6. CASE wifi_prepare_Settle
  BY <1>6, Retries DEF wifi_prepare_Settle, wifi_clear_connect_events, Bits, NoBits
<1>7. CASE SetupFails
  BY <1>7, Retries DEF SetupFails, CountInv
<1>8. CASE esp_wifi_connect
  BY <1>8, Retries DEF esp_wifi_connect, wifi_clear_connect_events, CountInv, Bits, NoBits
<1>9. CASE ConnectFails
  <2>1. attempts' \in Attempts /\ retry' \in 0 .. WIFI_STA_FAIL_BEFORE_AP + 1
    <3>1. /\ attempts \in Nat /\ retry \in Nat /\ attempts <= retry
          /\ retry < WIFI_STA_FAIL_BEFORE_AP
      BY <1>9, Retries DEF ConnectFails, CountInv
    <3> QED
      BY <1>9, <3>1, Retries DEF ConnectFails
  <2>2. bits' \in [Bits -> Attempts]
    BY <1>9, Retries DEF ConnectFails, wifi_clear_connect_events, NoBits
  <2> QED
    BY <1>9, <2>1, <2>2 DEF ConnectFails
<1>10. CASE wifi_wait_Enter
  BY <1>10, Retries DEF wifi_wait_Enter
<1>11. CASE wifi_wait_Return
  <2>1. /\ pc' \in {"sync", "failed", "prepare"} /\ after' \in {"setup", "failed"}
        /\ s_sta_connecting' \in BOOLEAN
    BY <1>11 DEF wifi_wait_Return
  <2> QED
    BY <1>11, <2>1 DEF wifi_wait_Return
<1>12. CASE AttemptFailed
  <2>1. retry' \in 0 .. WIFI_STA_FAIL_BEFORE_AP + 1
    BY <1>12, Retries DEF AttemptFailed, CountInv
  <2> QED
    BY <1>12, <2>1 DEF AttemptFailed
<1>13. CASE wifi_start_ap
  <2>1. s_ap_mode_active' \in BOOLEAN /\ queue' \in Seq(Event)
    BY <1>13, Posted DEF wifi_start_ap
  <2> QED
    BY <1>13, <2>1 DEF wifi_start_ap
<1>14. CASE wifi_scan_and_update_list
  BY <1>14, Retries DEF wifi_scan_and_update_list
<1>15. CASE wifi_start_webserver
  <2>1. s_http_server' \in BOOLEAN
    BY <1>15 DEF wifi_start_webserver
  <2> QED
    BY <1>15, <2>1 DEF wifi_start_webserver
<1>16. CASE board_sync_Read
  BY <1>16, Retries DEF board_sync_Read, StatusNow
<1>17. CASE board_sync_Write
  BY <1>17, Retries DEF board_sync_Write
<1>18. CASE EventApStart
  BY <1>18, Retries, Taken DEF EventApStart
<1>19. CASE EventStaStart
  BY <1>19, Retries, Taken DEF EventStaStart
<1>20. CASE EventExpectedDisconnect
  BY <1>20, Retries, Taken DEF EventExpectedDisconnect
<1>21. CASE EventDisconnect
  <2>1. bits' \in [Bits -> Attempts]
    BY <1>21, Retries DEF EventDisconnect
  <2>2. queue' \in Seq(Event) /\ handling' \in Attempts
    BY <1>21, Taken DEF EventDisconnect
  <2>3. /\ s_sta_has_ip' \in BOOLEAN /\ g_wifi_status' \in {0, 1, 2} /\ epc' = "fail"
        /\ UNCHANGED <<mainVars, woken, flagVars, apVars, link, userVars>>
    BY <1>21 DEF EventDisconnect
  <2> QED
    BY <2>1, <2>2, <2>3
<1>22. CASE EventDisconnectWakes
  BY <1>22, Retries DEF EventDisconnectWakes, setBit
<1>23. CASE EventGotIp
  BY <1>23, Retries, Taken DEF EventGotIp
<1>24. CASE EventGotIpWakes
  <2>1. bits' \in [Bits -> Attempts] /\ woken' \in [Bits -> Attempts]
    BY <1>24, Retries DEF EventGotIpWakes, setBit
  <2>2. epc' = "idle" /\ handling' \in Attempts
    BY <1>24, Retries DEF EventGotIpWakes
  <2>3. /\ s_ap_mode_active' \in BOOLEAN /\ s_http_server' \in BOOLEAN
        /\ UNCHANGED <<mainVars, flagVars, statusVars, linkVars, userVars>>
    BY <1>24 DEF EventGotIpWakes
  <2> QED
    BY <2>1, <2>2, <2>3
<1>25. CASE DriverConnects
  BY <1>25, Retries, Posted DEF DriverConnects
<1>26. CASE DriverDrops
  BY <1>26, Retries, Posted DEF DriverDrops
<1>27. CASE web_config_handler
  <2>1. nvs' \in BOOLEAN
    BY <1>27 DEF web_config_handler
  <2> QED
    BY <1>27, <2>1 DEF web_config_handler
<1>28. CASE wifi_clear_saved_config
  <2>1. nvs' \in BOOLEAN
    BY <1>28 DEF wifi_clear_saved_config
  <2> QED
    BY <1>28, <2>1 DEF wifi_clear_saved_config
<1>29. CASE esp_restart
  <2>1. bits' \in [Bits -> Attempts] /\ woken' \in [Bits -> Attempts]
    BY <1>29, Retries DEF esp_restart, NoBits
  <2>2. queue' \in Seq(Event)
    BY <1>29 DEF esp_restart
  <2>4. /\ pc' = "boot" /\ after' \in {"setup", "failed"}
        /\ link' = "down" /\ epc' = "idle"
        /\ s_sta_has_ip' \in BOOLEAN /\ s_sta_connecting' \in BOOLEAN
        /\ s_intentional_disconnect' \in BOOLEAN
        /\ s_ap_mode_active' \in BOOLEAN /\ s_http_server' \in BOOLEAN
        /\ nvs' \in BOOLEAN /\ restart' \in BOOLEAN
    BY <1>29 DEF esp_restart
  <2>5. /\ retry' \in 0 .. WIFI_STA_FAIL_BEFORE_AP + 1
        /\ attempts' \in Attempts /\ handling' \in Attempts
    BY <1>29, Retries DEF esp_restart
  <2>6. g_wifi_status' \in 0 .. 2 /\ sync' \in 0 .. 2
    BY <1>29 DEF esp_restart
  <2>3. boots' \in 0 .. MaxBoots
    BY <1>29, Retries DEF esp_restart, CountInv
  <2> QED
    BY <2>1, <2>2, <2>3, <2>4, <2>5, <2>6
<1> QED
  BY <1>1, <1>2, <1>3, <1>4, <1>5, <1>6, <1>7, <1>8, <1>9, <1>10, <1>11, <1>12, <1>13,
     <1>14, <1>15, <1>16, <1>17, <1>18, <1>19, <1>20, <1>21, <1>22, <1>23, <1>24, <1>25,
     <1>26, <1>27, <1>28, <1>29
     DEF Next, MainStep, EventStep

\* CountInv is inductive: esp_wifi_connect is called at most once between two
\* increments of retry.
LEMMA CountInvStep ==
  ASSUME TypeOK, CountInv, PlaceInv, PortalInv, QueueInv, AttemptInv, Next
  PROVE  CountInv'
<1> USE DEF mainVars, waitVars, flagVars, apVars, statusVars, linkVars, taskVars,
        userVars, goto, Portal, TypeOK, CountInv
<1>1. CASE wifi_init
  BY <1>1, Retries, Posted DEF wifi_init
<1>2. CASE wifi_nvs_load
  BY <1>2, Retries DEF wifi_nvs_load, wifi_clear_connect_events
<1>3. CASE NextRetry
  BY <1>3, Retries DEF NextRetry
<1>4. CASE wifi_prepare_Mark
  BY <1>4, Retries DEF wifi_prepare_Mark
<1>5. CASE wifi_prepare_Disconnect
  BY <1>5, Retries, Posted DEF wifi_prepare_Disconnect
<1>6. CASE wifi_prepare_Settle
  BY <1>6, Retries DEF wifi_prepare_Settle, wifi_clear_connect_events
<1>7. CASE SetupFails
  BY <1>7, Retries DEF SetupFails
<1>8. CASE esp_wifi_connect
  BY <1>8, Retries DEF esp_wifi_connect, wifi_clear_connect_events
<1>9. CASE ConnectFails
  BY <1>9, Retries DEF ConnectFails, wifi_clear_connect_events
<1>10. CASE wifi_wait_Enter
  BY <1>10, Retries DEF wifi_wait_Enter
<1>11. CASE wifi_wait_Return
  BY <1>11, Retries DEF wifi_wait_Return
<1>12. CASE AttemptFailed
  BY <1>12, Retries DEF AttemptFailed
<1>13. CASE wifi_start_ap
  BY <1>13, Retries, Posted DEF wifi_start_ap
<1>14. CASE wifi_scan_and_update_list
  BY <1>14, Retries DEF wifi_scan_and_update_list
<1>15. CASE wifi_start_webserver
  BY <1>15, Retries DEF wifi_start_webserver
<1>16. CASE board_sync_Read
  BY <1>16, Retries DEF board_sync_Read, StatusNow
<1>17. CASE board_sync_Write
  BY <1>17, Retries DEF board_sync_Write
<1>18. CASE EventApStart
  BY <1>18, Retries, Taken DEF EventApStart
<1>19. CASE EventStaStart
  BY <1>19, Retries, Taken DEF EventStaStart
<1>20. CASE EventExpectedDisconnect
  BY <1>20, Retries, Taken DEF EventExpectedDisconnect
<1>21. CASE EventDisconnect
  BY <1>21, Retries, Taken DEF EventDisconnect
<1>22. CASE EventDisconnectWakes
  BY <1>22, Retries DEF EventDisconnectWakes, setBit
<1>23. CASE EventGotIp
  BY <1>23, Retries, Taken DEF EventGotIp
<1>24. CASE EventGotIpWakes
  BY <1>24, Retries DEF EventGotIpWakes, setBit
<1>25. CASE DriverConnects
  BY <1>25, Retries, Posted DEF DriverConnects
<1>26. CASE DriverDrops
  BY <1>26, Retries, Posted DEF DriverDrops
<1>27. CASE web_config_handler
  BY <1>27, Retries DEF web_config_handler
<1>28. CASE wifi_clear_saved_config
  BY <1>28, Retries DEF wifi_clear_saved_config
<1>29. CASE esp_restart
  BY <1>29, Retries DEF esp_restart
<1> QED
  BY <1>1, <1>2, <1>3, <1>4, <1>5, <1>6, <1>7, <1>8, <1>9, <1>10, <1>11, <1>12, <1>13,
     <1>14, <1>15, <1>16, <1>17, <1>18, <1>19, <1>20, <1>21, <1>22, <1>23, <1>24, <1>25,
     <1>26, <1>27, <1>28, <1>29
     DEF Next, MainStep, EventStep

\* PlaceInv is inductive: the pause of wifi_prepare_sta_disconnect, and a failure
\* that was handled, leave nothing of the attempt behind.
LEMMA PlaceInvStep ==
  ASSUME TypeOK, CountInv, PlaceInv, PortalInv, QueueInv, AttemptInv, Next
  PROVE  PlaceInv'
<1> USE DEF mainVars, waitVars, flagVars, apVars, statusVars, linkVars, taskVars,
        userVars, goto, Portal, TypeOK, PlaceInv, Calm
<1>1. CASE wifi_init
  BY <1>1, Retries, Posted DEF wifi_init
<1>2. CASE wifi_nvs_load
  BY <1>2, Retries DEF wifi_nvs_load, wifi_clear_connect_events
<1>3. CASE NextRetry
  BY <1>3, Retries DEF NextRetry
<1>4. CASE wifi_prepare_Mark
  BY <1>4, Retries DEF wifi_prepare_Mark
<1>5. CASE wifi_prepare_Disconnect
  BY <1>5, Retries, Posted DEF wifi_prepare_Disconnect
<1>6. CASE wifi_prepare_Settle
  BY <1>6, Retries DEF wifi_prepare_Settle, wifi_clear_connect_events, Quiet
<1>7. CASE SetupFails
  BY <1>7, Retries DEF SetupFails
<1>8. CASE esp_wifi_connect
  BY <1>8, Retries DEF esp_wifi_connect, wifi_clear_connect_events
<1>9. CASE ConnectFails
  BY <1>9, Retries DEF ConnectFails, wifi_clear_connect_events
<1>10. CASE wifi_wait_Enter
  BY <1>10, Retries DEF wifi_wait_Enter
<1>11. CASE wifi_wait_Return
  <2>1. pc' \in {"sync", "failed", "prepare"} /\ (pc' = "prepare" => after' = "failed")
    BY <1>11 DEF wifi_wait_Return
  <2>2. pc' = "failed" => Calm
    BY <1>11 DEF wifi_wait_Return, AttemptInv
  <2>3. /\ pc = "blocked" /\ (Calm' <=> Calm)
        /\ UNCHANGED <<link, queue, s_intentional_disconnect>>
        /\ ~s_intentional_disconnect
    BY <1>11 DEF wifi_wait_Return
  <2>4. pc' \notin {"boot", "load", "next", "setup", "settle", "disconnect",
                  "wait", "blocked"} \cup Portal
    BY <2>1
  <2>5. pc' = "failed" => Calm'
    BY <2>2, <2>3
  <2>6. link' = "joining" => pc' \in {"wait", "blocked", "prepare", "disconnect"}
    BY <1>11, <2>3 DEF wifi_wait_Return, AttemptInv, NoBits, Bits
  <2>7. pc' \in {"prepare", "disconnect"} /\ after' = "setup" => Calm'
    BY <2>1
  <2> QED
    BY <2>3, <2>4, <2>5, <2>6, <2>7
<1>12. CASE AttemptFailed
  BY <1>12, Retries DEF AttemptFailed
<1>13. CASE wifi_start_ap
  BY <1>13, Retries, Posted DEF wifi_start_ap, PortalInv
<1>14. CASE wifi_scan_and_update_list
  BY <1>14, Retries DEF wifi_scan_and_update_list
<1>15. CASE wifi_start_webserver
  BY <1>15, Retries DEF wifi_start_webserver
<1>16. CASE board_sync_Read
  BY <1>16, Retries DEF board_sync_Read, StatusNow
<1>17. CASE board_sync_Write
  BY <1>17, Retries DEF board_sync_Write
<1>18. CASE EventApStart
  BY <1>18, Retries, Taken DEF EventApStart
<1>19. CASE EventStaStart
  BY <1>19, Retries, Taken DEF EventStaStart
<1>20. CASE EventExpectedDisconnect
  BY <1>20, Retries, Taken DEF EventExpectedDisconnect
<1>21. CASE EventDisconnect
  <2>1. ~Calm /\ link' = link /\ pc' = pc
    BY <1>21, Taken DEF EventDisconnect
  <2> QED
    BY <1>21, <2>1 DEF EventDisconnect
<1>22. CASE EventDisconnectWakes
  BY <1>22, Retries DEF EventDisconnectWakes, setBit
<1>23. CASE EventGotIp
  BY <1>23, Retries, Taken DEF EventGotIp
<1>24. CASE EventGotIpWakes
  BY <1>24, Retries DEF EventGotIpWakes, setBit
<1>25. CASE DriverConnects
  BY <1>25, Retries, Posted DEF DriverConnects
<1>26. CASE DriverDrops
  BY <1>26, Retries, Posted DEF DriverDrops
<1>27. CASE web_config_handler
  BY <1>27, Retries DEF web_config_handler
<1>28. CASE wifi_clear_saved_config
  BY <1>28, Retries DEF wifi_clear_saved_config
<1>29. CASE esp_restart
  BY <1>29, Retries DEF esp_restart
<1> QED
  BY <1>1, <1>2, <1>3, <1>4, <1>5, <1>6, <1>7, <1>8, <1>9, <1>10, <1>11, <1>12, <1>13,
     <1>14, <1>15, <1>16, <1>17, <1>18, <1>19, <1>20, <1>21, <1>22, <1>23, <1>24, <1>25,
     <1>26, <1>27, <1>28, <1>29
     DEF Next, MainStep, EventStep

\* PortalInv is inductive: nothing can reconnect the station once the portal is open.
LEMMA PortalInvStep ==
  ASSUME TypeOK, CountInv, PlaceInv, PortalInv, QueueInv, AttemptInv, Next
  PROVE  PortalInv'
<1> USE DEF mainVars, waitVars, flagVars, apVars, statusVars, linkVars, taskVars,
        userVars, goto, Portal, TypeOK, PortalInv, PlaceInv, Calm
<1>1. CASE wifi_init
  BY <1>1, Retries, Posted DEF wifi_init
<1>2. CASE wifi_nvs_load
  BY <1>2, Retries DEF wifi_nvs_load, wifi_clear_connect_events
<1>3. CASE NextRetry
  BY <1>3, Retries DEF NextRetry
<1>4. CASE wifi_prepare_Mark
  BY <1>4, Retries DEF wifi_prepare_Mark
<1>5. CASE wifi_prepare_Disconnect
  BY <1>5, Retries, Posted DEF wifi_prepare_Disconnect
<1>6. CASE wifi_prepare_Settle
  BY <1>6, Retries DEF wifi_prepare_Settle, wifi_clear_connect_events
<1>7. CASE SetupFails
  BY <1>7, Retries DEF SetupFails
<1>8. CASE esp_wifi_connect
  BY <1>8, Retries DEF esp_wifi_connect, wifi_clear_connect_events
<1>9. CASE ConnectFails
  BY <1>9, Retries DEF ConnectFails, wifi_clear_connect_events
<1>10. CASE wifi_wait_Enter
  BY <1>10, Retries DEF wifi_wait_Enter
<1>11. CASE wifi_wait_Return
  BY <1>11, Retries DEF wifi_wait_Return
<1>12. CASE AttemptFailed
  BY <1>12, Retries DEF AttemptFailed
<1>13. CASE wifi_start_ap
  BY <1>13, Retries, Posted DEF wifi_start_ap
<1>14. CASE wifi_scan_and_update_list
  BY <1>14, Retries DEF wifi_scan_and_update_list
<1>15. CASE wifi_start_webserver
  BY <1>15, Retries DEF wifi_start_webserver
<1>16. CASE board_sync_Read
  BY <1>16, Retries DEF board_sync_Read, StatusNow
<1>17. CASE board_sync_Write
  BY <1>17, Retries DEF board_sync_Write
<1>18. CASE EventApStart
  BY <1>18, Retries, Taken DEF EventApStart
<1>19. CASE EventStaStart
  BY <1>19, Retries, Taken DEF EventStaStart
<1>20. CASE EventExpectedDisconnect
  BY <1>20, Retries, Taken DEF EventExpectedDisconnect
<1>21. CASE EventDisconnect
  BY <1>21, Retries, Taken DEF EventDisconnect
<1>22. CASE EventDisconnectWakes
  BY <1>22, Retries DEF EventDisconnectWakes, setBit
<1>23. CASE EventGotIp
  <2>1. ~s_ap_mode_active
    BY <1>23, Taken DEF EventGotIp
  <2>2. pc \notin {"scan", "web"} /\ \A i \in DOMAIN queue : queue[i].kind # "AP_START"
    BY <2>1
  <2> QED
    BY <1>23, <2>1, <2>2, Taken DEF EventGotIp
<1>24. CASE EventGotIpWakes
  BY <1>24, Retries DEF EventGotIpWakes, setBit
<1>25. CASE DriverConnects
  BY <1>25, Retries, Posted DEF DriverConnects
<1>26. CASE DriverDrops
  BY <1>26, Retries, Posted DEF DriverDrops
<1>27. CASE web_config_handler
  BY <1>27, Retries DEF web_config_handler
<1>28. CASE wifi_clear_saved_config
  BY <1>28, Retries DEF wifi_clear_saved_config
<1>29. CASE esp_restart
  BY <1>29, Retries DEF esp_restart
<1> QED
  BY <1>1, <1>2, <1>3, <1>4, <1>5, <1>6, <1>7, <1>8, <1>9, <1>10, <1>11, <1>12, <1>13,
     <1>14, <1>15, <1>16, <1>17, <1>18, <1>19, <1>20, <1>21, <1>22, <1>23, <1>24, <1>25,
     <1>26, <1>27, <1>28, <1>29
     DEF Next, MainStep, EventStep

\* QueueInv is inductive: the driver posts a disconnect when the station goes down,
\* and nothing after it before the next attempt.
LEMMA QueueInvStep ==
  ASSUME TypeOK, CountInv, PlaceInv, PortalInv, QueueInv, AttemptInv, Next
  PROVE  QueueInv'
<1> USE DEF mainVars, waitVars, flagVars, apVars, statusVars, linkVars, taskVars,
        userVars, goto, Portal, TypeOK, QueueInv, PlaceInv, Calm
<1>1. CASE wifi_init
  BY <1>1, Retries, Posted DEF wifi_init
<1>2. CASE wifi_nvs_load
  BY <1>2, Retries DEF wifi_nvs_load, wifi_clear_connect_events
<1>3. CASE NextRetry
  BY <1>3, Retries DEF NextRetry
<1>4. CASE wifi_prepare_Mark
  BY <1>4, Retries DEF wifi_prepare_Mark
<1>5. CASE wifi_prepare_Disconnect
  BY <1>5, Retries, Posted DEF wifi_prepare_Disconnect
<1>6. CASE wifi_prepare_Settle
  BY <1>6, Retries DEF wifi_prepare_Settle, wifi_clear_connect_events
<1>7. CASE SetupFails
  BY <1>7, Retries DEF SetupFails
<1>8. CASE esp_wifi_connect
  BY <1>8, Retries DEF esp_wifi_connect, wifi_clear_connect_events
<1>9. CASE ConnectFails
  BY <1>9, Retries DEF ConnectFails, wifi_clear_connect_events
<1>10. CASE wifi_wait_Enter
  BY <1>10, Retries DEF wifi_wait_Enter
<1>11. CASE wifi_wait_Return
  BY <1>11, Retries DEF wifi_wait_Return
<1>12. CASE AttemptFailed
  BY <1>12, Retries DEF AttemptFailed
<1>13. CASE wifi_start_ap
  BY <1>13, Retries, Posted DEF wifi_start_ap
<1>14. CASE wifi_scan_and_update_list
  BY <1>14, Retries DEF wifi_scan_and_update_list
<1>15. CASE wifi_start_webserver
  BY <1>15, Retries DEF wifi_start_webserver
<1>16. CASE board_sync_Read
  BY <1>16, Retries DEF board_sync_Read, StatusNow
<1>17. CASE board_sync_Write
  BY <1>17, Retries DEF board_sync_Write
<1>18. CASE EventApStart
  BY <1>18, Retries, Taken DEF EventApStart
<1>19. CASE EventStaStart
  BY <1>19, Retries, Taken DEF EventStaStart
<1>20. CASE EventExpectedDisconnect
  BY <1>20, Retries, Taken DEF EventExpectedDisconnect
<1>21. CASE EventDisconnect
  BY <1>21, Retries, Taken DEF EventDisconnect
<1>22. CASE EventDisconnectWakes
  BY <1>22, Retries DEF EventDisconnectWakes, setBit
<1>23. CASE EventGotIp
  BY <1>23, Retries, Taken DEF EventGotIp
<1>24. CASE EventGotIpWakes
  BY <1>24, Retries DEF EventGotIpWakes, setBit
<1>25. CASE DriverConnects
  BY <1>25, Retries, Posted DEF DriverConnects
<1>26. CASE DriverDrops
  BY <1>26, Retries, Posted DEF DriverDrops
<1>27. CASE web_config_handler
  BY <1>27, Retries DEF web_config_handler
<1>28. CASE wifi_clear_saved_config
  BY <1>28, Retries DEF wifi_clear_saved_config
<1>29. CASE esp_restart
  BY <1>29, Retries DEF esp_restart
<1> QED
  BY <1>1, <1>2, <1>3, <1>4, <1>5, <1>6, <1>7, <1>8, <1>9, <1>10, <1>11, <1>12, <1>13,
     <1>14, <1>15, <1>16, <1>17, <1>18, <1>19, <1>20, <1>21, <1>22, <1>23, <1>24, <1>25,
     <1>26, <1>27, <1>28, <1>29
     DEF Next, MainStep, EventStep

\* AttemptInv is inductive: an attempt starts with clear bits and without an event
\* on the way (PlaceInv), so what comes while it is waited for is its own.
LEMMA AttemptInvStep ==
  ASSUME TypeOK, CountInv, PlaceInv, PortalInv, QueueInv, AttemptInv, Next
  PROVE  AttemptInv'
<1> USE DEF mainVars, waitVars, flagVars, apVars, statusVars, linkVars, taskVars,
        userVars, goto, Portal, TypeOK, AttemptInv, QueueInv, PlaceInv, PortalInv, Calm,
        Bits, NoBits
<1>1. CASE wifi_init
  BY <1>1, Retries, Posted DEF wifi_init
<1>2. CASE wifi_nvs_load
  BY <1>2, Retries DEF wifi_nvs_load, wifi_clear_connect_events
<1>3. CASE NextRetry
  BY <1>3, Retries DEF NextRetry
<1>4. CASE wifi_prepare_Mark
  BY <1>4, Retries DEF wifi_prepare_Mark
<1>5. CASE wifi_prepare_Disconnect
  BY <1>5, Retries, Posted DEF wifi_prepare_Disconnect
<1>6. CASE wifi_prepare_Settle
  BY <1>6, Retries DEF wifi_prepare_Settle, wifi_clear_connect_events
<1>7. CASE SetupFails
  BY <1>7, Retries DEF SetupFails
<1>8. CASE esp_wifi_connect
  BY <1>8, Retries DEF esp_wifi_connect, wifi_clear_connect_events
<1>9. CASE ConnectFails
  BY <1>9, Retries DEF ConnectFails, wifi_clear_connect_events
<1>10. CASE wifi_wait_Enter
  BY <1>10, Retries DEF wifi_wait_Enter
<1>11. CASE wifi_wait_Return
  BY <1>11, Retries DEF wifi_wait_Return
<1>12. CASE AttemptFailed
  BY <1>12, Retries DEF AttemptFailed
<1>13. CASE wifi_start_ap
  BY <1>13, Retries, Posted DEF wifi_start_ap
<1>14. CASE wifi_scan_and_update_list
  BY <1>14, Retries DEF wifi_scan_and_update_list
<1>15. CASE wifi_start_webserver
  BY <1>15, Retries DEF wifi_start_webserver
<1>16. CASE board_sync_Read
  BY <1>16, Retries DEF board_sync_Read, StatusNow
<1>17. CASE board_sync_Write
  BY <1>17, Retries DEF board_sync_Write
<1>18. CASE EventApStart
  BY <1>18, Retries, Taken DEF EventApStart
<1>19. CASE EventStaStart
  BY <1>19, Retries, Taken DEF EventStaStart
<1>20. CASE EventExpectedDisconnect
  BY <1>20, Retries, Taken DEF EventExpectedDisconnect
<1>21. CASE EventDisconnect
  BY <1>21, Retries, Taken DEF EventDisconnect
<1>22. CASE EventDisconnectWakes
  BY <1>22, Retries DEF EventDisconnectWakes, setBit
<1>23. CASE EventGotIp
  BY <1>23, Retries, Taken DEF EventGotIp
<1>24. CASE EventGotIpWakes
  BY <1>24, Retries DEF EventGotIpWakes, setBit
<1>25. CASE DriverConnects
  BY <1>25, Retries, Posted DEF DriverConnects
<1>26. CASE DriverDrops
  BY <1>26, Retries, Posted DEF DriverDrops
<1>27. CASE web_config_handler
  BY <1>27, Retries DEF web_config_handler
<1>28. CASE wifi_clear_saved_config
  BY <1>28, Retries DEF wifi_clear_saved_config
<1>29. CASE esp_restart
  BY <1>29, Retries DEF esp_restart
<1> QED
  BY <1>1, <1>2, <1>3, <1>4, <1>5, <1>6, <1>7, <1>8, <1>9, <1>10, <1>11, <1>12, <1>13,
     <1>14, <1>15, <1>16, <1>17, <1>18, <1>19, <1>20, <1>21, <1>22, <1>23, <1>24, <1>25,
     <1>26, <1>27, <1>28, <1>29
     DEF Next, MainStep, EventStep

\* WifiInv holds always.
LEMMA WifiInvariance == Spec => []WifiInv
<1>1. Init => WifiInv
  <2> SUFFICES ASSUME Init PROVE WifiInv
    OBVIOUS
  <2>1. TypeOK
    <3>1. bits \in [Bits -> Attempts] /\ woken \in [Bits -> Attempts]
      BY Retries DEF Init, NoBits
    <3>2. queue \in Seq(Event)
      BY DEF Init
    <3>3. /\ retry \in 0 .. WIFI_STA_FAIL_BEFORE_AP + 1 /\ boots \in 0 .. MaxBoots
          /\ attempts \in Attempts /\ handling \in Attempts
          /\ g_wifi_status \in 0 .. 2 /\ sync \in 0 .. 2
      BY Retries DEF Init
    <3>4. /\ pc = "boot" /\ after = "setup" /\ link = "down" /\ epc = "idle"
          /\ s_sta_has_ip \in BOOLEAN /\ s_sta_connecting \in BOOLEAN
          /\ s_intentional_disconnect \in BOOLEAN
          /\ s_ap_mode_active \in BOOLEAN /\ s_http_server \in BOOLEAN
          /\ nvs \in BOOLEAN /\ restart \in BOOLEAN
      BY DEF Init
    <3> QED
      BY <3>1, <3>2, <3>3, <3>4 DEF TypeOK
  <2>2. CountInv /\ PlaceInv /\ PortalInv
    BY Retries DEF Init, CountInv, PlaceInv, PortalInv, Calm, Portal
  <2>3. QueueInv /\ AttemptInv
    BY DEF Init, QueueInv, AttemptInv
  <2> QED
    BY <2>1, <2>2, <2>3 DEF WifiInv
<1>2. WifiInv /\ [Next]_vars => WifiInv'
  <2>1. CASE Next
    BY <2>1, TypeOKStep, CountInvStep, PlaceInvStep, PortalInvStep, QueueInvStep,
       AttemptInvStep DEF WifiInv
  <2>2. CASE UNCHANGED vars
    BY <2>2 DEF vars, WifiInv, TypeOK, CountInv, PlaceInv, PortalInv, QueueInv, AttemptInv,
                Calm
  <2> QED
    BY <2>1, <2>2
<1> QED
  BY <1>1, <1>2, PTL DEF Spec

\* OutcomeIsOwn for any number of retries and restarts: what
\* xEventGroupWaitBits returns to wifi_try_connect_saved is the result of the
\* attempt it waits for, never that of the one before.
THEOREM OutcomeCorrect == Spec => []OutcomeIsOwn
<1>1. WifiInv => OutcomeIsOwn
  BY DEF WifiInv, AttemptInv, OutcomeIsOwn
<1> QED
  BY <1>1, WifiInvariance, PTL

\* NoPortalWhileOnline for any number of retries and restarts: when wifi_start_ap
\* opens the portal no GOT_IP is left that would make wifi_stop_ap close it.
THEOREM PortalCorrect == Spec => []NoPortalWhileOnline
<1>1. WifiInv => NoPortalWhileOnline
  BY DEF WifiInv, PlaceInv, PortalInv, Calm, NoPortalWhileOnline
<1> QED
  BY <1>1, WifiInvariance, PTL

\* ConnectedIsTrue for any number of retries and restarts: after an attempt that
\* succeeded, wifi_is_connected says what the station is.
THEOREM ConnectedCorrect == Spec => []ConnectedIsTrue
<1>1. WifiInv => ConnectedIsTrue
  BY DEF WifiInv, PlaceInv, AttemptInv, Quiet, ConnectedIsTrue
<1> QED
  BY <1>1, WifiInvariance, PTL

-----------------------------------------------------------------------------
(* Board.                                                                  *)

\* Types; the task sleeps only where it polls.
BoardTypeOK ==
  /\ button \in {"scan", "held", "timed", "toggled", "retimed", "released", "erased",
                 "restarts"}
  /\ sleeping \in 0 .. MaxLate /\ elapsed \in 0 .. RESET_PRESS /\ held \in 0 .. Forever
  /\ down \in BOOLEAN /\ was_pressed \in BOOLEAN /\ broken \in BOOLEAN /\ g_led_off \in BOOLEAN
  /\ done \in Seq({"click", "toggle", "reset"})
  /\ sleeping > 0 => button \in {"scan", "timed", "retimed"}

\* While the gesture is timed, the clock is behind the press by one poll at
\* most, and ahead of it, after the release, until the task wakes.
ClockInv ==
  button \in {"held", "timed", "toggled", "retimed"} =>
    /\ elapsed < RESET_PRESS => held <= elapsed + MaxLate
    /\ IF down THEN elapsed <= held ELSE elapsed + sleeping <= held + MaxLate

\* What has happened, by where the task is.
GestureInv ==
  /\ button = "scan" /\ down => ~was_pressed /\ done = <<>> /\ held + sleeping <= MaxLate
  /\ button \in {"held", "timed"} =>
       /\ done = <<>>
       /\ held + sleeping < RESET_PRESS + 2 * MaxLate
       /\ MaxLate <= Window => /\ elapsed + sleeping < SHORT_PRESS + MaxLate
                               /\ held + sleeping < SHORT_PRESS + 2 * MaxLate
  /\ button = "held" =>
       elapsed < RESET_PRESS /\ (MaxLate <= Window => elapsed < SHORT_PRESS)
  /\ button \in {"toggled", "retimed"} =>
       /\ done = <<"toggle">> /\ elapsed >= SHORT_PRESS
       /\ held + sleeping < RESET_PRESS + 2 * MaxLate
  /\ button = "toggled" => elapsed < RESET_PRESS
  /\ button = "released" =>
       /\ ~down /\ done \in {<<>>, <<"toggle">>}
       /\ elapsed < SHORT_PRESS => done = <<>> /\ held < SHORT_PRESS + MaxLate

\* What a press has made happen, in full.
DoneInv ==
  /\ done = <<>> => /\ held < RESET_PRESS + 2 * MaxLate
                    /\ MaxLate <= Window => held < SHORT_PRESS + 2 * MaxLate
  /\ done # <<>> => \/ /\ done = <<"click">> /\ held < SHORT_PRESS + MaxLate
                    \/ /\ done = <<"toggle">> /\ held + MaxLate >= SHORT_PRESS
                       /\ held < RESET_PRESS + 2 * MaxLate
                    \/ /\ done = <<"reset">> /\ held + MaxLate >= RESET_PRESS
                       /\ MaxLate > Window
                    \/ /\ done = <<"toggle", "reset">> /\ held + MaxLate >= RESET_PRESS

\* A press that is not broken is as it should be.
PressInv == ~broken => ClockInv /\ GestureInv /\ DoneInv

BoardInv == BoardTypeOK /\ PressInv

\* The limits as numbers.
LEMMA Limits ==
  /\ SHORT_PRESS \in Nat /\ SHORT_PRESS >= 1 /\ RESET_PRESS \in Nat
  /\ Window \in Nat /\ Window >= 1 /\ MaxLate \in Nat /\ MaxLate >= 1
  /\ SHORT_PRESS + Window <= RESET_PRESS
  /\ Forever \in Nat /\ Forever = RESET_PRESS + 2 * MaxLate
BY BoardAssumption DEF BoardAssumption, Forever

\* One more thing a press has made happen.
LEMMA OneMore ==
  ASSUME BoardTypeOK, NEW w \in {"click", "toggle", "reset"}
  PROVE  /\ Append(done, w) \in Seq({"click", "toggle", "reset"})
         /\ done = <<>> => Append(done, w) = <<w>>
         /\ done = <<"toggle">> => Append(done, w) = <<"toggle", w>>
<1>1. done \in Seq({"click", "toggle", "reset"})
  BY DEF BoardTypeOK
<1>2. Append(done, w) \in Seq({"click", "toggle", "reset"})
  BY <1>1
<1> DEFINE S == {"click", "toggle", "reset"}
<1>3. done = <<>> => Append(done, w) = <<w>>
  BY <1>1, <1>2
<1>4. ASSUME done = <<"toggle">> PROVE Append(done, w) = <<"toggle", w>>
  <2>1. /\ Append(done, w) \in Seq(S) /\ Len(Append(done, w)) = 2
        /\ Append(done, w)[1] = "toggle" /\ Append(done, w)[2] = w
    BY <1>1, <1>4
  <2>2. <<"toggle", w>> \in Seq(S) /\ Len(<<"toggle", w>>) = 2
    OBVIOUS
  <2>3. \A i \in 1 .. 2 : Append(done, w)[i] = <<"toggle", w>>[i]
    BY <2>1
  <2> QED
    BY <2>1, <2>2, <2>3, SeqEqual
<1> QED
  BY <1>2, <1>3, <1>4

\* BoardTypeOK is inductive.
LEMMA BoardTypeStep ==
  ASSUME BoardTypeOK, BoardNext
  PROVE  BoardTypeOK'
<1> USE Limits DEF BoardTypeOK, buttonVars, lightVars, pressVars, Awake
<1>1. CASE Tick
  BY <1>1 DEF Tick, Saturate
<1>2. CASE Press
  <2>1. held' \in 0 .. Forever
    BY <1>2 DEF Press
  <2>2. done' \in Seq({"click", "toggle", "reset"})
    <3>1. done' \in {<<>>, done}
      BY <1>2 DEF Press
    <3>2. <<>> \in Seq({"click", "toggle", "reset"})
      OBVIOUS
    <3> QED
      BY <3>1, <3>2
  <2>3. UNCHANGED <<button, sleeping, elapsed, was_pressed, g_led_off>>
        /\ down' \in BOOLEAN /\ broken' \in BOOLEAN
    BY <1>2 DEF Press
  <2> QED
    BY <2>1, <2>2, <2>3
<1>3. CASE Release
  BY <1>3 DEF Release
<1>4. CASE wifi_status_callback
  BY <1>4 DEF wifi_status_callback
<1>5. CASE refresh_led_Off
  BY <1>5 DEF refresh_led_Off
<1>6. CASE refresh_led_Lit
  BY <1>6 DEF refresh_led_Lit
<1>7. CASE button_Scan
  BY <1>7 DEF button_Scan, vTaskDelay
<1>8. CASE button_Held
  BY <1>8 DEF button_Held, vTaskDelay
<1>9. CASE button_Timed
  <2>1. done' \in Seq({"click", "toggle", "reset"})
    BY <1>9, OneMore DEF button_Timed, Erase
  <2>2. /\ button' \in {"held", "toggled", "erased"} /\ g_led_off' \in BOOLEAN
        /\ sleeping = 0 /\ UNCHANGED <<sleeping, elapsed, was_pressed, down, held, broken>>
    BY <1>9 DEF button_Timed, Erase
  <2> QED
    BY <2>1, <2>2
<1>10. CASE button_Toggled
  BY <1>10 DEF button_Toggled, vTaskDelay
<1>11. CASE button_Retimed
  <2>1. done' \in Seq({"click", "toggle", "reset"})
    BY <1>11, OneMore DEF button_Retimed, Erase
  <2>2. /\ button' \in {"held", "toggled", "erased"} /\ g_led_off' \in BOOLEAN
        /\ sleeping = 0 /\ UNCHANGED <<sleeping, elapsed, was_pressed, down, held, broken>>
    BY <1>11 DEF button_Retimed, Erase
  <2> QED
    BY <2>1, <2>2
<1>12. CASE button_Erased
  BY <1>12 DEF button_Erased
<1>13. CASE button_Released
  BY <1>13, OneMore DEF button_Released, vTaskDelay
<1> QED
  BY <1>1, <1>2, <1>3, <1>4, <1>5, <1>6, <1>7, <1>8, <1>9, <1>10, <1>11, <1>12, <1>13
     DEF BoardNext

\* PressInv is inductive.
LEMMA PressStep ==
  ASSUME BoardTypeOK, PressInv, BoardNext
  PROVE  PressInv'
<1> SUFFICES ASSUME ~broken' PROVE ClockInv' /\ GestureInv' /\ DoneInv'
  BY DEF PressInv
<1> USE Limits DEF BoardTypeOK, buttonVars, lightVars, pressVars, Awake,
                   ClockInv, GestureInv, DoneInv
<1>2. CASE Press
  BY <1>2 DEF Press
<1>14. CASE ~Press
  <2>1. ~broken /\ ClockInv /\ GestureInv /\ DoneInv
    BY <1>14
       DEF BoardNext, Tick, Release, wifi_status_callback, refresh_led_Off,
           refresh_led_Lit,
                 button_Scan, button_Held, button_Timed, button_Toggled, button_Retimed,
                 button_Erased, button_Released, Erase, PressInv
  <2>2. CASE Tick
    <3>1. /\ sleeping' = sleeping - 1 /\ sleeping > 0
          /\ UNCHANGED <<button, was_pressed, down, done>>
          /\ button # "scan" =>
               elapsed' = IF elapsed < RESET_PRESS THEN elapsed + 1 ELSE elapsed
          /\ held' = IF down /\ held < Forever THEN held + 1 ELSE held
      BY <2>2 DEF Tick, Saturate
    <3>2. ClockInv'
      BY <2>1, <3>1
    <3>3. GestureInv'
      BY <2>1, <3>1
    <3>4. DoneInv'
      <4>1. CASE held' = held
        BY <2>1, <3>1, <4>1
      <4>2. CASE down /\ held' = held + 1
        <5>1. button \in {"scan", "timed", "retimed"} /\ done' = done
          BY <3>1
        <5>2. button \in {"scan", "timed"} => done' = <<>>
          BY <2>1, <4>2, <5>1
        <5>3. button \in {"scan", "timed"} => held' < RESET_PRESS + 2 * MaxLate
          BY <2>1, <3>1, <4>2
        <5>4. button \in {"scan", "timed"} /\ MaxLate <= Window
                => held' < SHORT_PRESS + 2 * MaxLate
          BY <2>1, <3>1, <4>2
        <5>5. CASE button = "retimed"
          <6>1. done' = <<"toggle">> /\ done' # <<>>
            BY <2>1, <5>1, <5>5
          <6>2. held' + MaxLate >= SHORT_PRESS /\ held' < RESET_PRESS + 2 * MaxLate
            BY <2>1, <3>1, <4>2, <5>5
          <6> QED
            BY <6>1, <6>2
        <5> QED
          BY <5>1, <5>2, <5>3, <5>4, <5>5
      <4> QED
        BY <3>1, <4>1, <4>2
    <3> QED
      BY <3>2, <3>3, <3>4
  <2>3. CASE Release
    BY <2>1, <2>3 DEF Release
  <2>4. CASE wifi_status_callback
    BY <2>1, <2>4 DEF wifi_status_callback
  <2>5. CASE refresh_led_Off
    BY <2>1, <2>5 DEF refresh_led_Off
  <2>6. CASE refresh_led_Lit
    BY <2>1, <2>6 DEF refresh_led_Lit
  <2>7. CASE button_Scan
    BY <2>1, <2>7 DEF button_Scan, vTaskDelay
  <2>8. CASE button_Held
    BY <2>1, <2>8 DEF button_Held, vTaskDelay
  <2>9. CASE button_Timed
    BY <2>1, <2>9, OneMore DEF button_Timed, Erase
  <2>10. CASE button_Toggled
    BY <2>1, <2>10 DEF button_Toggled, vTaskDelay
  <2>11. CASE button_Retimed
    <3>1. CASE Erase
      BY <2>1, <2>11, <3>1, OneMore DEF button_Retimed, Erase
    <3>2. CASE elapsed < RESET_PRESS /\ button' = "toggled" /\ done' = done
      BY <2>1, <2>11, <3>2 DEF button_Retimed
    <3> QED
      BY <2>11, <3>1, <3>2 DEF button_Retimed
  <2>12. CASE button_Erased
    BY <2>1, <2>12 DEF button_Erased
  <2>13. CASE button_Released
    BY <2>1, <2>13, OneMore DEF button_Released, vTaskDelay
  <2> QED
    BY <1>14, <2>2, <2>3, <2>4, <2>5, <2>6, <2>7, <2>8, <2>9, <2>10, <2>11, <2>12, <2>13
       DEF BoardNext
<1> QED
  BY <1>2, <1>14

\* Did, for what DoneInv allows.
LEMMA DidWhat ==
  ASSUME NEW w
  PROVE  /\ done = <<>> => ~Did(w)
         /\ \A x : done = <<x>> => (Did(w) <=> w = x)
         /\ \A x, y : done = <<x, y>> => (Did(w) <=> w \in {x, y})
BY DEF Did

\* BoardInv holds always.
LEMMA BoardInvariance == BoardSpec => []BoardInv
<1>1. BoardInit => BoardInv
  <2> SUFFICES ASSUME BoardInit PROVE BoardInv
    OBVIOUS
  <2>1. BoardTypeOK
    <3>1. done \in Seq({"click", "toggle", "reset"})
      BY DEF BoardInit
    <3>2. held \in 0 .. Forever /\ elapsed \in 0 .. RESET_PRESS /\ sleeping \in 0 .. MaxLate
      BY Limits DEF BoardInit
    <3> QED
      BY <3>1, <3>2 DEF BoardInit, BoardTypeOK
  <2>2. PressInv
    BY Limits DEF BoardInit, PressInv, ClockInv, GestureInv, DoneInv
  <2> QED
    BY <2>1, <2>2 DEF BoardInv
<1>2. BoardInv /\ [BoardNext]_boardVars => BoardInv'
  <2>1. CASE BoardNext
    BY <2>1, BoardTypeStep, PressStep DEF BoardInv
  <2>2. CASE UNCHANGED boardVars
    BY <2>2
       DEF boardVars, buttonVars, lightVars, pressVars, BoardInv, BoardTypeOK, PressInv,
                ClockInv, GestureInv, DoneInv
  <2> QED
    BY <2>1, <2>2
<1> QED
  BY <1>1, <1>2, PTL DEF BoardSpec

\* GesturesAsDocumented for any lengths of a press and of a poll: what one press
\* of the BOOT button makes button_task do.
THEOREM GesturesCorrect == BoardSpec => []GesturesAsDocumented
<1>1. ASSUME BoardInv PROVE GesturesAsDocumented
  <2> SUFFICES ASSUME ~broken PROVE GesturesAsDocumented
    BY DEF GesturesAsDocumented
  <2>1. DoneInv /\ held \in Nat
    BY <1>1, Limits DEF BoardInv, BoardTypeOK, PressInv
  <2>2. done \in {<<>>, <<"click">>, <<"toggle">>, <<"reset">>, <<"toggle", "reset">>}
    BY <2>1 DEF DoneInv
  <2> QED
    BY <2>1, <2>2, DidWhat, Limits DEF DoneInv, GesturesAsDocumented
<1> QED
  BY <1>1, BoardInvariance, PTL

-----------------------------------------------------------------------------
(* GpioTcpServer.                                                          *)

\* The least-number principle, for a set instead of a predicate.
LEMMA LeastElement ==
  ASSUME NEW T \in SUBSET Nat, T # {}
  PROVE  \E x \in T : \A y \in T : x <= y
<1> DEFINE R == OpToRel(<, Nat)
<1>1. IsWellFoundedOn(R, Nat) BY NatLessThanWellFounded
<1>2. T \subseteq Nat OBVIOUS
<1> HIDE DEF R
<1>3. PICK x \in T : \A y \in T : ~ (<<y, x>> \in R) BY <1>1, <1>2, WFMin
<1>4. ASSUME NEW y \in T PROVE x <= y
  <2>1. <<y, x>> \notin R BY <1>3
  <2>2. ~ (y < x) BY <2>1, <1>2 DEF R, OpToRel
  <2>. QED BY <2>2, <1>2
<1>. QED BY <1>4

\* The same from above, for a bounded set.
LEMMA GreatestElement ==
  ASSUME NEW n \in Nat, NEW T \in SUBSET (0 .. n), T # {}
  PROVE  \E x \in T : \A y \in T : x >= y
<1> DEFINE D == {n - y : y \in T}
<1>1. D \in SUBSET Nat /\ D # {}
  <2>1. \A y \in T : y \in 0 .. n /\ n - y \in Nat OBVIOUS
  <2>. QED BY <2>1
<1> HIDE DEF D
<1>2. PICK d \in D : \A e \in D : d <= e BY <1>1, LeastElement
<1>3. PICK x \in T : d = n - x BY DEF D
<1>4. ASSUME NEW y \in T PROVE x >= y
  <2>1. n - y \in D BY DEF D
  <2>2. d <= n - y BY <2>1, <1>2
  <2>. QED BY <2>2, <1>3
<1>. QED BY <1>4

\* strchr finds the first line feed, if there is one.
LEMMA LineFeedIs ==
  ASSUME NEW S, NEW chars \in Seq(S)
  PROVE  /\ LineFeed(chars) \in 0 .. Len(chars)
         /\ LineFeed(chars) = 0 => \A i \in 1 .. Len(chars) : ~IsLineFeed(chars[i])
         /\ LineFeed(chars) # 0 =>
              /\ IsLineFeed(chars[LineFeed(chars)])
              /\ \A i \in 1 .. Len(chars) : i < LineFeed(chars) => ~IsLineFeed(chars[i])
<1> DEFINE I == {i \in 1 .. Len(chars) : IsLineFeed(chars[i])}
<1>1. LineFeed(chars) = IF I # {} THEN CHOOSE x \in I : \A y \in I : x =< y ELSE 0
  BY DEF LineFeed, SelectInSeq, Min
<1>2. I \subseteq 1 .. Len(chars) /\ Len(chars) \in Nat OBVIOUS
<1>3. CASE I = {} BY <1>1, <1>3, <1>2
<1>4. CASE I # {}
  <2>1. I \in SUBSET Nat BY <1>2
  <2>2. \E x \in I : \A y \in I : x <= y BY <2>1, <1>4, LeastElement
  <2>3. LineFeed(chars) \in I /\ \A y \in I : LineFeed(chars) <= y BY <2>2, <1>1, <1>4
  <2>. QED BY <2>3, <1>2
<1>. QED BY <1>3, <1>4

\* Where the line of position e begins.
StartsAt(chars, s, e) ==
  /\ s \in 1 .. e
  /\ s = 1 \/ IsLineFeed(chars[s - 1])
  /\ \A i \in s .. e - 1 : ~IsLineFeed(chars[i])

\* What LineStart computes is such a place.
LEMMA LineStartIs ==
  ASSUME NEW S, NEW chars \in Seq(S), NEW e \in 1 .. Len(chars) + 1
  PROVE  StartsAt(chars, LineStart(chars, e), e)
<1> DEFINE I == {i \in 1 .. e - 1 : IsLineFeed(chars[i])}
<1>1. LineStart(chars, e) = (IF I # {} THEN CHOOSE x \in I : \A y \in I : x >= y ELSE 0) + 1
  BY DEF LineStart, SelectLastInSubSeq, Max
<1>2. I \subseteq 1 .. e - 1 /\ Len(chars) \in Nat OBVIOUS
<1>3. CASE I = {} BY <1>1, <1>3, <1>2 DEF StartsAt
<1>4. CASE I # {}
  <2>1. I \in SUBSET (0 .. e - 1) /\ e - 1 \in Nat BY <1>2
  <2>2. \E x \in I : \A y \in I : x >= y BY <2>1, <1>4, GreatestElement
  <2> DEFINE g == CHOOSE x \in I : \A y \in I : x >= y
  <2>3. LineStart(chars, e) = g + 1 BY <1>1, <1>4
  <2>4. g \in I /\ \A y \in I : g >= y BY <2>2
  <2> HIDE DEF g
  <2>5. g \in 1 .. e - 1 /\ IsLineFeed(chars[g]) BY <2>4
  <2>6. ASSUME NEW i \in g + 1 .. e - 1 PROVE ~IsLineFeed(chars[i])
    <3>1. i \in 1 .. e - 1 /\ ~(g >= i) BY <2>5
    <3>. QED BY <3>1, <2>4
  <2>7. g + 1 \in 1 .. e /\ g + 1 - 1 = g BY <2>5
  <2>. QED BY <2>3, <2>5, <2>6, <2>7 DEF StartsAt
<1>. QED BY <1>3, <1>4

\* A line begins at one place only.
LEMMA StartUnique ==
  ASSUME NEW chars, NEW e \in Nat, NEW s, NEW t, StartsAt(chars, s, e), StartsAt(chars, t, e)
  PROVE  s = t
<1>1. s \in 1 .. e /\ t \in 1 .. e BY DEF StartsAt
<1>2. CASE s < t BY <1>1, <1>2 DEF StartsAt
<1>3. CASE t < s BY <1>1, <1>3 DEF StartsAt
<1>. QED BY <1>1, <1>2, <1>3

\* Adding to a multiple.
LEMMA Multiple ==
  ASSUME NEW R \in Nat \ {0}, NEW a \in Nat, NEW b \in 0 .. R, a % R = 0
  PROVE  (a + b) % R = IF b = R THEN 0 ELSE b
<1>1. PICK q \in Nat : a = q * R OBVIOUS
<1>. QED BY <1>1

\* Two sequences with the same elements are the same.
LEMMA SameChars ==
  ASSUME NEW S, NEW s \in Seq(S), NEW t \in Seq(S), Len(s) = Len(t),
         \A i \in 1 .. Len(s) : s[i] = t[i]
  PROVE  s = t
BY SeqEqual

\* What comes later does not move the start of an earlier line.
LEMMA StartStays ==
  ASSUME NEW S, NEW s \in Seq(S), NEW t \in Seq(S), NEW e \in 1 .. Len(s) + 1
  PROVE  /\ LineStart(s \o t, e) = LineStart(s, e)
         /\ LineBefore(s \o t, e) = LineBefore(s, e)
<1>1. s \o t \in Seq(S) /\ Len(s \o t) = Len(s) + Len(t) /\ Len(s) \in Nat /\ Len(t) \in Nat
  OBVIOUS
<1>2. \A i \in 1 .. Len(s) : (s \o t)[i] = s[i] OBVIOUS
<1>3. StartsAt(s, LineStart(s, e), e) BY LineStartIs
<1>4. e \in 1 .. Len(s \o t) + 1 /\ e \in Nat BY <1>1
<1> DEFINE u == s \o t
<1> HIDE DEF u
<1>5. StartsAt(u, LineStart(u, e), e) BY <1>1, <1>4, LineStartIs DEF u
<1>6. StartsAt(u, LineStart(s, e), e) BY <1>3, <1>2, <1>1 DEF StartsAt, u
<1>7. LineStart(u, e) = LineStart(s, e) BY <1>4, <1>5, <1>6, StartUnique
<1>8. LineBefore(u, e) = LineBefore(s, e)
  <2>1. LineStart(s, e) \in 1 .. e BY <1>3 DEF StartsAt
  <2> DEFINE a == LineStart(s, e)
  <2> HIDE DEF a
  <2>2. SubSeq(u, a, e - 1) = SubSeq(s, a, e - 1)
    <3>1. a \in 1 .. e /\ e \in 1 .. Len(s) + 1 BY <2>1 DEF a
    <3>2. \A i \in 1 .. Len(s) : u[i] = s[i] BY <1>2 DEF u
    <3>3. u \in Seq(S) /\ Len(u) >= Len(s) /\ Len(u) \in Nat BY <1>1 DEF u
    <3>4. SubSeq(u, a, e - 1) \in Seq(S) /\ SubSeq(s, a, e - 1) \in Seq(S)
      BY <3>1, <3>3, <1>1
    <3>5. Len(SubSeq(u, a, e - 1)) = e - a /\ Len(SubSeq(s, a, e - 1)) = e - a
      BY <3>1, <3>3, <1>1
    <3>6. \A i \in 1 .. e - a : SubSeq(u, a, e - 1)[i] = SubSeq(s, a, e - 1)[i]
      BY <3>1, <3>2, <3>3, <1>1
    <3>. QED BY <3>4, <3>5, <3>6, SameChars
  <2>. QED BY <2>2, <1>7 DEF LineBefore, a
<1>. QED BY <1>7, <1>8 DEF u

\* Without a line feed in between two positions are in one line; after one, a
\* line begins.
LEMMA StartAhead ==
  ASSUME NEW S, NEW s \in Seq(S), NEW c \in 0 .. Len(s), NEW e \in c + 1 .. Len(s) + 1,
         \A i \in c + 1 .. e - 1 : ~IsLineFeed(s[i])
  PROVE  /\ LineStart(s, e) = LineStart(s, c + 1)
         /\ e \in 1 .. Len(s) /\ IsLineFeed(s[e]) => LineStart(s, e + 1) = e + 1
<1>1. c + 1 \in 1 .. Len(s) + 1 /\ e \in 1 .. Len(s) + 1 /\ e \in Nat OBVIOUS
<1>2. StartsAt(s, LineStart(s, c + 1), c + 1) BY <1>1, LineStartIs
<1>3. StartsAt(s, LineStart(s, e), e) BY <1>1, LineStartIs
<1> DEFINE a == LineStart(s, c + 1)
           b == LineStart(s, e)
<1> HIDE DEF a, b
<1>4. StartsAt(s, a, e)
  <2>1. a \in 1 .. c + 1 /\ (a = 1 \/ IsLineFeed(s[a - 1])) /\ \A i \in a .. c + 1 - 1 : ~IsLineFeed(s[i])
    BY <1>2 DEF a, StartsAt
  <2>2. a \in 1 .. e BY <2>1
  <2>3. ASSUME NEW i \in a .. e - 1 PROVE ~IsLineFeed(s[i])
    <3>1. i \in a .. c + 1 - 1 \/ i \in c + 1 .. e - 1 BY <2>1
    <3>. QED BY <3>1, <2>1
  <2>. QED BY <2>1, <2>2, <2>3 DEF StartsAt
<1>5. b = a BY <1>3, <1>4, <1>1, StartUnique DEF b
<1>6. ASSUME e \in 1 .. Len(s), IsLineFeed(s[e]) PROVE LineStart(s, e + 1) = e + 1
  <2>1. e + 1 \in 1 .. Len(s) + 1 /\ e + 1 \in Nat BY <1>6
  <2>2. StartsAt(s, LineStart(s, e + 1), e + 1) BY <2>1, LineStartIs
  <2>3. StartsAt(s, e + 1, e + 1) BY <1>6, <2>1 DEF StartsAt
  <2>. QED BY <2>1, <2>2, <2>3, StartUnique
<1>. QED BY <1>5, <1>6 DEF a, b

\* c is a place where the buffer was empty: whole buffers of the line it is in
\* are before it.
IsCut(chars, c) == (c + 1 - LineStart(chars, c + 1)) % Room = 0

\* A buffer has room for a character beside its end.
LEMMA RoomIs == Room \in Nat \ {0}
BY GpioAssumption DEF Room

\* What comes after a cut, up to the end of the buffer.
LEMMA AfterCut ==
  ASSUME NEW S, NEW s \in Seq(S), NEW c \in 0 .. Len(s), IsCut(s, c),
         NEW e \in c + 1 .. Len(s) + 1, e - 1 - c <= Room,
         \A i \in c + 1 .. e - 1 : ~IsLineFeed(s[i])
  PROVE  /\ LineStart(s, e) \in 1 .. c + 1
         /\ (e - LineStart(s, e)) % Room = IF e - 1 - c = Room THEN 0 ELSE e - 1 - c
<1>1. c + 1 \in 1 .. Len(s) + 1 /\ Len(s) \in Nat OBVIOUS
<1>2. StartsAt(s, LineStart(s, c + 1), c + 1) BY <1>1, LineStartIs
<1>3. LineStart(s, e) = LineStart(s, c + 1) BY StartAhead
<1> DEFINE a == LineStart(s, c + 1)
<1>4. a \in 1 .. c + 1 /\ (c + 1 - a) % Room = 0 BY <1>2 DEF StartsAt, IsCut
<1> HIDE DEF a
<1> DEFINE m == c + 1 - a
           k == e - 1 - c
<1>5. m \in Nat /\ k \in 0 .. Room /\ e - a = m + k BY <1>4, <1>1, RoomIs
<1>6. m % Room = 0 BY <1>4
<1> HIDE DEF m, k
<1>7. (m + k) % Room = IF k = Room THEN 0 ELSE k
  <2>1. m \in Nat /\ k \in 0 .. Room BY <1>5
  <2>2. \A R \in Nat \ {0} : \A x \in Nat : \A y \in 0 .. R :
          x % R = 0 => (x + y) % R = IF y = R THEN 0 ELSE y BY Multiple
  <2>3. \A x \in Nat : \A y \in 0 .. Room :
          x % Room = 0 => (x + y) % Room = IF y = Room THEN 0 ELSE y BY <2>2, RoomIs, Zenon
  <2>4. \A y \in 0 .. Room : m % Room = 0 => (m + y) % Room = IF y = Room THEN 0 ELSE y
    BY <2>1, <2>3, Zenon
  <2>5. m % Room = 0 => (m + k) % Room = IF k = Room THEN 0 ELSE k BY <2>1, <2>4, Zenon
  <2>. QED BY <2>5, <1>6
<1>8. LineStart(s, e) = a BY <1>3 DEF a
<1>. QED BY <1>4, <1>5, <1>7, <1>8 DEF k

\* The line that ends there is executed from the cut on.
LEMMA KeptAfterCut ==
  ASSUME NEW S, NEW s \in Seq(S), NEW c \in 0 .. Len(s), IsCut(s, c),
         NEW e \in c + 1 .. Len(s), e - 1 - c < Room,
         \A i \in c + 1 .. e - 1 : ~IsLineFeed(s[i])
  PROVE  Kept(LineBefore(s, e)) = StripReturn(SubSeq(s, c + 1, e - 1))
<1> DEFINE a == LineStart(s, e)
           line == SubSeq(s, a, e - 1)
<1>0. e \in c + 1 .. Len(s) + 1 /\ e - 1 - c <= Room /\ Len(s) \in Nat BY RoomIs
<1>1. a \in 1 .. c + 1 /\ (e - a) % Room = e - 1 - c BY <1>0, AfterCut, RoomIs
<1> HIDE DEF a
<1>2. line \in Seq(S) /\ Len(line) = e - a BY <1>1, <1>0
<1>3. SubSeq(line, Len(line) - (Len(line) % Room) + 1, Len(line)) = SubSeq(s, c + 1, e - 1)
  <2>1. Len(line) - (Len(line) % Room) + 1 = c + 1 - a + 1 BY <1>1, <1>2, <1>0
  <2>2. \A i \in 1 .. e - a : line[i] = s[a + i - 1] BY <1>1, <1>0
  <2> HIDE DEF line
  <2> DEFINE p == SubSeq(line, c + 1 - a + 1, e - a)
             q == SubSeq(s, c + 1, e - 1)
  <2>3. p \in Seq(S) /\ Len(p) = e - 1 - c BY <1>1, <1>2, <1>0
  <2>4. q \in Seq(S) /\ Len(q) = e - 1 - c BY <1>0
  <2>5. \A i \in 1 .. e - 1 - c : p[i] = line[c + 1 - a + i] BY <1>1, <1>2, <1>0
  <2>6. \A i \in 1 .. e - 1 - c : q[i] = s[c + i] BY <1>0
  <2>7. \A i \in 1 .. e - 1 - c : p[i] = q[i]
    <3>1. ASSUME NEW i \in 1 .. e - 1 - c PROVE p[i] = q[i]
      <4>1. c + 1 - a + i \in 1 .. e - a BY <1>1, <1>0
      <4>2. line[c + 1 - a + i] = s[a + (c + 1 - a + i) - 1] BY <4>1, <2>2
      <4>3. a + (c + 1 - a + i) - 1 = c + i BY <1>1, <1>0
      <4> HIDE DEF p, q
      <4>. QED BY <4>2, <4>3, <2>5, <2>6
    <3>. QED BY <3>1
  <2> HIDE DEF p, q
  <2>8. p = q BY <2>3, <2>4, <2>7, SameChars
  <2>. QED BY <2>1, <2>8, <1>2 DEF p, q
<1>. QED BY <1>3 DEF Kept, LineBefore, a

\* Only the last character of the buffer fills it.
LEMMA FillerAfterCut ==
  ASSUME NEW S, NEW s \in Seq(S), NEW c \in 0 .. Len(s), IsCut(s, c),
         NEW p \in c + 1 .. Len(s), p - c <= Room,
         \A i \in c + 1 .. p : ~IsLineFeed(s[i])
  PROVE  /\ p \in Fillers(s) <=> p - c = Room
         /\ p - c = Room => IsCut(s, p)
<1>0. p + 1 \in c + 1 .. Len(s) + 1 /\ p + 1 - 1 - c = p - c /\ Len(s) \in Nat
      /\ p \in c + 1 .. Len(s) + 1 /\ p \in Nat /\ p \in 1 .. Len(s) OBVIOUS
<1>1. \A i \in c + 1 .. p + 1 - 1 : ~IsLineFeed(s[i]) OBVIOUS
<1>2. (p + 1 - LineStart(s, p + 1)) % Room = IF p - c = Room THEN 0 ELSE p - c
  BY <1>0, <1>1, AfterCut
<1>3. LineStart(s, p + 1) = LineStart(s, c + 1) BY <1>0, <1>1, StartAhead
<1>4. LineStart(s, p) = LineStart(s, c + 1) BY <1>0, StartAhead
<1>5. p \in Fillers(s) <=> (p + 1 - LineStart(s, p)) % Room = 0
  BY <1>0 DEF Fillers, LineFeeds
<1>. QED BY <1>2, <1>3, <1>4, <1>5, <1>0 DEF IsCut

\* A line feed is a cut.
LEMMA CutAtLineFeed ==
  ASSUME NEW S, NEW s \in Seq(S), NEW e \in 1 .. Len(s), IsLineFeed(s[e])
  PROVE  IsCut(s, e)
<1>1. 0 \in 0 .. Len(s) /\ e - 1 \in 0 .. Len(s) /\ e \in e - 1 + 1 .. Len(s) + 1 /\ Len(s) \in Nat OBVIOUS
<1>2. LineStart(s, e + 1) = e + 1
  <2>1. \A i \in e - 1 + 1 .. e - 1 : ~IsLineFeed(s[i]) OBVIOUS
  <2>. QED BY <1>1, <2>1, StartAhead
<1>3. e + 1 - LineStart(s, e + 1) = 0 BY <1>2
<1>4. 0 % Room = 0 BY RoomIs
<1>. QED BY <1>3, <1>4 DEF IsCut

\* The positions of T that are not after c.
UpTo(T, c) == {x \in T : x <= c}

\* What comes later changes nothing about what is before.
LEMMA Earlier ==
  ASSUME NEW S, NEW s \in Seq(S), NEW t \in Seq(S), NEW c \in 0 .. Len(s)
  PROVE  /\ IsCut(s \o t, c) <=> IsCut(s, c)
         /\ UpTo(CommandEnds(s \o t), c) = UpTo(CommandEnds(s), c)
         /\ UpTo(Fillers(s \o t), c) = UpTo(Fillers(s), c)
         /\ \A e \in UpTo(CommandEnds(s), c) : LineBefore(s \o t, e) = LineBefore(s, e)
<1> DEFINE u == s \o t
<1>1. u \in Seq(S) /\ Len(u) = Len(s) + Len(t) /\ Len(s) \in Nat /\ Len(t) \in Nat
      /\ \A i \in 1 .. Len(s) : u[i] = s[i]
  OBVIOUS
<1>2. DOMAIN u = 1 .. Len(u) /\ DOMAIN s = 1 .. Len(s) BY <1>1
<1>3. \A e \in 1 .. Len(s) + 1 : LineStart(u, e) = LineStart(s, e) /\ LineBefore(u, e) = LineBefore(s, e)
  BY StartStays
<1> HIDE DEF u
<1>4. IsCut(u, c) <=> IsCut(s, c) BY <1>3 DEF IsCut
<1>5. \A e \in 1 .. c : e \in LineFeeds(u) <=> e \in LineFeeds(s)
  BY <1>1, <1>2 DEF LineFeeds
<1>6. CommandEnds(u) \subseteq 1 .. Len(u) /\ CommandEnds(s) \subseteq 1 .. Len(s)
      /\ Fillers(u) \subseteq 1 .. Len(u) /\ Fillers(s) \subseteq 1 .. Len(s)
  BY <1>2 DEF CommandEnds, Fillers, LineFeeds
<1>7. \A e \in 1 .. c : e \in CommandEnds(u) <=> e \in CommandEnds(s)
  BY <1>3, <1>5 DEF CommandEnds
<1>8. \A e \in 1 .. c : e \in Fillers(u) <=> e \in Fillers(s)
  BY <1>3, <1>5, <1>2, <1>1 DEF Fillers
<1>9. UpTo(CommandEnds(u), c) = UpTo(CommandEnds(s), c)
  BY <1>6, <1>7, <1>1 DEF UpTo
<1>10. UpTo(Fillers(u), c) = UpTo(Fillers(s), c)
  BY <1>6, <1>8, <1>1 DEF UpTo
<1>11. \A e \in UpTo(CommandEnds(s), c) : LineBefore(u, e) = LineBefore(s, e)
  BY <1>6, <1>3 DEF UpTo
<1>. QED BY <1>4, <1>9, <1>10, <1>11 DEF u

\* Commands end, and the buffer fills, at positions of the stream, never both.
LEMMA EndsAndFillers ==
  ASSUME NEW S, NEW s \in Seq(S), NEW c \in Nat
  PROVE  /\ CommandEnds(s) \subseteq 1 .. Len(s) /\ Fillers(s) \subseteq 1 .. Len(s)
         /\ \A e \in CommandEnds(s) : IsLineFeed(s[e]) /\ IsCommand(Kept(LineBefore(s, e)))
         /\ \A e \in Fillers(s) : ~IsLineFeed(s[e])
         /\ IsFiniteSet(UpTo(Fillers(s), c))
<1>1. DOMAIN s = 1 .. Len(s) /\ Len(s) \in Nat OBVIOUS
<1>2. Fillers(s) \subseteq 1 .. Len(s) BY <1>1 DEF Fillers
<1>3. IsFiniteSet(1 .. Len(s)) BY <1>1, FS_Interval
<1>4. UpTo(Fillers(s), c) \in SUBSET (1 .. Len(s)) BY <1>2 DEF UpTo
<1>5. IsFiniteSet(UpTo(Fillers(s), c)) BY <1>3, <1>4, FS_Subset
<1>. QED BY <1>1, <1>2, <1>5 DEF CommandEnds, Fillers, LineFeeds

\* Without a line feed no line ends, and only a full buffer is thrown away.
LEMMA NoLineFeed ==
  ASSUME NEW S, NEW s \in Seq(S), NEW c \in 0 .. Len(s), IsCut(s, c),
         NEW d \in c .. Len(s), d - c <= Room,
         \A i \in c + 1 .. d : ~IsLineFeed(s[i])
  PROVE  /\ UpTo(CommandEnds(s), d) = UpTo(CommandEnds(s), c)
         /\ UpTo(Fillers(s), d) = UpTo(Fillers(s), c) \cup (IF d - c = Room THEN {d} ELSE {})
         /\ d - c = Room => IsCut(s, d)
<1>1. Len(s) \in Nat /\ c \in Nat /\ d \in Nat OBVIOUS
<1>2. CommandEnds(s) \subseteq 1 .. Len(s) /\ Fillers(s) \subseteq 1 .. Len(s)
      /\ \A e \in CommandEnds(s) : IsLineFeed(s[e])
  BY <1>1, EndsAndFillers
<1>3. UpTo(CommandEnds(s), d) = UpTo(CommandEnds(s), c)
  BY <1>1, <1>2 DEF UpTo
<1>4. ASSUME NEW p \in c + 1 .. d
  PROVE (p \in Fillers(s) <=> p - c = Room) /\ (p - c = Room => IsCut(s, p))
  <2>1. p \in c + 1 .. Len(s) /\ p - c <= Room /\ \A i \in c + 1 .. p : ~IsLineFeed(s[i])
    BY <1>1, RoomIs
  <2>. QED BY <2>1, FillerAfterCut
<1>5. \A p \in c + 1 .. d : p - c = Room => p = d BY <1>1, RoomIs
<1>6. d - c = Room => d \in c + 1 .. d BY <1>1, RoomIs
<1>7. UpTo(Fillers(s), d) = UpTo(Fillers(s), c) \cup (IF d - c = Room THEN {d} ELSE {})
  <2>1. ASSUME NEW p \in UpTo(Fillers(s), d)
    PROVE p \in UpTo(Fillers(s), c) \cup (IF d - c = Room THEN {d} ELSE {})
    <3>1. p \in Fillers(s) /\ p \in 1 .. d BY <1>1, <1>2 DEF UpTo
    <3>2. CASE p <= c BY <3>1, <3>2 DEF UpTo
    <3>3. CASE p > c
      <4>1. p \in c + 1 .. d BY <3>1, <3>3, <1>1
      <4>2. p - c = Room BY <4>1, <3>1, <1>4
      <4>3. p = d BY <4>1, <4>2, <1>5
      <4>. QED BY <4>2, <4>3
    <3>. QED BY <3>1, <3>2, <3>3, <1>1
  <2>2. ASSUME NEW p \in UpTo(Fillers(s), c) PROVE p \in UpTo(Fillers(s), d)
    <3>1. p \in Fillers(s) /\ p \in 1 .. Len(s) /\ p <= c BY <1>2 DEF UpTo
    <3>. QED BY <3>1, <1>1 DEF UpTo
  <2>3. d - c = Room => d \in UpTo(Fillers(s), d) BY <1>4, <1>6, <1>1 DEF UpTo
  <2>. QED BY <2>1, <2>2, <2>3
<1>8. d - c = Room => IsCut(s, d) BY <1>4, <1>6
<1>. QED BY <1>3, <1>7, <1>8

\* At the next line feed one line ends, and it is what came since the cut.
LEMMA AtLineFeed ==
  ASSUME NEW S, NEW s \in Seq(S), NEW c \in 0 .. Len(s), IsCut(s, c),
         NEW e \in c + 1 .. Len(s), e - c <= Room, IsLineFeed(s[e]),
         \A i \in c + 1 .. e - 1 : ~IsLineFeed(s[i])
  PROVE  /\ Kept(LineBefore(s, e)) = StripReturn(SubSeq(s, c + 1, e - 1))
         /\ UpTo(CommandEnds(s), e) =
              UpTo(CommandEnds(s), c)
                \cup (IF IsCommand(StripReturn(SubSeq(s, c + 1, e - 1))) THEN {e} ELSE {})
         /\ UpTo(Fillers(s), e) = UpTo(Fillers(s), c)
         /\ IsCut(s, e)
<1> DEFINE line == StripReturn(SubSeq(s, c + 1, e - 1))
<1>1. Len(s) \in Nat /\ c \in Nat /\ e \in Nat /\ e \in 1 .. Len(s) OBVIOUS
<1>2. e - 1 \in c .. Len(s) /\ e - 1 - c <= Room /\ e - 1 - c # Room /\ e - 1 - c < Room
  BY <1>1, RoomIs
<1>3. Kept(LineBefore(s, e)) = line BY <1>2, KeptAfterCut
<1> HIDE DEF line
<1>4. UpTo(CommandEnds(s), e - 1) = UpTo(CommandEnds(s), c) /\ UpTo(Fillers(s), e - 1) = UpTo(Fillers(s), c)
  <2> DEFINE d == e - 1
  <2>1. d \in c .. Len(s) /\ d - c <= Room /\ d - c # Room BY <1>2
  <2>2. \A i \in c + 1 .. d : ~IsLineFeed(s[i]) OBVIOUS
  <2> HIDE DEF d
  <2>3. /\ UpTo(CommandEnds(s), d) = UpTo(CommandEnds(s), c)
        /\ UpTo(Fillers(s), d) = UpTo(Fillers(s), c) \cup (IF d - c = Room THEN {d} ELSE {})
    BY <2>1, <2>2, NoLineFeed
  <2>. QED BY <2>1, <2>3 DEF d
<1>5. e \in CommandEnds(s) <=> IsCommand(line)
  <2>1. DOMAIN s = 1 .. Len(s) OBVIOUS
  <2>2. e \in LineFeeds(s) BY <1>1, <2>1 DEF LineFeeds
  <2>. QED BY <2>2, <1>3 DEF CommandEnds
<1>6. e \notin Fillers(s) BY <1>1, EndsAndFillers
<1>7. CommandEnds(s) \subseteq 1 .. Len(s) /\ Fillers(s) \subseteq 1 .. Len(s)
  BY <1>1, EndsAndFillers
<1>8. \A x \in 1 .. Len(s) : x <= e <=> (x <= e - 1 \/ x = e) BY <1>1
<1>9. UpTo(Fillers(s), e) = UpTo(Fillers(s), e - 1) BY <1>6, <1>7, <1>8 DEF UpTo
<1>10. UpTo(CommandEnds(s), e) = UpTo(CommandEnds(s), e - 1) \cup (IF IsCommand(line) THEN {e} ELSE {})
  BY <1>5, <1>7, <1>8, <1>1 DEF UpTo
<1>11. IsCut(s, e) BY <1>1, CutAtLineFeed
<1>. QED BY <1>3, <1>4, <1>9, <1>10, <1>11 DEF line

\* The texts the server sends.
Answers == {"OK gpio-tcp ready", "ERR line too long", "ERR parse", "PONG", "OK", "ERR denied",
            "ERR usage", "ERR led", "ERR led unavailable", "ERR unknown"}

\* The types of the server's variables and of its histories.
GpioTypeOK ==
  /\ task \in {"wait", "open", "accept", "select", "client", "lines"}
  /\ buf \in Seq(Alphabet) /\ received \in Seq(Alphabet)
  /\ commands \in Seq([line : Seq(Alphabet), end : Nat])
  /\ answers \in Seq(Answers)

\* The buffer holds the end of what was received, from a cut on; in recv it has
\* room and no complete line.
BufferInv ==
  /\ Len(buf) <= Room /\ Len(buf) <= Len(received)
  /\ \A i \in 1 .. Len(buf) : buf[i] = received[Handled + i]
  /\ IsCut(received, Handled)
  /\ task = "client" => Len(buf) < Room /\ \A i \in 1 .. Len(buf) : ~IsLineFeed(buf[i])
  /\ task \notin {"client", "lines"} => received = <<>> /\ commands = <<>>

\* Up to the cut everything is done.
ExecutedInv ==
  /\ {commands[i].end : i \in DOMAIN commands} = UpTo(CommandEnds(received), Handled)
  /\ \A i, j \in DOMAIN commands : i < j => commands[i].end < commands[j].end
  /\ \A i \in DOMAIN commands : commands[i].line = Kept(LineBefore(received, commands[i].end))
  /\ task \in {"client", "lines"} =>
       Len(answers) = 1 + Len(commands) + Cardinality(UpTo(Fillers(received), Handled))

\* The inductive invariant.
GpioInv == GpioTypeOK /\ BufferInv /\ ExecutedInv

\* What was received is what was handled, and then the buffer.
LEMMA HandledIs ==
  ASSUME GpioTypeOK, BufferInv
  PROVE  /\ Len(received) \in Nat /\ Len(buf) \in Nat /\ Len(answers) \in Nat /\ Len(commands) \in Nat
         /\ Handled \in 0 .. Len(received) /\ Len(received) = Handled + Len(buf)
         /\ DOMAIN commands = 1 .. Len(commands)
         /\ Handled \in Nat
BY DEF GpioTypeOK, BufferInv, Handled

\* In an empty stream there are no lines.
LEMMA NoClient ==
  /\ LineFeeds(<<>>) = {} /\ CommandEnds(<<>>) = {} /\ Fillers(<<>>) = {} /\ IsCut(<<>>, 0)
<1>1. <<>> \in Seq(Alphabet) /\ Len(<<>>) = 0 /\ DOMAIN <<>> = {} /\ 1 \in 1 .. Len(<<>>) + 1 OBVIOUS
<1>2. StartsAt(<<>>, LineStart(<<>>, 1), 1) BY <1>1, LineStartIs
<1>3. LineStart(<<>>, 1) = 1 BY <1>2 DEF StartsAt
<1>4. 0 + 1 - LineStart(<<>>, 0 + 1) = 0 BY <1>3
<1>5. 0 % Room = 0 BY RoomIs
<1>6. IsCut(<<>>, 0) BY <1>4, <1>5 DEF IsCut
<1>. QED BY <1>1, <1>6 DEF LineFeeds, CommandEnds, Fillers

\* No client is there: before the first one, and from the end of one to the next.
NobodyIsThere ==
  /\ task \in {"wait", "open", "accept", "select"}
  /\ buf = <<>> /\ received = <<>> /\ commands = <<>> /\ answers = <<>>

\* An idle server satisfies the invariant.
LEMMA Idle == NobodyIsThere => GpioInv
<1> SUFFICES ASSUME NobodyIsThere PROVE GpioInv OBVIOUS
<1>0. /\ task \in {"wait", "open", "accept", "select"} /\ task \notin {"client", "lines"}
      /\ buf = <<>> /\ received = <<>> /\ commands = <<>> /\ answers = <<>>
  BY DEF NobodyIsThere
<1>1. Len(<<>>) = 0 /\ DOMAIN <<>> = {} /\ <<>> \in Seq(Alphabet) /\ <<>> \in Seq(Answers)
      /\ <<>> \in Seq([line : Seq(Alphabet), end : Nat]) OBVIOUS
<1>2. Handled = 0 BY <1>0, <1>1 DEF Handled
<1>3. GpioTypeOK BY <1>0, <1>1 DEF GpioTypeOK
<1>4. BufferInv BY <1>0, <1>1, <1>2, NoClient, RoomIs DEF BufferInv
<1>5. UpTo(CommandEnds(received), Handled) = {} BY <1>0, NoClient DEF UpTo
<1>6. ExecutedInv BY <1>0, <1>1, <1>5 DEF ExecutedInv
<1>. QED BY <1>3, <1>4, <1>6 DEF GpioInv

\* The steps of the network and of the accept loop leave the stream alone.
LEMMA SameStream ==
  ASSUME GpioInv, task' \in {"wait", "open", "accept", "select", "client", "lines"},
         UNCHANGED clientVars,
         task' = task \/ (task \notin {"client", "lines"} /\ task' \notin {"client", "lines"})
  PROVE  GpioInv'
<1>1. GpioTypeOK' BY DEF GpioInv, GpioTypeOK, clientVars
<1>2. BufferInv' BY DEF GpioInv, BufferInv, clientVars, Handled
<1>3. ExecutedInv' BY DEF GpioInv, ExecutedInv, clientVars, Handled
<1>. QED BY <1>1, <1>2, <1>3 DEF GpioInv

\* The server starts idle.
LEMMA InitGpio == GpioInit => GpioInv
BY Idle DEF GpioInit, NobodyIsThere

\* recv puts characters behind those in the buffer; the cut stays where it is.
LEMMA RecvStep ==
  ASSUME GpioInv, NEW chunk \in Seq(Alphabet), handle_client_Recv(chunk)
  PROVE  GpioInv'
<1>0. GpioTypeOK /\ BufferInv /\ ExecutedInv BY DEF GpioInv
<1>1. /\ task = "client" /\ task' = "lines" /\ Len(chunk) <= Room - Len(buf)
      /\ buf' = buf \o chunk /\ received' = received \o chunk
      /\ commands' = commands /\ answers' = answers
  BY DEF handle_client_Recv
<1>2. buf \in Seq(Alphabet) /\ received \in Seq(Alphabet) BY <1>0 DEF GpioTypeOK
<1>3. Len(received) \in Nat /\ Len(buf) \in Nat /\ Handled \in 0 .. Len(received)
      /\ Len(received) = Handled + Len(buf) /\ Handled \in Nat
  BY <1>0, HandledIs
<1>4. buf' \in Seq(Alphabet) /\ received' \in Seq(Alphabet) /\ Len(chunk) \in Nat
      /\ Len(buf') = Len(buf) + Len(chunk) /\ Len(received') = Len(received) + Len(chunk)
  BY <1>1, <1>2
<1>5. Handled' = Handled BY <1>3, <1>4 DEF Handled
<1>6. GpioTypeOK' BY <1>0, <1>1, <1>4 DEF GpioTypeOK
<1>7. /\ IsCut(received', Handled)
      /\ UpTo(CommandEnds(received'), Handled) = UpTo(CommandEnds(received), Handled)
      /\ UpTo(Fillers(received'), Handled) = UpTo(Fillers(received), Handled)
      /\ \A e \in UpTo(CommandEnds(received), Handled) : LineBefore(received', e) = LineBefore(received, e)
  <2>1. IsCut(received, Handled) BY <1>0 DEF BufferInv
  <2>. QED BY <1>1, <1>2, <1>3, <2>1, Earlier
<1>8. BufferInv'
  <2>1. \A i \in 1 .. Len(buf') : buf'[i] = received'[Handled + i]
    <3>1. ASSUME NEW i \in 1 .. Len(buf') PROVE buf'[i] = received'[Handled + i]
      <4>1. CASE i <= Len(buf)
        <5>1. i \in 1 .. Len(buf) /\ Handled + i \in 1 .. Len(received) BY <4>1, <1>3, <1>4
        <5>2. buf'[i] = buf[i] /\ received'[Handled + i] = received[Handled + i]
          BY <5>1, <1>1, <1>2
        <5>. QED BY <5>1, <5>2, <1>0 DEF BufferInv
      <4>2. CASE i > Len(buf)
        <5> DEFINE j == i - Len(buf)
        <5>1. j \in 1 .. Len(chunk) /\ i = Len(buf) + j /\ Handled + i = Len(received) + j
          BY <4>2, <1>3, <1>4
        <5> HIDE DEF j
        <5>2. \A s \in Seq(Alphabet) : (s \o chunk)[Len(s) + j] = chunk[j]
          BY <5>1
        <5>3. (buf \o chunk)[Len(buf) + j] = chunk[j] /\ (received \o chunk)[Len(received) + j] = chunk[j]
          BY <5>2, <1>2, Zenon
        <5>. QED BY <5>1, <5>3, <1>1
      <4>. QED BY <4>1, <4>2, <1>3, <1>4
    <3>. QED BY <3>1
  <2>2. Len(buf') <= Room /\ Len(buf') <= Len(received') BY <1>1, <1>3, <1>4, RoomIs
  <2>. QED BY <1>1, <1>5, <1>7, <2>1, <2>2 DEF BufferInv
<1>9. ExecutedInv'
  <2>1. {commands[i].end : i \in DOMAIN commands} = UpTo(CommandEnds(received'), Handled)
    BY <1>0, <1>7 DEF ExecutedInv
  <2>2. \A i \in DOMAIN commands : commands[i].end \in UpTo(CommandEnds(received), Handled)
    BY <1>0 DEF ExecutedInv
  <2>3. \A i \in DOMAIN commands : commands[i].line = Kept(LineBefore(received', commands[i].end))
    BY <1>0, <1>7, <2>2 DEF ExecutedInv
  <2>4. Len(answers) = 1 + Len(commands) + Cardinality(UpTo(Fillers(received'), Handled))
    BY <1>0, <1>1, <1>7 DEF ExecutedInv
  <2>5. \A i, j \in DOMAIN commands : i < j => commands[i].end < commands[j].end
    BY <1>0 DEF ExecutedInv
  <2>. QED BY <1>1, <1>5, <2>1, <2>3, <2>4, <2>5 DEF ExecutedInv
<1>. QED BY <1>6, <1>8, <1>9 DEF GpioInv

\* A line without its CR is a line.
LEMMA StripReturnType ==
  ASSUME NEW line \in Seq(Alphabet)
  PROVE  StripReturn(line) \in Seq(Alphabet)
<1>1. CASE line # <<>> /\ Last(line).is = "CR"
  <2>1. Front(line) \in Seq(Alphabet) BY <1>1 DEF Front
  <2>. QED BY <1>1, <2>1 DEF StripReturn
<1>2. CASE ~(line # <<>> /\ Last(line).is = "CR") BY <1>2 DEF StripReturn
<1>. QED BY <1>1, <1>2

\* Every command is answered by a text.
LEMMA AnswerType ==
  ASSUME NEW c, NEW s, DOMAIN s = {"mode", "output", "rgb", "answer"}
  PROVE  handle_command(c, s).answer \in Answers
<1>0. "answer" \in DOMAIN s /\ "mode" \in DOMAIN s OBVIOUS
<1>a. \A x : [s EXCEPT !.answer = x].answer = x BY <1>0
<1>b. \A x, y : [s EXCEPT !.answer = x, !.mode = y].answer = x BY <1>0
<1>c. \A x, y, z : [s EXCEPT !.answer = x, !.mode = y, !.output[c.pin] = z].answer = x BY <1>0
<1>d. \A x, y : [s EXCEPT !.answer = x, !.rgb = y].answer = x BY <1>0
<1>2. CASE c.is = "nothing"
  <2>1. handle_command(c, s) = [s EXCEPT !.answer = "ERR parse"] BY <1>2 DEF handle_command
  <2>2. handle_command(c, s).answer = "ERR parse" BY <2>1, <1>a
  <2>. QED BY <2>2 DEF Answers
<1>4. CASE c.is = "GET"
  <2>1. handle_command(c, s) = IF pin_board_input_allowed(c.pin)
           THEN [s EXCEPT !.answer = "OK", !.mode = ensure_input_pin(c.pin, s.mode)]
           ELSE [s EXCEPT !.answer = "ERR denied"] BY <1>4 DEF handle_command
  <2>2. CASE pin_board_input_allowed(c.pin)
    <3>1. handle_command(c, s).answer = "OK" BY <2>1, <2>2, <1>b
    <3>. QED BY <3>1 DEF Answers
  <2>3. CASE ~pin_board_input_allowed(c.pin)
    <3>1. handle_command(c, s).answer = "ERR denied" BY <2>1, <2>3, <1>a
    <3>. QED BY <3>1 DEF Answers
  <2>. QED BY <2>2, <2>3
<1>3. CASE c.is = "PING"
  <2>1. handle_command(c, s) = [s EXCEPT !.answer = "PONG"] BY <1>3 DEF handle_command
  <2>2. handle_command(c, s).answer = "PONG" BY <2>1, <1>a
  <2>. QED BY <2>2 DEF Answers
<1>5. CASE c.is = "SET"
  <2>1. handle_command(c, s) = IF c.level \notin {0, 1} THEN [s EXCEPT !.answer = "ERR usage"]
         ELSE IF pin_board_output_allowed(c.pin)
           THEN [s EXCEPT !.answer = "OK", !.mode = ensure_output_pin(c.pin, s.mode),
                          !.output[c.pin] = c.level]
           ELSE [s EXCEPT !.answer = "ERR denied"]
    BY <1>5 DEF handle_command
  <2>2. CASE c.level \notin {0, 1}
    <3>1. handle_command(c, s).answer = "ERR usage" BY <2>1, <2>2, <1>a
    <3>. QED BY <3>1 DEF Answers
  <2>3. CASE c.level \in {0, 1} /\ pin_board_output_allowed(c.pin)
    <3>1. handle_command(c, s).answer = "OK" BY <2>1, <2>3, <1>c
    <3>. QED BY <3>1 DEF Answers
  <2>4. CASE c.level \in {0, 1} /\ ~pin_board_output_allowed(c.pin)
    <3>1. handle_command(c, s).answer = "ERR denied" BY <2>1, <2>4, <1>a
    <3>. QED BY <3>1 DEF Answers
  <2>. QED BY <2>2, <2>3, <2>4
<1>6. CASE c.is = "LED"
  <2> DEFINE a == CASE Led = "works" -> "OK" [] Led = "fails" -> "ERR led" [] OTHER -> "ERR led unavailable"
  <2>1. handle_command(c, s) = [s EXCEPT !.answer = a, !.rgb = s.rgb \/ Led = "works"]
    BY <1>6 DEF handle_command
  <2>2. a \in Answers BY DEF Answers
  <2> HIDE DEF a
  <2>3. handle_command(c, s).answer = a BY <2>1, <1>d
  <2>. QED BY <2>2, <2>3
<1>7. CASE c.is \notin {"nothing", "PING", "GET", "SET", "LED"}
  <2>1. handle_command(c, s) = [s EXCEPT !.answer = "ERR unknown"] BY <1>7 DEF handle_command
  <2>2. handle_command(c, s).answer = "ERR unknown" BY <2>1, <1>a
  <2>. QED BY <2>2 DEF Answers
<1>. QED BY <1>2, <1>3, <1>4, <1>5, <1>6, <1>7

\* The buffer seen from the cut.
LEMMA BufferFrom ==
  ASSUME GpioTypeOK, BufferInv, NEW n \in 0 .. Len(buf)
  PROVE  SubSeq(buf, 1, n) = SubSeq(received, Handled + 1, Handled + n)
<1>1. Len(received) \in Nat /\ Len(buf) \in Nat /\ Len(received) = Handled + Len(buf) /\ Handled \in Nat
  BY HandledIs
<1>2. buf \in Seq(Alphabet) /\ received \in Seq(Alphabet) BY DEF GpioTypeOK
<1>3. \A i \in 1 .. Len(buf) : buf[i] = received[Handled + i] BY DEF BufferInv
<1> DEFINE h == Handled
           p == SubSeq(buf, 1, n)
           q == SubSeq(received, h + 1, h + n)
<1>4. h \in Nat /\ Len(received) = h + Len(buf) /\ \A i \in 1 .. Len(buf) : buf[i] = received[h + i]
  BY <1>1, <1>3
<1> HIDE DEF h
<1>5. p \in Seq(Alphabet) /\ Len(p) = n /\ \A i \in 1 .. n : p[i] = buf[i] BY <1>1, <1>2
<1>6. q \in Seq(Alphabet) /\ Len(q) = n /\ \A i \in 1 .. n : q[i] = received[h + i]
  BY <1>1, <1>2, <1>4
<1>7. \A i \in 1 .. n : p[i] = q[i] BY <1>4, <1>5, <1>6, <1>1
<1> HIDE DEF p, q
<1>8. p = q BY <1>5, <1>6, <1>7, SameChars
<1>. QED BY <1>8 DEF p, q, h

\* Commands are in the order of their ends, which are up to c.
Ordered(s) == \A i, j \in DOMAIN s : i < j => s[i].end < s[j].end
Bounded(s, c) == \A i \in DOMAIN s : s[i].end <= c
\* new is old and one more, r.
Extends(new, old, r) ==
  /\ Len(new) = Len(old) + 1
  /\ \A i \in DOMAIN old : i \in DOMAIN new /\ new[i] = old[i]
  /\ \E j \in DOMAIN new : new[j] = r
  /\ \A i \in DOMAIN new : new[i] = r \/ (i \in DOMAIN old /\ new[i] = old[i])
CommandsSeq == Seq([line : Seq(Alphabet), end : Nat])

\* One more command, at the position the line feed has.
LEMMA Executed ==
  ASSUME NEW old \in CommandsSeq, NEW r \in [line : Seq(Alphabet), end : Nat], NEW c \in Nat,
         c < r.end, Bounded(old, c), Ordered(old)
  PROVE  /\ Append(old, r) \in CommandsSeq
         /\ Extends(Append(old, r), old, r)
         /\ Ordered(Append(old, r))
<1> DEFINE new == Append(old, r)
           R == [line : Seq(Alphabet), end : Nat]
<1>1. r \in R /\ r.end \in Nat OBVIOUS
<1>2. old \in Seq(R) BY DEF CommandsSeq
<1>3. \A i \in DOMAIN old : old[i].end \in Nat
  <2>1. \A x \in R : x.end \in Nat OBVIOUS
  <2> HIDE DEF R
  <2>2. \A i \in 1 .. Len(old) : old[i] \in R BY <1>2
  <2>3. DOMAIN old = 1 .. Len(old) BY <1>2
  <2>. QED BY <2>1, <2>2, <2>3
<1>a. new = Append(old, r) OBVIOUS
<1> HIDE DEF R, new
<1>5. new \in Seq(R) /\ Len(new) = Len(old) + 1 /\ Len(old) \in Nat BY <1>1, <1>2, <1>a
<1>6. DOMAIN new = 1 .. Len(old) + 1 /\ DOMAIN old = 1 .. Len(old) BY <1>2, <1>5
<1>7. \A i \in 1 .. Len(old) : new[i] = old[i] BY <1>1, <1>2, <1>a
<1>8. new[Len(old) + 1] = r BY <1>1, <1>2, <1>a
<1>9. \A i \in DOMAIN new : i \in DOMAIN old \/ i = Len(old) + 1 BY <1>5, <1>6
<1>10. \A i \in DOMAIN new : new[i] = r \/ (i \in DOMAIN old /\ new[i] = old[i])
  BY <1>6, <1>7, <1>8, <1>9
<1>11. /\ \A i \in DOMAIN old : i \in DOMAIN new /\ new[i] = old[i]
       /\ \E j \in DOMAIN new : new[j] = r
  BY <1>5, <1>6, <1>7, <1>8
<1>b. \A i, j \in DOMAIN old : i < j => old[i].end < old[j].end BY DEF Ordered
<1>12. ASSUME NEW i \in DOMAIN new, NEW j \in DOMAIN new, i < j PROVE new[i].end < new[j].end
  <2>1. i \in DOMAIN old /\ new[i] = old[i] BY <1>5, <1>6, <1>7, <1>12
  <2>2. CASE j \in DOMAIN old BY <2>1, <2>2, <1>6, <1>7, <1>12, <1>b
  <2>3. CASE j = Len(old) + 1
    <3>1. new[j] = r BY <2>3, <1>8
    <3>2. new[i].end <= c /\ new[i].end \in Nat BY <2>1, <1>3 DEF Bounded
    <3>. QED BY <3>1, <3>2, <1>1
  <2>. QED BY <2>2, <2>3, <1>9
<1>13. Ordered(new) BY <1>12 DEF Ordered
<1>14. Extends(new, old, r) BY <1>5, <1>10, <1>11 DEF Extends
<1>15. new \in CommandsSeq BY <1>5 DEF CommandsSeq, R
<1>. QED BY <1>13, <1>14, <1>15 DEF new

\* A line is executed: the cut moves behind its line feed.
LEMMA LineStep ==
  ASSUME GpioInv, handle_client_Line
  PROVE  GpioInv'
<1>0. GpioTypeOK /\ BufferInv /\ ExecutedInv BY DEF GpioInv
<1> DEFINE nl == LineFeed(buf)
           line == StripReturn(SubSeq(buf, 1, nl - 1))
           c == Handled
           e == Handled + nl
<1>1. task = "lines" /\ task' = "lines" /\ nl # 0
  BY DEF handle_client_Line
<1>a. received' = received /\ buf' = SubSeq(buf, nl + 1, Len(buf))
  BY DEF handle_client_Line, Rest
<1>b. IsCommand(line) => commands' = Append(commands, [line |-> line, end |-> e])
  BY DEF handle_client_Line
<1>c. IsCommand(line) =>
        answers' = Append(answers, handle_command(Command(line),
                     [mode |-> mode, output |-> output, rgb |-> rgb, answer |-> ""]).answer)
  BY DEF handle_client_Line
<1>d. ~IsCommand(line) => commands' = commands /\ answers' = answers
  BY DEF handle_client_Line
<1>2. buf \in Seq(Alphabet) /\ received \in Seq(Alphabet) /\ answers \in Seq(Answers)
  BY <1>0 DEF GpioTypeOK
<1>3. Len(received) \in Nat /\ Len(buf) \in Nat /\ c \in 0 .. Len(received)
      /\ Len(received) = c + Len(buf) /\ c \in Nat /\ Len(answers) \in Nat /\ Len(commands) \in Nat
      /\ DOMAIN commands = 1 .. Len(commands)
  BY <1>0, HandledIs
<1>4. /\ nl \in 1 .. Len(buf) /\ IsLineFeed(buf[nl])
      /\ \A i \in 1 .. Len(buf) : i < nl => ~IsLineFeed(buf[i])
  <2>1. nl \in 0 .. Len(buf) /\ (nl # 0 => IsLineFeed(buf[nl])
                  /\ \A i \in 1 .. Len(buf) : i < nl => ~IsLineFeed(buf[i]))
    BY <1>2, LineFeedIs
  <2>. QED BY <1>1, <2>1, <1>3
<1>5. \A i \in 1 .. Len(buf) : buf[i] = received[c + i] BY <1>0 DEF BufferInv
<1>6. line \in Seq(Alphabet)
  <2>1. SubSeq(buf, 1, nl - 1) \in Seq(Alphabet) BY <1>2, <1>3, <1>4
  <2>. QED BY <2>1, StripReturnType
<1>7. line = StripReturn(SubSeq(received, c + 1, e - 1))
  <2>1. nl - 1 \in 0 .. Len(buf) BY <1>3, <1>4
  <2>2. SubSeq(buf, 1, nl - 1) = SubSeq(received, Handled + 1, Handled + (nl - 1))
    BY <2>1, <1>0, BufferFrom
  <2>3. Handled + (nl - 1) = e - 1 BY <1>3, <1>4
  <2>. QED BY <2>2, <2>3
<1>8. IsCut(received, c) /\ Len(buf) <= Room BY <1>0 DEF BufferInv
<1>9. e = c + nl OBVIOUS
<1> HIDE DEF nl, line, c, e
<1>10. e \in c + 1 .. Len(received) /\ e - c <= Room /\ e \in Nat /\ c < e
  BY <1>3, <1>4, <1>8, <1>9, RoomIs
<1>11. IsLineFeed(received[e]) /\ \A i \in c + 1 .. e - 1 : ~IsLineFeed(received[i])
  <2>1. IsLineFeed(received[e]) BY <1>4, <1>5, <1>9
  <2>2. ASSUME NEW i \in c + 1 .. e - 1 PROVE ~IsLineFeed(received[i])
    <3>1. i - c \in 1 .. Len(buf) /\ i - c < nl /\ c + (i - c) = i BY <1>3, <1>4, <1>9
    <3>. QED BY <3>1, <1>4, <1>5
  <2>. QED BY <2>1, <2>2
<1>12. /\ Kept(LineBefore(received, e)) = line
       /\ UpTo(CommandEnds(received), e) = UpTo(CommandEnds(received), c) \cup (IF IsCommand(line) THEN {e} ELSE {})
       /\ UpTo(Fillers(received), e) = UpTo(Fillers(received), c)
       /\ IsCut(received, e)
  <2>1. received \in Seq(Alphabet) /\ c \in 0 .. Len(received) /\ IsCut(received, c)
    BY <1>2, <1>3, <1>8
  <2>. QED BY <2>1, <1>7, <1>10, <1>11, AtLineFeed
<1>13. /\ buf' \in Seq(Alphabet) /\ Len(buf') = Len(buf) - nl
       /\ \A i \in 1 .. Len(buf) - nl : buf'[i] = buf[nl + i]
  BY <1>a, <1>2, <1>3, <1>4
<1>14. Handled' = e
  <2>1. Len(received') = Len(received) BY <1>a
  <2>. QED BY <2>1, <1>3, <1>4, <1>9, <1>13 DEF Handled
<1>15. BufferInv'
  <2>1. Len(buf') <= Room /\ Len(buf') <= Len(received')
    BY <1>a, <1>3, <1>4, <1>8, <1>13, RoomIs
  <2>2. \A i \in 1 .. Len(buf') : buf'[i] = received'[e + i]
    <3>1. ASSUME NEW i \in 1 .. Len(buf') PROVE buf'[i] = received'[e + i]
      <4>1. nl + i \in 1 .. Len(buf) /\ c + (nl + i) = e + i BY <1>3, <1>4, <1>9, <1>13
      <4>2. buf'[i] = buf[nl + i] BY <1>13
      <4>. QED BY <4>1, <4>2, <1>5, <1>a
    <3>. QED BY <3>1
  <2>. QED BY <1>1, <1>a, <1>12, <1>14, <2>1, <2>2 DEF BufferInv
<1>16. \A i \in DOMAIN commands : commands[i].end \in UpTo(CommandEnds(received), c)
  BY <1>0 DEF ExecutedInv, c
<1>17. /\ {commands[i].end : i \in DOMAIN commands} = UpTo(CommandEnds(received), c)
       /\ \A i, j \in DOMAIN commands : i < j => commands[i].end < commands[j].end
       /\ \A i \in DOMAIN commands : commands[i].line = Kept(LineBefore(received, commands[i].end))
       /\ Len(answers) = 1 + Len(commands) + Cardinality(UpTo(Fillers(received), c))
  BY <1>0, <1>1 DEF ExecutedInv, c
<1>18. CASE IsCommand(line)
  <2>1. commands' = Append(commands, [line |-> line, end |-> e]) BY <1>b, <1>18
  <2> DEFINE s == [mode |-> mode, output |-> output, rgb |-> rgb, answer |-> ""]
             a == handle_command(Command(line), s).answer
  <2>a. DOMAIN s = {"mode", "output", "rgb", "answer"} OBVIOUS
  <2>2. answers' = Append(answers, a) BY <1>c, <1>18
  <2> HIDE DEF s
  <2>b. a \in Answers BY <2>a, AnswerType
  <2> HIDE DEF a
  <2>3. answers' \in Seq(Answers) /\ Len(answers') = Len(answers) + 1 BY <2>2, <2>b, <1>2
  <2>4. \A i \in DOMAIN commands : commands[i].end <= c BY <1>16 DEF UpTo
  <2> DEFINE r == [line |-> line, end |-> e]
  <2>c. r \in [line : Seq(Alphabet), end : Nat] /\ r.end = e /\ r.line = line BY <1>6, <1>10
  <2>d. commands' = Append(commands, r) BY <2>1
  <2> HIDE DEF r
  <2>e. Ordered(commands) /\ Bounded(commands, c) BY <1>17, <2>4 DEF Ordered, Bounded
  <2>f. commands \in CommandsSeq /\ c \in Nat /\ c < r.end
    BY <1>0, <1>3, <1>10, <2>c DEF GpioTypeOK, CommandsSeq
  <2>g. commands' \in CommandsSeq /\ Extends(commands', commands, r) /\ Ordered(commands')
    BY <2>c, <2>d, <2>e, <2>f, Executed
  <2>5. /\ commands' \in Seq([line : Seq(Alphabet), end : Nat]) /\ Len(commands') = Len(commands) + 1
        /\ \A i \in DOMAIN commands : i \in DOMAIN commands' /\ commands'[i] = commands[i]
        /\ \E j \in DOMAIN commands' : commands'[j] = r
        /\ \A i, j \in DOMAIN commands' : i < j => commands'[i].end < commands'[j].end
        /\ \A i \in DOMAIN commands' : commands'[i] = r \/ (i \in DOMAIN commands /\ commands'[i] = commands[i])
    BY <2>g DEF CommandsSeq, Extends, Ordered
  <2>6. GpioTypeOK' BY <1>1, <1>a, <1>2, <1>13, <2>3, <2>5 DEF GpioTypeOK
  <2>7. {commands'[i].end : i \in DOMAIN commands'} = UpTo(CommandEnds(received), e)
    <3>1. {commands'[i].end : i \in DOMAIN commands'} = {commands[i].end : i \in DOMAIN commands} \cup {e}
      BY <2>5, <2>c
    <3>. QED BY <3>1, <1>12, <1>17, <1>18
  <2>8. \A i \in DOMAIN commands' : commands'[i].line = Kept(LineBefore(received, commands'[i].end))
    BY <2>5, <2>c, <1>12, <1>17
  <2>9. Len(answers') = 1 + Len(commands') + Cardinality(UpTo(Fillers(received), e))
    <3> DEFINE k == Cardinality(UpTo(Fillers(received), c))
    <3>1. k \in Nat BY <1>2, <1>3, EndsAndFillers, FS_CardinalityType
    <3>2. Len(answers) = 1 + Len(commands) + k BY <1>17
    <3>3. Cardinality(UpTo(Fillers(received), e)) = k BY <1>12
    <3> HIDE DEF k
    <3>. QED BY <3>1, <3>2, <3>3, <2>3, <2>5, <1>3
  <2>10. ExecutedInv' BY <1>1, <1>a, <1>14, <2>5, <2>7, <2>8, <2>9 DEF ExecutedInv
  <2>. QED BY <2>6, <2>10, <1>15 DEF GpioInv
<1>19. CASE ~IsCommand(line)
  <2>1. commands' = commands /\ answers' = answers BY <1>d, <1>19
  <2>2. GpioTypeOK' BY <1>0, <1>1, <1>a, <1>2, <1>13, <2>1 DEF GpioTypeOK
  <2>3. UpTo(CommandEnds(received), e) = UpTo(CommandEnds(received), c) BY <1>12, <1>19
  <2>4. ExecutedInv' BY <1>1, <1>a, <1>12, <1>14, <1>17, <2>1, <2>3 DEF ExecutedInv
  <2>. QED BY <2>2, <2>4, <1>15 DEF GpioInv
<1>. QED BY <1>18, <1>19

\* No line is left: the cut stays, or moves behind the buffer that is full.
LEMMA RestStep ==
  ASSUME GpioInv, handle_client_Rest
  PROVE  GpioInv'
<1>0. GpioTypeOK /\ BufferInv /\ ExecutedInv BY DEF GpioInv
<1> DEFINE c == Handled
<1>1. /\ task = "lines" /\ task' = "client" /\ LineFeed(buf) = 0
  BY DEF handle_client_Rest
<1>a. received' = received /\ commands' = commands
  BY DEF handle_client_Rest
<1>b. Len(buf) >= Room => answers' = Append(answers, "ERR line too long")
  BY DEF handle_client_Rest
<1>c. Len(buf) >= Room => buf' = <<>>
  BY DEF handle_client_Rest
<1>d. ~(Len(buf) >= Room) => answers' = answers /\ buf' = buf
  BY DEF handle_client_Rest
<1>2. buf \in Seq(Alphabet) /\ received \in Seq(Alphabet) /\ answers \in Seq(Answers)
  BY <1>0 DEF GpioTypeOK
<1>3. Len(received) \in Nat /\ Len(buf) \in Nat /\ c \in 0 .. Len(received)
      /\ Len(received) = c + Len(buf) /\ c \in Nat /\ Len(answers) \in Nat /\ Len(commands) \in Nat
  BY <1>0, HandledIs
<1>4. \A i \in 1 .. Len(buf) : ~IsLineFeed(buf[i]) BY <1>1, <1>2, LineFeedIs
<1>5. Len(buf) <= Room /\ IsCut(received, c) /\ \A i \in 1 .. Len(buf) : buf[i] = received[c + i]
  BY <1>0 DEF BufferInv
<1>6. CASE ~(Len(buf) >= Room)
  <2>1. buf' = buf /\ answers' = answers /\ Handled' = Handled BY <1>a, <1>d, <1>6 DEF Handled
  <2>2. GpioTypeOK' BY <1>0, <1>1, <1>a, <2>1 DEF GpioTypeOK
  <2>3. Len(buf) < Room BY <1>3, <1>6, RoomIs
  <2>4. BufferInv' BY <1>0, <1>1, <1>a, <1>4, <2>1, <2>3 DEF BufferInv
  <2>5. ExecutedInv' BY <1>0, <1>1, <1>a, <2>1 DEF ExecutedInv
  <2>. QED BY <2>2, <2>4, <2>5 DEF GpioInv
<1>7. CASE Len(buf) >= Room
  <2>1. Len(buf) = Room BY <1>3, <1>5, <1>7, RoomIs
  <2>2. buf' = <<>> /\ Len(buf') = 0 /\ buf' \in Seq(Alphabet)
    <3>1. <<>> \in Seq(Alphabet) /\ Len(<<>>) = 0 OBVIOUS
    <3>. QED BY <3>1, <1>c, <1>7
  <2>3. Handled' = Len(received) BY <1>a, <1>3, <2>2 DEF Handled
  <2>4. answers' \in Seq(Answers) /\ Len(answers') = Len(answers) + 1
    <3>1. "ERR line too long" \in Answers BY DEF Answers
    <3>2. \A x \in Answers : Append(answers, x) \in Seq(Answers) /\ Len(Append(answers, x)) = Len(answers) + 1
      BY <1>2
    <3>3. answers' = Append(answers, "ERR line too long") BY <1>b, <1>7
    <3>. QED BY <3>1, <3>2, <3>3
  <2>5. ExecutedInv BY <1>0
  <2>6. /\ {commands[i].end : i \in DOMAIN commands} = UpTo(CommandEnds(received), c)
        /\ Len(answers) = 1 + Len(commands) + Cardinality(UpTo(Fillers(received), c))
    BY <1>0, <1>1 DEF ExecutedInv
  <2> DEFINE d == Len(received)
  <2>7. d \in c .. Len(received) /\ d - c = Room /\ d \in Nat /\ d > c BY <1>3, <2>1, RoomIs
  <2>8. \A i \in c + 1 .. d : ~IsLineFeed(received[i])
    <3>1. ASSUME NEW i \in c + 1 .. d PROVE ~IsLineFeed(received[i])
      <4>1. i - c \in 1 .. Len(buf) /\ c + (i - c) = i BY <1>3
      <4>. QED BY <4>1, <1>4, <1>5
    <3>. QED BY <3>1
  <2> HIDE DEF c, d
  <2>9. d - c <= Room BY <2>7, RoomIs
  <2>10. /\ UpTo(CommandEnds(received), d) = UpTo(CommandEnds(received), c)
         /\ UpTo(Fillers(received), d) = UpTo(Fillers(received), c) \cup {d}
         /\ IsCut(received, d)
    <3>1. /\ UpTo(CommandEnds(received), d) = UpTo(CommandEnds(received), c)
          /\ UpTo(Fillers(received), d) = UpTo(Fillers(received), c) \cup (IF d - c = Room THEN {d} ELSE {})
          /\ d - c = Room => IsCut(received, d)
      BY <1>2, <1>3, <1>5, <2>7, <2>8, <2>9, NoLineFeed
    <3>. QED BY <3>1, <2>7
  <2>11. d \notin UpTo(Fillers(received), c) BY <1>3, <2>7 DEF UpTo
  <2> DEFINE F == UpTo(Fillers(received), c)
  <2>12. IsFiniteSet(F) BY <1>2, <1>3, EndsAndFillers
  <2>13. Cardinality(F) \in Nat BY <2>12, FS_CardinalityType
  <2>14. Cardinality(F \cup {d}) = Cardinality(F) + 1 BY <2>11, <2>12, FS_AddElement
  <2> HIDE DEF F
  <2>15. Len(answers') = 1 + Len(commands) + Cardinality(F \cup {d})
    BY <2>4, <2>6, <2>13, <2>14, <1>3 DEF F
  <2>16. GpioTypeOK' BY <1>0, <1>1, <1>a, <2>2, <2>4 DEF GpioTypeOK
  <2>17. BufferInv' BY <1>1, <1>a, <1>3, <2>2, <2>3, <2>10, RoomIs DEF BufferInv, d
  <2>18. ExecutedInv'
    <3>1. {commands[i].end : i \in DOMAIN commands} = UpTo(CommandEnds(received), d)
      BY <2>6, <2>10
    <3>2. Len(answers') = 1 + Len(commands) + Cardinality(UpTo(Fillers(received), d))
      BY <2>10, <2>15 DEF F
    <3>. QED BY <1>1, <1>a, <2>3, <2>5, <3>1, <3>2 DEF ExecutedInv, d
  <2>. QED BY <2>16, <2>17, <2>18 DEF GpioInv
<1>. QED BY <1>6, <1>7

\* Every step of the server keeps the invariant.
LEMMA GpioStep == GpioInv /\ [GpioNext]_gpioVars => GpioInv'
<1> SUFFICES ASSUME GpioInv, [GpioNext]_gpioVars PROVE GpioInv' OBVIOUS
<1>0. task \in {"wait", "open", "accept", "select", "client", "lines"}
  BY DEF GpioInv, GpioTypeOK
<1>1. CASE NetworkChanges BY <1>0, <1>1, SameStream DEF NetworkChanges
<1>2. CASE gpio_tcp_task_Wait BY <1>0, <1>2, SameStream DEF gpio_tcp_task_Wait
<1>3. CASE open_listen_socket BY <1>0, <1>3, SameStream DEF open_listen_socket
<1>4. CASE gpio_tcp_task_Check BY <1>0, <1>4, SameStream DEF gpio_tcp_task_Check
<1>5. CASE gpio_tcp_task_Select BY <1>0, <1>5, SameStream DEF gpio_tcp_task_Select
<1>6. CASE gpio_tcp_task_Accept
  <2>0. GpioTypeOK /\ BufferInv /\ ExecutedInv BY DEF GpioInv
  <2>1. /\ task = "select" /\ task' = "client"
        /\ buf' = buf /\ received' = received /\ commands' = commands
    BY <1>6 DEF gpio_tcp_task_Accept
  <2>2. received = <<>> /\ commands = <<>> /\ Len(buf) = 0 /\ buf = <<>>
    <3>1. received = <<>> /\ commands = <<>> BY <2>0, <2>1 DEF BufferInv
    <3>2. buf \in Seq(Alphabet) /\ Len(buf) <= 0 BY <2>0, <3>1 DEF BufferInv, GpioTypeOK
    <3>. QED BY <3>1, <3>2
  <2>3. answers' \in Seq(Answers) /\ Len(answers') = 1
    <3>1. "OK gpio-tcp ready" \in Answers BY DEF Answers
    <3>2. \A x \in Answers : <<x>> \in Seq(Answers) /\ Len(<<x>>) = 1 OBVIOUS
    <3>3. answers' = <<"OK gpio-tcp ready">> BY <1>6 DEF gpio_tcp_task_Accept
    <3>. QED BY <3>1, <3>2, <3>3
  <2>4. GpioTypeOK' BY <2>0, <2>1, <2>3 DEF GpioTypeOK
  <2>5. Handled' = 0
    <3>1. Len(<<>>) = 0 OBVIOUS
    <3>. QED BY <2>1, <2>2, <3>1 DEF Handled
  <2>6. BufferInv' BY <2>1, <2>2, <2>5, NoClient, RoomIs DEF BufferInv
  <2>7. UpTo(CommandEnds(<<>>), 0) = {} /\ UpTo(Fillers(<<>>), 0) = {} BY NoClient DEF UpTo
  <2>8. Cardinality({}) = 0 BY FS_EmptySet
  <2>9. Len(<<>>) = 0 /\ DOMAIN <<>> = {} OBVIOUS
  <2> DEFINE F == UpTo(Fillers(<<>>), 0)
             E == UpTo(CommandEnds(<<>>), 0)
  <2>10. received' = <<>> /\ commands' = <<>> BY <2>1, <2>2
  <2>11. {commands'[i].end : i \in DOMAIN commands'} = E BY <2>7, <2>9, <2>10
  <2>12. Len(answers') = 1 + Len(commands') + Cardinality(F)
    <3>1. Cardinality(F) = 0 BY <2>7, <2>8
    <3>2. Len(commands') = 0 BY <2>9, <2>10
    <3> HIDE DEF F
    <3>. QED BY <3>1, <3>2, <2>3
  <2>13. DOMAIN commands' = {} BY <2>9, <2>10
  <2>14. UpTo(CommandEnds(received'), Handled') = E /\ UpTo(Fillers(received'), Handled') = F
    BY <2>5, <2>10
  <2> HIDE DEF E, F
  <2>15. ExecutedInv' BY <2>11, <2>12, <2>13, <2>14 DEF ExecutedInv
  <2>. QED BY <2>4, <2>6, <2>15 DEF GpioInv
<1>7. CASE handle_client_End
  <2>1. NobodyIsThere' BY <1>7 DEF handle_client_End, NobodyIsThere
  <2>2. NobodyIsThere' => GpioInv' BY Idle, PTL
  <2>. QED BY <2>1, <2>2
<1>8. CASE ReceivesSome
  <2>1. PICK n \in 1 .. MaxReceived - Len(received) : \E chunk \in [1 .. n -> Alphabet] : handle_client_Recv(chunk)
    BY <1>8 DEF ReceivesSome
  <2>2. PICK chunk \in [1 .. n -> Alphabet] : handle_client_Recv(chunk) BY <2>1
  <2>3. n \in Nat BY GpioAssumption
  <2>4. chunk \in Seq(Alphabet) BY <2>3
  <2>. QED BY <2>2, <2>4, RecvStep
<1>9. CASE handle_client_Line BY <1>9, LineStep
<1>10. CASE handle_client_Rest BY <1>10, RestStep
<1>11. CASE UNCHANGED gpioVars
  <2>1. task' = task /\ UNCHANGED clientVars BY <1>11 DEF gpioVars, clientVars
  <2>. QED BY <1>0, <2>1, SameStream
<1>. QED BY <1>1, <1>2, <1>3, <1>4, <1>5, <1>6, <1>7, <1>8, <1>9, <1>10, <1>11 DEF GpioNext

\* The invariant holds in every reachable state.
LEMMA GpioInvariance == GpioSpec => []GpioInv
BY InitGpio, GpioStep, PTL DEF GpioSpec

\* In recv the buffer holds no line feed and is not full: everything that could
\* be done is done.
LEMMA InRecv == GpioInv => CommandsAreLines
<1> SUFFICES ASSUME GpioInv, task = "client" PROVE CommandsAreLines BY DEF CommandsAreLines
<1>0. GpioTypeOK /\ BufferInv /\ ExecutedInv BY DEF GpioInv
<1> DEFINE c == Handled
           d == Len(received)
<1>1. received \in Seq(Alphabet) BY <1>0 DEF GpioTypeOK
<1>2. Len(buf) \in Nat /\ c \in 0 .. Len(received) /\ d = c + Len(buf) /\ c \in Nat /\ d \in Nat
  BY <1>0, HandledIs
<1>3. Len(buf) < Room /\ IsCut(received, c)
      /\ \A i \in 1 .. Len(buf) : ~IsLineFeed(buf[i]) /\ buf[i] = received[c + i]
  BY <1>0 DEF BufferInv
<1>4. \A i \in c + 1 .. d : ~IsLineFeed(received[i])
  <2>1. ASSUME NEW i \in c + 1 .. d PROVE ~IsLineFeed(received[i])
    <3>1. i - c \in 1 .. Len(buf) /\ c + (i - c) = i BY <1>2
    <3>. QED BY <3>1, <1>3
  <2>. QED BY <2>1
<1>5. d \in c .. Len(received) /\ d - c <= Room /\ d - c # Room BY <1>2, <1>3, RoomIs
<1>6. /\ {commands[i].end : i \in DOMAIN commands} = UpTo(CommandEnds(received), c)
      /\ Len(answers) = 1 + Len(commands) + Cardinality(UpTo(Fillers(received), c))
  BY <1>0 DEF ExecutedInv
<1>7. UpTo(CommandEnds(received), d) = CommandEnds(received) /\ UpTo(Fillers(received), d) = Fillers(received)
  <2>1. CommandEnds(received) \subseteq 1 .. d /\ Fillers(received) \subseteq 1 .. d
    BY <1>1, <1>2, EndsAndFillers
  <2>. QED BY <2>1, <1>2 DEF UpTo
<1> HIDE DEF c, d
<1>8. /\ UpTo(CommandEnds(received), d) = UpTo(CommandEnds(received), c)
      /\ UpTo(Fillers(received), d) = UpTo(Fillers(received), c) \cup (IF d - c = Room THEN {d} ELSE {})
  BY <1>1, <1>2, <1>3, <1>4, <1>5, NoLineFeed
<1>9. UpTo(Fillers(received), c) = Fillers(received) BY <1>5, <1>7, <1>8
<1>. QED BY <1>0, <1>6, <1>7, <1>8, <1>9 DEF CommandsAreLines, ExecutedInv

\* What a client's lines do does not depend on how TCP cut them into pieces
\* (handle_client): each line is executed once, in order, and answered.
THEOREM CommandsCorrect == GpioSpec => []CommandsAreLines
BY GpioInvariance, InRecv, PTL
=============================================================================
