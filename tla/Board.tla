------------------------------- MODULE Board -------------------------------
(***************************************************************************)
(* board.cpp: the task that polls the BOOT button and measures how long it *)
(* is held, and the LED, which both it and the WiFi callback (on the event *)
(* task) set from what they last knew.                                     *)
(*                                                                         *)
(* Time passes in polling intervals of 50 ms, only while the task sleeps;  *)
(* a sleep may last up to MaxLate of them, when other tasks are in the     *)
(* way.  The button moves at any moment.                                   *)
(***************************************************************************)
EXTENDS Naturals, Sequences

CONSTANTS
  SHORT_PRESS,  \* what separates a click from a long press, in intervals
  RESET_PRESS,  \* from here on the press erases the configuration
  Window,       \* how long after SHORT_PRESS a long press is still noticed
  MaxLate

ASSUME BoardAssumption ==
  /\ SHORT_PRESS \in Nat \ {0} /\ RESET_PRESS \in Nat /\ SHORT_PRESS + Window <= RESET_PRESS
  /\ Window \in Nat \ {0} /\ MaxLate \in Nat \ {0}

VARIABLES
  down,        \* whether the button is held down
  button,      \* where button_task is
  sleeping,    \* the intervals until it wakes
  elapsed,     \* since press_start (up to RESET_PRESS)
  was_pressed,
  g_led_off,
  led,         \* what the LED shows
  status,      \* g_wifi_status
  refresh,     \* the event task in refresh_led: "idle", "asked", or "lit"
  held,        \* history: how long the button has been down, or was (capped)
  broken,      \* history: it was released and pressed again unnoticed
  done         \* history: what the current or last press has made happen

buttonVars == <<button, sleeping, elapsed, was_pressed>>
lightVars == <<g_led_off, led, status, refresh>>
pressVars == <<down, held, broken, done>>
boardVars == <<buttonVars, lightVars, pressVars>>

Forever == RESET_PRESS + 2 * MaxLate
Shown == [s \in 0 .. 2 |-> <<"red", "yellow", "green">>[s + 1]]

BoardInit ==
  /\ down = FALSE /\ button = "scan" /\ sleeping = 0 /\ elapsed = 0
  /\ was_pressed = FALSE /\ g_led_off = FALSE /\ led = "red" /\ status = 0
  /\ refresh = "idle" /\ held = 0 /\ broken = FALSE /\ done = <<>>

(***************************************************************************)
(* The world.                                                              *)
(***************************************************************************)
Saturate(n, max) == IF n < max THEN n + 1 ELSE n

Tick ==
  /\ sleeping > 0 /\ sleeping' = sleeping - 1
  /\ elapsed' = IF button = "scan" THEN 0 ELSE Saturate(elapsed, RESET_PRESS)
  /\ held' = IF down THEN Saturate(held, Forever) ELSE held
  /\ UNCHANGED <<button, was_pressed, lightVars, down, broken, done>>

\* A press while the task still deals with the one before is lost on it.
Press ==
  /\ ~down /\ down' = TRUE
  /\ IF button = "scan" /\ ~was_pressed
       THEN held' = 0 /\ broken' = FALSE /\ done' = <<>>
       ELSE broken' = TRUE /\ UNCHANGED <<held, done>>
  /\ UNCHANGED <<buttonVars, lightVars>>

Release ==
  /\ down /\ down' = FALSE
  /\ UNCHANGED <<buttonVars, lightVars, held, broken, done>>

(***************************************************************************)
(* The LED.                                                                *)
(***************************************************************************)
refresh_led(off) == led' = IF off THEN "off" ELSE Shown[status]

\* refresh_led reads g_led_off, and then g_wifi_status and writes the LED.
wifi_status_callback ==
  /\ refresh = "idle" /\ status' \in 0 .. 2 /\ refresh' = "asked"
  /\ UNCHANGED <<buttonVars, g_led_off, led, pressVars>>
refresh_led_Off ==
  /\ refresh = "asked"
  /\ IF g_led_off THEN led' = "off" /\ refresh' = "idle"
                  ELSE refresh' = "lit" /\ UNCHANGED led
  /\ UNCHANGED <<buttonVars, g_led_off, status, pressVars>>
refresh_led_Lit ==
  /\ refresh = "lit" /\ refresh' = "idle" /\ led' = Shown[status]
  /\ UNCHANGED <<buttonVars, g_led_off, status, pressVars>>

(***************************************************************************)
(* button_task.                                                            *)
(***************************************************************************)
Awake(at) == sleeping = 0 /\ button = at
vTaskDelay == sleeping' \in 1 .. MaxLate

\* The falling edge starts the clock.
button_Scan ==
  /\ Awake("scan")
  /\ IF down /\ ~was_pressed
       THEN button' = "held" /\ elapsed' = 0 /\ UNCHANGED <<sleeping, was_pressed>>
       ELSE was_pressed' = down /\ vTaskDelay /\ UNCHANGED <<button, elapsed>>
  /\ UNCHANGED <<lightVars, pressVars>>

\* The condition of the polling loop.
button_Held ==
  /\ Awake("held")
  /\ IF down THEN button' = "timed" /\ vTaskDelay
             ELSE button' = "released" /\ UNCHANGED sleeping
  /\ UNCHANGED <<elapsed, was_pressed, lightVars, pressVars>>

\* The configuration is erased; the LED is lit, if it was off, to show it.
Erase ==
  /\ elapsed >= RESET_PRESS /\ button' = "erased"
  /\ g_led_off' = FALSE /\ led' = "purple" /\ done' = Append(done, "reset")

\* Between the two limits, the LED is toggled once.
button_Timed ==
  /\ Awake("timed")
  /\ \/ Erase
     \/ /\ elapsed \in SHORT_PRESS .. SHORT_PRESS + Window - 1
        /\ button' = "toggled" /\ g_led_off' = ~g_led_off /\ refresh_led(g_led_off')
        /\ done' = Append(done, "toggle")
     \/ /\ elapsed < RESET_PRESS
        /\ elapsed \notin SHORT_PRESS .. SHORT_PRESS + Window - 1
        /\ button' = "held" /\ UNCHANGED <<g_led_off, led, done>>
  /\ UNCHANGED <<sleeping, elapsed, was_pressed, status, refresh, down, held, broken>>

\* The loop that waits for the release of a long press, and its clock.
button_Toggled ==
  /\ Awake("toggled")
  /\ IF down THEN button' = "retimed" /\ vTaskDelay
             ELSE button' = "released" /\ UNCHANGED sleeping
  /\ UNCHANGED <<elapsed, was_pressed, lightVars, pressVars>>

\* Variant: a long press stays one, however long it is.
button_Retimed_NeverErases ==
  /\ Awake("retimed") /\ button' = "toggled"
  /\ UNCHANGED <<sleeping, elapsed, was_pressed, lightVars, pressVars>>

button_Retimed ==
  /\ Awake("retimed")
  /\ \/ Erase
     \/ elapsed < RESET_PRESS /\ button' = "toggled" /\ UNCHANGED <<g_led_off, led, done>>
  /\ UNCHANGED <<sleeping, elapsed, was_pressed, status, refresh, down, held, broken>>

\* wifi_clear_saved_config, a release, three seconds: esp_restart.
button_Erased ==
  /\ Awake("erased") /\ ~down /\ button' = "restarts"
  /\ UNCHANGED <<sleeping, elapsed, was_pressed, lightVars, pressVars>>

\* A click is a release in time; was_pressed becomes what the scan had read.
button_Released ==
  /\ Awake("released") /\ button' = "scan" /\ was_pressed' = TRUE /\ vTaskDelay
  /\ IF elapsed < SHORT_PRESS /\ ~g_led_off
       THEN led' = "blue" /\ done' = Append(done, "click")
       ELSE UNCHANGED <<led, done>>
  /\ elapsed' = 0 /\ UNCHANGED <<g_led_off, status, refresh, down, held, broken>>

BoardNext ==
  \/ Tick \/ Press \/ Release
  \/ wifi_status_callback \/ refresh_led_Off \/ refresh_led_Lit
  \/ button_Scan \/ button_Held \/ button_Timed \/ button_Toggled \/ button_Retimed
  \/ button_Erased \/ button_Released

BoardSpec == BoardInit /\ [][BoardNext]_boardVars

(***************************************************************************)
(* Properties.                                                             *)
(***************************************************************************)
Did(what) == \E i \in DOMAIN done : done[i] = what

\* What one press of the BOOT button does is what button_task documents, up to
\* the time a poll takes: a click below one second, one change of the LED from
\* there on, and in any case the erasure at five; never both a click and
\* another gesture, nothing twice.  A long press is not missed unless polls
\* take longer than the window in which it is looked for.
GesturesAsDocumented ==
  ~broken =>
    /\ done \in {<<>>, <<"click">>, <<"toggle">>, <<"reset">>, <<"toggle", "reset">>}
    /\ Did("click") => held < SHORT_PRESS + MaxLate
    /\ Did("toggle") => held >= SHORT_PRESS - MaxLate
    /\ Did("reset") => held >= RESET_PRESS - MaxLate
    /\ held >= SHORT_PRESS + 2 * MaxLate /\ MaxLate <= Window => Did("toggle")
    /\ held >= RESET_PRESS + 2 * MaxLate => Did("reset")

\* Not true of the code: every press is noticed that lasts longer than a poll.
\* One that begins before the task saw the last one end does nothing, even
\* when it lasts five seconds, because board.cpp:358 remembers what the scan
\* read before the gesture and not what the loop read after it.
EveryPressSeen ==
  down /\ held >= SHORT_PRESS + 2 * MaxLate /\ button = "scan" => ~was_pressed

\* Not true of the code: the LED stays dark once a long press turned it off.
\* A WiFi callback that read g_led_off before lights it after.
LedStaysOff == g_led_off /\ refresh = "idle" => led = "off"
=============================================================================
