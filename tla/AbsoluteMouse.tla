---------------------------- MODULE AbsoluteMouse ----------------------------
(***************************************************************************)
(* AbsoluteMouseHandler: callers change the state of the mouse under       *)
(* state_mutex_ and wake the send thread, which turns the state into an    *)
(* input report.  A click or a move is a sequence of such calls.  The      *)
(* send thread starts with a connection; on_disconnection asks it to stop, *)
(* without the mutex, and joins it.                                        *)
(***************************************************************************)
EXTENDS Integers, Sequences

CONSTANTS
  Pixels,            \* x coordinates the callers pass, on the screen or beside it
  Width,             \* screen_width_
  HID_MAX,
  Callers,           \* threads that use the mouse
  MouseConnections,  \* bound: connections
  MaxGestures        \* bound: gestures of each caller
ASSUME MouseAssumption ==
  /\ Pixels \subseteq Int /\ {Width, HID_MAX} \subseteq Nat \ {0}
  /\ {MouseConnections, MaxGestures} \subseteq Nat

VARIABLES
  mouse_receiver,    \* "none", "up", or the next step of on_disconnection
  sender,            \* position of the send thread
  should_stop_, state_changed_,
  mouse,             \* hid_x_, left_button_ and wheel_
  asked,             \* the pixel of the last set_position
  last_report,       \* the last report sent, <<>> if this client got none
  script,            \* [Callers -> calls still to make in the gesture]
  gestures, mouse_connections

mouseCaller == <<mouse, asked, script, gestures>>
mouseVars == <<mouse_receiver, sender, should_stop_, state_changed_, mouseCaller,
               last_report, mouse_connections>>

\* round(a / b) for a >= 0
Round(a, b) == (2 * a + b) \div (2 * b)
Clamp(n, top) == IF n < 0 THEN 0 ELSE IF n > top THEN top ELSE n
screen_to_hid(x) == Clamp(Round(Clamp(x, Width) * HID_MAX, Width), HID_MAX)
hid_to_screen(h) == Round(h * Width, HID_MAX)

MouseInit ==
  /\ mouse_receiver = "none" /\ sender = "none"
  /\ should_stop_ = FALSE /\ state_changed_ = FALSE
  /\ mouse = [x |-> 0, left |-> FALSE, wheel |-> 0] /\ asked = 0
  /\ last_report = <<>> /\ script = [c \in Callers |-> <<>>]
  /\ gestures = [c \in Callers |-> 0] /\ mouse_connections = 0

MouseTypeOK ==
  /\ sender \in {"none", "lock", "check", "going_to_wait", "waiting", "sending", "exited"}
  /\ mouse.x \in 0 .. HID_MAX /\ mouse.left \in BOOLEAN

\* The gestures, as the calls they are made of; "move" stands for one step of
\* move_raw or humanized_move, which give up their loop once should_stop_ is set.
Press == <<[call |-> "left", to |-> TRUE]>>
Release == <<[call |-> "left", to |-> FALSE]>>
At(x) == <<[call |-> "position", to |-> x]>>
MoveTo(x) == <<[call |-> "move", to |-> x]>>
left_click(x) == At(x) \o Press \o Release
double_click(x) == left_click(x) \o left_click(x)
move_raw(a, b) == MoveTo(a) \o MoveTo(b)
drag(a, b) == At(a) \o Press \o move_raw(a, b) \o Release
\* On its detours to the target, where it ends even when it was told to stop.
humanized_move(a, b) == move_raw(a, b) \o At(b)
humanized_drag(a, b) == At(a) \o Press \o humanized_move(a, b) \o Release
wheel(d) == <<[call |-> "wheel", to |-> d]>>
Gestures ==
  {wheel(1)} \cup {left_click(x) : x \in Pixels} \cup {double_click(x) : x \in Pixels}
  \cup {drag(a, b) : a \in Pixels, b \in Pixels}
  \cup {humanized_drag(a, b) : a \in Pixels, b \in Pixels}

Gesture(c) ==
  /\ script[c] = <<>> /\ gestures[c] < MaxGestures
  /\ gestures' = [gestures EXCEPT ![c] = @ + 1]
  /\ \E g \in Gestures : script' = [script EXCEPT ![c] = g]
  /\ UNCHANGED <<mouse_receiver, sender, should_stop_, state_changed_, mouse, asked,
                 last_report, mouse_connections>>

MutexFree == sender \notin {"check", "going_to_wait", "sending"}

Woken(s) == IF s = "waiting" THEN "lock" ELSE s

Called(op) ==
  CASE op.call \in {"position", "move"} -> [mouse EXCEPT !.x = screen_to_hid(op.to)]
    [] op.call = "left" -> [mouse EXCEPT !.left = op.to]
    [] op.call = "wheel" -> [mouse EXCEPT !.wheel = op.to]

\* Variant: the change is made but not announced
set_state_Silent(c) ==
  /\ script[c] # <<>> /\ MutexFree
  /\ ~(Head(script[c]).call = "move" /\ should_stop_)
  /\ mouse' = Called(Head(script[c]))
  /\ asked' = IF Head(script[c]).call \in {"position", "move"} THEN Head(script[c]).to ELSE asked
  /\ script' = [script EXCEPT ![c] = Tail(@)]
  /\ UNCHANGED <<mouse_receiver, sender, should_stop_, state_changed_, last_report,
                 gestures, mouse_connections>>
\* set_position_raw, set_left_button, ..., with notify_state_change, under the mutex
set_state(c) ==
  /\ script[c] # <<>> /\ MutexFree
  /\ ~(Head(script[c]).call = "move" /\ should_stop_)
  /\ mouse' = Called(Head(script[c]))
  /\ asked' = IF Head(script[c]).call \in {"position", "move"} THEN Head(script[c]).to ELSE asked
  /\ script' = [script EXCEPT ![c] = Tail(@)]
  /\ state_changed_' = TRUE /\ sender' = Woken(sender)
  /\ UNCHANGED <<mouse_receiver, should_stop_, last_report, gestures, mouse_connections>>

\* The steps of the loop that are still to come are left out, all of them.
move_Abandoned(c) ==
  /\ should_stop_
  /\ \E n \in 1 .. Len(script[c]) :
       /\ \A i \in 1 .. n : script[c][i].call = "move"
       /\ n < Len(script[c]) => script[c][n + 1].call # "move"
       /\ script' = [script EXCEPT ![c] = SubSeq(@, n + 1, Len(@))]
  /\ UNCHANGED <<mouse_receiver, sender, should_stop_, state_changed_, mouse, asked,
                 last_report, gestures, mouse_connections>>

-----------------------------------------------------------------------------
(* The send thread.  wait(lock, pred) looks at pred with the mutex held, then *)
(* gives up the mutex and waits: "going_to_wait" is in between.               *)

send_thread_step(from, to) ==
  sender = from /\ sender' = to
  /\ UNCHANGED <<mouse_receiver, should_stop_, mouse_connections, asked, script, gestures>>

send_thread_Loop ==
  /\ sender = "lock"
  /\ send_thread_step("lock", IF should_stop_ THEN "exited" ELSE "check")
  /\ UNCHANGED <<state_changed_, mouse, last_report>>
send_thread_Check ==
  /\ send_thread_step("check", IF should_stop_ THEN "exited"
                               ELSE IF state_changed_ THEN "sending" ELSE "going_to_wait")
  /\ UNCHANGED <<state_changed_, mouse, last_report>>
send_thread_Wait ==
  /\ send_thread_step("going_to_wait", "waiting")
  /\ UNCHANGED <<state_changed_, mouse, last_report>>
\* send_current_state; the wheel is back at 0 once reported.
send_thread_Send ==
  /\ send_thread_step("sending", "lock")
  /\ last_report' = <<mouse>> /\ mouse' = [mouse EXCEPT !.wheel = 0]
  /\ state_changed_' = FALSE

-----------------------------------------------------------------------------
mouse_on_new_connection ==
  /\ mouse_receiver = "none" /\ mouse_connections < MouseConnections
  /\ mouse_receiver' = "up" /\ mouse_connections' = mouse_connections + 1
  /\ should_stop_' = FALSE /\ state_changed_' = TRUE
  /\ sender' = "lock" /\ last_report' = <<>>
  /\ UNCHANGED mouseCaller

mouse_on_disconnection_Stop ==
  /\ mouse_receiver = "up" /\ mouse_receiver' = "notify"
  /\ should_stop_' = TRUE
  /\ UNCHANGED <<sender, state_changed_, mouseCaller, last_report, mouse_connections>>
mouse_on_disconnection_Notify ==
  /\ mouse_receiver = "notify" /\ mouse_receiver' = "join"
  /\ sender' = Woken(sender)
  /\ UNCHANGED <<should_stop_, state_changed_, mouseCaller, last_report, mouse_connections>>
mouse_on_disconnection_Join ==
  /\ mouse_receiver = "join" /\ sender = "exited"
  /\ mouse_receiver' = "none" /\ sender' = "none"
  /\ UNCHANGED <<should_stop_, state_changed_, mouseCaller, last_report, mouse_connections>>

send_thread == send_thread_Loop \/ send_thread_Check \/ send_thread_Wait \/ send_thread_Send
mouse_on_disconnection == mouse_on_disconnection_Notify \/ mouse_on_disconnection_Join
MouseNext ==
  \/ \E c \in Callers : Gesture(c) \/ set_state(c) \/ move_Abandoned(c)
  \/ send_thread
  \/ mouse_on_new_connection \/ mouse_on_disconnection_Stop \/ mouse_on_disconnection

\* Threads run; a gesture once begun is carried through.  Clients come and go
\* as they like.
MouseFairness ==
  /\ WF_mouseVars(send_thread) /\ WF_mouseVars(mouse_on_disconnection)
  /\ \A c \in Callers : WF_mouseVars(set_state(c) \/ move_Abandoned(c))
MouseSpec == MouseInit /\ [][MouseNext]_mouseVars /\ MouseFairness

-----------------------------------------------------------------------------
Settled == mouse_receiver = "up" /\ sender = "waiting"

\* When the send thread rests, the client has been told: the last report shows
\* the buttons and the position as they are, and the position, read back in
\* pixels, is the one last asked for, moved onto the screen.
MouseShowsState ==
  Settled => /\ last_report # <<>>
             /\ last_report[1].left = mouse.left /\ last_report[1].x = mouse.x
             /\ mouse.wheel = 0
             /\ hid_to_screen(mouse.x) = Clamp(asked, Width)

\* The send thread sleeps although it was asked to stop and has been notified, or
\* although there is something to send.
MouseOverslept == sender = "waiting" /\ (state_changed_ \/ mouse_receiver = "join")

\* It never sleeps through a change of state, which is made under the mutex; only
\* the stop, which is not, can be slept through, and only by a thread that was
\* between its predicate and its wait when the notification came.
ChangeIsNotOverslept ==
  [][MouseOverslept' => /\ ~state_changed_'
                        /\ \/ MouseOverslept
                           \/ send_thread_Wait /\ mouse_receiver = "join"]_mouseVars

\* A press of a button is seen by the client.  Refuted: press and
\* release can both come before the send thread runs.
PressIsReported ==
  [][\A c \in Callers : mouse.left /\ ~mouse'.left /\ mouse_receiver = "up" =>
       last_report # <<>> /\ last_report[1].left]_mouseVars

\* VirtualInterfaceHandler.h: on_disconnection is where a transfer is ended for
\* good.  Refuted: should_stop_ is set and announced while the send thread is
\* between its look at it and its wait, and join never returns.
MouseDisconnectEnds == mouse_receiver = "notify" ~> mouse_receiver = "none"
=============================================================================
