--------------------------- MODULE GpioTcpServer ---------------------------
(***************************************************************************)
(* gpio_tcp_server.c: a task that listens while the network is up and      *)
(* serves one client at a time, reading its bytes into a small buffer and  *)
(* executing each line as a command on the pins or the LED.                *)
(*                                                                         *)
(* A character is a whole word: [is, pin, level], where is = "SET" stands  *)
(* for "SET pin level", and so on; " ", CR and LF are themselves.  TCP     *)
(* cuts the stream wherever it likes, so any number of characters may      *)
(* arrive at once.  The 0 byte, at which strchr and strlen stop, is never  *)
(* sent.  What a pin reads is left out of the answer to GET.               *)
(***************************************************************************)
EXTENDS Naturals, Sequences, FiniteSets, SequencesExt

CONSTANTS
  GPIO_TCP_RX_BUF,  \* the size of handle_client's buffer
  Alphabet,         \* the characters a client may send
  OutputPins, ButtonPins,
  Led,              \* "works", "fails", or "none" when led_init failed
  MaxReceived       \* bound: the characters of one client

ASSUME GpioAssumption ==
  /\ GPIO_TCP_RX_BUF \in Nat \ {0, 1} /\ MaxReceived \in Nat
  /\ OutputPins \cap ButtonPins = {}

VARIABLES
  task,      \* "wait" for the network, "open" a socket, "accept" loop, "select",
             \* "client" in recv, "lines" in the loop over what has come
  network,   \* what network_ready would return
  buf,       \* the characters from `start' on: those not handled yet
  received,  \* history: all characters of this client
  commands,  \* history: the lines of this client that were executed, and where they end
  answers,   \* history: what was sent to this client
  mode, output,  \* of each pin: its direction, and the level last written
  rgb        \* whether the LED last showed what a client asked for

gpioVars == <<task, network, buf, received, commands, answers, mode, output, rgb>>
clientVars == <<buf, received, commands, answers>>
ioVars == <<mode, output, rgb>>

Pins == OutputPins \cup ButtonPins
Room == GPIO_TCP_RX_BUF - 1

(***************************************************************************)
(* Commands.                                                               *)
(***************************************************************************)
pin_board_output_allowed(p) == p \in OutputPins
pin_board_input_allowed(p) == p \in Pins

ensure_output_pin(p, m) == [m EXCEPT ![p] = "output"]

\* Only a button is configured for reading.
ensure_input_pin(p, m) == IF p \in ButtonPins THEN [m EXCEPT ![p] = "input"] ELSE m

IsCommand(line) == \E i \in DOMAIN line : line[i].is # " "

\* The word sscanf finds, which takes a CR for a space.  What follows the
\* numbers of a command is ignored; what follows PING makes another word of it.
Command(line) ==
  LET at == SelectInSeq(line, LAMBDA c : c.is \notin {" ", "CR"})
  IN  IF at = 0 THEN [is |-> "nothing"]
      ELSE IF line[at].is = "PING" /\ at < Len(line) /\ line[at + 1].is \notin {" ", "CR"}
        THEN [is |-> "?"]
        ELSE line[at]

\* What a command does to the pins and the LED, and what is answered.
handle_command(c, s) ==
  CASE c.is = "nothing" -> [s EXCEPT !.answer = "ERR parse"]
    [] c.is = "PING" -> [s EXCEPT !.answer = "PONG"]
    [] c.is = "GET" ->
         IF pin_board_input_allowed(c.pin)
           THEN [s EXCEPT !.answer = "OK", !.mode = ensure_input_pin(c.pin, s.mode)]
           ELSE [s EXCEPT !.answer = "ERR denied"]
    [] c.is = "SET" ->
         IF c.level \notin {0, 1} THEN [s EXCEPT !.answer = "ERR usage"]
         ELSE IF pin_board_output_allowed(c.pin)
           THEN [s EXCEPT !.answer = "OK", !.mode = ensure_output_pin(c.pin, s.mode),
                          !.output[c.pin] = c.level]
           ELSE [s EXCEPT !.answer = "ERR denied"]
    [] c.is = "LED" ->
         [s EXCEPT !.answer = CASE Led = "works" -> "OK" [] Led = "fails" -> "ERR led"
                                [] OTHER -> "ERR led unavailable",
                   !.rgb = s.rgb \/ Led = "works"]
    [] OTHER -> [s EXCEPT !.answer = "ERR unknown"]

(***************************************************************************)
(* Lines.                                                                  *)
(***************************************************************************)
IsLineFeed(c) == c.is = "LF"
LineFeed(chars) == SelectInSeq(chars, IsLineFeed)
StripReturn(line) == IF line # <<>> /\ Last(line).is = "CR" THEN Front(line) ELSE line

\* How much of what came has been handled.
Handled == Len(received) - Len(buf)

handle_client_Recv(chunk) ==
  /\ task = "client" /\ chunk # <<>> /\ Len(chunk) <= Room - Len(buf)
  /\ task' = "lines"
  /\ buf' = buf \o chunk
  /\ received' = received \o chunk
  /\ UNCHANGED <<network, commands, answers, ioVars>>

\* Variant: what follows the first line is dropped with it.
Rest_Lost(nl) == <<>>

\* What follows the line that ends at nl.
Rest(nl) == SubSeq(buf, nl + 1, Len(buf))

\* strchr finds a line feed: the line is executed and answered, a blank one not.
handle_client_Line ==
  /\ task = "lines"
  /\ LET nl == LineFeed(buf)
         line == StripReturn(SubSeq(buf, 1, nl - 1))
     IN  /\ nl # 0
         /\ buf' = Rest(nl)
         /\ IF IsCommand(line)
              THEN LET s == handle_command(Command(line), [mode |-> mode, output |-> output,
                                                           rgb |-> rgb, answer |-> ""])
                   IN  /\ mode' = s.mode /\ output' = s.output /\ rgb' = s.rgb
                       /\ answers' = Append(answers, s.answer)
                       /\ commands' = Append(commands, [line |-> line, end |-> Handled + nl])
              ELSE UNCHANGED <<commands, answers, ioVars>>
  /\ UNCHANGED <<task, network, received>>

\* It finds none: the rest is kept for the next recv, unless it fills the buffer.
handle_client_Rest ==
  /\ task = "lines" /\ LineFeed(buf) = 0
  /\ task' = "client"
  /\ IF Len(buf) >= Room
       THEN answers' = Append(answers, "ERR line too long") /\ buf' = <<>>
       ELSE UNCHANGED <<answers, buf>>
  /\ UNCHANGED <<network, received, commands, ioVars>>

(***************************************************************************)
(* The task.                                                               *)
(***************************************************************************)
GpioInit ==
  /\ task = "wait" /\ network = FALSE
  /\ buf = <<>> /\ received = <<>> /\ commands = <<>> /\ answers = <<>>
  /\ mode = [p \in Pins |-> IF p = CHOOSE first \in OutputPins : TRUE
                            THEN "output" ELSE "reset"]
  /\ output = [p \in Pins |-> 0] /\ rgb = FALSE

NetworkChanges ==
  /\ network' = ~network
  /\ UNCHANGED <<task, clientVars, ioVars>>

gpio_tcp_task_Wait ==
  /\ task = "wait" /\ network /\ task' = "open"
  /\ UNCHANGED <<network, clientVars, ioVars>>

\* On a failure the task pauses and looks at the network again.
open_listen_socket ==
  /\ task = "open" /\ task' \in {"accept", "wait"}
  /\ UNCHANGED <<network, clientVars, ioVars>>

\* The loop's condition, the only place where the network is looked at again.
gpio_tcp_task_Check ==
  /\ task = "accept" /\ task' = IF network THEN "select" ELSE "wait"
  /\ UNCHANGED <<network, clientVars, ioVars>>

\* An error closes the socket; a timeout, or an accept that fails, does not.
gpio_tcp_task_Select ==
  /\ task = "select" /\ task' \in {"wait", "accept"}
  /\ UNCHANGED <<network, clientVars, ioVars>>

gpio_tcp_task_Accept ==
  /\ task = "select" /\ task' = "client"
  /\ answers' = <<"OK gpio-tcp ready">>
  /\ UNCHANGED <<network, buf, received, commands, ioVars>>

\* The client closes, or says nothing for 30 s; the buffer is gone with the call.
handle_client_End ==
  /\ task = "client" /\ task' = "accept"
  /\ buf' = <<>> /\ received' = <<>> /\ commands' = <<>> /\ answers' = <<>>
  /\ UNCHANGED <<network, ioVars>>

ReceivesSome ==
  \E n \in 1 .. MaxReceived - Len(received) :
    \E chunk \in [1 .. n -> Alphabet] : handle_client_Recv(chunk)

GpioNext ==
  \/ NetworkChanges \/ gpio_tcp_task_Wait \/ open_listen_socket \/ gpio_tcp_task_Check
  \/ gpio_tcp_task_Select \/ gpio_tcp_task_Accept
  \/ ReceivesSome \/ handle_client_Line \/ handle_client_Rest \/ handle_client_End
GpioSpec == GpioInit /\ [][GpioNext]_gpioVars

(***************************************************************************)
(* Properties.                                                             *)
(***************************************************************************)

LineFeeds(chars) == {i \in DOMAIN chars : IsLineFeed(chars[i])}

\* Where the line begins that position e is in, and what of it is before e.
LineStart(chars, e) == SelectLastInSubSeq(chars, 1, e - 1, IsLineFeed) + 1
LineBefore(chars, e) == SubSeq(chars, LineStart(chars, e), e - 1)

\* What is left of a line once the buffer was emptied each time it was full.
Kept(line) == StripReturn(SubSeq(line, Len(line) - (Len(line) % Room) + 1, Len(line)))

\* The line feeds that end a command, and the characters that filled the buffer.
CommandEnds(chars) == {e \in LineFeeds(chars) : IsCommand(Kept(LineBefore(chars, e)))}
Fillers(chars) ==
  {p \in DOMAIN chars \ LineFeeds(chars) : (p + 1 - LineStart(chars, p)) % Room = 0}

\* What is executed does not depend on how TCP cut the stream: it is the lines
\* the client sent, in order, each one once (of a line that filled the buffer,
\* what came after); every executed line and every full buffer was answered.
CommandsAreLines ==
  task = "client" =>
    /\ {commands[i].end : i \in DOMAIN commands} = CommandEnds(received)
    /\ \A i, j \in DOMAIN commands : i < j => commands[i].end < commands[j].end
    /\ \A i \in DOMAIN commands :
         commands[i].line = Kept(LineBefore(received, commands[i].end))
    /\ Len(answers) = 1 + Len(commands) + Cardinality(Fillers(received))

\* Not true of the code: a line that is too long is thrown away whole.  The
\* comment of handle_client says so (gpio_tcp_server.c:292), but what follows
\* the part that filled the buffer is executed as a command.
OverlongLineDiscarded ==
  \A i \in DOMAIN commands : Len(LineBefore(received, commands[i].end)) <= Room
=============================================================================
