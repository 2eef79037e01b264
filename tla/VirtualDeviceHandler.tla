------------------------- MODULE VirtualDeviceHandler -------------------------
(***************************************************************************)
(* VirtualDeviceHandler: which response a URB gets, as a function of the   *)
(* request and of the handler its interface has.  No state: CommandStream  *)
(* applies these answers.                                                  *)
(*                                                                         *)
(* An answer says how the URB is answered: "data" (the response carries    *)
(* the transfer), "no_data", "keep" (queued for later) or "none" (never);  *)
(* the status and length of the RET_SUBMIT; the lengths of its packets;    *)
(* and ec, whether the handler reports an error, which ends the session.   *)
(***************************************************************************)
EXTENDS Naturals, Sequences, FiniteSets

Ep0 == 0

CONSTANTS
  InterfaceHandlers, \* Seq of "hid", "cdc_comm", "cdc_data", "iso", "none"
  Endpoints,         \* [address -> [type, interface]], ep0 not among them
  ReportDescriptor,  \* length of the HID report descriptor
  Strings            \* lengths of the strings in the pool, by index

Interfaces == 1 .. Len(InterfaceHandlers)
ASSUME DeviceAssumption ==
  /\ InterfaceHandlers \in Seq(STRING)
  /\ Endpoints \in Seq([type : {"bulk", "interrupt", "isochronous"}, interface : Interfaces])
  /\ ReportDescriptor \in Nat /\ Strings \in Seq(Nat)
HasHandler(i) == InterfaceHandlers[i] # "none"
upTo(length, n) == IF n < length THEN n ELSE length

answer(how, status, n, ec) == [how |-> how, status |-> status, n |-> n, ec |-> ec]
no_data(status) == answer("no_data", status, 0, FALSE)
with_data(status, n) == answer("data", status, n, FALSE)
epipe == no_data("EPIPE")
broken == answer("no_data", "EPIPE", 0, TRUE)
keep == answer("keep", "OK", 0, FALSE)
none == answer("none", "OK", 0, FALSE)

\* A setup packet is [type, recipient, request, in, descriptor, value, index,
\* length]: the two bytes of wValue, the type of a descriptor and a number.
\* Without a data stage it is OUT, whatever its direction bit says.
is_out(setup) == ~setup.in \/ setup.length = 0

-----------------------------------------------------------------------------
(* Descriptors: their lengths.  An interface without a handler would be a    *)
(* null dereference in the configuration descriptor: no such request is made *)
(* of a device that has one (see the README).                                *)

class_specific_descriptor(kind) ==
  CASE kind = "hid" -> 9 [] kind = "cdc_comm" -> 19 [] OTHER -> 0
number_of(kind) == Cardinality({i \in Interfaces : InterfaceHandlers[i] = kind})
get_configuration_descriptor ==
  9 + 9 * Len(InterfaceHandlers) + 7 * Len(Endpoints)
    + number_of("hid") * class_specific_descriptor("hid")
    + number_of("cdc_comm") * class_specific_descriptor("cdc_comm")
get_string_descriptor(index) ==
  CASE index = 0 -> 4
    [] index \in DOMAIN Strings -> 2 * (Strings[index] + 1)
    [] OTHER -> 0   \* sets the status to EPIPE, which nobody reads
get_device_descriptor == 18
get_device_qualifier_descriptor == 10
get_bos_descriptor == 5
device_descriptor(setup) ==
  CASE setup.descriptor = "device" -> get_device_descriptor
    [] setup.descriptor = "qualifier" -> get_device_qualifier_descriptor
    [] setup.descriptor = "bos" -> get_bos_descriptor
    [] setup.descriptor = "configuration" -> get_configuration_descriptor
    [] setup.descriptor = "string" -> get_string_descriptor(setup.value)
    [] OTHER -> 0   \* other speed, custom

-----------------------------------------------------------------------------
(* Standard requests.  An IN request is answered OK, with what there is.     *)

device_request_out(setup) ==
  no_data(IF setup.request \in {"clear_feature", "set_address", "set_configuration",
                                "set_descriptor", "set_feature"} THEN "OK" ELSE "EPIPE")
device_request_in(setup) ==
  with_data("OK", CASE setup.request = "get_configuration" -> 1
                    [] setup.request = "get_descriptor" -> upTo(setup.length, device_descriptor(setup))
                    [] setup.request = "get_status" -> 2
                    [] OTHER -> 0)

\* What the handlers say to a request without data: HID accepts, CDC refuses.
request_status(kind, setup) ==
  CASE setup.request = "clear_feature" -> IF kind = "hid" THEN "OK" ELSE "EPIPE"
    [] setup.request = "set_feature" -> "EPIPE"
    [] setup.request = "set_interface" ->
         IF kind = "hid" \/ setup.value = 0 THEN "OK" ELSE "EPIPE"
    [] OTHER -> "OK"
interface_request_in(kind, setup) ==
  with_data("OK", CASE setup.request = "get_interface" -> 1
                    [] setup.request = "get_status" -> 2
                    [] setup.request = "get_descriptor" /\ kind = "hid" /\ setup.descriptor = "report" ->
                         upTo(setup.length, ReportDescriptor)
                    [] OTHER -> 0)
interface_request(setup) ==
  LET kind == InterfaceHandlers[setup.index]
  IN  IF ~HasHandler(setup.index) THEN broken
      ELSE IF is_out(setup) THEN no_data(request_status(kind, setup))
           ELSE interface_request_in(kind, setup)

\* Variant: a request to an interface that does not answer is left alone
endpoint_request_Silent(setup) ==
  IF setup.index \notin DOMAIN Endpoints THEN none
  ELSE LET i == Endpoints[setup.index].interface
       IN  IF ~HasHandler(i) \/ is_out(setup) THEN none
           ELSE with_data("OK", IF setup.request = "get_status" THEN 2 ELSE 0)
\* wIndex is the address of the endpoint, 0x00 or 0x80 for endpoint 0, which is
\* found but belongs to no interface.  A request to an endpoint the device does
\* not have gets no response at all.
endpoint_request(setup) ==
  IF setup.index = Ep0 THEN broken
  ELSE IF setup.index \notin DOMAIN Endpoints THEN none
  ELSE LET i == Endpoints[setup.index].interface
       IN  IF ~HasHandler(i) THEN broken
           ELSE IF is_out(setup) THEN no_data(request_status(InterfaceHandlers[i], setup))
                ELSE with_data("OK", IF setup.request = "get_status" THEN 2 ELSE 0)

-----------------------------------------------------------------------------
(* Class and vendor requests.                                                *)

\* HID: no handler but the subclass's knows a report; the defaults refuse, and
\* a refused IN request is answered OK, without data.
hid_class_request(setup) ==
  IF is_out(setup) THEN epipe
  ELSE with_data("OK", IF setup.request = "get_protocol" THEN 1 ELSE 0)
cdc_comm_class_request(setup) ==
  IF is_out(setup)
  THEN no_data(IF setup.request \in {"set_line_coding", "set_control_line_state", "send_break"}
               THEN "OK" ELSE "EPIPE")
  ELSE IF setup.request = "get_line_coding" THEN with_data("OK", upTo(setup.length, 7))
       ELSE with_data("EPIPE", 0)
non_standard_interface_request(setup) ==
  LET kind == InterfaceHandlers[setup.index]
  IN  CASE kind = "none" -> broken
        [] kind = "hid" /\ setup.type = "class" -> hid_class_request(setup)
        [] kind = "cdc_comm" /\ setup.type = "class" -> cdc_comm_class_request(setup)
        [] OTHER -> epipe
\* To an endpoint, wIndex is read as the number of an interface all the same.
non_standard_endpoint_request(setup) ==
  IF HasHandler(setup.index) THEN epipe ELSE broken

handle_control_urb(setup) ==
  CASE setup.recipient = "other" -> epipe
    [] setup.type = "standard" /\ setup.recipient = "device" ->
         IF is_out(setup) THEN device_request_out(setup) ELSE device_request_in(setup)
    [] setup.type = "standard" /\ setup.recipient = "interface" -> interface_request(setup)
    [] setup.type = "standard" /\ setup.recipient = "endpoint" -> endpoint_request(setup)
    [] setup.type # "standard" /\ setup.recipient = "device" -> epipe
    [] setup.type # "standard" /\ setup.recipient = "interface" -> non_standard_interface_request(setup)
    [] setup.type # "standard" /\ setup.recipient = "endpoint" -> non_standard_endpoint_request(setup)

-----------------------------------------------------------------------------
(* Data transfers.                                                           *)

handle_bulk_transfer(kind, cmd) ==
  CASE kind = "cdc_data" /\ cmd.in -> keep
    [] kind = "cdc_data" /\ ~cmd.in -> answer("no_data", "OK", cmd.length, FALSE)
    [] OTHER -> epipe
handle_interrupt_transfer(kind, cmd) ==
  CASE kind \in {"hid", "cdc_comm"} /\ cmd.in -> keep
    [] kind = "hid" /\ ~cmd.in -> answer("no_data", "OK", cmd.length, FALSE)
    [] OTHER -> epipe
\* No handler of the library overrides this one; "iso" stands for one that does.
handle_isochronous_transfer(kind, cmd) == IF kind = "iso" /\ cmd.in THEN keep ELSE epipe

dispatch_urb(cmd) ==
  IF cmd.ep = Ep0 THEN handle_control_urb(cmd.setup)
  ELSE LET ep == Endpoints[cmd.ep]
           kind == InterfaceHandlers[ep.interface]
       IN  CASE ep.type = "bulk" -> handle_bulk_transfer(kind, cmd)
             [] ep.type = "interrupt" -> handle_interrupt_transfer(kind, cmd)
             [] ep.type = "isochronous" -> handle_isochronous_transfer(kind, cmd)

\* The next interface whose handler is told of a new connection, of the end of
\* one or of an unlink; 0 after the last.
NextHandler(after) ==
  LET later == {i \in Interfaces : i > after /\ HasHandler(i)}
  IN  IF later = {} THEN 0 ELSE CHOOSE i \in later : \A j \in later : i <= j
=============================================================================
