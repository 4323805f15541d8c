---------------------------- MODULE DeviceDebug ----------------------------
(***************************************************************************)
(* The device debugging page, DeviceDebugExecutor and DeviceDebugService:  *)
(* one read at a time over a channel of its own, on the thread that clicks.*)
(* What answers is the world: a detector or a controller that keeps its    *)
(* registers as its protocol says, and a line that may damage the answer.  *)
(* The service's adapter factory lives as long as the program.             *)
(* The port worker asks the same devices over the same lines, by requests  *)
(* it makes of the configured addresses.                                   *)
(***************************************************************************)
EXTENDS Frames, FiniteSetsExt

CONSTANTS Commands,      \* the reads the page's form is filled in with
          Targets,       \* the configured addresses the port worker polls
          Devices,       \* what may be at the other end: see Memory
          Flips,         \* the bits of an answer the line may flip
          MaxExchanges   \* answered reads in a behaviour

ASSUME DeviceDebugAssumption ==
    /\ Commands \subseteq [mode : Modes, source : Sources, unit : 0..255,
                           start : Nat, count : Nat]
    /\ Targets \subseteq [detector : 1..255, controller : 1..255]
    /\ \A d \in Devices : /\ d.mode \in Modes /\ d.source \in Sources
                          /\ d.unit \in 1..255
    /\ Flips \subseteq Nat /\ MaxExchanges \in Nat

VARIABLES
    locked,      \* ProtocolAdapterFactory._locked_mode
    enabled,     \* the form's port is configured and enabled
    page,        \* the page: the read last asked of it, badge, request, readings
    last,        \* the answered read the page shows: its command, the kind of device and
                 \* what it meant, whether the answer arrived as it was sent
    polled,      \* the poll just made, if any: its target, what the device there said, the
                 \* readings made of the answer, whether it arrived as it was sent
    exchanges    \* answered reads and polls so far

vars == <<locked, enabled, page, last, polled, exchanges>>

Nothing == [form |-> NoValue, badge |-> "none", request |-> <<>>, readings |-> <<>>]
NoPoll == [target |-> NoValue, said |-> NoValue, readings |-> <<>>, intact |-> FALSE]
NoExchange == [command |-> NoValue, source |-> NoValue, meaning |-> <<>>, intact |-> TRUE]

(***************************************************************************)
(* The device, from the protocol documents the adapters' comments quote.   *)
(* Its CRC is the remainder of the message, least significant bits first,  *)
(* as a polynomial over GF(2), by x^16 + x^15 + x^2 + 1.                   *)
(***************************************************************************)
Divided(remainder, bit) ==
    LET doubled == (2 * remainder) % 65536
    IN IF Bit(remainder, 15) = bit THEN doubled
       ELSE Toggled(Toggled(Toggled(doubled, 15), 2), 0)

RECURSIVE RemainderAfter(_, _, _)
RemainderAfter(remainder, payload, i) ==
    IF remainder \in 0..65535 /\ i < 8 * Len(payload)
    THEN RemainderAfter(Divided(remainder, Bit(payload[i \div 8 + 1], i % 8)), payload, i + 1)
    ELSE remainder

Mirrored(word) == SumSet({2^(15 - e) : e \in {i \in 0..15 : Bit(word, i) = 1}})

Remainder(payload) == Mirrored(RemainderAfter(65535, payload, 0))

DeviceCrc(payload, mode) ==
    LET crc == Remainder(payload)
    IN IF mode = "protocol_1" THEN Bytes(crc) ELSE <<Low(crc), High(crc)>>

StateByte == [normal |-> 0, warming |-> 64, fault |-> 32, alarm_low |-> 1,
              alarm_high |-> 20, invalid |-> 128]
ControllerCode == [normal |-> 0, fault |-> 1, alarm_low |-> 2]
StatusCode == [offline |-> 0, fault |-> 1, normal |-> 2, alarm_low |-> 3,
               alarm_high |-> 4, over_range |-> 5]

\* The registers of one detector: 15 for a protocol 1 detector asked directly.
BlockOf(device, status) ==
    IF device.mode = "protocol_2" THEN <<StatusCode[status], 2, 16968, 0>>
    ELSE IF device.source = "controller" THEN <<ControllerCode[status], 50>>
    ELSE <<505, 256 * StateByte[status], 1, 256>> \o [i \in 1..11 |-> 0]

Memory(device) ==
    FlattenSeq([k \in DOMAIN device.statuses |-> BlockOf(device, device.statuses[k])])

\* The device answers a request for registers it has, with its own address and
\* a CRC it finds right; otherwise it keeps quiet.
Heard(device, command) ==
    LET request == build_read_request(command)
    IN /\ command.unit = device.unit
       /\ command.start + command.count <= Len(Memory(device))
       /\ SubSeq(request, 7, 8) = DeviceCrc(SubSeq(request, 1, 6), device.mode)

Reply(device, command, unit) ==
    LET words == SubSeq(Memory(device), command.start + 1, command.start + command.count)
        payload == <<unit, READ_HOLDING_REGISTERS, 2 * command.count>>
                       \o FlattenSeq([i \in DOMAIN words |-> Bytes(words[i])])
    IN payload \o DeviceCrc(payload, device.mode)

\* What the line delivers instead: a frame with one bit flipped, one that lost
\* its end, the CRC's bytes the other way round, the answer of another unit,
\* or the request itself.
Flipped(frame, bit) ==
    [i \in DOMAIN frame |->
        IF i = bit \div 8 + 1 THEN Toggled(frame[i], bit % 8) ELSE frame[i]]

Arrivals(device, command) ==
    LET frame == Reply(device, command, device.unit)
        n == Len(frame)
    IN {frame, <<>>, SubSeq(frame, 1, 4), SubSeq(frame, 1, n - 1),
        SubSeq(frame, 1, n - 2) \o <<frame[n], frame[n - 1]>>,
        Reply(device, command, device.unit + 1),
        build_read_request(command)}
       \union {Flipped(frame, bit) : bit \in {b \in Flips : b < 8 * n}}

(***************************************************************************)
(* The page and the service.                                               *)
(***************************************************************************)
validate_inputs(command) == command.unit # 0 /\ _validate_register_range(command)

\* get_adapter: the first mode asked for is kept.
get_adapter(mode) == locked \in {NoValue, mode} /\ locked' = mode

\* The results of an exchange: the readings, and whether an error is named.
_diagnostic == [readings |-> <<>>, error |-> TRUE]
_result_from_channel_failure == [readings |-> <<>>, error |-> TRUE]
_result_from_validation(command, response) ==
    LET ok == validate_response(command, response) = "ok"
    IN [readings |-> IF ok THEN parse_response(command, response) ELSE <<>>, error |-> ~ok]

\* _show_result: green for readings, red for an error, else neither.
Shows(command, result) ==
    page' = [form |-> command,
             badge |-> IF result.readings # <<>> THEN "ok" ELSE IF result.error THEN "error" ELSE "warning",
             request |-> build_read_request(command),
             readings |-> result.readings]

Init ==
    /\ locked = NoValue
    /\ enabled \in BOOLEAN
    /\ page = Nothing
    /\ last = NoExchange /\ polled = NoPoll
    /\ exchanges = 0

generate_request(command) ==
    /\ validate_inputs(command)
    /\ get_adapter(command.mode)
    /\ Shows(command, [readings |-> <<>>, error |-> FALSE])
    /\ last' = NoExchange /\ polled' = NoPoll
    /\ UNCHANGED <<enabled, exchanges>>

\* While a read is sent the badge says 等待响应.
set_sending(command) == [page EXCEPT !.form = command, !.badge = "waiting"]

\* Without the permission, or with a mode that is not the locked one, the
\* service fails: the page says so in its banner, and its badge stays as it is
\* while a read is sent, beside what an earlier read has left.
SendRefused(command) ==
    /\ validate_inputs(command)
    /\ page' = set_sending(command)
    /\ polled' = NoPoll
    /\ UNCHANGED <<locked, enabled, last, exchanges>>

\* The port is not configured or enabled, or its channel does not open.
NotSent(command) ==
    /\ validate_inputs(command)
    /\ get_adapter(command.mode)
    /\ Shows(command, _diagnostic)
    /\ last' = NoExchange /\ polled' = NoPoll
    /\ UNCHANGED <<enabled, exchanges>>

\* Sent, and nothing comes back.
Unanswered(command) ==
    /\ validate_inputs(command)
    /\ enabled
    /\ get_adapter(command.mode)
    /\ Shows(command, _result_from_channel_failure)
    /\ last' = NoExchange /\ polled' = NoPoll
    /\ UNCHANGED <<enabled, exchanges>>

send_read(command, device, response) ==
    /\ validate_inputs(command)
    /\ enabled
    /\ exchanges < MaxExchanges
    /\ get_adapter(command.mode)
    /\ Shows(command, _result_from_validation(command, response))
    /\ last' = [command |-> command, source |-> device.source,
                meaning |-> device.statuses,
                intact |-> response = Reply(device, command, device.unit)]
    /\ exchanges' = exchanges + 1
    /\ polled' = NoPoll
    /\ UNCHANGED enabled

\* poll_once of the port worker: the answer of one target.  Readings of an invalid
\* status are left out.
poll_once(device, target, response) ==
    LET request == _request_for_target(device.mode, device.source, target)
        readings == IF validate_response(request, response) = "ok"
                    THEN parse_response(request, response) ELSE <<>>
    IN  /\ polled' = [target |-> target,
                      said |-> device.statuses[IF device.source = "probe" THEN 1 ELSE target.detector],
                      readings |-> SelectSeq(readings, LAMBDA r : r.status[1] # "invalid"),
                      intact |-> response = Reply(device, request, device.unit)]
        /\ exchanges' = exchanges + 1
        /\ UNCHANGED <<locked, enabled, page, last>>

TogglePort ==
    /\ enabled' = ~enabled
    /\ polled' = NoPoll
    /\ UNCHANGED <<locked, page, last, exchanges>>

\* Another program: another factory, another page.
RestartProgram ==
    /\ locked' = NoValue
    /\ page' = Nothing
    /\ last' = NoExchange /\ polled' = NoPoll
    /\ UNCHANGED <<enabled, exchanges>>

\* The worker and the page share no state here, so a poll is explored only beside
\* a page that has not been used since the program started.
Next ==
    \/ \E command \in Commands : generate_request(command)
    \/ \E command \in Commands : SendRefused(command)
    \/ \E command \in Commands : NotSent(command)
    \/ \E command \in Commands : Unanswered(command)
    \/ \E command \in Commands, device \in Devices :
          /\ exchanges < MaxExchanges /\ locked \in {NoValue, command.mode} /\ enabled
          /\ validate_inputs(command)
          /\ Heard(device, command)
          /\ \E response \in Arrivals(device, command) :
                send_read(command, device, response)
    \/ \E device \in Devices, target \in Targets :
          LET request == _request_for_target(device.mode, device.source, target)
          IN  /\ exchanges < MaxExchanges /\ page = Nothing
              /\ _validate_register_range(request) /\ Heard(device, request)
              /\ \E response \in Arrivals(device, request) : poll_once(device, target, response)
    \/ TogglePort
    \/ RestartProgram

Spec == Init /\ [][Next]_vars

(***************************************************************************)
(* What is claimed.                                                        *)
(***************************************************************************)
\* The type of every variable.
TypeOK ==
    /\ locked \in Modes \union {NoValue}
    /\ enabled \in BOOLEAN
    /\ page.form \in Commands \union {NoValue}
    /\ page.badge \in {"none", "waiting", "ok", "error", "warning"}
    /\ page.request \in Seq(0..255)
    /\ \A k \in DOMAIN page.readings : page.readings[k].detector \in 1..255
    /\ last.command \in Commands \union {NoValue}
    /\ last.intact \in BOOLEAN
    /\ exchanges \in 0..MaxExchanges

\* The form names the kind of device that is there (nothing in an answer tells)
\* and, for a protocol 1 detector, asks for its registers from the first one to
\* the decimal places: the parser takes what it gets to be these.
Meaningful ==
    /\ last.command # NoValue
    /\ last.source = last.command.source
    /\ last.command.mode = "protocol_1" /\ last.command.source = "probe" =>
           last.command.start = 0 /\ last.command.count >= 4

\* A green result shows, for every detector the form asked for and for no
\* other, the status that detector was in: register by register, byte by byte.
ReadingsAreGenuine ==
    page.badge = "ok" /\ Meaningful =>
        LET number(k) == IF last.command.source = "probe" THEN 1
                         ELSE last.command.start \div PerDetector(last.command.mode) + k
            asked == IF last.command.source = "probe" THEN 1
                     ELSE last.command.count \div PerDetector(last.command.mode)
        IN  /\ Len(page.readings) = asked
            /\ \A k \in DOMAIN page.readings :
                  /\ page.readings[k].status[1] = last.meaning[number(k)]
                  /\ page.readings[k].detector = IF last.command.source = "probe"
                                                 THEN last.command.unit ELSE number(k)

\* An answer the line has damaged never turns green, whatever the damage did
\* to the address, the length, the data or the CRC.
DamageYieldsNothing == page.badge = "ok" => last.intact

\* An answer that arrives as it was sent is never refused, in either protocol:
\* the adapter and the device agree on lengths, order of bytes and CRC.
IntactIsRead ==
    [][exchanges' = exchanges + 1 /\ UNCHANGED polled /\ last'.intact /\ Meaningful'
          => page'.badge = "ok"]_vars

\* The request the page shows is a frame that a device of the chosen protocol
\* takes: its last two bytes are the remainder of the rest.
RequestIsSound ==
    page.request # <<>> =>
        /\ Len(page.request) = 8
        /\ locked # NoValue
        /\ SubSeq(page.request, 7, 8) = DeviceCrc(SubSeq(page.request, 1, 6), locked)

\* What a poll stores is one reading, of the configured detector, with the status the
\* device has; and an answer that arrives as it was sent is stored, unless the device
\* says of itself that it is invalid.
PolledAsConfigured ==
    [][polled' # polled /\ polled' # NoPoll =>
          /\ \A k \in DOMAIN polled'.readings :
                /\ k = 1 /\ polled'.intact
                /\ polled'.readings[k].detector = polled'.target.detector
                /\ polled'.readings[k].status[1] = polled'.said
          /\ polled'.intact /\ polled'.said # "invalid" => polled'.readings # <<>>]_vars

\* Green is about the read last handed to the service: one that is refused there, or
\* cannot be sent, does not leave the green badge of an earlier one standing.  A click
\* on inputs the page itself refuses (validate_inputs) asks nothing and changes nothing
\* here: the badge of the earlier read stays, beside a hint at the field.
GreenIsForTheForm == page.badge = "ok" => page.form = last.command

\* What a green page shows is what the devices said and nothing the line made up, and
\* it is about the read last handed to the service.
GreenIsTrue == TypeOK /\ ReadingsAreGenuine /\ DamageYieldsNothing /\ GreenIsForTheForm

\* Page, worker and device understand each other: sound requests, intact answers read,
\* polls of what was configured.
LineUnderstood == []RequestIsSound /\ IntactIsRead /\ PolledAsConfigured
=============================================================================
