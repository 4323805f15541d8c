------------------------------- MODULE Frames -------------------------------
(***************************************************************************)
(* The two protocol adapters as functions on sequences of bytes: the CRC,  *)
(* the read request, the validation of a response in the order of the code *)
(* and the readings parsed from it.  A concentration keeps the registers   *)
(* it is computed from: no property depends on its decimal value.          *)
(***************************************************************************)
EXTENDS Integers, Sequences, SequencesExt, Bitwise

CONSTANT NoValue     \* Python's None

Modes == {"protocol_1", "protocol_2"}
Sources == {"probe", "controller"}

Low(word) == word % 256
High(word) == word \div 256
Bytes(word) == <<High(word), Low(word)>>

(***************************************************************************)
(* CRC16.                                                                  *)
(***************************************************************************)
Bit(word, i) == (word \div 2^i) % 2
Toggled(word, i) == IF Bit(word, i) = 1 THEN word - 2^i ELSE word + 2^i

\* The polynomial 16#A001 has the bits 15, 13 and 0.
Shifted(crc) ==
    IF crc % 2 = 1 THEN Toggled(Toggled(Toggled(crc \div 2, 15), 13), 0)
    ELSE crc \div 2

EightBits(crc) ==
    Shifted(Shifted(Shifted(Shifted(Shifted(Shifted(Shifted(Shifted(crc))))))))

RECURSIVE CrcOf(_, _)
CrcOf(crc, payload) ==
    IF crc \in 0..65535 /\ payload # <<>>
    THEN CrcOf(EightBits(crc ^^ Head(payload)), Tail(payload)) ELSE crc

compute_modbus_crc16(payload) == CrcOf(65535, payload)

format_crc16(crc, mode) ==
    IF mode = "protocol_1" THEN <<High(crc), Low(crc)>> ELSE <<Low(crc), High(crc)>>

append_crc16(payload, mode) ==
    payload \o format_crc16(compute_modbus_crc16(payload), mode)

\* Mutant: only the last byte is compared.
BugCheckCrc(frame, mode) ==
    frame[Len(frame)] = append_crc16(SubSeq(frame, 1, Len(frame) - 2), mode)[Len(frame)]

check_frame_crc(frame, mode) ==
    frame = append_crc16(SubSeq(frame, 1, Len(frame) - 2), mode)

(***************************************************************************)
(* The read request.                                                       *)
(***************************************************************************)
READ_HOLDING_REGISTERS == 3
PerDetector(mode) == IF mode = "protocol_1" THEN 2 ELSE 4

Protocol1Range(command) ==
    command.source = "controller" =>
        command.count <= 20 /\ command.count % 2 = 0 /\ command.start % 2 = 0

Protocol2Range(command) ==
    command.count <= 124 /\ command.count % 4 = 0 /\ command.start % 4 = 0

_validate_register_range(command) ==
    /\ command.start >= 0 /\ command.count >= 1
    /\ command.start + command.count <= 65536
    /\ IF command.mode = "protocol_1" THEN Protocol1Range(command) ELSE Protocol2Range(command)

Question(command) ==
    <<command.unit, READ_HOLDING_REGISTERS>> \o Bytes(command.start) \o Bytes(command.count)

Protocol1Request(command) == append_crc16(Question(command), "protocol_1")
Protocol2Request(command) == append_crc16(Question(command), "protocol_2")

build_read_request(command) ==
    IF command.mode = "protocol_1" THEN Protocol1Request(command) ELSE Protocol2Request(command)

(***************************************************************************)
(* What the port worker reads of a target: all of a probe, or the          *)
(* registers a controller keeps for the detector of that number.           *)
(***************************************************************************)
PROTOCOL_1_PROBE_REGISTER_COUNT == 15

Protocol1Target(source, target) ==
    [mode |-> "protocol_1", source |-> source,
     unit |-> IF source = "probe" THEN target.detector ELSE target.controller,
     start |-> IF source = "probe" THEN 0 ELSE (target.detector - 1) * PerDetector("protocol_1"),
     count |-> IF source = "probe" THEN PROTOCOL_1_PROBE_REGISTER_COUNT ELSE PerDetector("protocol_1")]

\* Mutant: detectors are numbered from 0.
BugTarget(source, target) ==
    [mode |-> "protocol_2", source |-> source,
     unit |-> IF source = "probe" THEN target.detector ELSE target.controller,
     start |-> IF source = "probe" THEN 0 ELSE target.detector * PerDetector("protocol_2"),
     count |-> PerDetector("protocol_2")]

Protocol2Target(source, target) ==
    [mode |-> "protocol_2", source |-> source,
     unit |-> IF source = "probe" THEN target.detector ELSE target.controller,
     start |-> IF source = "probe" THEN 0 ELSE (target.detector - 1) * PerDetector("protocol_2"),
     count |-> PerDetector("protocol_2")]

_request_for_target(mode, source, target) ==
    IF mode = "protocol_1" THEN Protocol1Target(source, target) ELSE Protocol2Target(source, target)

(***************************************************************************)
(* The statuses a register stands for: <<DeviceStatus, alarm_level>>.      *)
(***************************************************************************)
TopAlarmBit(bits) == CHOOSE n \in 1..4 : /\ (bits \div 2^(n - 1)) % 2 = 1
                                         /\ bits < 2^n

_probe_status(state) ==
    CASE (state \div 128) % 2 = 1 -> <<"invalid", NoValue>>
      [] (state \div 64) % 4 = 1  -> <<"warming", NoValue>>
      [] (state \div 32) % 8 = 1  -> <<"fault", NoValue>>
      [] state < 32 /\ state % 16 # 0 ->
           <<IF state \div 16 = 1 THEN "alarm_high" ELSE "alarm_low",
             TopAlarmBit(state % 16)>>
      [] state < 32 /\ state % 16 = 0 -> <<"normal", NoValue>>

_controller_status == <<<<"normal", NoValue>>, <<"fault", NoValue>>, <<"alarm_low", 1>>>>

_STATUS_MAP == <<<<"offline", NoValue>>, <<"fault", NoValue>>, <<"normal", NoValue>>,
                 <<"alarm_low", 1>>, <<"alarm_high", 2>>, <<"over_range", NoValue>>>>

\* 1 000 000.0 as a float32; the magnitude of a float grows with its bits, and
\* infinities and NaNs lie above.
MaxConcentration == 1232348160
_valid_concentration(high, low) == (high % 32768) * 65536 + low <= MaxConcentration

(***************************************************************************)
(* validate_response: the first check that fails names the result.         *)
(***************************************************************************)
_registers(response) ==
    [i \in 1..((Len(response) - 5) \div 2) |->
        256 * response[2 * i + 2] + response[2 * i + 3]]

\* The detector blocks of a response: sequences of PerDetector registers.
Blocks(response, mode) ==
    LET registers == _registers(response)
        per == PerDetector(mode)
    IN [k \in 1..(Len(registers) \div per) |->
           SubSeq(registers, (k - 1) * per + 1, k * per)]

_validate_response_base(command, response) ==
    CASE response = <<>> -> "empty_response"
      [] response # <<>> /\ Len(response) < 5 -> "length_mismatch"
      [] OTHER ->
           IF response[1] # command.unit THEN "address_mismatch"
           ELSE IF response[2] # READ_HOLDING_REGISTERS THEN "function_mismatch"
           ELSE IF ~check_frame_crc(response, command.mode) THEN "crc_mismatch"
           ELSE IF \/ Len(response) # 5 + response[3]
                   \/ response[3] # 2 * command.count
                THEN "length_mismatch" ELSE "ok"

\* Mutant: a known status is taken for unknown.
BugBlockError(command, block) == IF block[1] \in 0..1 THEN "ok" ELSE "unknown_status"

BlockError(command, block) ==
    IF command.mode = "protocol_1"
    THEN IF block[1] \in 0..2 THEN "ok" ELSE "unknown_status"
    ELSE IF block[1] \notin 0..5 THEN "unknown_status"
    ELSE IF block[2] \notin 0..4 \/ ~_valid_concentration(block[3], block[4])
    THEN "invalid_data" ELSE "ok"

validate_response(command, response) ==
    LET base == _validate_response_base(command, response)
        errors == SelectSeq([k \in DOMAIN Blocks(response, command.mode) |->
                                BlockError(command, Blocks(response, command.mode)[k])],
                            LAMBDA e : e # "ok")
    IN IF base # "ok" \/ (command.mode = "protocol_1" /\ command.source = "probe")
       THEN base
       ELSE IF errors = <<>> THEN "ok" ELSE errors[1]

(***************************************************************************)
(* parse_response, of a response that is valid.                            *)
(***************************************************************************)
Register(registers, i) == IF i <= Len(registers) THEN registers[i] ELSE 0

_parse_probe(command, response) ==
    LET registers == _registers(response)
        places == High(Register(registers, 4))
        status == _probe_status(High(Register(registers, 2)))
        invalid == places > 6 \/ status[1] = "invalid"
    IN [detector |-> command.unit,
        status |-> IF invalid THEN <<"invalid", NoValue>> ELSE status,
        value |-> IF invalid THEN <<>> ELSE <<registers[1], places>>]

_parse_block(command, block, k) ==
    LET number == command.start \div PerDetector(command.mode) + k
    IN [detector |-> IF command.source = "controller" THEN number ELSE command.unit,
        status |-> IF command.mode = "protocol_1" THEN _controller_status[block[1] + 1]
                   ELSE _STATUS_MAP[block[1] + 1],
        value |-> IF command.mode = "protocol_1" THEN <<block[2]>>
                  ELSE <<block[3], block[4], block[2]>>]

parse_response(command, response) ==
    IF command.mode = "protocol_1" /\ command.source = "probe"
    THEN <<_parse_probe(command, response)>>
    ELSE [k \in DOMAIN Blocks(response, command.mode) |->
             _parse_block(command, Blocks(response, command.mode)[k], k)]
=============================================================================
