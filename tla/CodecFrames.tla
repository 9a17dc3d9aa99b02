------------------------------ MODULE CodecFrames ------------------------------
(***************************************************************************)
(* The drivers' decoders and encoder (SensorCodecs) applied to every frame *)
(* a device may answer, from sets of sample field values: each state is    *)
(* one transaction, `frame` the fields the chip put on the bus, and each   *)
(* step is the next transaction, with any other frame.                     *)
(***************************************************************************)
EXTENDS SensorCodecs, Scd30, SensirionCrc

CONSTANTS Codes20,     \* sample 20-bit AHT10 humidity/temperature codes
          Words,       \* sample 16-bit words (SGP30, SCD30)
          FixedPoints  \* sample floor(ah_gm3 * 256) values sgp30_set_humidity gets

ASSUME /\ Codes20 \subseteq 0..(2^20 - 1)
       /\ Words \subseteq 0..(2^16 - 1)
       /\ FixedPoints \subseteq Nat

VARIABLE frame

\* The SCD30 commands with an argument word, in the order scd30_init sends them.
Scd30ArgCommands ==
    <<Scd30CmdTriggerContinuousMeasurement, Scd30CmdSetMeasurementIntervalToMin>>

Frames ==
    {[dev |-> "aht10", a |-> h, b |-> t] : h, t \in Codes20}
    \cup {[dev |-> "sgp30", a |-> e, b |-> v] : e, v \in Words}
    \cup {[dev |-> "scd30", a |-> w, b |-> 0] : w \in Words}
    \cup {[dev |-> "sgp30_humidity", a |-> q, b |-> 0] : q \in FixedPoints}
    \cup {[dev |-> "scd30_cmd", a |-> k, b |-> 0] : k \in DOMAIN Scd30ArgCommands}
    \cup {[dev |-> "scd30_ready", a |-> w, b |-> c] : w \in Words, c \in 0..255}

\* The status byte and CRC bytes that go with a frame: the driver ignores
\* them for the values, so any fixed bytes do.
StatusByte == 8
Crc(i) == 16 + i

\* The six words of an SCD30 measurement frame: word 1 is `a`, and the
\* others differ from it and from each other.
Scd30Words(f) == [j \in 1..6 |-> (f.a + 7 * (j - 1)) % 2^16]

Init == frame \in Frames
Next == frame' \in Frames
Spec == Init /\ [][Next]_frame

-----------------------------------------------------------------------------
(* aht10_read_measurement recovers the 20-bit humidity and temperature     *)
(* codes from the packed 6-byte frame, shifts and masks included.          *)
Aht10DecodeMatchesLayout ==
    frame.dev = "aht10" =>
        LET buf == Aht10Frame(StatusByte, frame.a, frame.b)
        IN  Aht10RawHumidity(buf) = frame.a /\ Aht10RawTemperature(buf) = frame.b

(* sgp30_read_air_quality takes eCO2 from the first RawWord and TVOC from  *)
(* the second, each with its own CRC byte.                                 *)
Sgp30DecodeMatchesLayout ==
    frame.dev = "sgp30" =>
        Sgp30AirQuality(Sgp30Frame(frame.a, frame.b, Crc(1), Crc(2)))
            = [eco2 |-> frame.a, eco2Crc |-> Crc(1),
               tvoc |-> frame.b, tvocCrc |-> Crc(2)]

(* scd30_read_measurement takes CO2, temperature and humidity each from   *)
(* two consecutive words of the answer, high word first, skipping the CRC  *)
(* bytes: words 1-2, 3-4 and 5-6 of the frame.                             *)
Scd30MeasurementMatchesLayout ==
    frame.dev = "scd30" =>
        LET w == Scd30Words(frame)
            data == Scd30Frame(w, [j \in 1..6 |-> Crc(j)])
        IN  Scd30MeasurementBits(data)
                = [co2 |-> w[1] * 2^16 + w[2], temp |-> w[3] * 2^16 + w[4],
                   rh |-> w[5] * 2^16 + w[6]]

(* sgp30_set_humidity sends the absolute humidity it was given: the 8.8    *)
(* fixed-point argument, high byte then low byte, reads back as            *)
(* floor(ah_gm3 * 256), or as the largest argument 0xFFFF when that is     *)
(* beyond the two bytes: a humidity above the range is never sent as a     *)
(* smaller one.                                                            *)
HumidityArgMatches ==
    frame.dev = "sgp30_humidity" =>
        LET cmd == Sgp30SetHumidityCmd(frame.a)
            top == 2^16 - 1
        IN  /\ cmd[1] = 32 /\ cmd[2] = 97
            /\ cmd[3] * 2^8 + cmd[4] = IF frame.a > top THEN top ELSE frame.a

(* The checksums scd30.c writes by hand into its two commands with an      *)
(* argument (trigger continuous measurement, set interval to minimum) are  *)
(* the Sensirion CRC-8 of that argument word; the SCD30 rejects a command  *)
(* whose checksum is wrong, and scd30_init then fails on every retry.      *)
CommandChecksumsValid ==
    frame.dev = "scd30_cmd" =>
        LET cmd == Scd30ArgCommands[frame.a]
        IN  cmd[5] = WordCrc(cmd[3] * 2^8 + cmd[4])

(* scd30_get_data_ready_status reports ready exactly when the device says  *)
(* 1 in a word whose checksum is valid: for every word and checksum byte   *)
(* the chip (or a corrupted bus) may answer, the literal 0xB0 compared     *)
(* with SCD30_GET_CRC accepts the valid answer 0x0001 and nothing else.    *)
ReadyIffValidOne ==
    frame.dev = "scd30_ready" =>
        (DataReady(frame.a, frame.b) <=> (frame.a = 1 /\ frame.b = WordCrc(frame.a)))
=============================================================================
