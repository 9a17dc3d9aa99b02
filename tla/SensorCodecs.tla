----------------------------- MODULE SensorCodecs -----------------------------
(***************************************************************************)
(* The byte-level codecs of the three drivers: how each decodes the bytes  *)
(* its chip answers and encodes the argument it sends, as the drivers'     *)
(* shift-and-mask expressions, next to reference frames built from the     *)
(* layouts of spec section 4.1.  Buffers are sequences of byte values;     *)
(* C's buf[k] is buf[k+1] here.                                            *)
(***************************************************************************)
EXTENDS Naturals, Sequences, Bitwise

Shl(x, n) == x * 2^n   \* `x << n` on a value that does not overflow

-----------------------------------------------------------------------------
(* Decoders and encoders, as the drivers compute them.                     *)

\* Mutant: the low nibble taken from buf[3] without its shift.
Aht10RawHumidityNoLowShift(buf) ==
    Shl(buf[2], 12) | Shl(buf[3], 4) | buf[4]

\* aht10_read_measurement: rawHumidityReading = buf[1] << 12 | buf[2] << 4
\* | buf[3] >> 4.
Aht10RawHumidity(buf) ==
    Shl(buf[2], 12) | Shl(buf[3], 4) | shiftR(buf[4], 4)

\* rawTemperatureReading = (buf[3] & 0xF) << 16 | buf[4] << 8 | buf[5].
Aht10RawTemperature(buf) ==
    Shl(buf[4] & 15, 16) | Shl(buf[5], 8) | buf[6]

\* Mutant: the TVOC word read right after eCO2, forgetting its CRC byte.
Sgp30AirQualityNoCrcSkip(data) ==
    [eco2 |-> Shl(data[1], 8) | data[2], eco2Crc |-> data[3],
     tvoc |-> Shl(data[3], 8) | data[4], tvocCrc |-> data[6]]

\* sgp30_read_air_quality: eCO2 word, its CRC, then the TVOC word, its CRC.
Sgp30AirQuality(data) ==
    [eco2 |-> Shl(data[1], 8) | data[2], eco2Crc |-> data[3],
     tvoc |-> Shl(data[4], 8) | data[5], tvocCrc |-> data[6]]

\* sgp30_set_humidity: fp = (uint16_t)floor(ah_gm3 * 256), given here as
\* the already-floored fixed-point value.  Converting a float beyond 65535
\* to uint16_t is undefined; the firmware's build (vcvt to a 32-bit integer,
\* then keeping the low half-word) yields the value modulo 2^16.
Uint16Of(fixedPoint) == fixedPoint % 2^16

\* Mutant: the two argument bytes sent low byte first.
Sgp30SetHumidityCmdLowFirst(fixedPoint) ==
    LET fp == Uint16Of(fixedPoint)
    IN  <<32, 97, fp & 255, shiftR(fp, 8)>>

\* The command bytes: SGP30_CMD_SET_HUMIDITY(fp >> 8, fp & 0xFF).
Sgp30SetHumidityCmd(fixedPoint) ==
    LET fp == Uint16Of(fixedPoint)
    IN  <<32, 97, shiftR(fp, 8), fp & 255>>

\* WORDS_TO_BYTES(words) is `(words * 3)`, with no parentheses around the
\* argument: WORDS_TO_BYTES(i) is i * 3, but WORDS_TO_BYTES(i + k) expands
\* to i + k * 3, which multiplies only the last term.
WordsToBytes(i) == i * 3
WordsToBytesOfSum(i, k) == i + k * 3

\* SCD30_GET_WORD once WORDS_TO_BYTES has been expanded to the byte offset
\* `off`: the big-endian pair buf[off], buf[off + 1].
Scd30WordAtByte(buf, off) == Shl(buf[off + 1], 8) | buf[off + 2]

\* SCD30_GET_WORD(buf, i) and SCD30_GET_CRC(buf, i) for a plain index i.
Scd30Word(buf, i) == Scd30WordAtByte(buf, WordsToBytes(i))
Scd30Crc(buf, i) == buf[WordsToBytes(i) + 3]

\* SCD30_GET_UINT32(buf, i): GET_WORD(buf, i) << 16 | GET_WORD(buf, i + 1),
\* where the second expands WORDS_TO_BYTES(i + 1).
Scd30Uint32(buf, i) ==
    Shl(Scd30Word(buf, i), 16) | Scd30WordAtByte(buf, WordsToBytesOfSum(i, 1))

\* scd30_read_measurement: the raw bits of CO2, temperature and humidity
\* from words 0, 2 and 4 of the 18-byte answer (CRCs not checked).
Scd30MeasurementBits(data) ==
    [co2 |-> Scd30Uint32(data, 0), temp |-> Scd30Uint32(data, 2),
     rh |-> Scd30Uint32(data, 4)]

-----------------------------------------------------------------------------
(* Reference frames, from the layouts the spec gives.                      *)

\* The AHT10's 6 bytes: the status byte, then 20 bits of humidity and 20
\* bits of temperature, most significant bit first.
Aht10Frame(status, hum, temp) ==
    <<status,
      hum \div 2^12,
      (hum \div 2^4) % 2^8,
      (hum % 2^4) * 2^4 + temp \div 2^16,
      (temp \div 2^8) % 2^8,
      temp % 2^8>>

\* A 16-bit word big-endian, followed by its checksum byte.
RawWord(w, crc) == <<w \div 2^8, w % 2^8, crc>>

\* The SGP30's answer to "measure air quality": eCO2 first, then TVOC.
Sgp30Frame(eco2, tvoc, crc1, crc2) == RawWord(eco2, crc1) \o RawWord(tvoc, crc2)

\* The SCD30's 18-byte answer to "read measurement": six RawWords.
Scd30Frame(words, crcs) ==
    [k \in 1..18 |-> LET i == (k - 1) \div 3
                     IN  RawWord(words[i + 1], crcs[i + 1])[((k - 1) % 3) + 1]]
=============================================================================
