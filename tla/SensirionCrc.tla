----------------------------- MODULE SensirionCrc -----------------------------
(***************************************************************************)
(* The reference checksum of Sensirion's I2C framing (the RawWord of spec  *)
(* section 4.1): CRC-8 with polynomial x^8 + x^5 + x^4 + 1 (0x31),         *)
(* initial value 0xFF, no reflection and no final XOR, over the two bytes  *)
(* of a word, high byte first.  The drivers never compute it: scd30.c      *)
(* writes the checksums of its fixed commands and of the data-ready word   *)
(* as literals, which the codecs run checks against this definition.      *)
(***************************************************************************)
EXTENDS Naturals, Sequences, Bitwise

CrcPolynomial == 49   \* 0x31
CrcInit == 255        \* 0xFF

\* One bit of the shift register: shift left in 8 bits, and XOR in the
\* polynomial when the bit shifted out was set.
CrcBitStep(crc) ==
    IF crc >= 128 THEN ((crc * 2) % 256) ^^ CrcPolynomial ELSE (crc * 2) % 256

RECURSIVE CrcBitSteps(_, _)
CrcBitSteps(crc, n) == IF n = 0 THEN crc ELSE CrcBitSteps(CrcBitStep(crc), n - 1)

\* Each byte is XORed into the register, then the register is shifted 8 times.
RECURSIVE CrcOfBytes(_, _)
CrcOfBytes(crc, bytes) ==
    IF bytes = <<>> THEN crc
    ELSE CrcOfBytes(CrcBitSteps(crc ^^ Head(bytes), 8), Tail(bytes))

SensirionCrc8(bytes) == CrcOfBytes(CrcInit, bytes)

\* The checksum of a 16-bit word as it goes on the bus.
WordCrc(w) == SensirionCrc8(<<w \div 256, w % 256>>)

\* The example of Sensirion's datasheets: the word 0xBEEF has checksum 0x92.
ASSUME WordCrc(48879) = 146
=============================================================================
