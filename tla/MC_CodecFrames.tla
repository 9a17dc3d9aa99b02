--------------------------- MODULE MC_CodecFrames ---------------------------
(* Sample values at the edges of each field: zero, one, nibble and byte     *)
(* boundaries, alternating bit patterns and all ones.                       *)
EXTENDS CodecFrames

MCCodes20 == {0, 1, 15, 16, 255, 4095, 4096, 65536, 349525, 699050, 1048575}
MCWords == {0, 1, 255, 256, 400, 23130, 65535}
\* 0 to 255.996 g/m3, the SGP30's documented range (25.0 g/m3 is 6400).
MCFixedPoints == {0, 1, 255, 256, 6400, 65535}
\* What RH_TO_AH can hand it from readings inside the AHT10's rated range:
\* up to about 357 g/m3 at 85 C and 100 % RH.
MCFixedPointsFull == MCFixedPoints \cup {65536, 70000, 91392}
=============================================================================
