----------------------------- MODULE HdlcFrame ------------------------------
(***************************************************************************)
(* The framing of k3765_linux_shell.py: crc16_x25(), hdlc_frame() and what *)
(* read_frame() makes of the bytes between two flags.  k3765_stage0_       *)
(* console.py, k3765_stage0_load.py and k3765_ram_bundle_load.py carry the *)
(* same three functions.  Bytes are 0..255 and the CRC is the real one.    *)
(***************************************************************************)
EXTENDS Integers, Sequences, SequencesExt

Flag == 126
Esc == 125

(* Exclusive or of a bit, of the bits of 0x8408, and of a byte.             *)
Bit(x, k) == (x \div 2^k) % 2
Flip(x, k) == IF Bit(x, k) = 1 THEN x - 2^k ELSE x + 2^k
FlipPoly(x) == Flip(Flip(Flip(x, 3), 10), 15)
FlipByte(x, byte) ==
  LET mixed[k \in 0 .. 8] ==
        IF k = 0 THEN x
        ELSE IF Bit(byte, k - 1) = 1 THEN Flip(mixed[k - 1], k - 1) ELSE mixed[k - 1]
  IN  mixed[8]

Shift(crc) == IF Bit(crc, 0) = 1 THEN FlipPoly(crc \div 2) ELSE crc \div 2
CrcByte(crc, byte) ==
  LET shifted[k \in 0 .. 8] == IF k = 0 THEN FlipByte(crc, byte) ELSE Shift(shifted[k - 1])
  IN  shifted[8]
Crc16(data) ==
  LET crc[n \in 0 .. Len(data)] == IF n = 0 THEN 65535 ELSE CrcByte(crc[n - 1], data[n])
  IN  65535 - crc[Len(data)]
Little(w) == <<w % 256, w \div 256>>

Toggle(byte) == Flip(byte, 5)
Escape(byte) == IF byte \in {Flag, Esc} THEN <<Esc, Toggle(byte)>> ELSE <<byte>>
Body(payload) == LET body == payload \o Little(Crc16(payload))
                 IN FlattenSeq([i \in DOMAIN body |-> Escape(body[i])])
HdlcFrame(payload) == <<Flag>> \o Body(payload) \o <<Flag>>

(* The escape of a byte has no effect on the byte after it.                 *)
Raw(bytes, escaped) == [raw |-> bytes, escaped |-> escaped]
Unescaped(part, b) ==
  IF part.escaped THEN Raw(Append(part.raw, Toggle(b)), FALSE)
  ELSE IF b = Esc THEN Raw(part.raw, TRUE)
  ELSE Raw(Append(part.raw, b), FALSE)
Unescape(encoded) ==
  LET part[n \in 0 .. Len(encoded)] ==
        IF n = 0 THEN Raw(<<>>, FALSE) ELSE Unescaped(part[n - 1], encoded[n])
  IN  part[Len(encoded)].raw

Mismatch == <<-1>>                             (* the RuntimeError *)
(* What is too short for a check sequence is returned as it is.             *)
Decode(encoded) ==
  LET raw == Unescape(encoded)
      payload == SubSeq(raw, 1, Len(raw) - 2)
  IN IF Len(raw) < 3 THEN raw
     ELSE IF SubSeq(raw, Len(raw) - 1, Len(raw)) = Little(Crc16(payload))
          THEN payload ELSE Mismatch
=============================================================================
