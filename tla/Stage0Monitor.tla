---------------------------- MODULE Stage0Monitor ----------------------------
(***************************************************************************)
(* The command handler that build_armprg_stage0_monitor.py assembles into  *)
(* the ARMPRG runtime: it dispatches a decoded packet, computes a CRC-32   *)
(* over bounded SDRAM, calls a second stage, or answers BAD00001.          *)
(*                                                                         *)
(* The handler reads its two argument words from the packet buffer and     *)
(* looks at no length beyond the first two bytes, so a short packet is     *)
(* answered from what an earlier one left there.  A CRC is modelled by the *)
(* bytes it has been fed.                                                  *)
(***************************************************************************)
EXTENDS SafeWindow

VARIABLES
  busy,           (* "idle", in the loop "crc", or in the code of "stage2"  *)
  first, second,  (* argument words in the packet buffer, [r4, #8] and #12  *)
  r1, r2,         (* next address and bytes left of the CRC loop            *)
  fed,            (* history: bytes fed to the CRC                          *)
  answer          (* the last reply                                         *)

buffer == <<first, second>>
loop == <<r1, r2, fed>>
vars == <<busy, buffer, loop, answer>>

Init == /\ busy = "idle" /\ first \in Word /\ second \in Word
        /\ r1 = 0 /\ r2 = 0 /\ fed = 0 /\ answer = "none"

-----------------------------------------------------------------------------
(* A packet of whichever length arrives: the words it has replace those in  *)
(* the buffer.                                                              *)
Decode == /\ first' \in Word
          /\ second' \in Word \/ UNCHANGED second

Reply(a) == busy' = "idle" /\ answer' = a /\ UNCHANGED loop

(* Too short for a command, a command byte other than 0x1C, or a            *)
(* subcommand after 14; the banner; a register; host input, which gets no   *)
(* answer.                                                                  *)
Simple == \E a \in {"bad", "unknown", "banner", "hex", answer} : Reply(a)

(* Mutant of EnterCrc: the loop body comes before the test of r2.           *)
EnterCrcDoWhile ==
  /\ CrcAccepted(first', second') /\ busy' = "crc" /\ r1' = first' + 1
  /\ r2' = (second' - 1) % Modulus /\ fed' = 1 /\ UNCHANGED answer
EnterCrc ==
  /\ CrcAccepted(first', second') /\ busy' = "crc" /\ r1' = first' /\ r2' = second'
  /\ fed' = 0 /\ UNCHANGED answer
RefuseCrc == ~CrcAccepted(first', second') /\ Reply("bad")

Call == CallAccepted(first') /\ busy' = "stage2" /\ UNCHANGED <<loop, answer>>
RefuseCall == ~CallAccepted(first') /\ Reply("bad")

Dispatch ==
  /\ busy = "idle"
  /\ Decode \/ UNCHANGED buffer
  /\ \/ Simple
     \/ EnterCrc \/ RefuseCrc
     \/ Call \/ RefuseCall

(* crc_byte: ldrb r3, [r1], #1 ... subs r2 *)
CrcByte ==
  /\ busy = "crc" /\ r2 > 0
  /\ r1' = (r1 + 1) % Modulus /\ r2' = r2 - 1 /\ fed' = fed + 1
  /\ UNCHANGED <<busy, buffer, answer>>

CrcDone == /\ busy = "crc" /\ r2 = 0 /\ busy' = "idle" /\ answer' = "hex"
           /\ UNCHANGED <<buffer, loop>>

(* blx r6 comes back, or never does.                                        *)
Stage2Returns == busy = "stage2" /\ Reply("hex") /\ UNCHANGED buffer

Next == Dispatch \/ CrcByte \/ CrcDone \/ Stage2Returns

Spec == Init /\ [][Next]_vars

-----------------------------------------------------------------------------
(* Properties *)

(* Every register holds a word. *)
TypeOK ==
  /\ busy \in {"idle", "crc", "stage2"}
  /\ {first, second, r1, r2} \subseteq Word /\ fed \in Nat
  /\ answer \in {"none", "bad", "unknown", "banner", "hex"}

(* The CRC loop loads from the safe window only and control enters it only  *)
(* at an instruction, whatever words a packet or an earlier one left in the *)
(* buffer (build_armprg_stage0_monitor.py:80-81).                           *)
ReadsInside ==
  /\ busy = "crc" /\ r2 > 0 => r1 \in Window
  /\ busy = "stage2" => first \in Window /\ first % Align = 0

(* The CRC is over the bytes asked for: each is fed once, in order, and     *)
(* none is left when the loop ends.                                         *)
CrcExact == busy = "crc" => r1 = first + fed /\ fed + r2 = second
=============================================================================
