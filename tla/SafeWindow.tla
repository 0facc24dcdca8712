----------------------------- MODULE SafeWindow -----------------------------
(***************************************************************************)
(* The bounded SDRAM window, as the stage-0 monitor tests it in 32-bit     *)
(* registers and as the host tests it in Python's integers before it asks. *)
(***************************************************************************)
EXTENDS Integers

CONSTANTS Modulus,              (* 2^32 *)
          SafeStart, SafeEnd,   (* SAFE_RAM_START, SAFE_RAM_END *)
          Align                 (* bytes of an ARM instruction: 4 *)

ASSUME WindowAssumption ==
  /\ Modulus \in Nat /\ SafeStart \in Nat /\ SafeEnd \in Nat /\ Align \in Nat \ {0}
  /\ SafeStart < SafeEnd /\ SafeEnd < Modulus

Word == 0 .. Modulus - 1
Window == SafeStart .. SafeEnd - 1

-----------------------------------------------------------------------------
(* The monitor. *)

(* Mutant: the bounds without bcs, the test of the carry.                   *)
CrcAcceptedNoCarry(address, length) ==
  /\ address >= SafeStart
  /\ (address + length) % Modulus =< SafeEnd
(* crc32_range: cmp, blo; adds, bcs; cmp, bhi. *)
CrcAccepted(address, length) ==
  /\ address >= SafeStart
  /\ address + length < Modulus
  /\ address + length =< SafeEnd

(* call_stage2: tst, bne; cmp, blo; cmp, bhs. *)
CallAccepted(pc) == pc % Align = 0 /\ pc >= SafeStart /\ pc < SafeEnd

-----------------------------------------------------------------------------
(* The host. *)

(* crc_query(): two ValueErrors, then struct.pack("<II"). *)
CrcQuery(address, length) ==
  /\ address >= SafeStart /\ address < SafeEnd
  /\ length >= 0 /\ address + length =< SafeEnd

(* call_stage2(), stage2_request(). *)
CallStage2(pc) == pc % Align = 0 /\ pc >= SafeStart /\ pc < SafeEnd
=============================================================================
