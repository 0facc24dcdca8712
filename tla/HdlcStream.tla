----------------------------- MODULE HdlcStream -----------------------------
(***************************************************************************)
(* read_frame() of k3765_linux_shell.py on a stream of frames, one byte at *)
(* a time: its deadline may fall anywhere, and between two calls the host  *)
(* may throw away what has arrived (reset_input_buffer()).  The USB link   *)
(* itself loses and changes nothing here.                                  *)
(***************************************************************************)
EXTENDS HdlcFrame

CONSTANT Payloads    (* the payloads the target sends, one after the other  *)

ASSUME PayloadsAssumption ==
  /\ Payloads \in Seq(Seq(0..255))
  /\ \A i, j \in DOMAIN Payloads :
       Payloads[i] # <<>> /\ (i # j => Payloads[i] # Payloads[j])

VARIABLES
  shipped,   (* frames sent so far                                          *)
  line,      (* bytes on their way, each with the number of its frame       *)
  started, encoded,
  got,       (* payloads that read_frame() has returned                     *)
  hit        (* history: frames that a deadline or a reset has cut          *)

streamVars == <<shipped, line, started, encoded, got, hit>>

StreamInit ==
  /\ shipped = 0 /\ line = <<>> /\ started = FALSE /\ encoded = <<>>
  /\ got = <<>> /\ hit = {}

SendFrame ==
  /\ shipped < Len(Payloads) /\ shipped' = shipped + 1
  /\ LET f == HdlcFrame(Payloads[shipped + 1])
     IN line' = line \o [i \in DOMAIN f |-> [byte |-> f[i], of |-> shipped + 1]]
  /\ UNCHANGED <<started, encoded, got, hit>>

NextByte == Head(line).byte
TakeByte == line # <<>> /\ line' = Tail(line) /\ UNCHANGED <<shipped, hit>>

(* The first flag starts a frame; so does a second one with nothing between *)
(* them, as after a frame of which only the end was seen.                   *)
OpeningFlag ==
  /\ TakeByte /\ NextByte = Flag /\ encoded = <<>> /\ started' = TRUE
  /\ UNCHANGED <<encoded, got>>

ClosingFlag ==
  /\ TakeByte /\ NextByte = Flag /\ encoded # <<>>
  /\ got' = Append(got, Decode(encoded))
  /\ started' = FALSE /\ encoded' = <<>>

(* Mutant: bytes before the first flag are kept as well.                    *)
KeepAnyByte ==
  /\ TakeByte /\ NextByte # Flag /\ encoded' = Append(encoded, NextByte)
  /\ UNCHANGED <<started, got>>
DataByte ==
  /\ TakeByte /\ NextByte # Flag
  /\ encoded' = IF started THEN Append(encoded, NextByte) ELSE encoded
  /\ UNCHANGED <<started, got>>

(* The deadline: what there is of a frame is dropped.                       *)
InsideFrame == line # <<>> /\ ~(NextByte = Flag /\ Len(line) > 1 /\ line[2].byte # Flag)
Deadline ==
  /\ started' = FALSE /\ encoded' = <<>>
  /\ hit' = hit \union (IF InsideFrame THEN {Head(line).of} ELSE {})
  /\ UNCHANGED <<shipped, line, got>>

(* reset_input_buffer() before a command: never inside read_frame().        *)
Reset ==
  /\ ~started /\ encoded = <<>>
  /\ \E n \in 1..Len(line) :
       /\ line' = SubSeq(line, n + 1, Len(line))
       /\ hit' = hit \union {line[i].of : i \in 1..n}
  /\ UNCHANGED <<shipped, started, encoded, got>>

StreamNext == SendFrame \/ OpeningFlag \/ ClosingFlag \/ DataByte \/ Deadline \/ Reset
StreamSpec == StreamInit /\ [][StreamNext]_streamVars

-----------------------------------------------------------------------------
StreamTypeOK ==
  /\ shipped \in 0..Len(Payloads) /\ started \in BOOLEAN /\ hit \subseteq 1..shipped
  /\ \A i \in DOMAIN line : line[i].byte \in 0..255 /\ line[i].of \in 1..shipped
  /\ \A i \in DOMAIN encoded : encoded[i] \in 0..255

(* What read_frame() returns was sent, each frame at most once and in       *)
(* order, and no cut makes it raise a CRC mismatch.                         *)
Place(payload) == CHOOSE i \in DOMAIN Payloads : Payloads[i] = payload
NothingInvented ==
  /\ \A k \in DOMAIN got : \E i \in 1..shipped : Payloads[i] = got[k]
  /\ \A k \in 2..Len(got) : Place(got[k - 1]) < Place(got[k])

(* A cut costs the frame it falls in and no other: every frame that has     *)
(* been read to its end without a cut was returned.                         *)
OnlyCutFramesLost ==
  \A i \in (1..shipped) \ hit :
    (\A k \in DOMAIN line : line[k].of # i) => Contains(got, Payloads[i])

(* What read_frame() returns was sent, each frame at most once and in       *)
(* order; a deadline or a reset costs the frame it falls in and no other.   *)
StreamInv == StreamTypeOK /\ NothingInvented /\ OnlyCutFramesLost
=============================================================================
