--------------------------- MODULE MCInputMailbox ---------------------------
(* A four-slot ring: it wraps, fills and overflows within one packet. *)
EXTENDS InputMailbox
=============================================================================
