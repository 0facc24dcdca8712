----------------------------- MODULE MCHostBoot -----------------------------
(* One chunk of each payload, but two of the Image, of which BL1            *)
(* fingerprints the first; one register query; two attempts per chunk.      *)
EXTENDS HostBoot
=============================================================================
