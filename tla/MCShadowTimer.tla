---------------------------- MODULE MCShadowTimer ----------------------------
(* A four-bit counter, which wraps every four periods.                      *)
EXTENDS ShadowTimer
=============================================================================
