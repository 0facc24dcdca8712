----------------------------- MODULE MCSdccHost -----------------------------
(* Blocks of two words through a one-word FIFO and blocks of one word,      *)
(* which the FIFO takes whole, as it does the card's eight-byte registers.  *)
(* jiffies wraps after six ticks, so waits of one and two ticks cross the   *)
(* wrap.  The requests have every kind of response, both directions, a      *)
(* block that does not fit and the commands before and after the main one.  *)
EXTENDS SdccHost

Of(dir, words, rsp) ==
  [dir |-> dir, words |-> words, fits |-> TRUE, sbc |-> FALSE, stop |-> FALSE, rsp |-> rsp]
MCRequests ==
  {Of("none", 1, "none"), Of("none", 1, "plain"), Of("read", 1, "crc"),
   Of("read", 2, "crc"), Of("write", 2, "crc"),
   [Of("read", 2, "crc") EXCEPT !.fits = FALSE],
   [Of("write", 2, "crc") EXCEPT !.fits = FALSE],
   [Of("read", 1, "crc") EXCEPT !.sbc = TRUE],
   [Of("write", 1, "crc") EXCEPT !.stop = TRUE]}

(* The steps of power-up: off, 400 kHz to identify, 4 MHz to transfer.      *)
MCSettings == {<<0, "OFF">>, <<400, "UP">>, <<4000, "ON">>}
=============================================================================
