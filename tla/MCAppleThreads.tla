--------------------------- MODULE MCAppleThreads ---------------------------
(***************************************************************************)
(* Two workers and two devices: a lookup that passes one device before it  *)
(* finds the other, and a worker that is added while another is at work.   *)
(***************************************************************************)
EXTENDS AppleThreads

CONSTANTS t1, t2

MCThreads == {t1, t2}
=============================================================================
