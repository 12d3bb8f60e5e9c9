---------------------------- MODULE MCCheckQueue ----------------------------
(* Two workers beside the master, and blocks of up to four checks.          *)
EXTENDS CheckQueue

CONSTANTS w1, w2, c1, c2, c3, c4

=============================================================================
