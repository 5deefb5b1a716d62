--------------------------- MODULE MCTlbShootdown ---------------------------
(* Three CPUs, or two, of which two call shootdown.                         *)
EXTENDS TlbShootdown, TLC

CONSTANTS bsp, ap1, ap2

AllCpus == {bsp, ap1, ap2}
TwoCpus == {bsp, ap1}
TwoCallers == {bsp, ap1}
=============================================================================
