------------------------------- MODULE MCBuddy -------------------------------
(* Small heaps for TLC: pages of 4 units.                                   *)
EXTENDS Buddy

\* Pages 4-7 and pages 8-10, with ragged ends.
Ragged == << [base |-> 14, size |-> 18], [base |-> 32, size |-> 14] >>
\* One aligned range of four pages.
FourPages == << [base |-> 0, size |-> 16] >>
=============================================================================
