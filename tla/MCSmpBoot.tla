----------------------------- MODULE MCSmpBoot -----------------------------
EXTENDS SmpBoot
Spec == SmpSpec /\ SmpFairness
=============================================================================
