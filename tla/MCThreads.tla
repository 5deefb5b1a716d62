------------------------------ MODULE MCThreads ------------------------------
(* Small instances of Threads for TLC.                                      *)
EXTENDS ThreadsInv, TLC

CONSTANTS ap1, ap2, t1, t2, t3

OneCpu == {BSP}
TwoCpus == {BSP, ap1}
ThreeCpus == {BSP, ap1, ap2}
TwoThreads == {t1, t2}
ThreeThreads == {t1, t2, t3}
AnyCpuOnly == {ANY_CPU}
AnyOrAp == {ANY_CPU, ap1}
MainOnly == {BSP}
MainAndT1 == {BSP, t1}

Interchangeable == Permutations(Incarnations)
=============================================================================
