--------------------------- MODULE MCVerdictStore ---------------------------
(* Values of VerdictStore's constants for TLC: two goroutines of the running *)
(* dpb, one CLI process, two networks of which one fits, two hosts of which  *)
(* one fits.                                                                 *)
EXTENDS VerdictStore, TLC

CONSTANTS w1, w2, cli, home, cafe, bank, blocked

MCWorkers == {w1, w2}
MCTools   == {cli}
MCNets    == {home, cafe}
MCHosts   == {bank, blocked}
MCKinds   == {"desync"}

\* Goroutines and hosts are interchangeable.
Symmetry == Permutations(MCWorkers) \cup Permutations(MCHosts)
=============================================================================
