--------------------------- MODULE MCRunMQServer ---------------------------
(* Instances of RunMQServer for TLC.                                       *)
EXTENDS RunMQServer, TLC

AdoptedSymmetry == Permutations(Orphans)
============================================================================
