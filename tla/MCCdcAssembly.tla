--------------------------- MODULE MCCdcAssembly ----------------------------
(***************************************************************************)
(* CdcAssembly on small instances.  Tasks are interchangeable, and so are   *)
(* customers: both may be permuted in runs without liveness properties.     *)
(***************************************************************************)
EXTENDS CdcProperties, TLC

Symmetry == Permutations(Customers) \cup Permutations(Tasks)
=============================================================================
