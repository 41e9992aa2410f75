-------------------------------- MODULE MCAtm -------------------------------
(* Small instances of AtmSystem for TLC. *)
EXTENDS AtmSystem, TLC

\* The sessions are alike in every safety property.
Symmetry == Permutations(Sessions)
=============================================================================
