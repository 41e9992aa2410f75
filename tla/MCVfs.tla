-------------------------------- MODULE MCVfs --------------------------------
(* Small instances of VirtualFileSystem for TLC. *)
EXTENDS VirtualFileSystem, TLC

\* Addresses and contents are alike in every property.
Symmetry == Permutations(Nodes \ {Root}) \cup Permutations(Data)
==============================================================================
