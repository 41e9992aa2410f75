------------------------------ MODULE MCLruCache ------------------------------
(* LruCache on small instances: addresses and texts are interchangeable. *)
EXTENDS LruCache

Symmetry == Permutations(Nodes) \cup Permutations(Data)
===============================================================================
