---------------------------- MODULE MCCollection ----------------------------
(* Model checking of CollectionTransaction: its properties and its         *)
(* refinement of AtomicCollection.                                         *)
EXTENDS CollectionProperties, TLC

OwnerSymmetry == Permutations(Owners)
=============================================================================
