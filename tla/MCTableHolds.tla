---------------------------- MODULE MCTableHolds ----------------------------
(* A small instance of TableHolds: actors, keys, tables and
   readers are interchangeable. *)
EXTENDS TableHolds, TLC

Symmetry == Permutations(Actors) \cup Permutations(Keys) \cup Permutations(Tables) \cup Permutations(Readers)
=============================================================================
