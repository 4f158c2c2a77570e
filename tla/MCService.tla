------------------------------- MODULE MCService ------------------------------
(***************************************************************************)
(* Service on small instances.  Requests are interchangeable model values: *)
(* the safety runs identify states that differ by a permutation of them.   *)
(***************************************************************************)
EXTENDS Service, TLC

Symmetry == Permutations(Requests)
===============================================================================
