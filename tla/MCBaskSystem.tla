---------------------------- MODULE MCBaskSystem ----------------------------
(***************************************************************************)
(* Values for model checking BaskSystem: frames and contents are           *)
(* interchangeable, pages are not (they have addresses).                   *)
(***************************************************************************)
EXTENDS BaskSystem, TLC

MCSystemSymmetry == Permutations(Pfns) \cup Permutations(Hashes)
=============================================================================
