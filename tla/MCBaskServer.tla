---------------------------- MODULE MCBaskServer ----------------------------
(***************************************************************************)
(* Values for the constants of BaskServer.  Items, frames and contents are *)
(* model values; none of them is told apart from its like, so every        *)
(* permutation of each of the three sets is a symmetry.                    *)
(***************************************************************************)
EXTENDS BaskServer, TLC

MCSymmetry == Permutations(Items) \cup Permutations(Pfns) \cup Permutations(Hashes)
=============================================================================
