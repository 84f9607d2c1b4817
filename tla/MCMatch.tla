------------------------------ MODULE MCMatch ------------------------------
(***************************************************************************)
(* Instances of Match for TLC.  c1 has admin rights in the runs that have  *)
(* an admin; the other slots are symmetric.                                *)
(***************************************************************************)
EXTENDS Match, TLC

CONSTANTS c1, c2, c3, c4, red, blue

Others == Permutations(Client \ Admin)
=============================================================================
