----------------------------- MODULE MCElection -----------------------------
(***************************************************************************)
(* Instances of Election for TLC; the values are in the cfg files.         *)
(***************************************************************************)
EXTENDS Election
=============================================================================
