------------------------------- MODULE MCCart -------------------------------
(***************************************************************************)
(* One visitor with three requests in flight, over one variant.            *)
(***************************************************************************)
EXTENDS CartVerbs, TLC

Requests == Permutations(Request)
=============================================================================
