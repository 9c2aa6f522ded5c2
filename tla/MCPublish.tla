----------------------------- MODULE MCPublish -----------------------------
(***************************************************************************)
(* Publish with one request thread per process, or with two in one.        *)
(***************************************************************************)
EXTENDS Publish, TLC

CONSTANTS t1, t2, p1, p2, w1

ThreadPerProcess == (t1 :> p1) @@ (t2 :> p2)
ThreadsOfOneProcess == [t \in Thread |-> p1]
=============================================================================
