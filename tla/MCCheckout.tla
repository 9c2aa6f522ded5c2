----------------------------- MODULE MCCheckout -----------------------------
(***************************************************************************)
(* Checkout on a small store: two threads, one unit of a scarce variant    *)
(* and two of a plentiful one, and a code with a single use.               *)
(***************************************************************************)
EXTENDS Checkout

CONSTANTS v1, v2, d1

MCLimit == [d \in Code |-> 1]
MCStock == [v \in Variant |-> IF v = v1 THEN 1 ELSE 2]
=============================================================================
