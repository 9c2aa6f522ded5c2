----------------------------- MODULE MCPayments -----------------------------
(***************************************************************************)
(* Payments for one order: every attempt pays for it.                      *)
(***************************************************************************)
EXTENDS Payments

MCOrderOf == [a \in Attempt |-> CHOOSE o \in OrderId : TRUE]
=============================================================================
