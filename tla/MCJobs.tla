------------------------------- MODULE MCJobs -------------------------------
(***************************************************************************)
(* Ticks of 30 seconds: the loop's minute is 2, the lease's 90 seconds are *)
(* 3.  One job is due at every pass, the other at every second one.        *)
(***************************************************************************)
EXTENDS Jobs

MCEvery == <<1, 3>>
=============================================================================
