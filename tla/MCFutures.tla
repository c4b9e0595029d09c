------------------------------ MODULE MCFutures ------------------------------
(* A future of three results, and a chain of two continuations. *)
EXTENDS Futures

MCUsers == {"promise", "engine"}
MCGoals == {1, All, Finish}
MCBegin == {{}, {"Pending"}}
=============================================================================
