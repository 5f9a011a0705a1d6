-------------------------- MODULE MCGovernedRuntime --------------------------
(* Small instances of GovernedRuntime for TLC: two threads with the same    *)
(* request for the passing run, one thread where one is enough.             *)
EXTENDS GovernedRuntime
=============================================================================
