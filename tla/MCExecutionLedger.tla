-------------------------- MODULE MCExecutionLedger --------------------------
(* ExecutionLedger with every combination of small limits, so that each of  *)
(* the three budgets is the first to run out in some execution.             *)
EXTENDS ExecutionLedger
=============================================================================
