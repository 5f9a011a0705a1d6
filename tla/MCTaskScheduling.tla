-------------------------- MODULE MCTaskScheduling --------------------------
EXTENDS TaskScheduling

(* A chain, a task with two parents, and a graph that shares a task with   *)
(* both, where it has no parents any more or another one.                  *)
MCGraph ==
    { [tasks |-> {1, 2}, edges |-> {<<1, 2>>}],
      [tasks |-> {1, 2, 3}, edges |-> {<<1, 3>>, <<2, 3>>}],
      [tasks |-> {2, 3}, edges |-> {<<3, 2>>}] }

(* Task 3 is urgent, and only worker 2 can do it; task 2 asks for nothing. *)
MCPriority == [t \in 1..3 |-> IF t = 3 THEN 1 ELSE 2]
MCAble == [t \in 1..3 |-> CASE t = 1 -> {1} [] t = 2 -> {1, 2} [] t = 3 -> {2}]
MCPrefers == [t \in 1..3 |-> IF t = 2 THEN {2} ELSE {}]
=============================================================================
