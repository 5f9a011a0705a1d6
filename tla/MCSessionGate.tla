---------------------------- MODULE MCSessionGate ----------------------------
(* A small instance of SessionGate for TLC: two approvals, so that two     *)
(* policies are approved for one activation at the same time.              *)
EXTENDS SessionGate, TLC

(* Processes, policies and approval ids are interchangeable.               *)
Interchangeable ==
    Permutations(Proc) \cup Permutations(Policy) \cup Permutations(ApprovalId)
=============================================================================
