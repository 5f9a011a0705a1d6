------------------------------ MODULE LedgerOps ------------------------------
(***************************************************************************)
(* The governed execution state machine as operators on an execution       *)
(* context: the matrix of legal transitions, the budgets that entering a   *)
(* state consumes, and where a transition ends up when its budget is gone. *)
(* A context here is a record with its state, the used counts iteration,   *)
(* mutations and verifications, and their limits (ExecutionBudget).        *)
(***************************************************************************)
EXTENDS Naturals

Limits == [iterations : Nat \ {0}, mutations : Nat \ {0}, verifications : Nat \ {0}]

Terminal == {"completed", "failed", "aborted"}

States == {"created", "context_assembling", "planning", "deciding", "proposing",
           "approval_pending", "authorizing", "mutating", "verifying",
           "reflecting", "replanning"} \cup Terminal

LegalTargets_RetryVerified(s) ==    \* faulty form: a failed verification mutates again
    CASE s = "authorizing"        -> {"mutating", "failed"}
      [] s = "mutating"           -> {"verifying", "failed"}
      [] s = "verifying"          -> {"completed", "mutating", "failed"}
      [] s = "created"            -> {"context_assembling", "aborted"}
      [] s = "context_assembling" -> {"planning", "failed"}
      [] s = "planning"           -> {"deciding", "failed", "aborted"}
      [] s = "deciding"           -> {"proposing", "failed"}
      [] s = "proposing"          -> {"approval_pending", "authorizing", "failed"}
      [] s = "approval_pending"   -> {"authorizing", "aborted"}
      [] OTHER                    -> {}

LegalTargets(s) ==
    CASE s = "created"            -> {"context_assembling", "aborted"}
      [] s = "context_assembling" -> {"planning", "failed"}
      [] s = "planning"           -> {"deciding", "failed", "aborted"}
      [] s = "deciding"           -> {"proposing", "failed"}
      [] s = "proposing"          -> {"approval_pending", "authorizing", "failed"}
      [] s = "approval_pending"   -> {"authorizing", "aborted"}
      [] s = "authorizing"        -> {"mutating", "failed"}
      [] s = "mutating"           -> {"verifying", "failed"}
      [] s = "verifying"          -> {"completed", "reflecting", "failed"}
      [] s = "reflecting"         -> {"replanning", "failed"}
      [] s = "replanning"         -> {"context_assembling", "failed"}
      [] OTHER                    -> {}

(* Has context c no budget left for entering state t?                      *)
Exhausted(c, t) ==
    \/ t = "context_assembling" /\ c.iteration = c.limits.iterations
    \/ t = "mutating" /\ c.mutations = c.limits.mutations
    \/ t = "verifying" /\ c.verifications = c.limits.verifications

(* The state a transition to t ends in.                                    *)
Landing(c, t) == IF Exhausted(c, t) THEN "failed" ELSE t

Advance_CountsRequest(c, t) ==      \* faulty form: counts what was asked for
    LET asked(u) == IF t = u THEN 1 ELSE 0
    IN  [c EXCEPT !.state = Landing(c, t),
                  !.iteration = @ + asked("context_assembling"),
                  !.mutations = @ + asked("mutating"),
                  !.verifications = @ + asked("verifying")]

Advance_ForgetsVerification(c, t) ==  \* faulty form: verifications are free
    LET s == Landing(c, t)
        used(u) == IF s = u THEN 1 ELSE 0
    IN  [c EXCEPT !.state = s,
                  !.iteration = @ + used("context_assembling"),
                  !.mutations = @ + used("mutating")]

(* The context after a transition to t: the budget of t is consumed, or    *)
(* the execution fails for want of it.                                     *)
Advance(c, t) ==
    LET s == Landing(c, t)
        used(u) == IF s = u THEN 1 ELSE 0
    IN  [c EXCEPT !.state = s,
                  !.iteration = @ + used("context_assembling"),
                  !.mutations = @ + used("mutating"),
                  !.verifications = @ + used("verifying")]

Created(limits) ==
    [state |-> "created", iteration |-> 0, mutations |-> 0, verifications |-> 0,
     limits |-> limits]
=============================================================================
