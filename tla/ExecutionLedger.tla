--------------------------- MODULE ExecutionLedger ---------------------------
(***************************************************************************)
(* GovernedExecutionStateMachine as its callers see it: transition() asked *)
(* for any target with any stop reason, the append-only history it keeps,  *)
(* and the validation every context undergoes when it is constructed       *)
(* (GovernedExecutionContext._validate_history) and every audit envelope   *)
(* when it is written and read back.                                       *)
(***************************************************************************)
EXTENDS LedgerOps, Sequences, FiniteSets

CONSTANT MaxBudget    \* bound on every limit explored; the code knows none

ASSUME LedgerConstants == MaxBudget \in Nat \ {0}

VARIABLES context,   \* the counters and state of the current context
          history,   \* its ExecutionTransitionRecords
          stop       \* its stop_reason

lvars == <<context, history, stop>>

NoReason == "none"
Reasons == {NoReason, "success", "user_aborted", "failure"}
Recorded == Reasons \cup {"budget_exhausted"}

Budgets == [iterations : 1..MaxBudget, mutations : 1..MaxBudget,
            verifications : 1..MaxBudget]
Contexts == [state : States, iteration : Nat, mutations : Nat, verifications : Nat,
             limits : Budgets]
Records == [iteration : Nat, from : States, to : States, reason : Recorded]

Init ==
    /\ \E limits \in Budgets : context = Created(limits)
    /\ history = <<>>
    /\ stop = NoReason

-----------------------------------------------------------------------------
(* _validate_terminal_stop_reason()                                        *)
ReasonFits(s, r) ==
    CASE s = "completed" -> r = "success"
      [] s = "aborted"   -> r = "user_aborted"
      [] s = "failed"    -> r \in {"failure", "budget_exhausted"}
      [] OTHER           -> r = NoReason

(* transition() of an unrestricted caller.  What it does not accept it     *)
(* returns unchanged, so only accepted transitions are steps.              *)
Transition(t, r) ==
    LET s == Landing(context, t)
        reason == IF Exhausted(context, t) THEN "budget_exhausted" ELSE r
        next == Advance(context, t)
    IN  /\ t \in LegalTargets(context.state)
        /\ ReasonFits(s, reason)
        /\ context' = next
        /\ history' = Append(history, [iteration |-> next.iteration,
                                       from |-> context.state,
                                       to |-> s,
                                       reason |-> reason])
        /\ stop' = reason

Next == \E t \in States, r \in Reasons : Transition(t, r)

Spec == Init /\ [][Next]_lvars

-----------------------------------------------------------------------------
(* Properties. *)

TypeOK ==
    /\ context \in Contexts
    /\ context.iteration <= context.limits.iterations
    /\ context.mutations <= context.limits.mutations
    /\ context.verifications <= context.limits.verifications
    /\ history \in Seq(Records)
    /\ stop \in Recorded

Entries(s) == {i \in 1..Len(history) : history[i].to = s}

(* What _validate_history() recomputes from the ledger alone.              *)
Contiguous ==
    /\ history # <<>> => history[1].from = "created"
    /\ \A i \in 1..Len(history) :
          /\ history[i].to \in LegalTargets(history[i].from)
          /\ ReasonFits(history[i].to, history[i].reason)
          /\ i > 1 => history[i].from = history[i - 1].to

IterationsMatch ==
    \A i \in 1..Len(history) :
        history[i].iteration =
            Cardinality({j \in 1..i : history[j].to = "context_assembling"})

(* The ledger agrees with the budgets: no transition the machine accepts,  *)
(* a redirected one included, gives a context whose own constructor or     *)
(* whose audit envelope would reject it (models.py:277, audit              *)
(* models.py:216).                                                         *)
LedgerValid ==
    /\ Contiguous
    /\ IterationsMatch
    /\ IF history = <<>>
       THEN context = Created(context.limits) /\ stop = NoReason
       ELSE /\ history[Len(history)].to = context.state
            /\ history[Len(history)].reason = stop
    /\ context.iteration = Cardinality(Entries("context_assembling"))
    /\ context.mutations = Cardinality(Entries("mutating"))
    /\ context.verifications = Cardinality(Entries("verifying"))

(* A mutation is entered at most once in an iteration, and verified at     *)
(* most once: a retry costs an iteration (G2.4 loop, one slot each).       *)
OneEffectPerIteration ==
    /\ \A i, j \in Entries("mutating") :
          history[i].iteration = history[j].iteration => i = j
    /\ context.verifications <= context.mutations
    /\ context.mutations <= context.iteration
=============================================================================
