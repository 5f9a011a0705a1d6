-------------------------- MODULE ActivationProtocol --------------------------
(***************************************************************************)
(* The abstract specification of the governed activation gates: for every  *)
(* activation one session at most, issued on evidence that stands at that  *)
(* moment, and one start of the runtime at most, of the issued session and *)
(* on evidence that still stands.  No store, claim, process or restart     *)
(* appears in it.  SessionGate implements it.                              *)
(***************************************************************************)
EXTENDS Sequences

CONSTANTS Activation,  \* activation ids
          Session      \* session records; each belongs to one activation

VARIABLES sessions,    \* sessions handed out
          runs,        \* history: runtime starts, per activation
          vouched,     \* sessions whose evidence is on record
          lost         \* whether the machine has lost power

pvars == <<sessions, runs, vouched, lost>>

ActivationOf(s) == s.receipt.activation

Init ==
    /\ sessions = {}
    /\ runs = [a \in Activation |-> <<>>]
    /\ vouched = {}
    /\ lost = FALSE

(* The evidence is complete, unless a power loss may have taken some away. *)
Stands(s) == s \in vouched \/ lost

(* create_session() answers with a session.                                *)
Issue(s) ==
    /\ Stands(s)
    /\ \A t \in sessions : ActivationOf(t) # ActivationOf(s)
    /\ sessions' = sessions \cup {s}
    /\ UNCHANGED <<runs, vouched, lost>>

(* The invoker executes the runtime of an issued session.                  *)
Start(s) ==
    /\ s \in sessions
    /\ Stands(s)
    /\ runs[ActivationOf(s)] = <<>>
    /\ runs' = [runs EXCEPT ![ActivationOf(s)] = <<s>>]
    /\ UNCHANGED <<sessions, vouched, lost>>

(* Evidence is recorded, and none is ever withdrawn.                       *)
Vouch ==
    /\ \E S \in SUBSET Session : vouched' = vouched \cup S
    /\ UNCHANGED <<sessions, runs, lost>>

PowerLoss ==
    /\ lost' = TRUE
    /\ vouched' \in SUBSET vouched
    /\ UNCHANGED <<sessions, runs>>

Next ==
    \/ \E s \in Session : Issue(s) \/ Start(s)
    \/ Vouch
    \/ PowerLoss

Spec == Init /\ [][Next]_pvars
=============================================================================
