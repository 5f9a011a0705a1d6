----------------------------- MODULE SessionGate ----------------------------
(***************************************************************************)
(* From recorded evidence to one runtime start: the governed approval      *)
(* gate, the custody and composition attestation gates, the readiness      *)
(* gate, the controlled session gate and the invoker, used by several      *)
(* processes over shared durable stores.  Every store is an atomic claim   *)
(* registry (ClaimOps), which the files of ClaimStore implement.           *)
(*                                                                         *)
(* create_session() reads three pieces of evidence and then makes two      *)
(* claims, consume_for_runtime_start() reads one record and makes one      *)
(* claim; between any two of these store operations other processes run,   *)
(* the caller's process may be restarted, or the machine lose power.       *)
(*                                                                         *)
(* With ClaimOps this module takes names as durable: a claim that was      *)
(* confirmed survives a power loss.  ClaimStore needs NamesDurable for     *)
(* that, and everything said here across a power loss rests on it.         *)
(***************************************************************************)
EXTENDS ClaimOps, Naturals, Sequences

CONSTANTS Proc,         \* processes holding the gates
          Activation,   \* activation ids
          Policy,       \* provider policies: a receipt digests one
          Request,      \* runtime requests, with their isolation and runtime id
          Observer,     \* values of _observer_identity(): a type and an id()
          ApprovalId,
          NoWork,       \* a process outside the gates
          MaxPowerLosses  \* bound on the power losses explored

Receipt == [activation : Activation, policy : Policy]

(* The session a set of bindings determines; its id digests all of them.   *)
Session == [receipt : Receipt, request : Request, observer : Observer]
Decision == {"approved", "denied"}
ApprovalReceipt == [binding : Session, decision : Decision]

ASSUME SessionGateConstants ==
    /\ NoWork \notin [session : Session, approval : ApprovalId]
    /\ MaxPowerLosses \in Nat

VARIABLES
    custody,       \* custody store: the attestation of each request's roots
    composition,   \* composition store: the attestation of each request's runtime
    approvals,     \* approval store, by approval id
    claims,        \* replay ledger, ACTIVATION_CLAIMED by activation id
    issued,        \* replay ledger, SESSION_ISSUED by session id
    consumed,      \* replay ledger, SESSION_CONSUMED by session id
    observer,      \* identity of the audit observer object of each process
    pc, work,      \* step of each process, and the bindings it works on
    sessions,      \* sessions create_session() has handed out; a session is a
                   \* frozen value of digests, which its holder may keep or rebuild
    runs,          \* history: executor.execute() calls, per activation
    powerLosses    \* history: how often the machine has lost power

stores == <<custody, composition, approvals, claims, issued, consumed>>
vars == <<custody, composition, approvals, claims, issued, consumed,
          observer, pc, work, sessions, runs, powerLosses>>

Work == [session : Session, approval : ApprovalId]
Steps == {"idle", "custody", "composition", "approval", "activation", "issue",
          "lookup", "consume", "dispatch"}

Init ==
    /\ custody = [q \in Request |-> FreeEntry]
    /\ composition = [q \in Request |-> FreeEntry]
    /\ approvals = [i \in ApprovalId |-> FreeEntry]
    /\ claims = [a \in Activation |-> FreeEntry]
    /\ issued = [s \in Session |-> FreeEntry]
    /\ consumed = [s \in Session |-> FreeEntry]
    /\ observer \in [Proc -> Observer]
    /\ pc = [p \in Proc |-> "idle"]
    /\ work = [p \in Proc |-> NoWork]
    /\ sessions = {}
    /\ runs = [a \in Activation |-> <<>>]
    /\ powerLosses = 0

-----------------------------------------------------------------------------
Goto(p, step) == pc' = [pc EXCEPT ![p] = step] /\ UNCHANGED work

(* The gate returns to its caller: a refusal, a session or a decision.     *)
Leave(p) ==
    /\ pc' = [pc EXCEPT ![p] = "idle"]
    /\ work' = [work EXCEPT ![p] = NoWork]

Current(p) == work[p].session
Activated(p) == Current(p).receipt.activation

-----------------------------------------------------------------------------
(* Recording evidence: one claim on one store each. *)

(* WorkspaceCustodyGate.attest() of the roots of request q.                *)
AttestCustody(q) ==
    /\ \E o \in ClaimOutcomes(custody[q], q) : custody' = [custody EXCEPT ![q] = o.entry]
    /\ UNCHANGED <<composition, approvals, claims, issued, consumed,
                   observer, pc, work, sessions, runs, powerLosses>>

(* RuntimeCompositionGate.attest() of the manifest of request q.           *)
AttestComposition(q) ==
    /\ \E o \in ClaimOutcomes(composition[q], q) :
          composition' = [composition EXCEPT ![q] = o.entry]
    /\ UNCHANGED <<custody, approvals, claims, issued, consumed,
                   observer, pc, work, sessions, runs, powerLosses>>

(* GovernedApprovalGate.record() of a human decision, by a process whose   *)
(* observer the receipt binds.                                             *)
RecordApproval(p, i) ==
    /\ pc[p] = "idle"
    /\ \E r \in Receipt, q \in Request, d \in Decision :
          LET receipt == [binding |-> [receipt |-> r, request |-> q,
                                       observer |-> observer[p]],
                          decision |-> d]
          IN  \E o \in ClaimOutcomes(approvals[i], receipt) :
                 approvals' = [approvals EXCEPT ![i] = o.entry]
    /\ UNCHANGED <<custody, composition, claims, issued, consumed,
                   observer, pc, work, sessions, runs, powerLosses>>

-----------------------------------------------------------------------------
(* create_session() *)

(* The caller's bindings pass _binding_rejection() and the isolation check *)
(* of the ledger root: they are consistent, and the observer is the        *)
(* caller's own object.  Inconsistent bindings are refused here.           *)
BeginCreate(p) ==
    /\ pc[p] = "idle"
    /\ \E r \in Receipt, q \in Request, i \in ApprovalId :
          work' = [work EXCEPT ![p] =
                      [session  |-> [receipt |-> r, request |-> q,
                                     observer |-> observer[p]],
                       approval |-> i]]
    /\ pc' = [pc EXCEPT ![p] = "custody"]
    /\ UNCHANGED <<stores, observer, sessions, runs, powerLosses>>

(* ControlledSessionReadinessGate: the stored attestation, compared with   *)
(* the caller's, and a fresh look at the roots that may refuse as well.    *)
CheckEvidence(p, step, store, next) ==
    /\ pc[p] = step
    /\ \E o \in ReadOutcomes(store[Current(p).request]) :
          IF o.answer = "found" THEN Goto(p, next) ELSE Leave(p)
    /\ UNCHANGED <<stores, observer, sessions, runs, powerLosses>>

CheckCustody(p) == CheckEvidence(p, "custody", custody, "composition")
CheckComposition(p) == CheckEvidence(p, "composition", composition, "approval")

CheckApproval_AnyDecision(p) ==        \* faulty form: a denial is as good
    /\ pc[p] = "approval"
    /\ \E o \in ReadOutcomes(approvals[work[p].approval]) :
          IF o.answer = "found" /\ o.entry.rec.binding = Current(p)
          THEN Goto(p, "activation") ELSE Leave(p)
    /\ UNCHANGED <<stores, observer, sessions, runs, powerLosses>>

(* GovernedApprovalGate.validate_for_session(): the stored receipt is the  *)
(* presented one, binds exactly these values and is not a denial.          *)
CheckApproval(p) ==
    /\ pc[p] = "approval"
    /\ \E o \in ReadOutcomes(approvals[work[p].approval]) :
          IF /\ o.answer = "found"
             /\ o.entry.rec = [binding |-> Current(p), decision |-> "approved"]
          THEN Goto(p, "activation") ELSE Leave(p)
    /\ UNCHANGED <<stores, observer, sessions, runs, powerLosses>>

ClaimActivation_Again(p) ==            \* faulty form: a retry may take up its old claim
    /\ pc[p] = "activation"
    /\ \E o \in ClaimOutcomes(claims[Activated(p)], Current(p).receipt) :
          /\ claims' = [claims EXCEPT ![Activated(p)] = o.entry]
          /\ IF o.answer \in {"claimed", "already_claimed"}
             THEN Goto(p, "issue") ELSE Leave(p)
    /\ UNCHANGED <<custody, composition, approvals, issued, consumed,
                   observer, sessions, runs, powerLosses>>

(* The activation is claimed for this receipt: only CLAIMED goes on.       *)
ClaimActivation(p) ==
    /\ pc[p] = "activation"
    /\ \E o \in ClaimOutcomes(claims[Activated(p)], Current(p).receipt) :
          /\ claims' = [claims EXCEPT ![Activated(p)] = o.entry]
          /\ IF o.answer = "claimed" THEN Goto(p, "issue") ELSE Leave(p)
    /\ UNCHANGED <<custody, composition, approvals, issued, consumed,
                   observer, sessions, runs, powerLosses>>

IssueSession_Unchecked(p) ==           \* faulty form: the session whatever the claim says
    /\ pc[p] = "issue"
    /\ \E o \in ClaimOutcomes(issued[Current(p)], Current(p)) :
          issued' = [issued EXCEPT ![Current(p)] = o.entry]
    /\ sessions' = sessions \cup {Current(p)}
    /\ Leave(p)
    /\ UNCHANGED <<custody, composition, approvals, claims, consumed,
                   observer, runs, powerLosses>>

IssueSession_ReceiptDigest(p) ==       \* faulty form: the record binds the receipt only
    /\ pc[p] = "issue"
    /\ \E o \in ClaimOutcomes(issued[Current(p)], Current(p).receipt) :
          /\ issued' = [issued EXCEPT ![Current(p)] = o.entry]
          /\ sessions' = IF o.answer = "claimed" THEN sessions \cup {Current(p)}
                                                 ELSE sessions
    /\ Leave(p)
    /\ UNCHANGED <<custody, composition, approvals, claims, consumed,
                   observer, runs, powerLosses>>

(* The session is issued; a failure here leaves the activation claimed.    *)
IssueSession(p) ==
    /\ pc[p] = "issue"
    /\ \E o \in ClaimOutcomes(issued[Current(p)], Current(p)) :
          /\ issued' = [issued EXCEPT ![Current(p)] = o.entry]
          /\ sessions' = IF o.answer = "claimed" THEN sessions \cup {Current(p)}
                                                 ELSE sessions
    /\ Leave(p)
    /\ UNCHANGED <<custody, composition, approvals, claims, consumed,
                   observer, runs, powerLosses>>

-----------------------------------------------------------------------------
(* ControlledRuntimeInvoker.invoke(), through consume_for_runtime_start(). *)

(* The caller holds a session object and presents bindings that determine  *)
(* the same session: its observer has the identity the session was made    *)
(* with.                                                                   *)
BeginInvoke(p) ==
    /\ pc[p] = "idle"
    /\ \E s \in sessions, i \in ApprovalId :
          /\ s.observer = observer[p]
          /\ work' = [work EXCEPT ![p] = [session |-> s, approval |-> i]]
    /\ pc' = [pc EXCEPT ![p] = "lookup"]
    /\ UNCHANGED <<stores, observer, sessions, runs, powerLosses>>

LookupIssued(p) ==
    /\ pc[p] = "lookup"
    /\ \E o \in ReadOutcomes(issued[Current(p)]) :
          IF o.answer = "found" /\ o.entry.rec = Current(p)
          THEN Goto(p, "consume") ELSE Leave(p)
    /\ UNCHANGED <<stores, observer, sessions, runs, powerLosses>>

ConsumeSession_Again(p) ==             \* faulty form: a consumed session starts again
    /\ pc[p] = "consume"
    /\ \E o \in ClaimOutcomes(consumed[Current(p)], Current(p)) :
          /\ consumed' = [consumed EXCEPT ![Current(p)] = o.entry]
          /\ IF o.answer \in {"claimed", "already_claimed"}
             THEN Goto(p, "dispatch") ELSE Leave(p)
    /\ UNCHANGED <<custody, composition, approvals, claims, issued,
                   observer, sessions, runs, powerLosses>>

(* Consumption looks at no approval or attestation again.                  *)
ConsumeSession(p) ==
    /\ pc[p] = "consume"
    /\ \E o \in ClaimOutcomes(consumed[Current(p)], Current(p)) :
          /\ consumed' = [consumed EXCEPT ![Current(p)] = o.entry]
          /\ IF o.answer = "claimed" THEN Goto(p, "dispatch") ELSE Leave(p)
    /\ UNCHANGED <<custody, composition, approvals, claims, issued,
                   observer, sessions, runs, powerLosses>>

(* RUNTIME_START_ALLOWED: the invoker calls executor.execute(); whether it *)
(* returns or raises, the session stays consumed.                          *)
Dispatch(p) ==
    /\ pc[p] = "dispatch"
    /\ runs' = [runs EXCEPT ![Activated(p)] = Append(@, Current(p))]
    /\ Leave(p)
    /\ UNCHANGED <<stores, observer, sessions, powerLosses>>

-----------------------------------------------------------------------------
(* The environment. *)

(* A process is restarted: it forgets its call, and its new observer       *)
(* object has some identity, perhaps one that was used before.  (A claim   *)
(* cut short leaves what an UNAVAILABLE claim may leave.)                  *)
Restart(p) ==
    /\ Leave(p)
    /\ \E o \in Observer : observer' = [observer EXCEPT ![p] = o]
    /\ UNCHANGED <<stores, sessions, runs, powerLosses>>

Survives(store) ==
    /\ store' \in [DOMAIN store -> UNION {AfterPowerLoss(store[k]) : k \in DOMAIN store}]
    /\ \A k \in DOMAIN store : store'[k] \in AfterPowerLoss(store[k])

(* Every process is gone, and so may be what was never synchronised.       *)
PowerLoss ==
    /\ powerLosses < MaxPowerLosses
    /\ Survives(custody) /\ Survives(composition) /\ Survives(approvals)
    /\ Survives(claims) /\ Survives(issued) /\ Survives(consumed)
    /\ observer' \in [Proc -> Observer]
    /\ pc' = [p \in Proc |-> "idle"]
    /\ work' = [p \in Proc |-> NoWork]
    /\ powerLosses' = powerLosses + 1
    /\ UNCHANGED <<sessions, runs>>

-----------------------------------------------------------------------------
Create(p) ==
    \/ BeginCreate(p) \/ CheckCustody(p) \/ CheckComposition(p) \/ CheckApproval(p)
    \/ ClaimActivation(p) \/ IssueSession(p)

Invoke(p) ==
    \/ BeginInvoke(p) \/ LookupIssued(p) \/ ConsumeSession(p) \/ Dispatch(p)

Next ==
    \/ \E q \in Request : AttestCustody(q) \/ AttestComposition(q)
    \/ \E p \in Proc, i \in ApprovalId : RecordApproval(p, i)
    \/ \E p \in Proc : Create(p) \/ Invoke(p) \/ Restart(p)
    \/ PowerLoss

Spec == Init /\ [][Next]_vars

-----------------------------------------------------------------------------
(* Properties. *)

TypeOK ==
    /\ custody \in [Request -> Entries(Request)]
    /\ composition \in [Request -> Entries(Request)]
    /\ approvals \in [ApprovalId -> Entries(ApprovalReceipt)]
    /\ claims \in [Activation -> Entries(Receipt)]
    /\ issued \in [Session -> Entries(Session)]
    /\ consumed \in [Session -> Entries(Session)]
    /\ observer \in [Proc -> Observer]
    /\ pc \in [Proc -> Steps]
    /\ work \in [Proc -> Work \cup {NoWork}]
    /\ \A p \in Proc : pc[p] # "idle" => work[p] \in Work
    /\ sessions \subseteq Session
    /\ runs \in [Activation -> Seq(Session)]
    /\ powerLosses \in Nat

(* A runtime is started at most once for an activation, whichever          *)
(* processes create and invoke sessions for it, with whatever policy,      *)
(* request or observer, and across failed claims, restarts and power loss  *)
(* ("Invoke a supplied runtime once only", invoker.py:17).                 *)
StartOnce == \A a \in Activation : Len(runs[a]) <= 1

(* An activation gives rise to at most one session, and is claimed for     *)
(* that session's receipt for ever (create_session(), gate.py:116-124).    *)
OneSession ==
    \A s, t \in sessions :
        /\ s.receipt.activation = t.receipt.activation => s = t
        /\ claims[s.receipt.activation] = FirmEntry(s.receipt)
        /\ issued[s] = FirmEntry(s)

(* Evidence for a session: its roots and runtime are attested and a human  *)
(* approved exactly these bindings, this observer object included.         *)
Vouched(s) ==
    /\ IsRecorded(custody[s.request])
    /\ IsRecorded(composition[s.request])
    /\ \E i \in ApprovalId :
          /\ IsRecorded(approvals[i])
          /\ approvals[i].rec = [binding |-> s, decision |-> "approved"]

(* The evidence create_session() read in three separate store operations   *)
(* still stands together when the session is consumed and its runtime      *)
(* started, which look at none of it again: nothing but a power loss takes *)
(* a recorded approval or attestation away.                                *)
StartIsVouched ==
    \A p \in Proc : pc[p] = "dispatch" =>
        /\ Current(p) \in sessions
        /\ powerLosses > 0 \/ Vouched(Current(p))

(* An activation whose claim was made, or whose ledger file was spoiled,   *)
(* without a session coming of it.                                         *)
Burned(a) ==
    /\ claims[a].state # "free"
    /\ \A s \in sessions : s.receipt.activation # a
    /\ \A p \in Proc : pc[p] = "issue" => Activated(p) # a

(* A session that was consumed, or whose consumption spoiled the ledger    *)
(* file, while the caller was refused or died before executor.execute():   *)
(* its permit is spent and no runtime ran.                                 *)
Forfeited(s) ==
    /\ consumed[s].state # "free"
    /\ runs[s.receipt.activation] = <<>>
    /\ \A p \in Proc : pc[p] = "dispatch" => Current(p) # s

StaysForfeited(s) ==
    Forfeited(s) => \/ Forfeited(s)'
                    \/ consumed[s].state # "firm" /\ powerLosses' # powerLosses

(* What a failure between two durable steps has used up stays used up: no  *)
(* retry makes a session of an activation burned by a failed second claim  *)
(* (gate.py:133), nor starts a runtime for a session that was consumed by  *)
(* a caller who did not get to its start (invoker.py:48).  Only a power    *)
(* loss can undo either, and only if the claim was never confirmed.        *)
StaysBurned ==
    [][/\ \A a \in Activation :
             Burned(a) => \/ Burned(a)'
                          \/ claims[a].state # "firm" /\ powerLosses' # powerLosses
       /\ \A s \in sessions : StaysForfeited(s)]_vars

-----------------------------------------------------------------------------
(* The gates implement the activation protocol, in which there are no      *)
(* stores, claims, processes or restarts: a session stands or not, and an  *)
(* activation has a session or not, and a start or not.                    *)
VouchedSessions == {s \in Session : Vouched(s)}

Protocol == INSTANCE ActivationProtocol
                WITH vouched <- VouchedSessions, lost <- (powerLosses > 0)

(* One session for an activation and one start of it, each on evidence     *)
(* that stands at that very moment, although create_session() reads it in  *)
(* three store operations before, and consume_for_runtime_start() looks at *)
(* none of it again (gate.py:71-207).                                      *)
ImplementsProtocol == Protocol!Spec
=============================================================================
