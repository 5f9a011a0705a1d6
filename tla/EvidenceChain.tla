--------------------------- MODULE EvidenceChain ---------------------------
(***************************************************************************)
(* The governed evidence stages between a built artifact and a             *)
(* construction work order: readiness, promotion, human authorization and  *)
(* control of an external transition, destination contract, outcome        *)
(* policy, attestation policy, work order.  Every stage is one assess()    *)
(* over immutable evidence its caller chooses, and callers may choose any  *)
(* mixture of what was issued before.  An assessment names its evidence by *)
(* id and digest, so it is modelled as the record of what it was issued    *)
(* for.  Only favourable assessments are kept: a later stage refuses the   *)
(* others.  Two stages write: authorization claims the human receipt and   *)
(* control claims the transition in durable stores (ClaimOps).  With those *)
(* it takes names as durable (NamesDurable of ClaimStore): a claim that    *)
(* was confirmed survives a power loss.                                    *)
(*                                                                         *)
(* One artifact id is modelled; evidence with an unsupported profile, a    *)
(* malformed field or a wrong digest of its own is refused by every stage  *)
(* and is not enumerated.                                                  *)
(***************************************************************************)
EXTENDS Naturals, FiniteSets

CONSTANTS
    Fingerprint,     \* artifact fingerprints
    SnapshotOf,      \* the snapshot id a fingerprint was computed from
    Class,           \* validation classes a readiness request requires
    Validations,     \* the validation receipts that exist: [class, fp, passed]
    Destination,     \* logical destinations that callers name
    Supported,       \* those the promotion assessor knows
    AuthId,          \* authorization ids
    Terms,           \* intent id, policies, execution and run, as one value
    IdemKey,         \* idempotency keys of control requests
    DistinctIds,     \* whether approvers give every receipt an id of its own
    MaxNow,          \* bound on the clock
    MaxIssued,       \* bound on the assessments of one stage
    NoRecord

VARIABLES
    now,             \* the time callers pass to assess()
    ready,           \* READY assessments, by the fingerprint they are bound to
    eligible,        \* ELIGIBLE assessments
    receipts,        \* the decisions human approvers have issued
    store,           \* the authorization store, by authorization id
    authorized,      \* AUTHORIZED assessments
    ledger,          \* the control ledger, by the transitions it has met
    claimed,         \* CLAIMED decisions, with the receipt they were made on
    contracts,       \* CONTRACT_ATTESTED assessments
    outcomes,        \* OUTCOME_POLICY_ATTESTED assessments
    policies,        \* ATTESTATION_POLICY_ATTESTED assessments
    workOrders       \* CONSTRUCTION_WORK_ORDER_ATTESTED assessments

evidence == <<ready, eligible, receipts>>
transition == <<store, authorized, ledger, claimed>>
declared == <<contracts, outcomes, policies, workOrders>>
vars == <<now, evidence, transition, declared>>

INSTANCE ClaimOps

Time == 0..MaxNow

ASSUME ChainConstants ==
    /\ SnapshotOf \in [Fingerprint -> Fingerprint]
    /\ Validations \subseteq [class : Class, fp : Fingerprint, passed : BOOLEAN]
    /\ Supported \subseteq Destination
    /\ DistinctIds \in BOOLEAN
    /\ MaxNow \in Nat /\ MaxIssued \in Nat

Eligibility == [fp : Fingerprint, dest : Destination, ready : Fingerprint]
Receipt == [id : AuthId, decision : {"authorized", "denied"}, fp : Fingerprint,
            dest : Destination, eligibility : Eligibility, terms : Terms,
            expires : Time]
Authorization == [auth : AuthId, fp : Fingerprint, dest : Destination, binding : Receipt]
Transition == [receipt : Receipt, assessment : Authorization]
Contract == [receipt : Receipt, assessment : Authorization, expires : Time]
OutcomePolicy == [contract : Contract, expires : Time]
AttestationPolicy == [contract : Contract, outcome : OutcomePolicy, expires : Time]
WorkOrder == [contract : Contract, outcome : OutcomePolicy, terms : Terms, expires : Time]

Init ==
    /\ now = 0
    /\ ready = {} /\ eligible = {} /\ receipts = {}
    /\ store = [i \in AuthId |-> FreeEntry]
    /\ ledger = << >>
    /\ authorized = {} /\ claimed = {}
    /\ contracts = {} /\ outcomes = {} /\ policies = {} /\ workOrders = {}

Issue(S, a) == S \cup {a}
Room(S) == Cardinality(S) < MaxIssued

-----------------------------------------------------------------------------
(* Readiness: every validation presented is about this fingerprint and     *)
(* passed, and every required class is there.                              *)
Complete(f, vs) ==
    /\ \A v \in vs : v.fp = f /\ v.passed
    /\ Class \subseteq {v.class : v \in vs}
AssessReadiness(f, vs) ==
    /\ Complete(f, vs)
    /\ ready' = Issue(ready, f)
    /\ UNCHANGED <<now, eligible, receipts, transition, declared>>

(* Promotion of fingerprint f to destination d, on a readiness request and *)
(* a readiness assessment.  Request and assessment are compared by artifact *)
(* and snapshot id.                                                        *)
SameArtifact(request, assessment) == SnapshotOf[request] = SnapshotOf[assessment]
AssessPromotion(f, d, request, assessment) ==
    /\ assessment \in ready
    /\ SameArtifact(request, assessment)
    /\ f = request
    /\ d \in Supported
    /\ Room(eligible)
    /\ eligible' = Issue(eligible, [fp |-> f, dest |-> d, ready |-> assessment])
    /\ UNCHANGED <<now, ready, receipts, transition, declared>>

-----------------------------------------------------------------------------
(* A human approver decides about an intent that names an eligibility.     *)
Decide(a) ==
    /\ a.eligibility \in eligible /\ a.expires > now
    /\ DistinctIds => \A b \in receipts : b.id # a.id
    /\ Room(receipts)
    /\ receipts' = Issue(receipts, a)
    /\ UNCHANGED <<now, ready, eligible, transition, declared>>

(* The promotion request, the intent and the receipt agree in every field: *)
(* what is compared beyond that.  The destination of the eligibility is    *)
(* compared by the contract stage only.                                    *)
EligibleFor(e, a) == e \in eligible /\ e = a.eligibility /\ e.fp = a.fp
InForce(a) == a.decision = "authorized" /\ now < a.expires

Granted_Duplicate(o) ==                 \* faulty form: an earlier claim counts again
    o.answer \in {"claimed", "already_claimed"}
Granted(o) == o.answer = "claimed"
AssessAuthorization_IdOnly(a) ==        \* faulty form: the record binds the id only
    /\ a \in receipts
    /\ EligibleFor(a.eligibility, a) /\ InForce(a)
    /\ \E o \in ClaimOutcomes(store[a.id], a.id) :
          /\ store' = [store EXCEPT ![a.id] = o.entry]
          /\ \/ UNCHANGED authorized
             \/ /\ Granted(o)
                /\ authorized' = Issue(authorized, [auth |-> a.id, fp |-> a.fp,
                                                    dest |-> a.dest, binding |-> a])
    /\ UNCHANGED <<now, evidence, ledger, claimed, declared>>
AssessAuthorization(a) ==
    /\ a \in receipts
    /\ EligibleFor(a.eligibility, a) /\ InForce(a)
    /\ \E o \in ClaimOutcomes(store[a.id], a) :
          /\ store' = [store EXCEPT ![a.id] = o.entry]
          /\ \/ UNCHANGED authorized      \* refused, or the process dies first
             \/ /\ Granted(o)
                /\ authorized' = Issue(authorized, [auth |-> a.id, fp |-> a.fp,
                                                    dest |-> a.dest, binding |-> a])
    /\ UNCHANGED <<now, evidence, ledger, claimed, declared>>

-----------------------------------------------------------------------------
(* Control: a receipt and an AUTHORIZED assessment, compared by            *)
(* authorization id, artifact and destination.  A receipt is still good at *)
(* the very moment it expires.  The ledger's key is the whole transition;  *)
(* the idempotency key is part of the record.                              *)
FitsAssessment(a, z) == z.auth = a.id /\ z.fp = a.fp /\ z.dest = a.dest
ControlKey_Idempotency(a, z, k) ==      \* faulty form: another key, another transition
    [receipt |-> a, assessment |-> z, key |-> k]
ControlKey(a, z, k) == [receipt |-> a, assessment |-> z]
Entry(key) == IF key \in DOMAIN ledger THEN ledger[key] ELSE FreeEntry
AssessControl(a, z, k) ==
    /\ a \in receipts /\ z \in authorized
    /\ FitsAssessment(a, z)
    /\ a.decision = "authorized" /\ now <= a.expires
    /\ \E o \in ClaimOutcomes(Entry(ControlKey(a, z, k)), k) :
          /\ ledger' = [key \in DOMAIN ledger \cup {ControlKey(a, z, k)} |->
                          IF key = ControlKey(a, z, k) THEN o.entry ELSE ledger[key]]
          /\ \/ UNCHANGED claimed
             \/ /\ o.answer = "claimed"
                /\ claimed' = Issue(claimed, [receipt |-> a, assessment |-> z, key |-> k])
    /\ UNCHANGED <<now, evidence, store, authorized, declared>>

-----------------------------------------------------------------------------
(* Destination contract.  Control evidence may be presented with it; it is *)
(* refused only when AMBIGUOUS, a state no operation records.              *)
SameDestination_Unchecked(a) == TRUE    \* faulty form: like the authorization stage
SameDestination(a) == a.eligibility.dest = a.dest
FitsContract(k) == FitsAssessment(k.receipt, k.assessment) /\ now < k.expires
AssessContract(k) ==
    /\ k.receipt \in receipts /\ k.assessment \in authorized
    /\ EligibleFor(k.receipt.eligibility, k.receipt) /\ SameDestination(k.receipt)
    /\ InForce(k.receipt)
    /\ FitsContract(k)
    /\ Room(contracts)
    /\ contracts' = Issue(contracts, k)
    /\ UNCHANGED <<now, evidence, transition, outcomes, policies, workOrders>>

(* Outcome policy for a contract: contract, receipt and policy in force.   *)
ContractInForce(k) == k \in contracts /\ now < k.expires /\ now < k.receipt.expires
AssessOutcome(o) ==
    /\ ContractInForce(o.contract) /\ now < o.expires
    /\ Room(outcomes)
    /\ outcomes' = Issue(outcomes, o)
    /\ UNCHANGED <<now, evidence, transition, contracts, policies, workOrders>>

(* Attestation policy for a contract and its outcome policy: contract and  *)
(* policy in force.                                                        *)
OutcomeFits(p) == p.outcome \in outcomes /\ p.outcome.contract = p.contract
AssessAttestation(p) ==
    /\ p.contract \in contracts /\ OutcomeFits(p)
    /\ now < p.contract.expires /\ now < p.expires
    /\ Room(policies)
    /\ policies' = Issue(policies, p)
    /\ UNCHANGED <<now, evidence, transition, contracts, outcomes, workOrders>>

(* Work order for a contract and its outcome policy, with custody and      *)
(* composition evidence of one execution; only the order's own expiry is   *)
(* looked at.                                                              *)
AssessWorkOrder(w) ==
    /\ w.contract \in contracts /\ OutcomeFits(w)
    /\ now < w.expires
    /\ Room(workOrders)
    /\ workOrders' = Issue(workOrders, w)
    /\ UNCHANGED <<now, evidence, transition, contracts, outcomes, policies>>

-----------------------------------------------------------------------------
Tick ==
    /\ now < MaxNow /\ now' = now + 1
    /\ UNCHANGED <<evidence, transition, declared>>

PowerLoss ==
    /\ \E s \in [AuthId -> Entries(receipts)] :
          /\ \A i \in AuthId : s[i] \in AfterPowerLoss(store[i])
          /\ store' = s
    /\ \E l \in [DOMAIN ledger -> Entries(IdemKey)] :
          /\ \A key \in DOMAIN ledger : l[key] \in AfterPowerLoss(ledger[key])
          /\ ledger' = l
    /\ UNCHANGED <<now, evidence, authorized, claimed, declared>>

Next ==
    \/ \E f \in Fingerprint, vs \in SUBSET Validations : AssessReadiness(f, vs)
    \/ \E f, q, r \in Fingerprint, d \in Destination : AssessPromotion(f, d, q, r)
    \/ \E a \in [id : AuthId, decision : {"authorized", "denied"}, fp : Fingerprint,
                dest : Destination, eligibility : eligible, terms : Terms,
                expires : Time] : Decide(a)
    \/ \E a \in receipts : AssessAuthorization(a)
    \/ \E a \in receipts, z \in authorized, k \in IdemKey : AssessControl(a, z, k)
    \/ \E a \in receipts, z \in authorized, t \in Time :
          AssessContract([receipt |-> a, assessment |-> z, expires |-> t])
    \/ \E k \in contracts, t \in Time : AssessOutcome([contract |-> k, expires |-> t])
    \/ \E k \in contracts, o \in outcomes, t \in Time :
          AssessAttestation([contract |-> k, outcome |-> o, expires |-> t])
    \/ \E k \in contracts, o \in outcomes, x \in Terms, t \in Time :
          AssessWorkOrder([contract |-> k, outcome |-> o, terms |-> x, expires |-> t])
    \/ Tick
    \/ PowerLoss

Spec == Init /\ [][Next]_vars

-----------------------------------------------------------------------------
(* The types of the evidence and of the two stores.                        *)
TypeOK ==
    /\ now \in Time
    /\ ready \subseteq Fingerprint /\ eligible \subseteq Eligibility
    /\ receipts \subseteq Receipt /\ authorized \subseteq Authorization
    /\ store \in [AuthId -> Entries(receipts)]
    /\ DOMAIN ledger \subseteq Transition
    /\ \A key \in DOMAIN ledger : ledger[key] \in Entries(IdemKey)
    /\ claimed \subseteq [receipt : Receipt, assessment : Authorization, key : IdemKey]
    /\ contracts \subseteq Contract /\ outcomes \subseteq OutcomePolicy
    /\ policies \subseteq AttestationPolicy /\ workOrders \subseteq WorkOrder

(* One human authorization controls at most one transition, through two    *)
(* stores with different keys, under any idempotency keys, retries, lost   *)
(* answers, failing stores and power losses - provided approvers do not    *)
(* give two receipts one id.                                               *)
OneTransition ==
    \A c, d \in claimed : c.receipt.id = d.receipt.id => c = d

(* Whatever mixture of evidence was presented, a work order and an         *)
(* attestation policy lead back, over contract and outcome policy, to one  *)
(* receipt with which a human authorized exactly this artifact for a       *)
(* destination it was found eligible for, and which is the receipt that    *)
(* the durable store holds under its id.                                   *)
Authorizes(a, k) ==
    /\ k.assessment.binding = a
    /\ store[a.id] = FirmEntry(a)
    /\ a.decision = "authorized"
    /\ [fp |-> a.fp, dest |-> a.dest] \in {[fp |-> e.fp, dest |-> e.dest] : e \in eligible}
ChainIsWhole ==
    /\ \A k \in contracts \cup {p.contract : p \in policies} \cup {w.contract : w \in workOrders} :
          Authorizes(k.receipt, k)
    /\ \A p \in policies \cup workOrders : p.outcome.contract = p.contract

(* A receipt that is in the store although no assessment came of it (the   *)
(* answer was lost, or the store said it was unavailable) never becomes    *)
(* AUTHORIZED later: a retry must not take its own earlier claim for a     *)
(* grant.                                                                  *)
Spent(i) == store[i].state = "firm" /\ \A z \in authorized : z.auth # i
NoLateGrant == [][\A i \in AuthId : Spent(i) => Spent(i)']_vars
=============================================================================
