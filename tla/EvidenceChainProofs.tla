------------------------ MODULE EvidenceChainProofs ------------------------
(* What the chain of evidence guarantees for any artifacts, destinations,  *)
(* authorization ids, terms, idempotency keys and bounds, over stores      *)
(* whose confirmed claims survive a power loss (ClaimOps).                 *)
EXTENDS EvidenceChain, TLAPS

-----------------------------------------------------------------------------
(* The two stores. *)

(* A claim leaves every entry that is not free, and grants only a free     *)
(* one, which then holds the claimed record.                               *)
LEMMA ClaimGrants ==
    ASSUME NEW e, NEW r, NEW o \in ClaimOutcomes(e, r)
    PROVE  /\ e.state # "free" => o.entry = e
           /\ o.answer = "claimed" => e.state = "free" /\ o.entry = FirmEntry(r)
BY DEF ClaimOutcomes, HalfWritten, Outcome, FirmEntry

(* A firm entry is in state firm and shows its record.                     *)
LEMMA FirmShows == \A r : FirmEntry(r).state = "firm" /\ FirmEntry(r).rec = r
BY DEF FirmEntry

(* A claim of r leaves an entry over the records there were, and r.        *)
LEMMA ClaimLeaves ==
    ASSUME NEW R, NEW r \in R, NEW e \in Entries(R), NEW o \in ClaimOutcomes(e, r)
    PROVE  o.entry \in Entries(R)
BY DEF ClaimOutcomes, HalfWritten, Outcome, Entries

(* A power loss leaves a firm entry as it is.                              *)
LEMMA FirmSurvives ==
    ASSUME NEW e, e.state = "firm", NEW f \in AfterPowerLoss(e)
    PROVE  f = e
BY DEF AfterPowerLoss

(* Entries over some records are entries over more.                        *)
LEMMA MoreRecords ==
    ASSUME NEW R, NEW S, R \subseteq S PROVE Entries(R) \subseteq Entries(S)
BY DEF Entries

-----------------------------------------------------------------------------
(* Types. *)

(* The empty chain is well typed.                                          *)
LEMMA TypeInit == Init => TypeOK
BY ChainConstants DEF Init, TypeOK, Entries, Time

(* Every stage keeps the types.                                            *)
LEMMA TypeStep == ASSUME TypeOK, [Next]_vars PROVE TypeOK'
<1> USE DEF evidence, transition, declared
<1>1. ASSUME NEW f \in Fingerprint, NEW vs \in SUBSET Validations, AssessReadiness(f, vs)
      PROVE  TypeOK'
  BY <1>1 DEF AssessReadiness, Issue, TypeOK
<1>2. ASSUME NEW f \in Fingerprint, NEW q \in Fingerprint, NEW r \in Fingerprint,
             NEW d \in Destination, AssessPromotion(f, d, q, r)
      PROVE  TypeOK'
  <2>1. [fp |-> f, dest |-> d, ready |-> r] \in Eligibility
    BY DEF Eligibility
  <2>2. eligible' \subseteq Eligibility /\ UNCHANGED <<now, ready, receipts, transition, declared>>
    BY <1>2, <2>1 DEF AssessPromotion, Issue, TypeOK
  <2> QED  BY <2>2 DEF TypeOK
<1>3. ASSUME NEW a \in [id : AuthId, decision : {"authorized", "denied"}, fp : Fingerprint,
                        dest : Destination, eligibility : eligible, terms : Terms,
                        expires : Time], Decide(a)
      PROVE  TypeOK'
  <2>1. a \in Receipt
    BY DEF Receipt, TypeOK
  <2>2. /\ receipts' = receipts \cup {a}
        /\ UNCHANGED <<now, ready, eligible, transition, declared>>
    BY <1>3 DEF Decide, Issue
  <2>3. Entries(receipts) \subseteq Entries(receipts')
    BY <2>2, MoreRecords
  <2>4. store' \in [AuthId -> Entries(receipts')]
    BY <2>2, <2>3 DEF TypeOK
  <2>5. receipts' \subseteq Receipt
    BY <2>1, <2>2 DEF TypeOK
  <2> QED  BY <2>2, <2>4, <2>5 DEF TypeOK
<1>4. ASSUME NEW a \in receipts, AssessAuthorization(a) PROVE TypeOK'
  <2>1. a \in Receipt /\ a.id \in AuthId /\ a.fp \in Fingerprint /\ a.dest \in Destination
    BY DEF TypeOK, Receipt
  <2>2. PICK o \in ClaimOutcomes(store[a.id], a) :
           /\ store' = [store EXCEPT ![a.id] = o.entry]
           /\ \/ UNCHANGED authorized
              \/ /\ Granted(o)
                 /\ authorized' = Issue(authorized, [auth |-> a.id, fp |-> a.fp,
                                                     dest |-> a.dest, binding |-> a])
    BY <1>4 DEF AssessAuthorization
  <2>3. o.entry \in Entries(receipts)
    BY <2>1, ClaimLeaves DEF TypeOK
  <2>4. store' \in [AuthId -> Entries(receipts)]
    BY <2>2, <2>3 DEF TypeOK
  <2>5. [auth |-> a.id, fp |-> a.fp, dest |-> a.dest, binding |-> a] \in Authorization
    BY <2>1 DEF Authorization
  <2>6. authorized' \subseteq Authorization
    BY <2>2, <2>5 DEF Issue, TypeOK
  <2>7. UNCHANGED <<now, evidence, ledger, claimed, declared>>
    BY <1>4 DEF AssessAuthorization
  <2> QED  BY <2>4, <2>6, <2>7 DEF TypeOK
<1>5. ASSUME NEW a \in receipts, NEW z \in authorized, NEW k \in IdemKey, AssessControl(a, z, k)
      PROVE  TypeOK'
  <2> DEFINE key == ControlKey(a, z, k)
  <2>1. key \in Transition /\ a \in Receipt /\ z \in Authorization
    BY DEF TypeOK, ControlKey, Transition
  <2>2. PICK o \in ClaimOutcomes(Entry(key), k) :
           /\ ledger' = [x \in DOMAIN ledger \cup {key} |-> IF x = key THEN o.entry ELSE ledger[x]]
           /\ \/ UNCHANGED claimed
              \/ /\ o.answer = "claimed"
                 /\ claimed' = Issue(claimed, [receipt |-> a, assessment |-> z, key |-> k])
    BY <1>5 DEF AssessControl
  <2>3. Entry(key) \in Entries(IdemKey)
    BY DEF Entry, TypeOK, Entries
  <2>4. o.entry \in Entries(IdemKey)
    BY <2>3, ClaimLeaves
  <2> HIDE DEF key
  <2>5. DOMAIN ledger' \subseteq Transition /\ \A x \in DOMAIN ledger' : ledger'[x] \in Entries(IdemKey)
    BY <2>1, <2>2, <2>4 DEF TypeOK
  <2>6. claimed' \subseteq [receipt : Receipt, assessment : Authorization, key : IdemKey]
    BY <2>1, <2>2 DEF Issue, TypeOK
  <2>7. UNCHANGED <<now, evidence, store, authorized, declared>>
    BY <1>5 DEF AssessControl
  <2> QED  BY <2>5, <2>6, <2>7 DEF TypeOK
<1>6. ASSUME NEW a \in receipts, NEW z \in authorized, NEW t \in Time,
             AssessContract([receipt |-> a, assessment |-> z, expires |-> t])
      PROVE  TypeOK'
  <2>1. [receipt |-> a, assessment |-> z, expires |-> t] \in Contract
    BY DEF Contract, TypeOK
  <2>2. contracts' \subseteq Contract
    BY <1>6, <2>1 DEF AssessContract, Issue, TypeOK
  <2>3. UNCHANGED <<now, evidence, transition, outcomes, policies, workOrders>>
    BY <1>6 DEF AssessContract
  <2> QED  BY <2>2, <2>3 DEF TypeOK
<1>7. ASSUME NEW k \in contracts, NEW t \in Time, AssessOutcome([contract |-> k, expires |-> t])
      PROVE  TypeOK'
  <2>1. [contract |-> k, expires |-> t] \in OutcomePolicy
    BY DEF OutcomePolicy, TypeOK
  <2>2. outcomes' \subseteq OutcomePolicy
    BY <1>7, <2>1 DEF AssessOutcome, Issue, TypeOK
  <2>3. UNCHANGED <<now, evidence, transition, contracts, policies, workOrders>>
    BY <1>7 DEF AssessOutcome
  <2> QED  BY <2>2, <2>3 DEF TypeOK
<1>8. ASSUME NEW k \in contracts, NEW o \in outcomes, NEW t \in Time,
             AssessAttestation([contract |-> k, outcome |-> o, expires |-> t])
      PROVE  TypeOK'
  <2>1. [contract |-> k, outcome |-> o, expires |-> t] \in AttestationPolicy
    BY DEF AttestationPolicy, TypeOK
  <2>2. policies' \subseteq AttestationPolicy
    BY <1>8, <2>1 DEF AssessAttestation, Issue, TypeOK
  <2>3. UNCHANGED <<now, evidence, transition, contracts, outcomes, workOrders>>
    BY <1>8 DEF AssessAttestation
  <2> QED  BY <2>2, <2>3 DEF TypeOK
<1>9. ASSUME NEW k \in contracts, NEW o \in outcomes, NEW x \in Terms, NEW t \in Time,
             AssessWorkOrder([contract |-> k, outcome |-> o, terms |-> x, expires |-> t])
      PROVE  TypeOK'
  <2>1. [contract |-> k, outcome |-> o, terms |-> x, expires |-> t] \in WorkOrder
    BY DEF WorkOrder, TypeOK
  <2>2. workOrders' \subseteq WorkOrder
    BY <1>9, <2>1 DEF AssessWorkOrder, Issue, TypeOK
  <2>3. UNCHANGED <<now, evidence, transition, contracts, outcomes, policies>>
    BY <1>9 DEF AssessWorkOrder
  <2> QED  BY <2>2, <2>3 DEF TypeOK
<1>10. CASE Tick
  <2>1. now' \in Time
    BY <1>10, ChainConstants DEF Tick, Time, TypeOK
  <2> QED  BY <1>10, <2>1 DEF Tick, TypeOK
<1>11. CASE PowerLoss
  <2>1. /\ store' \in [AuthId -> Entries(receipts)]
        /\ ledger' \in [DOMAIN ledger -> Entries(IdemKey)]
        /\ UNCHANGED <<now, evidence, authorized, claimed, declared>>
    BY <1>11 DEF PowerLoss
  <2> QED  BY <2>1 DEF TypeOK
<1>12. CASE UNCHANGED vars
  BY <1>12 DEF vars, TypeOK
<1> QED
  BY <1>1, <1>2, <1>3, <1>4, <1>5, <1>6, <1>7, <1>8, <1>9, <1>10, <1>11, <1>12 DEF Next

(* Evidence, stores and assessments are well typed in every behaviour of   *)
(* the assess() operations.                                                *)
THEOREM TypeCorrect == Spec => []TypeOK
BY TypeInit, TypeStep, PTL DEF Spec

-----------------------------------------------------------------------------
(* The inductive invariant. *)

(* An AUTHORIZED assessment repeats its receipt, which is the firm record  *)
(* under its id.                                                           *)
Assessed(b) == [auth |-> b.id, fp |-> b.fp, dest |-> b.dest, binding |-> b]
AuthorizedInv ==
    \A z \in authorized :
        /\ z.binding \in receipts /\ z = Assessed(z.binding)
        /\ z.binding.decision = "authorized"
        /\ store[z.binding.id] = FirmEntry(z.binding)

(* A CLAIMED decision is the firm record of its transition.                *)
ClaimedInv ==
    \A c \in claimed :
        /\ c.receipt \in receipts /\ c.assessment \in authorized
        /\ c.assessment.auth = c.receipt.id
        /\ ControlKey(c.receipt, c.assessment, c.key) \in DOMAIN ledger
        /\ ledger[ControlKey(c.receipt, c.assessment, c.key)] = FirmEntry(c.key)

(* A contract was made for a receipt that its assessment fits.             *)
Grounded(k) ==
    /\ k.receipt \in receipts /\ k.assessment \in authorized
    /\ FitsAssessment(k.receipt, k.assessment) /\ k.receipt.decision = "authorized"
    /\ \E e \in eligible : e.fp = k.receipt.fp /\ e.dest = k.receipt.dest
ContractInv == \A k \in contracts : Grounded(k)
PolicyInv ==
    \A p \in policies \cup workOrders :
        p.contract \in contracts /\ p.outcome.contract = p.contract

ChainInv == AuthorizedInv /\ ClaimedInv /\ ContractInv /\ PolicyInv

(* The empty chain satisfies it.                                           *)
LEMMA ChainInit == Init => ChainInv
BY DEF Init, ChainInv, AuthorizedInv, ClaimedInv, ContractInv, PolicyInv

(* Firm entries stay and evidence is only added: what both steps below     *)
(* use of a step that issues nothing they are about.                       *)
LEMMA ChainKept ==
    ASSUME TypeOK, ChainInv,
           receipts' = receipts, eligible \subseteq eligible', authorized' = authorized,
           claimed' = claimed, UNCHANGED <<contracts, policies, workOrders>>,
           \A i \in AuthId : store[i].state = "firm" => store'[i] = store[i],
           DOMAIN ledger \subseteq DOMAIN ledger',
           \A x \in DOMAIN ledger : ledger[x].state = "firm" => ledger'[x] = ledger[x]
    PROVE  ChainInv'
<1>2. AuthorizedInv'
  <2> SUFFICES ASSUME NEW z \in authorized
               PROVE  /\ z.binding \in receipts' /\ z = Assessed(z.binding)
                      /\ z.binding.decision = "authorized"
                      /\ store'[z.binding.id] = FirmEntry(z.binding)
    BY DEF AuthorizedInv
  <2>1. /\ z.binding \in receipts /\ z = Assessed(z.binding)
        /\ z.binding.decision = "authorized"
        /\ store[z.binding.id] = FirmEntry(z.binding)
    BY DEF ChainInv, AuthorizedInv
  <2>2. z.binding.id \in AuthId
    BY <2>1 DEF TypeOK, Receipt
  <2> QED  BY <2>1, <2>2, FirmShows
<1>3. ClaimedInv'
  <2> SUFFICES ASSUME NEW c \in claimed
               PROVE  /\ c.receipt \in receipts' /\ c.assessment \in authorized'
                      /\ c.assessment.auth = c.receipt.id
                      /\ ControlKey(c.receipt, c.assessment, c.key) \in DOMAIN ledger'
                      /\ ledger'[ControlKey(c.receipt, c.assessment, c.key)] = FirmEntry(c.key)
    BY DEF ClaimedInv, ControlKey
  <2> DEFINE key == ControlKey(c.receipt, c.assessment, c.key)
  <2>1. /\ c.receipt \in receipts /\ c.assessment \in authorized
        /\ c.assessment.auth = c.receipt.id
        /\ key \in DOMAIN ledger /\ ledger[key] = FirmEntry(c.key)
    BY DEF ChainInv, ClaimedInv
  <2> HIDE DEF key
  <2>2. key \in DOMAIN ledger' /\ ledger'[key] = FirmEntry(c.key)
    BY <2>1, FirmShows
  <2> QED  BY <2>1, <2>2 DEF key
<1>4. ContractInv'
  BY DEF ChainInv, ContractInv, Grounded
<1>5. PolicyInv'
  BY DEF ChainInv, PolicyInv
<1> QED  BY <1>2, <1>3, <1>4, <1>5 DEF ChainInv

(* Every stage preserves the invariant.                                    *)
LEMMA ChainStep == ASSUME TypeOK, ChainInv, [Next]_vars PROVE ChainInv'
<1> USE DEF evidence, transition, declared
<1>1. ASSUME NEW f \in Fingerprint, NEW vs \in SUBSET Validations, AssessReadiness(f, vs)
      PROVE  ChainInv'
  BY <1>1, ChainKept DEF AssessReadiness
<1>2. ASSUME NEW f \in Fingerprint, NEW q \in Fingerprint, NEW r \in Fingerprint,
             NEW d \in Destination, AssessPromotion(f, d, q, r)
      PROVE  ChainInv'
  BY <1>2, ChainKept DEF AssessPromotion, Issue
<1>3. ASSUME NEW a \in [id : AuthId, decision : {"authorized", "denied"}, fp : Fingerprint,
                        dest : Destination, eligibility : eligible, terms : Terms,
                        expires : Time], Decide(a)
      PROVE  ChainInv'
  <2>1. receipts' = receipts \cup {a} /\ UNCHANGED <<eligible, transition, declared>>
    BY <1>3 DEF Decide, Issue
  <2>3. AuthorizedInv'
    BY <2>1 DEF ChainInv, AuthorizedInv
  <2>4. ClaimedInv'
    BY <2>1 DEF ChainInv, ClaimedInv
  <2>5. ContractInv'
    BY <2>1 DEF ChainInv, ContractInv, Grounded
  <2>6. PolicyInv'
    BY <2>1 DEF ChainInv, PolicyInv
  <2> QED  BY <2>3, <2>4, <2>5, <2>6 DEF ChainInv
<1>4. ASSUME NEW a \in receipts, AssessAuthorization(a) PROVE ChainInv'
  <2>1. a.id \in AuthId
    BY DEF TypeOK, Receipt
  <2>2. PICK o \in ClaimOutcomes(store[a.id], a) :
           /\ store' = [store EXCEPT ![a.id] = o.entry]
           /\ \/ UNCHANGED authorized
              \/ /\ Granted(o)
                 /\ authorized' = Issue(authorized, [auth |-> a.id, fp |-> a.fp,
                                                     dest |-> a.dest, binding |-> a])
    BY <1>4 DEF AssessAuthorization
  <2>3. UNCHANGED <<now, evidence, ledger, claimed, declared>> /\ a.decision = "authorized"
    BY <1>4 DEF AssessAuthorization, InForce
  <2>4. \A i \in AuthId : store[i].state = "firm" => store'[i] = store[i]
    BY <2>1, <2>2, ClaimGrants DEF TypeOK
  <2>5. CASE UNCHANGED authorized
    BY <2>3, <2>4, <2>5, ChainKept
  <2>6. CASE Granted(o) /\ authorized' = Issue(authorized, Assessed(a))
    <3>1. store'[a.id] = FirmEntry(a)
      BY <2>1, <2>2, <2>6, ClaimGrants DEF Granted, TypeOK
    <3>2. AuthorizedInv'
      <4> SUFFICES ASSUME NEW z \in authorized'
                   PROVE  /\ z.binding \in receipts /\ z = Assessed(z.binding)
                          /\ z.binding.decision = "authorized"
                          /\ store'[z.binding.id] = FirmEntry(z.binding)
        BY <2>3 DEF AuthorizedInv
      <4>1. CASE z \in authorized
        <5>1. /\ z.binding \in receipts /\ z = Assessed(z.binding)
              /\ z.binding.decision = "authorized"
              /\ store[z.binding.id] = FirmEntry(z.binding)
          BY <4>1 DEF ChainInv, AuthorizedInv
        <5>2. z.binding.id \in AuthId
          BY <5>1 DEF TypeOK, Receipt
        <5> QED  BY <5>1, <5>2, <2>4, FirmShows
      <4>2. CASE z = Assessed(a)
        BY <4>2, <2>3, <3>1 DEF Assessed
      <4> QED  BY <4>1, <4>2, <2>6 DEF Issue
    <3>3. authorized \subseteq authorized'
      BY <2>6 DEF Issue
    <3>5. ClaimedInv'
      BY <2>3, <3>3 DEF ChainInv, ClaimedInv
    <3>6. ContractInv'
      BY <2>3, <3>3 DEF ChainInv, ContractInv, Grounded
    <3>7. PolicyInv'
      BY <2>3 DEF ChainInv, PolicyInv
    <3> QED  BY <3>2, <3>5, <3>6, <3>7 DEF ChainInv
  <2> QED  BY <2>2, <2>5, <2>6 DEF Assessed
<1>5. ASSUME NEW a \in receipts, NEW z \in authorized, NEW k \in IdemKey, AssessControl(a, z, k)
      PROVE  ChainInv'
  <2> DEFINE key == ControlKey(a, z, k)
             claim == [receipt |-> a, assessment |-> z, key |-> k]
  <2>1. PICK o \in ClaimOutcomes(Entry(key), k) :
           /\ ledger' = [x \in DOMAIN ledger \cup {key} |-> IF x = key THEN o.entry ELSE ledger[x]]
           /\ \/ UNCHANGED claimed
              \/ o.answer = "claimed" /\ claimed' = Issue(claimed, claim)
    BY <1>5 DEF AssessControl
  <2>2. UNCHANGED <<now, evidence, store, authorized, declared>> /\ z.auth = a.id
    BY <1>5 DEF AssessControl, FitsAssessment
  <2> HIDE DEF key
  <2>3. /\ DOMAIN ledger \subseteq DOMAIN ledger'
        /\ \A x \in DOMAIN ledger : ledger[x].state = "firm" => ledger'[x] = ledger[x]
    BY <2>1, ClaimGrants DEF Entry
  <2>4. CASE UNCHANGED claimed
    BY <2>2, <2>3, <2>4, ChainKept
  <2>5. CASE o.answer = "claimed" /\ claimed' = Issue(claimed, claim)
    <3>1. key \in DOMAIN ledger' /\ ledger'[key] = FirmEntry(k)
      BY <2>1, <2>5, ClaimGrants
    <3>2. \A c \in claimed' : c \in claimed \/ c = claim
      BY <2>5 DEF Issue
    <3>3. ASSUME NEW c \in claimed'
          PROVE  /\ c.receipt \in receipts /\ c.assessment \in authorized
                 /\ c.assessment.auth = c.receipt.id
                 /\ ControlKey(c.receipt, c.assessment, c.key) \in DOMAIN ledger'
                 /\ ledger'[ControlKey(c.receipt, c.assessment, c.key)] = FirmEntry(c.key)
      <4>1. CASE c \in claimed
        BY <4>1, <2>3, FirmShows DEF ChainInv, ClaimedInv
      <4>2. CASE c = claim
        BY <4>2, <2>2, <3>1 DEF key
      <4> QED  BY <3>2, <4>1, <4>2
    <3>4. ClaimedInv'
      BY <3>3, <2>2 DEF ClaimedInv, ControlKey
    <3>5. PolicyInv'
      BY <2>2 DEF ChainInv, PolicyInv
    <3>6. AuthorizedInv'
      BY <2>2 DEF ChainInv, AuthorizedInv
    <3>7. ContractInv'
      BY <2>2 DEF ChainInv, ContractInv, Grounded
    <3> QED  BY <3>4, <3>5, <3>6, <3>7 DEF ChainInv
  <2> QED  BY <2>1, <2>4, <2>5
<1>6. ASSUME NEW a \in receipts, NEW z \in authorized, NEW t \in Time,
             AssessContract([receipt |-> a, assessment |-> z, expires |-> t])
      PROVE  ChainInv'
  <2> DEFINE k == [receipt |-> a, assessment |-> z, expires |-> t]
  <2>1. /\ contracts' = contracts \cup {k}
        /\ UNCHANGED <<now, evidence, transition, outcomes, policies, workOrders>>
        /\ a.decision = "authorized" /\ FitsAssessment(a, z)
        /\ a.eligibility \in eligible /\ a.eligibility.fp = a.fp /\ a.eligibility.dest = a.dest
    BY <1>6 DEF AssessContract, Issue, EligibleFor, SameDestination, InForce, FitsContract
  <2>4. Grounded(k)
    BY <2>1 DEF Grounded
  <2> HIDE DEF k
  <2>5. ContractInv'
    BY <2>1, <2>4 DEF ChainInv, ContractInv, Grounded
  <2>6. PolicyInv'
    BY <2>1 DEF ChainInv, PolicyInv
  <2>7. AuthorizedInv'
    BY <2>1 DEF ChainInv, AuthorizedInv
  <2>8. ClaimedInv'
    BY <2>1 DEF ChainInv, ClaimedInv
  <2> QED  BY <2>5, <2>6, <2>7, <2>8 DEF ChainInv
<1>7. ASSUME NEW k \in contracts, NEW t \in Time, AssessOutcome([contract |-> k, expires |-> t])
      PROVE  ChainInv'
  BY <1>7, ChainKept DEF AssessOutcome
<1>8. ASSUME NEW p, AssessAttestation(p) \/ AssessWorkOrder(p) PROVE ChainInv'
  <2>1. /\ p.contract \in contracts /\ p.outcome.contract = p.contract
        /\ \A q \in policies' \cup workOrders' : q \in policies \cup workOrders \/ q = p
        /\ UNCHANGED <<now, evidence, transition, contracts, outcomes>>
    BY <1>8 DEF AssessAttestation, AssessWorkOrder, OutcomeFits, Issue
  <2>2. PolicyInv'
    BY <2>1 DEF ChainInv, PolicyInv
  <2>4. AuthorizedInv'
    BY <2>1 DEF ChainInv, AuthorizedInv
  <2>5. ClaimedInv'
    BY <2>1 DEF ChainInv, ClaimedInv
  <2>6. ContractInv'
    BY <2>1 DEF ChainInv, ContractInv, Grounded
  <2> QED  BY <2>2, <2>4, <2>5, <2>6 DEF ChainInv
<1>9. CASE Tick
  BY <1>9, ChainKept DEF Tick
<1>10. CASE PowerLoss
  <2>1. PICK s \in [AuthId -> Entries(receipts)] :
           store' = s /\ \A i \in AuthId : s[i] \in AfterPowerLoss(store[i])
    BY <1>10 DEF PowerLoss
  <2>2. PICK l \in [DOMAIN ledger -> Entries(IdemKey)] :
           ledger' = l /\ \A x \in DOMAIN ledger : l[x] \in AfterPowerLoss(ledger[x])
    BY <1>10 DEF PowerLoss
  <2>3. \A i \in AuthId : store[i].state = "firm" => store'[i] = store[i]
    BY <2>1, FirmSurvives
  <2>4. \A x \in DOMAIN ledger : ledger[x].state = "firm" => ledger'[x] = ledger[x]
    BY <2>2, FirmSurvives
  <2>5. DOMAIN ledger' = DOMAIN ledger
    BY <2>2
  <2>6. UNCHANGED <<now, evidence, authorized, claimed, declared>>
    BY <1>10 DEF PowerLoss
  <2> QED  BY <2>3, <2>4, <2>5, <2>6, ChainKept
<1>11. CASE UNCHANGED vars
  BY <1>11, ChainKept DEF vars
<1> QED
  BY <1>1, <1>2, <1>3, <1>4, <1>5, <1>6, <1>7, <1>8, <1>9, <1>10, <1>11 DEF Next

(* It holds throughout, also where approvers repeat ids.                   *)
LEMMA ChainHolds == Spec => [](TypeOK /\ ChainInv)
<1>1. Init => TypeOK /\ ChainInv
  BY TypeInit, ChainInit
<1>2. TypeOK /\ ChainInv /\ [Next]_vars => TypeOK' /\ ChainInv'
  BY TypeStep, ChainStep
<1> QED  BY <1>1, <1>2, PTL DEF Spec

-----------------------------------------------------------------------------
(* What holds whatever ids the approvers give. *)

(* One id is AUTHORIZED at most once (the store's key is the id), and one  *)
(* receipt controls at most one transition, whatever other receipts have   *)
(* its id and whatever assessments and idempotency keys it is presented    *)
(* with.  DistinctIds is only needed to say the same of the id.            *)
OneAuthorized == \A y, z \in authorized : y.auth = z.auth => y = z
OnePerReceipt == \A c, d \in claimed : c.receipt = d.receipt => c = d

(* Two assessments of one id rest on the one firm record of that id.       *)
LEMMA AuthorizedApart ==
    ASSUME TypeOK, ChainInv, NEW y \in authorized, NEW z \in authorized, y.auth = z.auth
    PROVE  y = z
<1>1. /\ y = Assessed(y.binding) /\ store[y.binding.id] = FirmEntry(y.binding)
      /\ z = Assessed(z.binding) /\ store[z.binding.id] = FirmEntry(z.binding)
  BY DEF ChainInv, AuthorizedInv
<1>2. y.binding.id = y.auth /\ z.binding.id = z.auth
  BY <1>1 DEF Assessed
<1>3. y.binding = z.binding
  BY <1>1, <1>2, FirmShows
<1> QED  BY <1>1, <1>3

(* Claims on one receipt are one claim: its id names one AUTHORIZED        *)
(* assessment, both together one key of the ledger, and that key's record  *)
(* has one idempotency key.                                                *)
LEMMA ClaimsApart ==
    ASSUME TypeOK, ChainInv, NEW c \in claimed, NEW d \in claimed, c.receipt = d.receipt
    PROVE  c = d
<1>1. c.assessment = d.assessment
  BY AuthorizedApart DEF ChainInv, ClaimedInv
<1>2. FirmEntry(c.key) = FirmEntry(d.key)
  BY <1>1 DEF ChainInv, ClaimedInv, ControlKey
<1>3. c.key = d.key
  BY <1>2, FirmShows
<1> QED  BY <1>1, <1>3 DEF TypeOK

(* Authorization grants an id once and control a receipt once, through the *)
(* two stores, with nothing assumed of the approvers.                      *)
THEOREM ReceiptsControlOnce == Spec => [](OneAuthorized /\ OnePerReceipt)
<1>1. TypeOK /\ ChainInv => OneAuthorized /\ OnePerReceipt
  BY AuthorizedApart, ClaimsApart DEF OneAuthorized, OnePerReceipt
<1> QED  BY <1>1, ChainHolds, PTL

(* What a contract, a policy or a work order rests on is a durable record  *)
(* of a human who authorized this artifact for this destination; where     *)
(* approvers repeat ids it may be another receipt than the one presented,  *)
(* with another intent, other terms or another expiry, but never for       *)
(* another artifact or destination.                                        *)
Backed(k) ==
    LET held == store[k.receipt.id] IN
    /\ held.state = "firm" /\ held.rec \in receipts
    /\ held.rec.decision = "authorized"
    /\ held.rec.fp = k.receipt.fp /\ held.rec.dest = k.receipt.dest
ContractsBacked ==
    \A k \in contracts \cup {p.contract : p \in policies} \cup {w.contract : w \in workOrders} :
        Backed(k)

(* The assessment leads to the record, and a contract fits its assessment. *)
THEOREM ContractsRestOnRecord == Spec => []ContractsBacked
<1>1. TypeOK /\ ChainInv => ContractsBacked
  <2> SUFFICES ASSUME TypeOK, ChainInv PROVE ContractsBacked
    OBVIOUS
  <2>1. ASSUME NEW k \in contracts PROVE Backed(k)
    <3> DEFINE z == k.assessment
    <3>1. z \in authorized /\ z.auth = k.receipt.id /\ z.fp = k.receipt.fp /\ z.dest = k.receipt.dest
      BY DEF ChainInv, ContractInv, Grounded, FitsAssessment
    <3>2. /\ z.binding \in receipts /\ z = Assessed(z.binding)
          /\ z.binding.decision = "authorized" /\ store[z.binding.id] = FirmEntry(z.binding)
      BY <3>1 DEF ChainInv, AuthorizedInv
    <3>3. z.auth = z.binding.id /\ z.fp = z.binding.fp /\ z.dest = z.binding.dest
      BY <3>2 DEF Assessed
    <3> QED  BY <3>1, <3>2, <3>3, FirmShows DEF Backed
  <2> QED  BY <2>1 DEF ContractsBacked, ChainInv, PolicyInv
<1> QED  BY <1>1, ChainHolds, PTL

-----------------------------------------------------------------------------
(* What holds where approvers give every receipt an id of its own. *)

(* They do not give two receipts one id.                                   *)
IdsDiffer == \A a, b \in receipts : a.id = b.id => a = b

(* Only a decision adds a receipt.                                         *)
LEMMA IdsHold == ASSUME DistinctIds PROVE Spec => []IdsDiffer
<1>1. Init => IdsDiffer
  BY DEF Init, IdsDiffer
<1>2. ASSUME IdsDiffer, [Next]_vars PROVE IdsDiffer'
  <2>1. CASE UNCHANGED receipts
    BY <1>2, <2>1 DEF IdsDiffer
  <2>2. ASSUME NEW a, Decide(a) PROVE IdsDiffer'
    BY <1>2, <2>2 DEF Decide, Issue, IdsDiffer
  <2>3. /\ \A f, vs : AssessReadiness(f, vs) => UNCHANGED receipts
        /\ \A f, d, q, r : AssessPromotion(f, d, q, r) => UNCHANGED receipts
        /\ \A a : AssessAuthorization(a) => UNCHANGED receipts
        /\ \A a, z, k : AssessControl(a, z, k) => UNCHANGED receipts
    BY DEF AssessReadiness, AssessPromotion, AssessAuthorization, AssessControl, evidence
  <2>4. /\ \A k : AssessContract(k) => UNCHANGED receipts
        /\ \A o : AssessOutcome(o) => UNCHANGED receipts
        /\ \A p : AssessAttestation(p) => UNCHANGED receipts
        /\ \A w : AssessWorkOrder(w) => UNCHANGED receipts
        /\ Tick \/ PowerLoss \/ UNCHANGED vars => UNCHANGED receipts
    BY DEF AssessContract, AssessOutcome, AssessAttestation, AssessWorkOrder, Tick, PowerLoss,
           evidence, vars
  <2> QED  BY <1>2, <2>1, <2>2, <2>3, <2>4 DEF Next
<1> QED  BY <1>1, <1>2, PTL DEF Spec

(* Two claims on receipts of one id are claims on one receipt.             *)
THEOREM ControlsOnce == ASSUME DistinctIds PROVE Spec => []OneTransition
<1>1. TypeOK /\ ChainInv /\ IdsDiffer => OneTransition
  <2> SUFFICES ASSUME TypeOK, ChainInv, IdsDiffer, NEW c \in claimed, NEW d \in claimed,
                      c.receipt.id = d.receipt.id
               PROVE  c = d
    BY DEF OneTransition
  <2>1. c.receipt = d.receipt
    BY DEF ChainInv, ClaimedInv, IdsDiffer
  <2> QED  BY <2>1, ClaimsApart
<1> QED  BY <1>1, ChainHolds, IdsHold, PTL

(* A work order and an attestation policy rest on one human authorization  *)
(* of their artifact for an eligible destination, whatever was mixed.      *)
THEOREM ChainsAreWhole == ASSUME DistinctIds PROVE Spec => []ChainIsWhole
<1>1. TypeOK /\ ChainInv /\ IdsDiffer => ChainIsWhole
  <2> SUFFICES ASSUME TypeOK, ChainInv, IdsDiffer PROVE ChainIsWhole
    OBVIOUS
  <2>1. ASSUME NEW k \in contracts PROVE Authorizes(k.receipt, k)
    <3> DEFINE b == k.assessment.binding
    <3>1. Grounded(k)
      BY DEF ChainInv, ContractInv
    <3>2. b \in receipts /\ k.assessment = Assessed(b) /\ store[b.id] = FirmEntry(b)
      BY <3>1 DEF Grounded, ChainInv, AuthorizedInv
    <3>3. b.id = k.receipt.id
      BY <3>1, <3>2 DEF Grounded, FitsAssessment, Assessed
    <3>4. b = k.receipt
      BY <3>1, <3>2, <3>3 DEF Grounded, IdsDiffer
    <3> QED  BY <3>1, <3>2, <3>4 DEF Grounded, Authorizes
  <2>2. \A p \in policies \cup workOrders : p.contract \in contracts /\ p.outcome.contract = p.contract
    BY DEF ChainInv, PolicyInv
  <2> QED  BY <2>1, <2>2 DEF ChainIsWhole
<1> QED  BY <1>1, ChainHolds, IdsHold, PTL

(* A receipt in the store that no assessment came of is never granted      *)
(* later: also when approvers repeat ids.                                  *)
LEMMA SpentStep ==
    ASSUME TypeOK, [Next]_vars, NEW i \in AuthId, Spent(i) PROVE Spent(i)'
<1> USE DEF evidence, transition, declared
<1>1. ASSUME NEW a \in receipts, AssessAuthorization(a) PROVE Spent(i)'
  <2>1. a.id \in AuthId
    BY DEF TypeOK, Receipt
  <2>2. PICK o \in ClaimOutcomes(store[a.id], a) :
           /\ store' = [store EXCEPT ![a.id] = o.entry]
           /\ \/ UNCHANGED authorized
              \/ /\ Granted(o)
                 /\ authorized' = Issue(authorized, [auth |-> a.id, fp |-> a.fp,
                                                     dest |-> a.dest, binding |-> a])
    BY <1>1 DEF AssessAuthorization
  <2>3. store'[i] = store[i]
    BY <2>1, <2>2, ClaimGrants DEF TypeOK, Spent
  <2>4. Granted(o) => a.id # i
    BY <2>2, ClaimGrants DEF Granted, Spent
  <2> QED  BY <2>2, <2>3, <2>4 DEF Spent, Issue
<1>2. CASE PowerLoss
  <2>1. PICK s \in [AuthId -> Entries(receipts)] :
           store' = s /\ \A j \in AuthId : s[j] \in AfterPowerLoss(store[j])
    BY <1>2 DEF PowerLoss
  <2>2. store'[i] = store[i] /\ UNCHANGED authorized
    BY <1>2, <2>1, FirmSurvives DEF PowerLoss, Spent
  <2> QED  BY <2>2 DEF Spent
<1>3. CASE UNCHANGED <<store, authorized>>
  BY <1>3 DEF Spent
<1>4. \/ \E a \in receipts : AssessAuthorization(a)
      \/ PowerLoss
      \/ UNCHANGED <<store, authorized>>
  <2>1. /\ \A f, vs : AssessReadiness(f, vs) => UNCHANGED <<store, authorized>>
        /\ \A f, d, q, r : AssessPromotion(f, d, q, r) => UNCHANGED <<store, authorized>>
        /\ \A a : Decide(a) => UNCHANGED <<store, authorized>>
    BY DEF AssessReadiness, AssessPromotion, Decide
  <2>2. /\ \A a, z, k : AssessControl(a, z, k) => UNCHANGED <<store, authorized>>
        /\ \A k : AssessContract(k) => UNCHANGED <<store, authorized>>
        /\ \A o : AssessOutcome(o) => UNCHANGED <<store, authorized>>
    BY DEF AssessControl, AssessContract, AssessOutcome
  <2>3. /\ \A p : AssessAttestation(p) => UNCHANGED <<store, authorized>>
        /\ \A w : AssessWorkOrder(w) => UNCHANGED <<store, authorized>>
        /\ Tick \/ UNCHANGED vars => UNCHANGED <<store, authorized>>
    BY DEF AssessAttestation, AssessWorkOrder, Tick, vars
  <2> QED  BY <2>1, <2>2, <2>3 DEF Next
<1> QED  BY <1>1, <1>2, <1>3, <1>4

(* assess() of a receipt that a lost or unavailable claim() left in the    *)
(* store answers DUPLICATE or worse for ever.                              *)
THEOREM NeverGrantedLate == Spec => NoLateGrant
<1>1. TypeOK /\ [Next]_vars => [\A i \in AuthId : Spent(i) => Spent(i)']_vars
  BY SpentStep
<1> QED  BY <1>1, TypeCorrect, PTL DEF Spec, NoLateGrant
=============================================================================
