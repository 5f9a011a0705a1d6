-------------------------- MODULE SessionGateProofs --------------------------
(* What SessionGate guarantees for any processes, activations, policies,   *)
(* requests, observers, approval ids and number of power losses, over      *)
(* stores whose confirmed claims survive a power loss (ClaimOps).          *)
EXTENDS SessionGate, SequenceTheorems, TLAPS

-----------------------------------------------------------------------------
(* The claim and read operations of a store. *)

(* A claim never changes an entry that is not free, and grants only a free *)
(* one, which then holds the claimed record.                               *)
LEMMA ClaimEffect ==
    ASSUME NEW e, NEW r, NEW o \in ClaimOutcomes(e, r)
    PROVE  /\ e.state # "free" => o.entry = e
           /\ o.answer = "claimed" => e.state = "free" /\ o.entry = FirmEntry(r)
BY DEF ClaimOutcomes, HalfWritten, Outcome, FirmEntry

(* A granted record is in state firm.                                    *)
LEMMA FirmState == \A r : FirmEntry(r).state = "firm"
BY DEF FirmEntry

(* claim(r) leaves a well-typed entry, whatever fails.                   *)
LEMMA ClaimType ==
    ASSUME NEW R, NEW r \in R, NEW e \in Entries(R), NEW o \in ClaimOutcomes(e, r)
    PROVE  o.entry \in Entries(R)
BY DEF ClaimOutcomes, HalfWritten, Outcome, Entries

(* read() changes nothing and finds only complete records.               *)
LEMMA ReadEffect ==
    ASSUME NEW e, NEW o \in ReadOutcomes(e)
    PROVE  o.entry = e /\ (o.answer = "found" => e.state \notin {"free", "spoiled"})
BY DEF ReadOutcomes, Outcome

(* The four states of an entry; a firm one is determined by its record.  *)
LEMMA EntryStates ==
    ASSUME NEW R, NEW e \in Entries(R)
    PROVE  /\ e.state \in {"free", "spoiled", "shaky", "firm"}
           /\ e.state = "firm" => e.rec \in R /\ e = FirmEntry(e.rec)
BY DEF Entries, FreeEntry, SpoiledEntry, ShakyEntry, FirmEntry

(* A power loss leaves a well-typed entry and does not touch a firm one. *)
LEMMA PowerLossEffect ==
    ASSUME NEW R, NEW e \in Entries(R), NEW f \in AfterPowerLoss(e)
    PROVE  f \in Entries(R) /\ (e.state = "firm" => f = e)
BY EntryStates DEF AfterPowerLoss, Entries, FreeEntry, SpoiledEntry, ShakyEntry, FirmEntry

-----------------------------------------------------------------------------
(* Types. *)

(* A process inside create_session() or invoke() has well-typed bindings.*)
LEMMA WorkType ==
    ASSUME TypeOK, NEW p \in Proc, pc[p] # "idle"
    PROVE  /\ work[p] \in Work
           /\ Current(p) \in Session
           /\ Current(p).receipt \in Receipt
           /\ Current(p).request \in Request
           /\ Activated(p) \in Activation
           /\ work[p].approval \in ApprovalId
BY DEF TypeOK, Work, Current, Activated, Session, Receipt

(* A whole store after a power loss: well typed, firm entries unchanged. *)
LEMMA LossType ==
    ASSUME NEW K, NEW R, NEW s, NEW t,
           s \in [K -> Entries(R)],
           t \in [DOMAIN s -> UNION {AfterPowerLoss(s[k]) : k \in DOMAIN s}],
           \A k \in DOMAIN s : t[k] \in AfterPowerLoss(s[k])
    PROVE  t \in [K -> Entries(R)] /\ \A k \in K : s[k].state = "firm" => t[k] = s[k]
<1>1. \A k \in K : s[k] \in Entries(R) /\ t[k] \in AfterPowerLoss(s[k])
  OBVIOUS
<1>2. \A k \in K : t[k] \in Entries(R) /\ (s[k].state = "firm" => t[k] = s[k])
  BY <1>1, PowerLossEffect
<1> QED  BY <1>2

(* The empty stores are well typed.                                      *)
LEMMA TypeInit == Init => TypeOK
BY SessionGateConstants DEF Init, TypeOK, Entries, Steps, Work, FreeEntry

(* Every store operation, restart and power loss keeps the types.        *)
LEMMA TypeStep == TypeOK /\ [Next]_vars => TypeOK'
<1> SUFFICES ASSUME TypeOK, [Next]_vars PROVE TypeOK'
  OBVIOUS
<1> USE DEF TypeOK
<1>1. ASSUME NEW q \in Request, AttestCustody(q) \/ AttestComposition(q) PROVE TypeOK'
  <2>1. CASE AttestCustody(q)
    BY <2>1, ClaimType DEF AttestCustody
  <2>2. CASE AttestComposition(q)
    BY <2>2, ClaimType DEF AttestComposition
  <2> QED  BY <1>1, <2>1, <2>2
<1>2. ASSUME NEW p \in Proc, NEW i \in ApprovalId, RecordApproval(p, i) PROVE TypeOK'
  <2>1. PICK r \in Receipt, q \in Request, d \in Decision :
           \E o \in ClaimOutcomes(approvals[i],
                                 [binding |-> [receipt |-> r, request |-> q,
                                               observer |-> observer[p]],
                                  decision |-> d]) :
              approvals' = [approvals EXCEPT ![i] = o.entry]
    BY <1>2 DEF RecordApproval
  <2> DEFINE receipt == [binding |-> [receipt |-> r, request |-> q, observer |-> observer[p]],
                         decision |-> d]
  <2>2. receipt \in ApprovalReceipt
    BY DEF ApprovalReceipt, Session
  <2> HIDE DEF receipt
  <2>3. PICK o \in ClaimOutcomes(approvals[i], receipt) :
           approvals' = [approvals EXCEPT ![i] = o.entry]
    BY <2>1 DEF receipt
  <2>4. o.entry \in Entries(ApprovalReceipt)
    BY <2>2, <2>3, ClaimType
  <2> QED  BY <1>2, <2>3, <2>4 DEF RecordApproval
<1>3. ASSUME NEW p \in Proc, BeginCreate(p) PROVE TypeOK'
  <2>1. PICK w \in Work : work' = [work EXCEPT ![p] = w]
    BY <1>3 DEF BeginCreate, Work, Session
  <2> QED  BY <1>3, <2>1 DEF BeginCreate, Steps, stores
<1>4. ASSUME NEW p \in Proc, CheckCustody(p) \/ CheckComposition(p) \/ CheckApproval(p)
      PROVE  TypeOK'
  BY <1>4 DEF CheckCustody, CheckComposition, CheckApproval, CheckEvidence, Goto, Leave, Steps, stores
<1>5. ASSUME NEW p \in Proc, ClaimActivation(p) PROVE TypeOK'
  <2>1. PICK o \in ClaimOutcomes(claims[Activated(p)], Current(p).receipt) :
           /\ claims' = [claims EXCEPT ![Activated(p)] = o.entry]
           /\ IF o.answer = "claimed" THEN Goto(p, "issue") ELSE Leave(p)
    BY <1>5 DEF ClaimActivation
  <2>2. claims' \in [Activation -> Entries(Receipt)]
    BY <1>5, <2>1, WorkType, ClaimType DEF ClaimActivation
  <2>3. pc' \in [Proc -> Steps] /\ work' \in [Proc -> Work \cup {NoWork}]
    BY <2>1 DEF Goto, Leave, Steps
  <2>4. \A q \in Proc : pc'[q] # "idle" => work'[q] \in Work
    BY <1>5, <2>1 DEF ClaimActivation, Goto, Leave
  <2>5. UNCHANGED <<observer, custody, composition, approvals, issued, consumed, sessions, runs,
                    powerLosses>>
    BY <1>5 DEF ClaimActivation
  <2> QED  BY <2>2, <2>3, <2>4, <2>5
<1>6. ASSUME NEW p \in Proc, IssueSession(p) PROVE TypeOK'
  <2>1. Current(p) \in Session
    BY <1>6, WorkType DEF IssueSession
  <2> QED  BY <1>6, <2>1, ClaimType DEF IssueSession, Leave, Steps
<1>7. ASSUME NEW p \in Proc, BeginInvoke(p) PROVE TypeOK'
  BY <1>7 DEF BeginInvoke, Work, Steps, stores
<1>8. ASSUME NEW p \in Proc, LookupIssued(p) PROVE TypeOK'
  BY <1>8 DEF LookupIssued, Goto, Leave, Steps, stores
<1>9. ASSUME NEW p \in Proc, ConsumeSession(p) PROVE TypeOK'
  <2>1. Current(p) \in Session
    BY <1>9, WorkType DEF ConsumeSession
  <2>2. PICK o \in ClaimOutcomes(consumed[Current(p)], Current(p)) :
           /\ consumed' = [consumed EXCEPT ![Current(p)] = o.entry]
           /\ IF o.answer = "claimed" THEN Goto(p, "dispatch") ELSE Leave(p)
    BY <1>9 DEF ConsumeSession
  <2>3. consumed' \in [Session -> Entries(Session)]
    BY <2>1, <2>2, ClaimType
  <2>4. pc' \in [Proc -> Steps] /\ work' \in [Proc -> Work \cup {NoWork}]
    BY <2>2 DEF Goto, Leave, Steps
  <2>5. \A q \in Proc : pc'[q] # "idle" => work'[q] \in Work
    BY <1>9, <2>2 DEF ConsumeSession, Goto, Leave
  <2>6. UNCHANGED <<observer, custody, composition, approvals, claims, issued, sessions, runs,
                    powerLosses>>
    BY <1>9 DEF ConsumeSession
  <2> QED  BY <2>3, <2>4, <2>5, <2>6
<1>10. ASSUME NEW p \in Proc, Dispatch(p) PROVE TypeOK'
  <2>1. Current(p) \in Session /\ Activated(p) \in Activation
    BY <1>10, WorkType DEF Dispatch
  <2>2. Append(runs[Activated(p)], Current(p)) \in Seq(Session)
    BY <2>1
  <2> QED  BY <1>10, <2>1, <2>2 DEF Dispatch, Leave, Steps, stores
<1>11. ASSUME NEW p \in Proc, Restart(p) PROVE TypeOK'
  BY <1>11 DEF Restart, Leave, Steps, stores
<1>12. CASE PowerLoss
  <2>1. custody' \in [Request -> Entries(Request)] /\ composition' \in [Request -> Entries(Request)]
    BY <1>12, LossType DEF PowerLoss, Survives
  <2>2. approvals' \in [ApprovalId -> Entries(ApprovalReceipt)]
    BY <1>12, LossType DEF PowerLoss, Survives
  <2>3. claims' \in [Activation -> Entries(Receipt)]
    BY <1>12, LossType DEF PowerLoss, Survives
  <2>4. issued' \in [Session -> Entries(Session)] /\ consumed' \in [Session -> Entries(Session)]
    BY <1>12, LossType DEF PowerLoss, Survives
  <2> QED  BY <1>12, <2>1, <2>2, <2>3, <2>4 DEF PowerLoss, Steps
<1>13. CASE UNCHANGED vars
  BY <1>13 DEF vars
<1> QED
  BY <1>1, <1>2, <1>3, <1>4, <1>5, <1>6, <1>7, <1>8, <1>9, <1>10, <1>11, <1>12, <1>13
  DEF Next, Create, Invoke

(* Type correctness of every reachable state.                              *)
THEOREM TypeCorrect == Spec => []TypeOK
BY TypeInit, TypeStep, PTL DEF Spec

-----------------------------------------------------------------------------
(* One start for an activation.  The chain is: a process at "issue" owns   *)
(* its activation's claim, which no other process and no session has; a    *)
(* session handed out therefore is the only one of its activation; a       *)
(* process at "dispatch" owns the claim of consumption of that session,    *)
(* which has not run.                                                      *)
Owner(p) ==
    /\ claims[Activated(p)] = FirmEntry(Current(p).receipt)
    /\ \A s \in sessions : s.receipt.activation # Activated(p)
    /\ \A q \in Proc \ {p} : pc[q] = "issue" => Activated(q) # Activated(p)

IssueInv == \A p \in Proc : pc[p] = "issue" => Owner(p)

HolderInv ==
    \A p \in Proc : pc[p] \in {"lookup", "consume", "dispatch"} => Current(p) \in sessions

DispatchInv ==
    \A p \in Proc : pc[p] = "dispatch" =>
        /\ consumed[Current(p)] = FirmEntry(Current(p))
        /\ runs[Activated(p)] = <<>>
        /\ \A q \in Proc \ {p} : pc[q] = "dispatch" => Current(q) # Current(p)

RunInv ==
    \A a \in Activation :
        \/ runs[a] = <<>>
        \/ \E s \in sessions : /\ s.receipt.activation = a
                                /\ runs[a] = <<s>>
                                /\ consumed[s] = FirmEntry(s)

StartInv == OneSession /\ IssueInv /\ HolderInv /\ DispatchInv /\ RunInv

(* Empty stores, no sessions and no runs satisfy the chain invariant.    *)
LEMMA StartInit == Init => StartInv
BY DEF Init, StartInv, OneSession, IssueInv, HolderInv, DispatchInv, RunInv

(* What a step that leaves the ledger, the sessions, the runs and every    *)
(* other process alone preserves.                                          *)
LEMMA QuietStep ==
    ASSUME StartInv, NEW p \in Proc,
           UNCHANGED <<claims, issued, consumed, sessions, runs>>,
           \A q \in Proc \ {p} : pc'[q] = pc[q] /\ work'[q] = work[q],
           pc'[p] \notin {"issue", "dispatch"},
           pc'[p] \in {"lookup", "consume"} => Current(p)' \in sessions
    PROVE  StartInv'
<1> USE DEF StartInv, Current, Activated
<1>1. OneSession'
  BY DEF OneSession
<1>2. IssueInv'
  BY DEF IssueInv, Owner
<1>3. HolderInv'
  BY DEF HolderInv
<1>4. DispatchInv'
  BY DEF DispatchInv
<1>5. RunInv'
  BY DEF RunInv
<1> QED  BY <1>1, <1>2, <1>3, <1>4, <1>5

(* Every step keeps the chain activation claim - issue claim - session - *)
(* consumption - run, each link held by one process at most.             *)
LEMMA StartStep == TypeOK /\ StartInv /\ [Next]_vars => StartInv'
<1> SUFFICES ASSUME TypeOK, StartInv, [Next]_vars PROVE StartInv'
  OBVIOUS
<1> USE DEF Current, Activated
<1>1. ASSUME NEW q \in Request, AttestCustody(q) \/ AttestComposition(q) PROVE StartInv'
  BY <1>1 DEF AttestCustody, AttestComposition, StartInv, OneSession, IssueInv, Owner,
              HolderInv, DispatchInv, RunInv
<1>2. ASSUME NEW p \in Proc, NEW i \in ApprovalId, RecordApproval(p, i) PROVE StartInv'
  BY <1>2 DEF RecordApproval, StartInv, OneSession, IssueInv, Owner,
              HolderInv, DispatchInv, RunInv
<1>3. ASSUME NEW p \in Proc, BeginCreate(p) PROVE StartInv'
  BY <1>3, QuietStep DEF BeginCreate, stores, TypeOK
<1>4. ASSUME NEW p \in Proc, CheckCustody(p) \/ CheckComposition(p) \/ CheckApproval(p)
      PROVE  StartInv'
  BY <1>4, QuietStep DEF CheckCustody, CheckComposition, CheckApproval, CheckEvidence,
                         Goto, Leave, stores, TypeOK
<1>5. ASSUME NEW p \in Proc, ClaimActivation(p) PROVE StartInv'
  <2> DEFINE a == Activated(p)
             r == Current(p).receipt
  <2>1. PICK o \in ClaimOutcomes(claims[a], r) :
           /\ claims' = [claims EXCEPT ![a] = o.entry]
           /\ IF o.answer = "claimed" THEN Goto(p, "issue") ELSE Leave(p)
    BY <1>5 DEF ClaimActivation
  <2>2. a \in Activation /\ r \in Receipt /\ claims \in [Activation -> Entries(Receipt)]
    BY <1>5, WorkType DEF ClaimActivation, TypeOK
  <2>3. /\ UNCHANGED <<issued, consumed, sessions, runs>>
        /\ \A q \in Proc \ {p} : pc'[q] = pc[q] /\ work'[q] = work[q]
        /\ pc'[p] \in {"idle", "issue"}
        /\ pc'[p] = "issue" => o.answer = "claimed" /\ work'[p] = work[p]
    BY <1>5, <2>1 DEF ClaimActivation, Goto, Leave, TypeOK
  <2>4. \A b \in Activation : claims[b].state # "free" => claims'[b] = claims[b]
    BY <2>1, <2>2, ClaimEffect
  <2>5. \A s \in sessions : s.receipt.activation \in Activation
    BY DEF TypeOK, Session, Receipt
  <2>6. OneSession'
    BY <2>3, <2>4, <2>5, FirmState DEF StartInv, OneSession
  <2>7. IssueInv'
    <3>1. \A q \in Proc \ {p} : pc[q] = "issue" => Owner(q) /\ Activated(q) \in Activation
      BY WorkType DEF StartInv, IssueInv
    <3>2. o.answer = "claimed" => claims[a].state = "free" /\ claims'[a] = FirmEntry(r)
      BY <2>1, <2>2, ClaimEffect
    <3>3. o.answer = "claimed" => \A q \in Proc \ {p} : pc[q] = "issue" => Activated(q) # a
      BY <3>1, <3>2, FirmState DEF Owner
    <3>4. o.answer = "claimed" => \A s \in sessions : s.receipt.activation # a
      BY <3>2, FirmState DEF StartInv, OneSession
    <3>5. ASSUME NEW q \in Proc, pc'[q] = "issue", q # p PROVE Owner(q)'
      <4>1. pc[q] = "issue" /\ Owner(q) /\ Activated(q) \in Activation /\ work'[q] = work[q]
        BY <2>3, <3>1, <3>5
      <4>2. claims'[Activated(q)] = FirmEntry(Current(q).receipt)
        BY <2>4, <4>1, FirmState DEF Owner
      <4> QED  BY <2>3, <3>3, <3>5, <4>1, <4>2 DEF Owner
    <3>6. ASSUME pc'[p] = "issue" PROVE Owner(p)'
      BY <2>3, <3>2, <3>3, <3>4, <3>6 DEF Owner
    <3> QED  BY <3>5, <3>6 DEF IssueInv
  <2>8. HolderInv' /\ DispatchInv' /\ RunInv'
    BY <2>3 DEF StartInv, HolderInv, DispatchInv, RunInv
  <2> QED  BY <2>6, <2>7, <2>8 DEF StartInv
<1>6. ASSUME NEW p \in Proc, IssueSession(p) PROVE StartInv'
  <2> DEFINE s == Current(p)
  <2>1. PICK o \in ClaimOutcomes(issued[s], s) :
           /\ issued' = [issued EXCEPT ![s] = o.entry]
           /\ sessions' = IF o.answer = "claimed" THEN sessions \cup {s} ELSE sessions
    BY <1>6 DEF IssueSession
  <2>2. s \in Session /\ issued \in [Session -> Entries(Session)] /\ sessions \subseteq Session
    BY <1>6, WorkType DEF IssueSession, TypeOK
  <2>3. /\ UNCHANGED <<claims, consumed, runs>>
        /\ \A q \in Proc \ {p} : pc'[q] = pc[q] /\ work'[q] = work[q]
        /\ pc'[p] = "idle" /\ pc[p] = "issue"
    BY <1>6 DEF IssueSession, Leave, TypeOK
  <2>4. Owner(p)
    BY <2>3 DEF StartInv, IssueInv
  <2>5. \A t \in sessions : issued'[t] = FirmEntry(t)
    BY <2>1, <2>2, ClaimEffect, FirmState DEF StartInv, OneSession
  <2>6. o.answer = "claimed" => issued'[s] = FirmEntry(s)
    BY <2>1, <2>2, ClaimEffect
  <2>7. OneSession'
    BY <2>1, <2>3, <2>4, <2>5, <2>6 DEF StartInv, OneSession, Owner
  <2>8. IssueInv'
    BY <2>1, <2>3, <2>4 DEF StartInv, IssueInv, Owner
  <2>9. HolderInv' /\ DispatchInv' /\ RunInv'
    BY <2>1, <2>3 DEF StartInv, HolderInv, DispatchInv, RunInv
  <2> QED  BY <2>7, <2>8, <2>9 DEF StartInv
<1>7. ASSUME NEW p \in Proc, BeginInvoke(p) PROVE StartInv'
  BY <1>7, QuietStep DEF BeginInvoke, stores, TypeOK
<1>8. ASSUME NEW p \in Proc, LookupIssued(p) PROVE StartInv'
  <2>1. Current(p) \in sessions
    BY <1>8 DEF LookupIssued, StartInv, HolderInv
  <2> QED  BY <1>8, <2>1, QuietStep DEF LookupIssued, Goto, Leave, stores, TypeOK
<1>9. ASSUME NEW p \in Proc, ConsumeSession(p) PROVE StartInv'
  <2> DEFINE s == Current(p)
  <2>1. PICK o \in ClaimOutcomes(consumed[s], s) :
           /\ consumed' = [consumed EXCEPT ![s] = o.entry]
           /\ IF o.answer = "claimed" THEN Goto(p, "dispatch") ELSE Leave(p)
    BY <1>9 DEF ConsumeSession
  <2>2. s \in Session /\ s \in sessions /\ Activated(p) \in Activation
        /\ sessions \subseteq Session /\ consumed \in [Session -> Entries(Session)]
    BY <1>9, WorkType DEF ConsumeSession, TypeOK, StartInv, HolderInv
  <2>3. /\ UNCHANGED <<claims, issued, sessions, runs>>
        /\ \A q \in Proc \ {p} : pc'[q] = pc[q] /\ work'[q] = work[q]
        /\ pc'[p] \in {"idle", "dispatch"}
        /\ pc'[p] = "dispatch" => o.answer = "claimed" /\ work'[p] = work[p]
    BY <1>9, <2>1 DEF ConsumeSession, Goto, Leave, TypeOK
  <2>4. \A t \in sessions : consumed[t] = FirmEntry(t) => consumed'[t] = FirmEntry(t)
    BY <2>1, <2>2, ClaimEffect, FirmState
  <2>5. o.answer = "claimed" => consumed[s].state = "free" /\ consumed'[s] = FirmEntry(s)
    BY <2>1, <2>2, ClaimEffect
  <2>6. OneSession' /\ IssueInv' /\ HolderInv'
    BY <2>2, <2>3 DEF StartInv, OneSession, IssueInv, Owner, HolderInv
  <2>7. DispatchInv'
    <3>1. ASSUME NEW q \in Proc, pc'[q] = "dispatch", q # p
          PROVE  /\ pc[q] = "dispatch" /\ work'[q] = work[q]
                 /\ consumed'[Current(q)] = FirmEntry(Current(q))
                 /\ runs[Activated(q)] = <<>>
                 /\ \A z \in Proc \ {q} : pc[z] = "dispatch" => Current(z) # Current(q)
                 /\ o.answer = "claimed" => Current(q) # s
      BY <2>3, <2>4, <2>5, <3>1, FirmState DEF StartInv, DispatchInv, HolderInv
    <3>2. ASSUME pc'[p] = "dispatch"
          PROVE  runs[Activated(p)] = <<>>
      <4>1. ASSUME NEW t \in sessions, t.receipt.activation = Activated(p)
            PROVE  t = s
        BY <2>2, <4>1 DEF StartInv, OneSession
      <4> QED  BY <2>2, <2>3, <2>5, <3>2, <4>1, FirmState DEF StartInv, RunInv
    <3> QED  BY <2>3, <2>5, <3>1, <3>2 DEF DispatchInv
  <2>8. RunInv'
    BY <2>3, <2>4 DEF StartInv, RunInv
  <2> QED  BY <2>6, <2>7, <2>8 DEF StartInv
<1>10. ASSUME NEW p \in Proc, Dispatch(p) PROVE StartInv'
  <2> DEFINE s == Current(p)
             a == Activated(p)
  <2>1. a \in Activation /\ s \in Session /\ runs \in [Activation -> Seq(Session)]
    BY <1>10, WorkType DEF Dispatch, TypeOK
  <2>2. runs[a] = <<>> /\ consumed[s] = FirmEntry(s) /\ s \in sessions
    BY <1>10 DEF Dispatch, StartInv, DispatchInv, HolderInv
  <2>3. /\ UNCHANGED <<claims, issued, consumed, sessions>>
        /\ \A q \in Proc \ {p} : pc'[q] = pc[q] /\ work'[q] = work[q]
        /\ pc'[p] = "idle" /\ pc[p] = "dispatch"
        /\ runs' = [runs EXCEPT ![a] = <<s>>]
    BY <1>10, <2>1, <2>2 DEF Dispatch, Leave, stores, TypeOK
  <2>4. OneSession' /\ IssueInv' /\ HolderInv'
    BY <2>3 DEF StartInv, OneSession, IssueInv, Owner, HolderInv
  <2>5. DispatchInv'
    <3>1. ASSUME NEW q \in Proc, pc'[q] = "dispatch" PROVE q # p /\ Activated(q) # a
      <4>1. q # p /\ pc[q] = "dispatch" /\ Current(q) \in sessions /\ Current(q) # s
        BY <2>3, <3>1 DEF StartInv, DispatchInv, HolderInv
      <4> QED  BY <2>2, <4>1 DEF StartInv, OneSession
    <3>2. ASSUME NEW q \in Proc, pc'[q] = "dispatch"
          PROVE  /\ consumed'[Current(q)'] = FirmEntry(Current(q)')
                 /\ runs'[Activated(q)'] = <<>>
      <4>1. q # p /\ Activated(q) # a /\ pc[q] = "dispatch"
        BY <2>3, <3>1, <3>2
      <4>2. Current(q)' = Current(q) /\ Activated(q)' = Activated(q)
        BY <2>3, <4>1 DEF Current, Activated
      <4>3. consumed[Current(q)] = FirmEntry(Current(q)) /\ runs[Activated(q)] = <<>>
        BY <4>1 DEF StartInv, DispatchInv
      <4>4. runs'[Activated(q)] = runs[Activated(q)]
        BY <2>1, <2>3, <4>1, WorkType
      <4> QED  BY <2>3, <4>2, <4>3, <4>4
    <3>3. ASSUME NEW q \in Proc, pc'[q] = "dispatch",
                 NEW r \in Proc \ {q}, pc'[r] = "dispatch"
          PROVE  Current(r)' # Current(q)'
      <4>1. q # p /\ r # p /\ pc[q] = "dispatch" /\ pc[r] = "dispatch"
        BY <2>3, <3>1, <3>3
      <4>2. Current(q)' = Current(q) /\ Current(r)' = Current(r)
        BY <2>3, <4>1 DEF Current
      <4> QED  BY <4>1, <4>2 DEF StartInv, DispatchInv
    <3> QED  BY <3>2, <3>3 DEF DispatchInv
  <2>6. RunInv'
    BY <2>1, <2>2, <2>3 DEF StartInv, RunInv
  <2> QED  BY <2>4, <2>5, <2>6 DEF StartInv
<1>11. ASSUME NEW p \in Proc, Restart(p) PROVE StartInv'
  BY <1>11, QuietStep DEF Restart, Leave, stores, TypeOK
<1>12. CASE PowerLoss
  <2>1. /\ \A b \in Activation : claims[b].state = "firm" => claims'[b] = claims[b]
        /\ \A t \in Session : issued[t].state = "firm" => issued'[t] = issued[t]
        /\ \A t \in Session : consumed[t].state = "firm" => consumed'[t] = consumed[t]
    <3>2. \A b \in Activation : claims[b].state = "firm" => claims'[b] = claims[b]
      <4>1. claims \in [Activation -> Entries(Receipt)]
        BY DEF TypeOK
      <4>2. Survives(claims)
        BY <1>12 DEF PowerLoss
      <4> QED  BY <4>1, <4>2, LossType DEF Survives
    <3>3. \A t \in Session : issued[t].state = "firm" => issued'[t] = issued[t]
      <4>1. issued \in [Session -> Entries(Session)]
        BY DEF TypeOK
      <4>2. Survives(issued)
        BY <1>12 DEF PowerLoss
      <4> QED  BY <4>1, <4>2, LossType DEF Survives
    <3>4. \A t \in Session : consumed[t].state = "firm" => consumed'[t] = consumed[t]
      <4>1. consumed \in [Session -> Entries(Session)]
        BY DEF TypeOK
      <4>2. Survives(consumed)
        BY <1>12 DEF PowerLoss
      <4> QED  BY <4>1, <4>2, LossType DEF Survives
    <3> QED  BY <3>2, <3>3, <3>4
  <2>2. UNCHANGED <<sessions, runs>> /\ \A q \in Proc : pc'[q] = "idle"
    BY <1>12 DEF PowerLoss
  <2>3. \A t \in sessions : t \in Session /\ t.receipt.activation \in Activation
    BY DEF TypeOK, Session, Receipt
  <2>4. OneSession'
    BY <2>1, <2>2, <2>3, FirmState DEF StartInv, OneSession
  <2>5. RunInv'
    BY <2>1, <2>2, <2>3, FirmState DEF StartInv, RunInv
  <2> QED  BY <2>2, <2>4, <2>5 DEF StartInv, IssueInv, HolderInv, DispatchInv
<1>13. CASE UNCHANGED vars
  BY <1>13 DEF vars, StartInv, OneSession, IssueInv, Owner, HolderInv, DispatchInv, RunInv
<1> QED
  BY <1>1, <1>2, <1>3, <1>4, <1>5, <1>6, <1>7, <1>8, <1>9, <1>10, <1>11, <1>12, <1>13
  DEF Next, Create, Invoke

(* At most one session comes of an activation, and at most one start of a  *)
(* runtime, whatever races, fails, restarts or loses power.                *)
THEOREM StartsOnce == Spec => [](OneSession /\ StartOnce)
<1>1. TypeOK /\ StartInv => OneSession /\ StartOnce
  <2> SUFFICES ASSUME StartInv, NEW a \in Activation PROVE Len(runs[a]) <= 1
    BY DEF StartInv, StartOnce
  <2>1. runs[a] = <<>> \/ \E s : runs[a] = <<s>>
    BY DEF StartInv, RunInv
  <2> QED  BY <2>1
<1>2. Init => TypeOK /\ StartInv
  BY TypeInit, StartInit
<1>3. TypeOK /\ StartInv /\ [Next]_vars => TypeOK' /\ StartInv'
  BY TypeStep, StartStep
<1> QED  BY <1>1, <1>2, <1>3, PTL DEF Spec

(* create_session() issues at most one session of a claimed activation, and *)
(* only under its durable claim.                                           *)
THEOREM IssuesOnce == Spec => []OneSession
BY StartsOnce, PTL

-----------------------------------------------------------------------------
(* The evidence.  A recorded entry is changed by nothing but a power loss, *)
(* so what a process has checked stays true while it goes on to the next   *)
(* store, and so does what a handed-out session rests on.                  *)
Checked(s, step) ==
    /\ step # "custody" => IsRecorded(custody[s.request])
    /\ step \notin {"custody", "composition"} => IsRecorded(composition[s.request])

EvidenceInv ==
    \/ powerLosses > 0
    \/ /\ \A p \in Proc :
            /\ pc[p] \in {"custody", "composition", "approval"} => Checked(Current(p), pc[p])
            /\ pc[p] \in {"activation", "issue"} => Vouched(Current(p))
       /\ \A s \in sessions : Vouched(s)

(* A claim on a recorded entry, by anybody and for any record, keeps it. *)
LEMMA RecordedKept ==
    ASSUME NEW R, NEW e \in Entries(R), NEW r, IsRecorded(e), NEW o \in ClaimOutcomes(e, r)
    PROVE  o.entry = e
BY ClaimEffect DEF IsRecorded

(* What read() finds is on record.                                       *)
LEMMA FoundRecorded ==
    ASSUME NEW R, NEW e \in Entries(R), NEW o \in ReadOutcomes(e), o.answer = "found"
    PROVE  IsRecorded(e) /\ o.entry = e
BY ReadEffect, EntryStates DEF IsRecorded

(* Evidence checked by a process on its way to a session stays on record *)
(* unless power is lost: the stores have no operation that removes it.   *)
LEMMA EvidenceStep ==
    TypeOK /\ StartInv /\ EvidenceInv /\ [Next]_vars => EvidenceInv'
<1> SUFFICES ASSUME TypeOK, StartInv, EvidenceInv, [Next]_vars PROVE EvidenceInv'
  OBVIOUS
<1>1. CASE PowerLoss
  BY <1>1 DEF PowerLoss, EvidenceInv, TypeOK
<1>2. CASE powerLosses > 0 /\ ~PowerLoss
  <2>1. powerLosses' = powerLosses
    BY <1>2 DEF Next, vars, AttestCustody, AttestComposition, RecordApproval, Create, BeginCreate,
       CheckCustody, CheckComposition, CheckEvidence, CheckApproval, ClaimActivation,
       IssueSession, Invoke, BeginInvoke, LookupIssued, ConsumeSession, Dispatch, Restart
  <2> QED  BY <1>2, <2>1 DEF EvidenceInv
<1>3. CASE powerLosses = 0 /\ ~PowerLoss
  <2> DEFINE Evidence ==
        /\ \A p \in Proc :
             /\ pc[p] \in {"custody", "composition", "approval"} => Checked(Current(p), pc[p])
             /\ pc[p] \in {"activation", "issue"} => Vouched(Current(p))
        /\ \A s \in sessions : Vouched(s)
  <2>1. Evidence
    BY <1>3 DEF EvidenceInv
  <2> SUFFICES Evidence'
    BY DEF EvidenceInv
  <2> USE <2>1 DEF Checked, Vouched, Current
  <2>0. /\ \A s \in Session : s.request \in Request
        /\ sessions \subseteq Session
        /\ \A p \in Proc : pc[p] # "idle" => work[p].session \in Session
    BY WorkType DEF TypeOK, Session
  <2>2. ASSUME NEW q \in Request, AttestCustody(q) PROVE Evidence'
    <3>1. \A z \in Request : IsRecorded(custody[z]) => custody'[z] = custody[z]
      BY <2>2, RecordedKept DEF AttestCustody, TypeOK
    <3> QED  BY <2>0, <2>2, <3>1 DEF AttestCustody
  <2>3. ASSUME NEW q \in Request, AttestComposition(q) PROVE Evidence'
    <3>1. \A z \in Request : IsRecorded(composition[z]) => composition'[z] = composition[z]
      BY <2>3, RecordedKept DEF AttestComposition, TypeOK
    <3> QED  BY <2>0, <2>3, <3>1 DEF AttestComposition
  <2>4. ASSUME NEW p \in Proc, NEW i \in ApprovalId, RecordApproval(p, i) PROVE Evidence'
    <3>1. \A z \in ApprovalId : IsRecorded(approvals[z]) => approvals'[z] = approvals[z]
      BY <2>4, RecordedKept DEF RecordApproval, TypeOK
    <3> QED  BY <2>0, <2>4, <3>1 DEF RecordApproval
  <2>5. ASSUME NEW p \in Proc, BeginCreate(p) PROVE Evidence'
    BY <2>5 DEF BeginCreate, stores, TypeOK
  <2>6. ASSUME NEW p \in Proc, CheckCustody(p) PROVE Evidence'
    <3>1. pc'[p] = "composition" => IsRecorded(custody[Current(p).request]) /\ work'[p] = work[p]
      BY <2>0, <2>6, FoundRecorded DEF CheckCustody, CheckEvidence, Goto, Leave, TypeOK
    <3> QED  BY <2>6, <3>1 DEF CheckCustody, CheckEvidence, Goto, Leave, stores, TypeOK
  <2>7. ASSUME NEW p \in Proc, CheckComposition(p) PROVE Evidence'
    <3>1. pc'[p] = "approval" =>
             IsRecorded(composition[Current(p).request]) /\ work'[p] = work[p]
      BY <2>0, <2>7, FoundRecorded DEF CheckComposition, CheckEvidence, Goto, Leave, TypeOK
    <3> QED  BY <2>7, <3>1 DEF CheckComposition, CheckEvidence, Goto, Leave, stores, TypeOK
  <2>8. ASSUME NEW p \in Proc, CheckApproval(p) PROVE Evidence'
    <3>1. work[p].approval \in ApprovalId
      BY <2>8, WorkType DEF CheckApproval
    <3>2. pc'[p] = "activation" => Vouched(Current(p)) /\ work'[p] = work[p]
      BY <2>8, <3>1, FoundRecorded DEF CheckApproval, Goto, Leave, TypeOK
    <3>3. /\ \A q \in Proc \ {p} : pc'[q] = pc[q] /\ work'[q] = work[q]
          /\ pc'[p] \in {"activation", "idle"}
      BY <2>8, <3>1 DEF CheckApproval, Goto, Leave, TypeOK
    <3>4. UNCHANGED <<custody, composition, approvals, sessions>>
      BY <2>8 DEF CheckApproval, stores
    <3>5. \A q \in Proc \ {p} :
             /\ pc'[q] \in {"custody", "composition", "approval"}
                  => (Checked(Current(q), pc[q]))'
             /\ pc'[q] \in {"activation", "issue"} => (Vouched(Current(q)))'
      BY <3>3, <3>4
    <3>6. /\ pc'[p] \notin {"custody", "composition", "approval", "issue"}
          /\ pc'[p] = "activation" => (Vouched(Current(p)))'
      BY <3>2, <3>3, <3>4
    <3>7. \A z \in sessions' : (Vouched(z))'
      BY <3>4
    <3> HIDE DEF Checked, Vouched, Current
    <3> QED  BY <3>5, <3>6, <3>7
  <2>9. ASSUME NEW p \in Proc, ClaimActivation(p) PROVE Evidence'
    <3>1. /\ UNCHANGED <<custody, composition, approvals, sessions>>
          /\ pc[p] = "activation" /\ pc'[p] \in {"issue", "idle"}
          /\ pc'[p] = "issue" => work'[p] = work[p]
          /\ \A z \in Proc \ {p} : pc'[z] = pc[z] /\ work'[z] = work[z]
      BY <2>9 DEF ClaimActivation, Goto, Leave, TypeOK
    <3> QED  BY <3>1
  <2>10. ASSUME NEW p \in Proc, IssueSession(p) PROVE Evidence'
    <3>1. /\ sessions' \subseteq sessions \cup {Current(p)}
          /\ UNCHANGED <<custody, composition, approvals>>
          /\ pc[p] = "issue" /\ pc'[p] = "idle"
          /\ \A z \in Proc \ {p} : pc'[z] = pc[z] /\ work'[z] = work[z]
      BY <2>10 DEF IssueSession, Leave, TypeOK
    <3> QED  BY <3>1
  <2>11. ASSUME NEW p \in Proc, Invoke(p) PROVE Evidence'
    <3>1. /\ UNCHANGED <<custody, composition, approvals, sessions>>
          /\ pc'[p] \in {"idle", "lookup", "consume", "dispatch"}
          /\ \A z \in Proc \ {p} : pc'[z] = pc[z] /\ work'[z] = work[z]
      BY <2>11 DEF Invoke, BeginInvoke, LookupIssued, ConsumeSession, Dispatch, Goto, Leave,
                   stores, TypeOK
    <3> QED  BY <3>1
  <2>12. ASSUME NEW p \in Proc, Restart(p) PROVE Evidence'
    BY <2>12 DEF Restart, Leave, stores, TypeOK
  <2>13. CASE UNCHANGED vars
    BY <2>13 DEF vars
  <2> QED
    BY <1>3, <2>2, <2>3, <2>4, <2>5, <2>6, <2>7, <2>8, <2>9, <2>10, <2>11, <2>12, <2>13
    DEF Next, Create
<1> QED  BY <1>1, <1>2, <1>3 DEF TypeOK

(* A runtime is only ever started for a session that was handed out, and,  *)
(* unless power was lost, while its attestations and an approval of        *)
(* exactly its bindings are on record.                                     *)
THEOREM StartsAreVouched == Spec => []StartIsVouched
<1>1. StartInv /\ EvidenceInv => StartIsVouched
  BY DEF StartInv, HolderInv, EvidenceInv, StartIsVouched
<1>2. Init => TypeOK /\ StartInv /\ EvidenceInv
  BY TypeInit, StartInit DEF Init, EvidenceInv
<1>3. TypeOK /\ StartInv /\ EvidenceInv /\ [Next]_vars => TypeOK' /\ StartInv' /\ EvidenceInv'
  BY TypeStep, StartStep, EvidenceStep
<1> QED  BY <1>1, <1>2, <1>3, PTL DEF Spec

-----------------------------------------------------------------------------
(* A claimed activation without a session or a process about to issue one  *)
(* is dead: retries, other policies and restarts cannot revive it.         *)
LEMMA BurnedStep ==
    ASSUME TypeOK, [Next]_vars, NEW a \in Activation, Burned(a)
    PROVE  Burned(a)' \/ (claims[a].state # "firm" /\ powerLosses' # powerLosses)
<1> USE DEF Burned, Activated, Current
<1>1. ASSUME NEW q \in Request, AttestCustody(q) \/ AttestComposition(q) PROVE Burned(a)'
  BY <1>1 DEF AttestCustody, AttestComposition
<1>2. ASSUME NEW p \in Proc, NEW i \in ApprovalId, RecordApproval(p, i) PROVE Burned(a)'
  BY <1>2 DEF RecordApproval
<1>3. ASSUME NEW p \in Proc, BeginCreate(p) \/ Invoke(p) \/ Restart(p) PROVE Burned(a)'
  <2>1. /\ UNCHANGED <<claims, sessions>>
        /\ pc'[p] # "issue"
        /\ \A q \in Proc \ {p} : pc'[q] = pc[q] /\ work'[q] = work[q]
    BY <1>3 DEF BeginCreate, Invoke, BeginInvoke, LookupIssued, ConsumeSession, Dispatch,
                Restart, Goto, Leave, stores, TypeOK
  <2> QED  BY <2>1
<1>4. ASSUME NEW p \in Proc, CheckCustody(p) \/ CheckComposition(p) \/ CheckApproval(p)
      PROVE  Burned(a)'
  BY <1>4 DEF CheckCustody, CheckComposition, CheckApproval, CheckEvidence, Goto, Leave,
              stores, TypeOK
<1>5. ASSUME NEW p \in Proc, ClaimActivation(p) PROVE Burned(a)'
  <2>1. PICK o \in ClaimOutcomes(claims[Activated(p)], Current(p).receipt) :
           /\ claims' = [claims EXCEPT ![Activated(p)] = o.entry]
           /\ IF o.answer = "claimed" THEN Goto(p, "issue") ELSE Leave(p)
    BY <1>5 DEF ClaimActivation
  <2>2. UNCHANGED sessions /\ \A q \in Proc \ {p} : pc'[q] = pc[q] /\ work'[q] = work[q]
    BY <1>5, <2>1 DEF ClaimActivation, Goto, Leave, TypeOK
  <2>3. claims'[a] = claims[a]
    BY <2>1, ClaimEffect DEF TypeOK
  <2>4. pc'[p] = "issue" => work'[p] = work[p] /\ Activated(p) # a
    BY <2>1, ClaimEffect DEF Goto, Leave, TypeOK
  <2> QED  BY <2>2, <2>3, <2>4
<1>6. ASSUME NEW p \in Proc, IssueSession(p) PROVE Burned(a)'
  <2>1. /\ sessions' \subseteq sessions \cup {Current(p)}
        /\ Activated(p) # a /\ pc'[p] = "idle" /\ UNCHANGED claims
        /\ \A q \in Proc \ {p} : pc'[q] = pc[q] /\ work'[q] = work[q]
    BY <1>6 DEF IssueSession, Leave, TypeOK
  <2> QED  BY <2>1
<1>7. CASE PowerLoss
  <2>1. powerLosses' # powerLosses
    BY <1>7 DEF PowerLoss, TypeOK
  <2>2. CASE claims[a].state = "firm"
    <3>1. claims \in [Activation -> Entries(Receipt)]
      BY DEF TypeOK
    <3>2. Survives(claims)
      BY <1>7 DEF PowerLoss
    <3>3. claims'[a] = claims[a]
      BY <2>2, <3>1, <3>2, LossType DEF Survives
    <3> QED  BY <1>7, <3>3 DEF PowerLoss
  <2> QED  BY <2>1, <2>2
<1>8. CASE UNCHANGED vars
  BY <1>8 DEF vars
<1> QED
  BY <1>1, <1>2, <1>3, <1>4, <1>5, <1>6, <1>7, <1>8 DEF Next, Create

(* A consumed session without a run and without a process about to start   *)
(* one is dead as well: its activation has no other session, and the claim *)
(* of its consumption is not granted again.                                *)
LEMMA ForfeitedStep ==
    ASSUME TypeOK, StartInv, [Next]_vars, NEW s \in sessions
    PROVE  StaysForfeited(s)
<1> SUFFICES ASSUME Forfeited(s)
             PROVE  Forfeited(s)' \/ (consumed[s].state # "firm" /\ powerLosses' # powerLosses)
  BY DEF StaysForfeited
<1> USE DEF Forfeited, Activated, Current
<1>0. s \in Session /\ s.receipt.activation \in Activation
  BY DEF TypeOK, Session, Receipt
<1>1. ASSUME NEW q \in Request, AttestCustody(q) \/ AttestComposition(q) PROVE Forfeited(s)'
  BY <1>1 DEF AttestCustody, AttestComposition
<1>2. ASSUME NEW p \in Proc, NEW i \in ApprovalId, RecordApproval(p, i) PROVE Forfeited(s)'
  BY <1>2 DEF RecordApproval
<1>3. ASSUME NEW p \in Proc,
             Create(p) \/ BeginInvoke(p) \/ LookupIssued(p) \/ Restart(p)
      PROVE  Forfeited(s)'
  <2>1. /\ UNCHANGED <<consumed, runs>>
        /\ pc'[p] # "dispatch"
        /\ \A q \in Proc \ {p} : pc'[q] = pc[q] /\ work'[q] = work[q]
    BY <1>3 DEF Create, BeginCreate, CheckCustody, CheckComposition, CheckApproval, CheckEvidence,
                ClaimActivation, IssueSession, BeginInvoke, LookupIssued, Restart, Goto, Leave,
                stores, TypeOK
  <2> QED  BY <2>1
<1>4. ASSUME NEW p \in Proc, ConsumeSession(p) PROVE Forfeited(s)'
  <2>1. PICK o \in ClaimOutcomes(consumed[Current(p)], Current(p)) :
           /\ consumed' = [consumed EXCEPT ![Current(p)] = o.entry]
           /\ IF o.answer = "claimed" THEN Goto(p, "dispatch") ELSE Leave(p)
    BY <1>4 DEF ConsumeSession
  <2>2. UNCHANGED runs /\ \A q \in Proc \ {p} : pc'[q] = pc[q] /\ work'[q] = work[q]
    BY <1>4, <2>1 DEF ConsumeSession, Goto, Leave, TypeOK
  <2>3. consumed'[s] = consumed[s]
    BY <1>0, <2>1, ClaimEffect DEF TypeOK
  <2>4. pc'[p] = "dispatch" => work'[p] = work[p] /\ Current(p) # s
    BY <2>1, ClaimEffect DEF Goto, Leave, TypeOK
  <2> QED  BY <2>2, <2>3, <2>4
<1>5. ASSUME NEW p \in Proc, Dispatch(p) PROVE Forfeited(s)'
  <2>1. /\ runs' = [runs EXCEPT ![Activated(p)] = Append(@, Current(p))]
        /\ UNCHANGED consumed
        /\ pc[p] = "dispatch" /\ pc'[p] = "idle"
        /\ \A q \in Proc \ {p} : pc'[q] = pc[q] /\ work'[q] = work[q]
    BY <1>5 DEF Dispatch, Leave, stores, TypeOK
  <2>2. Current(p) \in sessions /\ Current(p) # s
    BY <2>1 DEF StartInv, HolderInv
  <2>3. Activated(p) # s.receipt.activation
    BY <2>2 DEF StartInv, OneSession
  <2>4. runs'[s.receipt.activation] = runs[s.receipt.activation]
    BY <1>0, <2>1, <2>3 DEF TypeOK
  <2> QED  BY <2>1, <2>4
<1>6. CASE PowerLoss
  <2>1. powerLosses' # powerLosses
    BY <1>6 DEF PowerLoss, TypeOK
  <2>2. CASE consumed[s].state = "firm"
    <3>1. consumed \in [Session -> Entries(Session)]
      BY DEF TypeOK
    <3>2. Survives(consumed)
      BY <1>6 DEF PowerLoss
    <3>3. consumed'[s] = consumed[s]
      BY <1>0, <2>2, <3>1, <3>2, LossType DEF Survives
    <3> QED  BY <1>6, <3>3 DEF PowerLoss
  <2> QED  BY <2>1, <2>2
<1>7. CASE UNCHANGED vars
  BY <1>7 DEF vars
<1> QED
  BY <1>1, <1>2, <1>3, <1>4, <1>5, <1>6, <1>7 DEF Next, Invoke

(* A durable claim without a session on its way, and a durable consumption *)
(* without a start on its way, are final: create_session()                 *)
(* (gate.py:116-124) never issues a session for that activation, and       *)
(* invoke() never starts a runtime for that session.                       *)
THEOREM BurnedForGood == Spec => StaysBurned
<1>1. TypeOK /\ StartInv /\ [Next]_vars =>
        [/\ \A a \in Activation :
              Burned(a) => \/ Burned(a)'
                           \/ claims[a].state # "firm" /\ powerLosses' # powerLosses
         /\ \A s \in sessions : StaysForfeited(s)]_vars
  BY BurnedStep, ForfeitedStep
<1>2. Init => TypeOK /\ StartInv
  BY TypeInit, StartInit
<1>3. TypeOK /\ StartInv /\ [Next]_vars => TypeOK' /\ StartInv'
  BY TypeStep, StartStep
<1> QED  BY <1>1, <1>2, <1>3, PTL DEF Spec, StaysBurned
-----------------------------------------------------------------------------
(* The gates implement the activation protocol.  What a step does to the   *)
(* evidence decides whether it is a Vouch, a PowerLoss or neither.         *)

(* No operation of a gate, and no restart, withdraws recorded evidence.    *)
LEMMA EvidenceKept ==
    ASSUME TypeOK, [Next]_vars, ~PowerLoss
    PROVE  powerLosses' = powerLosses /\ VouchedSessions \subseteq VouchedSessions'
<1> USE DEF VouchedSessions, Vouched
<1>0. /\ \A s \in Session : s.request \in Request
      /\ custody \in [Request -> Entries(Request)]
      /\ composition \in [Request -> Entries(Request)]
      /\ approvals \in [ApprovalId -> Entries(ApprovalReceipt)]
  BY DEF TypeOK, Session
<1>1. ASSUME NEW q \in Request, AttestCustody(q)
      PROVE  powerLosses' = powerLosses /\ VouchedSessions \subseteq VouchedSessions'
  <2>1. \A z \in Request : IsRecorded(custody[z]) => custody'[z] = custody[z]
    BY <1>0, <1>1, RecordedKept DEF AttestCustody
  <2> QED  BY <1>0, <1>1, <2>1 DEF AttestCustody
<1>2. ASSUME NEW q \in Request, AttestComposition(q)
      PROVE  powerLosses' = powerLosses /\ VouchedSessions \subseteq VouchedSessions'
  <2>1. \A z \in Request : IsRecorded(composition[z]) => composition'[z] = composition[z]
    BY <1>0, <1>2, RecordedKept DEF AttestComposition
  <2> QED  BY <1>0, <1>2, <2>1 DEF AttestComposition
<1>3. ASSUME NEW p \in Proc, NEW i \in ApprovalId, RecordApproval(p, i)
      PROVE  powerLosses' = powerLosses /\ VouchedSessions \subseteq VouchedSessions'
  <2>1. \A z \in ApprovalId : IsRecorded(approvals[z]) => approvals'[z] = approvals[z]
    BY <1>0, <1>3, RecordedKept DEF RecordApproval
  <2> QED  BY <1>3, <2>1 DEF RecordApproval
<1>4. ASSUME NEW p \in Proc, Create(p) \/ Invoke(p) \/ Restart(p)
      PROVE  UNCHANGED <<custody, composition, approvals, powerLosses>>
  BY <1>4 DEF Create, BeginCreate, CheckCustody, CheckComposition, CheckEvidence, CheckApproval,
     ClaimActivation, IssueSession, Invoke, BeginInvoke, LookupIssued, ConsumeSession,
     Dispatch, Restart, stores
<1>5. CASE UNCHANGED vars
  BY <1>5 DEF vars
<1>6. ASSUME UNCHANGED <<custody, composition, approvals, powerLosses>>
      PROVE  powerLosses' = powerLosses /\ VouchedSessions \subseteq VouchedSessions'
  BY <1>6
<1> HIDE DEF VouchedSessions
<1> QED  BY <1>1, <1>2, <1>3, <1>4, <1>5, <1>6 DEF Next

(* What is on record after a power loss was on record before.              *)
LEMMA LossRecorded ==
    ASSUME NEW R, NEW e \in Entries(R), NEW f \in AfterPowerLoss(e), IsRecorded(f)
    PROVE  IsRecorded(e) /\ e.rec = f.rec
BY EntryStates DEF AfterPowerLoss, IsRecorded, FreeEntry, SpoiledEntry

(* A power loss adds no evidence.                                          *)
LEMMA EvidenceLost ==
    ASSUME TypeOK, PowerLoss
    PROVE  powerLosses' > 0 /\ VouchedSessions' \subseteq VouchedSessions
<1>1. /\ \A q \in Request : IsRecorded(custody[q])' => IsRecorded(custody[q])
      /\ \A q \in Request : IsRecorded(composition[q])' => IsRecorded(composition[q])
      /\ \A i \in ApprovalId :
            IsRecorded(approvals[i])' =>
               IsRecorded(approvals[i]) /\ approvals'[i].rec = approvals[i].rec
  <2>1. /\ \A q \in Request : custody[q] \in Entries(Request)
        /\ \A q \in Request : composition[q] \in Entries(Request)
        /\ \A i \in ApprovalId : approvals[i] \in Entries(ApprovalReceipt)
    BY DEF TypeOK
  <2>2. /\ \A q \in Request : custody'[q] \in AfterPowerLoss(custody[q])
        /\ \A q \in Request : composition'[q] \in AfterPowerLoss(composition[q])
        /\ \A i \in ApprovalId : approvals'[i] \in AfterPowerLoss(approvals[i])
    BY DEF PowerLoss, Survives, TypeOK
  <2> QED  BY <2>1, <2>2, LossRecorded
<1>2. \A s \in Session : s.request \in Request
  BY DEF Session
<1>3. powerLosses' > 0
  BY DEF PowerLoss, TypeOK
<1>4. ASSUME NEW s \in Session, Vouched(s)' PROVE Vouched(s)
  <2>1. PICK i \in ApprovalId :
           /\ IsRecorded(approvals[i])'
           /\ approvals'[i].rec = [binding |-> s, decision |-> "approved"]
    BY <1>4 DEF Vouched
  <2>2. IsRecorded(custody[s.request])' /\ IsRecorded(composition[s.request])'
    BY <1>4 DEF Vouched
  <2> QED  BY <1>1, <1>2, <2>1, <2>2 DEF Vouched
<1>5. VouchedSessions' \subseteq VouchedSessions
  BY <1>4 DEF VouchedSessions
<1> QED  BY <1>3, <1>5

(* While no power was lost, a session handed out is vouched for.           *)
LEMMA SessionsStand ==
    ASSUME TypeOK, EvidenceInv, NEW s \in sessions
    PROVE  s \in Session /\ Protocol!Stands(s)
BY DEF TypeOK, EvidenceInv, Protocol!Stands, VouchedSessions

(* Every step of the gates is one step of the protocol or none.            *)
LEMMA ProtocolStep ==
    TypeOK /\ StartInv /\ EvidenceInv /\ [Next]_vars
        => [Protocol!Next]_(Protocol!pvars)
<1> SUFFICES ASSUME TypeOK, StartInv, EvidenceInv, [Next]_vars
             PROVE  [Protocol!Next]_(Protocol!pvars)
  OBVIOUS
<1>1. CASE PowerLoss
  <2>1. UNCHANGED <<sessions, runs>>
    BY <1>1 DEF PowerLoss
  <2>2. (powerLosses' > 0) = TRUE /\ VouchedSessions' \in SUBSET VouchedSessions
    BY <1>1, EvidenceLost
  <2> QED  BY <2>1, <2>2 DEF Protocol!Next, Protocol!PowerLoss
<1>2. ASSUME ~PowerLoss, UNCHANGED <<sessions, runs>>
      PROVE  [Protocol!Next]_(Protocol!pvars)
  <2>1. powerLosses' = powerLosses /\ VouchedSessions' = VouchedSessions \cup VouchedSessions'
    BY <1>2, EvidenceKept
  <2>2. VouchedSessions' \in SUBSET Session
    BY <1>2 DEF VouchedSessions, Session, Receipt
  <2> QED  BY <1>2, <2>1, <2>2 DEF Protocol!Next, Protocol!Vouch
<1>3. ASSUME NEW p \in Proc, IssueSession(p)
      PROVE  [Protocol!Next]_(Protocol!pvars)
  <2>1. /\ sessions' \in {sessions, sessions \cup {Current(p)}}
        /\ UNCHANGED <<custody, composition, approvals, runs, powerLosses>>
        /\ pc[p] = "issue"
    BY <1>3 DEF IssueSession
  <2>2. UNCHANGED VouchedSessions
    BY <2>1 DEF VouchedSessions, Vouched
  <2>3. /\ Current(p) \in Session
        /\ \A t \in sessions : Protocol!ActivationOf(t) # Protocol!ActivationOf(Current(p))
    BY <2>1, WorkType DEF StartInv, IssueInv, Owner, Activated, Protocol!ActivationOf
  <2>4. Protocol!Stands(Current(p))
    BY <2>1, <2>3 DEF EvidenceInv, Protocol!Stands, VouchedSessions
  <2>5. CASE sessions' = sessions \cup {Current(p)}
    BY <2>1, <2>2, <2>3, <2>4, <2>5 DEF Protocol!Next, Protocol!Issue
  <2> QED  BY <2>1, <2>2, <2>5 DEF Protocol!pvars
<1>4. ASSUME NEW p \in Proc, Dispatch(p)
      PROVE  [Protocol!Next]_(Protocol!pvars)
  <2> DEFINE s == Current(p)
  <2>1. /\ runs' = [runs EXCEPT ![Activated(p)] = Append(@, s)]
        /\ UNCHANGED <<custody, composition, approvals, sessions, powerLosses>>
        /\ pc[p] = "dispatch"
    BY <1>4 DEF Dispatch, stores
  <2>2. UNCHANGED VouchedSessions
    BY <2>1 DEF VouchedSessions, Vouched
  <2>3. s \in sessions /\ runs[Activated(p)] = <<>> /\ s \in Session /\ Activated(p) \in Activation
    BY <2>1, WorkType DEF StartInv, HolderInv, DispatchInv
  <2>4. runs' = [runs EXCEPT ![Protocol!ActivationOf(s)] = <<s>>]
    BY <2>1, <2>3 DEF Protocol!ActivationOf, Activated, TypeOK
  <2>5. Protocol!Stands(s)
    BY <2>3, SessionsStand
  <2> QED
    BY <2>1, <2>2, <2>3, <2>4, <2>5
    DEF Protocol!Next, Protocol!Start, Protocol!ActivationOf, Activated
<1>5. ~PowerLoss => \/ UNCHANGED <<sessions, runs>>
                    \/ \E p \in Proc : IssueSession(p) \/ Dispatch(p)
  BY DEF Next, vars, AttestCustody, AttestComposition, RecordApproval, Create, BeginCreate,
     CheckCustody, CheckComposition, CheckEvidence, CheckApproval, ClaimActivation,
     Invoke, BeginInvoke, LookupIssued, ConsumeSession, Restart
<1> QED  BY <1>1, <1>2, <1>3, <1>4, <1>5

(* The gates of any number of processes, with their stores, failed claims, *)
(* restarts and power losses, keep the promise an operator relies on: one  *)
(* session for an activation, issued and started on evidence that stands   *)
(* at that very moment, and one start of it (gate.py:116-207).             *)
THEOREM GatesImplementProtocol == Spec => ImplementsProtocol
<1>1. Init => Protocol!Init
  BY DEF Init, Protocol!Init, VouchedSessions, Vouched, IsRecorded, FreeEntry, Session
<1>2. Init => TypeOK /\ StartInv /\ EvidenceInv
  BY TypeInit, StartInit DEF Init, EvidenceInv
<1>3. TypeOK /\ StartInv /\ EvidenceInv /\ [Next]_vars => TypeOK' /\ StartInv' /\ EvidenceInv'
  BY TypeStep, StartStep, EvidenceStep
<1> QED  BY <1>1, <1>2, <1>3, ProtocolStep, PTL DEF Spec, ImplementsProtocol, Protocol!Spec
=============================================================================
