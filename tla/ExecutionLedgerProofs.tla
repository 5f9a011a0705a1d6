------------------------ MODULE ExecutionLedgerProofs ------------------------
(* The state machine's ledger is valid for every budget, however large: the *)
(* runs explore limits up to MaxBudget, here MaxBudget is any number.      *)
EXTENDS ExecutionLedger, FiniteSetTheorems, TLAPS

-----------------------------------------------------------------------------
(* What a transition does, in terms of the state it lands in.              *)
Used(s, u) == IF s = u THEN 1 ELSE 0
Step(s, r) ==
    /\ s \in States /\ r \in Recorded /\ ReasonFits(s, r)
    /\ context'.state = s /\ context'.limits = context.limits
    /\ context'.iteration = context.iteration + Used(s, "context_assembling")
    /\ context'.mutations = context.mutations + Used(s, "mutating")
    /\ context'.verifications = context.verifications + Used(s, "verifying")
    /\ context' \in Contexts
    /\ history' = Append(history, [iteration |-> context'.iteration, from |-> context.state,
                                   to |-> s, reason |-> r])
    /\ stop' = r

(* Every legal target is a state, none of them the first.                  *)
LEMMA Targets ==
    ASSUME NEW s, NEW t \in LegalTargets(s)
    PROVE  t \in States \ {"created"} /\ s \notin Terminal
BY DEF LegalTargets, States, Terminal

(* A transition lands in the state that was asked for, within its budget,  *)
(* or in the failed state.                                                 *)
LEMMA Lands ==
    ASSUME TypeOK, NEW t \in States, NEW r \in Reasons, Transition(t, r)
    PROVE  \E s \in States, reason \in Recorded :
              /\ Step(s, reason)
              /\ t \in LegalTargets(context.state)
              /\ s = IF Exhausted(context, t) THEN "failed" ELSE t
<1> DEFINE s == Landing(context, t)
           reason == IF Exhausted(context, t) THEN "budget_exhausted" ELSE r
<1>1. /\ t \in LegalTargets(context.state) /\ ReasonFits(s, reason)
      /\ context' = Advance(context, t)
      /\ history' = Append(history, [iteration |-> Advance(context, t).iteration,
                                     from |-> context.state, to |-> s, reason |-> reason])
      /\ stop' = reason
  BY DEF Transition
<1>2. s \in States /\ reason \in Recorded
  BY DEF Landing, Recorded, States, Terminal
<1>3. /\ context.state \in States /\ context.iteration \in Nat /\ context.mutations \in Nat
      /\ context.verifications \in Nat /\ context.limits \in Budgets
      /\ context \in Contexts
  BY DEF TypeOK, Contexts
<1>4. context' = [context EXCEPT !.state = s,
                     !.iteration = @ + Used(s, "context_assembling"),
                     !.mutations = @ + Used(s, "mutating"),
                     !.verifications = @ + Used(s, "verifying")]
  BY <1>1 DEF Advance, Used
<1> HIDE DEF s, reason
<1>5. /\ context'.state = s /\ context'.limits = context.limits
      /\ context'.iteration = context.iteration + Used(s, "context_assembling")
      /\ context'.mutations = context.mutations + Used(s, "mutating")
      /\ context'.verifications = context.verifications + Used(s, "verifying")
  BY <1>3, <1>4 DEF Contexts
<1>6. /\ context.iteration + Used(s, "context_assembling") \in Nat
      /\ context.mutations + Used(s, "mutating") \in Nat
      /\ context.verifications + Used(s, "verifying") \in Nat
  BY <1>3 DEF Used
<1>7. context' \in Contexts
  BY <1>2, <1>3, <1>4, <1>6 DEF Contexts
<1>8. Step(s, reason)
  BY <1>1, <1>2, <1>5, <1>7 DEF Step
<1>9. s = IF Exhausted(context, t) THEN "failed" ELSE t
  BY DEF s, Landing
<1> QED  BY <1>1, <1>2, <1>8, <1>9

(* The counters stay within their limits, and the ledger is well typed.    *)
LEMMA TypeStep == ASSUME TypeOK, [Next]_lvars PROVE TypeOK'
<1>1. CASE UNCHANGED lvars
  BY <1>1 DEF TypeOK, lvars
<1>2. ASSUME NEW t \in States, NEW r \in Reasons, Transition(t, r) PROVE TypeOK'
  <2>1. PICK s \in States, reason \in Recorded :
           Step(s, reason) /\ s = IF Exhausted(context, t) THEN "failed" ELSE t
    BY <1>2, Lands
  <2>2. /\ context.iteration \in Nat /\ context.mutations \in Nat
        /\ context.verifications \in Nat
        /\ context.limits.iterations \in Nat /\ context.limits.mutations \in Nat
        /\ context.limits.verifications \in Nat
    BY LedgerConstants DEF TypeOK, Contexts, Budgets
  <2>3. /\ s = "context_assembling" => context.iteration # context.limits.iterations
        /\ s = "mutating" => context.mutations # context.limits.mutations
        /\ s = "verifying" => context.verifications # context.limits.verifications
    BY <2>1 DEF Exhausted
  <2>4. context' \in Contexts /\ context'.iteration \in Nat /\ context.state \in States
    BY <2>1 DEF Step, Contexts, TypeOK
  <2>5. /\ context'.iteration <= context'.limits.iterations
        /\ context'.mutations <= context'.limits.mutations
        /\ context'.verifications <= context'.limits.verifications
    BY <2>1, <2>2, <2>3 DEF Step, Used, TypeOK
  <2>6. history' \in Seq(Records) /\ stop' \in Recorded
    BY <2>1, <2>4 DEF Step, Records, TypeOK
  <2> QED  BY <2>4, <2>5, <2>6 DEF TypeOK
<1> QED  BY <1>1, <1>2 DEF Next

(* A context is created within its limits.                                 *)
LEMMA TypeInit == Init => TypeOK
BY LedgerConstants DEF Init, TypeOK, Created, Contexts, Budgets, States, Terminal, Recorded, Reasons

(* The counters never exceed the limits of the execution, and the ledger   *)
(* has the records the constructor expects.                                *)
THEOREM TypeCorrect == Spec => []TypeOK
BY TypeInit, TypeStep, PTL DEF Spec

-----------------------------------------------------------------------------
(* The ledger. *)

(* An accepted transition adds one record and leaves the others.           *)
LEMMA Appends ==
    ASSUME TypeOK, NEW s \in States, NEW r \in Recorded, Step(s, r)
    PROVE  LET n == Len(history)
           IN  /\ n \in Nat /\ Len(history') = n + 1
               /\ \A i \in 1..n : history'[i] = history[i]
               /\ history'[n + 1] = [iteration |-> context'.iteration,
                                     from |-> context.state, to |-> s, reason |-> r]
<1> DEFINE e == [iteration |-> context'.iteration, from |-> context.state,
                 to |-> s, reason |-> r]
<1>1. e \in Records /\ history \in Seq(Records) /\ history' = Append(history, e)
  BY DEF Step, TypeOK, Contexts, Records
<1>2. history'[Len(history) + 1] = e
  BY <1>1
<1>3. Len(history) \in Nat /\ Len(history') = Len(history) + 1
      /\ \A i \in 1..Len(history) : history'[i] = history[i]
  BY <1>1
<1> QED  BY <1>2, <1>3

(* The entries of a state grow by the transition that lands in it.         *)
LEMMA EntriesGrow ==
    ASSUME TypeOK, NEW s \in States, NEW r \in Recorded, Step(s, r), NEW u
    PROVE  /\ Entries(u)' = IF s = u THEN Entries(u) \cup {Len(history) + 1} ELSE Entries(u)
           /\ Len(history) + 1 \notin Entries(u)
           /\ IsFiniteSet(Entries(u))
           /\ Cardinality(Entries(u)') = Cardinality(Entries(u)) + Used(s, u)
<1> DEFINE n == Len(history)
<1>1. /\ n \in Nat /\ Len(history') = n + 1
      /\ \A i \in 1..n : history'[i] = history[i]
      /\ history'[n + 1].to = s
  <2>1. /\ n \in Nat /\ Len(history') = n + 1
        /\ \A i \in 1..n : history'[i] = history[i]
        /\ history'[n + 1] = [iteration |-> context'.iteration, from |-> context.state,
                             to |-> s, reason |-> r]
    BY Appends
  <2> QED  BY <2>1
<1> HIDE DEF n
<1>2. Entries(u) = {i \in 1..n : history[i].to = u}
      /\ Entries(u)' = {i \in 1..(n + 1) : history'[i].to = u}
  BY <1>1 DEF Entries, n
<1>3. Entries(u)' = (IF s = u THEN Entries(u) \cup {n + 1} ELSE Entries(u)) /\ n + 1 \notin Entries(u)
  BY <1>1, <1>2
<1>4. IsFiniteSet(Entries(u))
  <2>1. IsFiniteSet(1..n)
    BY <1>1, FS_Interval
  <2>2. Entries(u) \subseteq 1..n
    BY <1>2
  <2> QED  BY <2>1, <2>2, FS_Subset
<1>5. Cardinality(Entries(u)) \in Nat
  BY <1>4, FS_CardinalityType
<1>6. Cardinality(Entries(u)') = Cardinality(Entries(u)) + Used(s, u)
  <2>1. CASE s = u
    <3>1. Cardinality(Entries(u) \cup {n + 1}) = Cardinality(Entries(u)) + 1
      BY <1>3, <1>4, FS_AddElement
    <3> QED  BY <1>3, <2>1, <3>1 DEF Used
  <2>2. CASE s # u
    BY <1>3, <1>5, <2>2 DEF Used
  <2> QED  BY <2>1, <2>2
<1> QED  BY <1>3, <1>4, <1>6 DEF n

(* The records and the counters agree, and go on agreeing: a transition    *)
(* that the machine redirects is recorded as what it became.               *)
Ledger == TypeOK /\ LedgerValid
LEMMA LedgerStep ==
    ASSUME Ledger, NEW t \in States, NEW reason \in Reasons, Transition(t, reason)
    PROVE  LedgerValid'
<1> USE DEF Ledger
<1>1. PICK s \in States, r \in Recorded :
         /\ Step(s, r) /\ t \in LegalTargets(context.state)
         /\ s = IF Exhausted(context, t) THEN "failed" ELSE t
  BY Lands
<1> DEFINE n == Len(history)
           e == [iteration |-> context'.iteration, from |-> context.state, to |-> s, reason |-> r]
<1>2. /\ n \in Nat /\ Len(history') = n + 1
      /\ \A i \in 1..n : history'[i] = history[i]
      /\ history'[n + 1] = e
  BY <1>1, Appends
<1>3. history = <<>> <=> n = 0
  BY DEF TypeOK
<1>4. /\ n = 0 => context = Created(context.limits)
      /\ n > 0 => history[n].to = context.state
  BY <1>2, <1>3 DEF LedgerValid
<1>5. s \in LegalTargets(context.state)
  <2>1. CASE s = t
    BY <1>1, <2>1
  <2>2. CASE Exhausted(context, t) /\ s = "failed"
    <3>1. CASE context.state = "created"
      <4>1. t = "context_assembling" /\ context.iteration = context.limits.iterations
        BY <1>1, <2>2, <3>1 DEF Exhausted, LegalTargets
      <4>2. n = 0
        <5>1. ASSUME n > 0 PROVE FALSE
          <6>1. history[n].to \in LegalTargets(history[n].from) /\ history[n].to = "created"
            BY <1>2, <1>4, <3>1, <5>1 DEF LedgerValid, Contiguous
          <6> QED  BY <6>1, Targets
        <5> QED  BY <1>2, <5>1
      <4>3. context.iteration = 0 /\ context.limits.iterations # 0
        BY <1>4, <4>2, LedgerConstants DEF Created, TypeOK, Contexts, Budgets
      <4> QED  BY <4>1, <4>3
    <3>2. CASE context.state # "created"
      BY <1>1, <2>2, <3>2 DEF Exhausted, LegalTargets
    <3> QED  BY <3>1, <3>2
  <2> QED  BY <1>1, <2>1, <2>2
<1>6. ReasonFits(s, r) /\ context'.state = s /\ stop' = r /\ context'.limits = context.limits
  BY <1>1 DEF Step
<1> HIDE DEF n
<1>7. Contiguous'
  <2>1. history'[1].from = "created"
    <3>1. CASE n = 0
      BY <1>2, <1>4, <3>1 DEF Created
    <3>2. CASE n > 0
      BY <1>2, <1>3, <3>2 DEF LedgerValid, Contiguous
    <3> QED  BY <1>2, <3>1, <3>2
  <2>2. ASSUME NEW i \in 1..n
        PROVE  /\ history'[i].to \in LegalTargets(history'[i].from)
               /\ ReasonFits(history'[i].to, history'[i].reason)
               /\ i > 1 => history'[i].from = history'[i - 1].to
    <3>1. /\ history[i].to \in LegalTargets(history[i].from)
          /\ ReasonFits(history[i].to, history[i].reason)
          /\ i > 1 => history[i].from = history[i - 1].to
      BY DEF LedgerValid, Contiguous, n
    <3>2. i > 1 => i - 1 \in 1..n
      BY <1>2
    <3> QED  BY <1>2, <3>1, <3>2
  <2>3. /\ e.to \in LegalTargets(e.from) /\ ReasonFits(e.to, e.reason)
        /\ n > 0 => e.from = history'[n].to
    BY <1>2, <1>4, <1>5, <1>6
  <2> HIDE DEF e
  <2> QED  BY <1>2, <2>1, <2>2, <2>3 DEF Contiguous
<1>8. /\ context'.iteration = Cardinality(Entries("context_assembling")')
      /\ context'.mutations = Cardinality(Entries("mutating")')
      /\ context'.verifications = Cardinality(Entries("verifying")')
  BY <1>1, EntriesGrow DEF LedgerValid, Step
<1>9. IterationsMatch'
  <2> SUFFICES ASSUME NEW i \in 1..(n + 1)
               PROVE  history'[i].iteration
                        = Cardinality({j \in 1..i : history'[j].to = "context_assembling"})
    BY <1>2 DEF IterationsMatch
  <2>1. CASE i \in 1..n
    <3>1. {j \in 1..i : history'[j].to = "context_assembling"}
            = {j \in 1..i : history[j].to = "context_assembling"}
      BY <1>2, <2>1
    <3>2. history[i].iteration = Cardinality({j \in 1..i : history[j].to = "context_assembling"})
      BY <2>1 DEF LedgerValid, IterationsMatch, n
    <3> QED  BY <1>2, <2>1, <3>1, <3>2
  <2>2. CASE i = n + 1
    <3>1. {j \in 1..i : history'[j].to = "context_assembling"} = Entries("context_assembling")'
      BY <1>2, <2>2 DEF Entries
    <3>2. history'[i].iteration = context'.iteration
      BY <1>2, <2>2
    <3> QED  BY <1>8, <3>1, <3>2
  <2>3. i \in 1..n \/ i = n + 1
    <3>1. n \in Nat
      BY <1>2
    <3> QED  BY <3>1
  <2> QED  BY <2>1, <2>2, <2>3
<1>10. history' # <<>> /\ history'[Len(history')].to = context'.state
       /\ history'[Len(history')].reason = stop'
  BY <1>2, <1>6
<1> QED  BY <1>7, <1>8, <1>9, <1>10 DEF LedgerValid

(* The empty ledger of a new context is valid.                             *)
LEMMA LedgerInit == Init => Ledger
<1> SUFFICES ASSUME Init PROVE Ledger
  OBVIOUS
<1>1. history = <<>> /\ Len(history) = 0 /\ stop = NoReason
  BY DEF Init
<1>2. context = Created(context.limits) /\ context.iteration = 0 /\ context.mutations = 0
      /\ context.verifications = 0
  BY DEF Init, Created
<1>3. \A u : Entries(u) = {}
  BY <1>1 DEF Entries
<1>4. Contiguous /\ IterationsMatch
  BY <1>1 DEF Contiguous, IterationsMatch
<1> QED  BY <1>1, <1>2, <1>3, <1>4, TypeInit, FS_EmptySet DEF Ledger, LedgerValid

(* No transition the machine accepts gives a context that its constructor, *)
(* or the audit envelope's, would reject: whatever the budgets, and also   *)
(* when the transition was redirected for want of budget.                  *)
THEOREM LedgerStaysValid == Spec => []LedgerValid
<1>1. ASSUME Ledger, [Next]_lvars PROVE Ledger'
  <2>1. TypeOK'
    BY <1>1, TypeStep DEF Ledger
  <2>2. LedgerValid'
    <3>1. CASE Next
      BY <1>1, <3>1, LedgerStep DEF Next
    <3>2. CASE UNCHANGED lvars
      BY <1>1, <3>2 DEF lvars, Ledger, LedgerValid, Contiguous, IterationsMatch, Entries
    <3> QED  BY <1>1, <3>1, <3>2
  <2> QED  BY <2>1, <2>2 DEF Ledger
<1>2. Ledger => LedgerValid
  BY DEF Ledger
<1> QED  BY <1>1, <1>2, LedgerInit, PTL DEF Spec

-----------------------------------------------------------------------------
(* One mutation in an iteration. *)

(* Between the start of an iteration and its mutation one mutation less    *)
(* than iterations was made, and none of them in this iteration.           *)
Before == {"context_assembling", "planning", "deciding", "proposing", "approval_pending",
           "authorizing"}
PhaseInv ==
    /\ TypeOK
    /\ context.verifications <= context.mutations /\ context.mutations <= context.iteration
    /\ context.state \in Before => context.mutations < context.iteration
    /\ context.state = "mutating" => context.verifications < context.mutations
    /\ context.state = "created" => context.mutations = 0
    /\ \A i \in Entries("mutating") :
          /\ history[i].iteration <= context.iteration
          /\ context.state \in Before => history[i].iteration < context.iteration
    /\ \A i, j \in Entries("mutating") :
          history[i].iteration = history[j].iteration => i = j

(* A mutation is entered from authorizing, verified at most once, and the  *)
(* next one needs another iteration.                                       *)
LEMMA PhaseStep ==
    ASSUME PhaseInv, NEW t \in States, NEW reason \in Reasons, Transition(t, reason)
    PROVE  PhaseInv'
<1> USE DEF PhaseInv
<1>1. TypeOK'
  BY TypeStep DEF Next
<1>2. PICK s \in States, r \in Recorded :
         /\ Step(s, r) /\ t \in LegalTargets(context.state)
         /\ s = IF Exhausted(context, t) THEN "failed" ELSE t
  BY Lands
<1> DEFINE n == Len(history)
<1>3. /\ n \in Nat /\ Len(history') = n + 1
      /\ \A i \in 1..n : history'[i] = history[i]
      /\ history'[n + 1].iteration = context'.iteration
  <2>1. /\ n \in Nat /\ Len(history') = n + 1
        /\ \A i \in 1..n : history'[i] = history[i]
        /\ history'[n + 1] = [iteration |-> context'.iteration, from |-> context.state,
                             to |-> s, reason |-> r]
    BY <1>2, Appends
  <2> QED  BY <2>1
<1>4. /\ s = "mutating" => context.state = "authorizing"
      /\ s = "verifying" => context.state = "mutating"
      /\ s \in Before \ {"context_assembling"} => context.state \in Before
      /\ s # "created"
  BY <1>2 DEF LegalTargets, Before
<1>5. /\ context.iteration \in Nat /\ context.mutations \in Nat /\ context.verifications \in Nat
      /\ context.state \in States
  BY DEF TypeOK, Contexts
<1>6. /\ context'.state = s
      /\ context'.iteration = IF s = "context_assembling" THEN context.iteration + 1
                              ELSE context.iteration
      /\ context'.mutations = IF s = "mutating" THEN context.mutations + 1
                              ELSE context.mutations
      /\ context'.verifications = IF s = "verifying" THEN context.verifications + 1
                                  ELSE context.verifications
  BY <1>2, <1>5 DEF Step, Used
<1>7. /\ context'.verifications <= context'.mutations
      /\ context'.mutations <= context'.iteration
      /\ context'.state \in Before => context'.mutations < context'.iteration
      /\ context'.state = "mutating" => context'.verifications < context'.mutations
      /\ context'.state = "created" => context'.mutations = 0
  BY <1>4, <1>5, <1>6 DEF Before
<1>8. Entries("mutating")' = IF s = "mutating" THEN Entries("mutating") \cup {n + 1}
                             ELSE Entries("mutating")
  BY <1>2, EntriesGrow
<1>9. \A i \in Entries("mutating") : i \in 1..n /\ history[i].iteration \in Nat
  <2>1. \A i \in 1..Len(history) : history[i] \in Records
    BY DEF TypeOK
  <2> QED  BY <2>1 DEF Entries, Records
<1> HIDE DEF n
<1>10. ASSUME NEW i \in Entries("mutating")
       PROVE  /\ history'[i].iteration = history[i].iteration
              /\ history'[i].iteration <= context'.iteration
              /\ context'.state \in Before => history'[i].iteration < context'.iteration
              /\ s = "mutating" => history'[i].iteration < context'.iteration
  BY <1>3, <1>4, <1>5, <1>6, <1>9, <1>10 DEF Before
<1>11. \A i \in Entries("mutating")' :
          /\ history'[i].iteration <= context'.iteration
          /\ context'.state \in Before => history'[i].iteration < context'.iteration
  BY <1>3, <1>5, <1>6, <1>8, <1>10 DEF Before
<1>12. \A i, j \in Entries("mutating")' :
          history'[i].iteration = history'[j].iteration => i = j
  <2> SUFFICES ASSUME NEW i \in Entries("mutating")', NEW j \in Entries("mutating")',
                      history'[i].iteration = history'[j].iteration
               PROVE  i = j
    OBVIOUS
  <2>1. CASE i \in Entries("mutating") /\ j \in Entries("mutating")
    BY <1>10, <2>1
  <2>2. CASE i \notin Entries("mutating") \/ j \notin Entries("mutating")
    <3>1. \A k \in Entries("mutating") : history'[k].iteration < history'[n + 1].iteration
          \/ s # "mutating"
      BY <1>3, <1>10
    <3>2. \A k \in Entries("mutating") : history'[k].iteration \in Nat
      BY <1>9, <1>10
    <3>3. context'.iteration \in Nat
      BY <1>5, <1>6
    <3> QED  BY <1>3, <1>8, <2>2, <3>1, <3>2, <3>3
  <2> QED  BY <2>1, <2>2
<1> QED  BY <1>1, <1>7, <1>11, <1>12

(* A mutation is entered at most once in an iteration and verified at most *)
(* once, for any budgets.                                                  *)
THEOREM OneEffect == Spec => []OneEffectPerIteration
<1>1. Init => PhaseInv
  <2> SUFFICES ASSUME Init PROVE PhaseInv
    OBVIOUS
  <2>1. Entries("mutating") = {}
    BY DEF Init, Entries
  <2>2. /\ context.state = "created" /\ context.iteration = 0 /\ context.mutations = 0
        /\ context.verifications = 0
    BY DEF Init, Created
  <2> QED  BY <2>1, <2>2, TypeInit DEF PhaseInv, Before
<1>2. ASSUME PhaseInv, [Next]_lvars PROVE PhaseInv'
  <2>1. CASE Next
    BY <1>2, <2>1, PhaseStep DEF Next
  <2>2. CASE UNCHANGED lvars
    BY <1>2, <2>2 DEF lvars, PhaseInv, TypeOK, Entries
  <2> QED  BY <1>2, <2>1, <2>2
<1>3. PhaseInv => OneEffectPerIteration
  BY DEF PhaseInv, OneEffectPerIteration
<1> QED  BY <1>1, <1>2, <1>3, PTL DEF Spec

-----------------------------------------------------------------------------
(* Every ledger is finite. *)

(* The most transitions that reach state s from the start of its iteration. *)
Rank(s) ==
    CASE s = "context_assembling" -> 1
      [] s = "planning"           -> 2
      [] s = "deciding"           -> 3
      [] s = "proposing"          -> 4
      [] s = "approval_pending"   -> 5
      [] s = "authorizing"        -> 6
      [] s = "mutating"           -> 7
      [] s = "verifying"          -> 8
      [] s = "reflecting"         -> 9
      [] s \in {"created", "replanning"} -> 10
      [] OTHER                    -> 11

(* Every cycle of the matrix passes through context_assembling, which is   *)
(* charged to the iterations.                                              *)
LengthInv ==
    /\ Ledger
    /\ Len(history) + 10 <= 10 * context.iteration + Rank(context.state)

(* A legal transition goes up in rank or starts an iteration.              *)
LEMMA RankRises ==
    ASSUME NEW s \in States, NEW t \in LegalTargets(s)
    PROVE  /\ Rank(s) \in 1..11 /\ Rank(t) \in 1..11
           /\ t # "context_assembling" => Rank(t) >= Rank(s) + 1
           /\ t = "context_assembling" => Rank(t) = 1 /\ Rank(s) = 10
<1>1. t \in {"context_assembling", "planning", "deciding", "proposing", "approval_pending",
             "authorizing", "mutating", "verifying", "reflecting", "replanning"} \cup Terminal
  BY DEF LegalTargets, Terminal
<1>2. CASE s \in {"created", "context_assembling", "planning", "deciding"}
  BY <1>2 DEF LegalTargets, Rank
<1>3. CASE s \in {"proposing", "approval_pending", "authorizing", "mutating"}
  BY <1>3 DEF LegalTargets, Rank
<1>4. CASE s \in {"verifying", "reflecting", "replanning"} \cup Terminal
  BY <1>4 DEF LegalTargets, Rank, Terminal
<1> QED  BY <1>2, <1>3, <1>4 DEF States

(* ... and adds one record.                                                *)
LEMMA LengthStep ==
    ASSUME LengthInv, NEW t \in States, NEW reason \in Reasons, Transition(t, reason)
    PROVE  LengthInv'
<1>1. TypeOK /\ Ledger'
  BY TypeStep, LedgerStep DEF LengthInv, Ledger, Next
<1>2. PICK s \in States, r \in Recorded :
         /\ Step(s, r) /\ t \in LegalTargets(context.state)
         /\ s = IF Exhausted(context, t) THEN "failed" ELSE t
  BY <1>1, Lands
<1>3. Len(history) \in Nat /\ Len(history') = Len(history) + 1
  BY <1>1, <1>2, Appends
<1>4. s \in LegalTargets(context.state)
  <2>1. history'[Len(history) + 1] = [iteration |-> context'.iteration,
                                      from |-> context.state, to |-> s, reason |-> r]
    BY <1>1, <1>2, Appends
  <2>2. Len(history) + 1 \in 1..Len(history')
    BY <1>3
  <2>3. LET i == Len(history) + 1
        IN  history'[i].to \in LegalTargets(history'[i].from)
    BY <1>1, <2>2 DEF Ledger, LedgerValid, Contiguous
  <2> QED  BY <2>1, <2>3
<1>5. context.state \in States /\ context.iteration \in Nat
  BY <1>1 DEF TypeOK, Contexts
<1>6. /\ context'.state = s
      /\ context'.iteration = IF s = "context_assembling" THEN context.iteration + 1
                              ELSE context.iteration
  BY <1>2, <1>5 DEF Step, Used
<1>7. /\ Rank(context.state) \in 1..11 /\ Rank(s) \in 1..11
      /\ s # "context_assembling" => Rank(s) >= Rank(context.state) + 1
      /\ s = "context_assembling" => Rank(s) = 1 /\ Rank(context.state) = 10
  BY <1>4, <1>5, RankRises
<1>8. Len(history) + 10 <= 10 * context.iteration + Rank(context.state)
  BY DEF LengthInv
<1>9. Len(history') + 10 <= 10 * context'.iteration + Rank(context'.state)
  <2> DEFINE k == Rank(context.state)
             m == Rank(s)
  <2>1. k \in 1..11 /\ m \in 1..11 /\ Len(history) + 10 <= 10 * context.iteration + k
    BY <1>7, <1>8
  <2>2. CASE s = "context_assembling"
    <3>1. m = 1 /\ k = 10 /\ context'.iteration = context.iteration + 1
      BY <1>6, <1>7, <2>2
    <3> HIDE DEF k, m
    <3>2. Len(history) + 1 + 10 <= 10 * (context.iteration + 1) + m
      BY <1>3, <1>5, <2>1, <3>1
    <3> QED  BY <1>3, <1>6, <3>1, <3>2 DEF m
  <2>3. CASE s # "context_assembling"
    <3>1. m >= k + 1 /\ context'.iteration = context.iteration
      BY <1>6, <1>7, <2>3
    <3> HIDE DEF k, m
    <3>2. Len(history) + 1 + 10 <= 10 * context.iteration + m
      BY <1>3, <1>5, <2>1, <3>1
    <3> QED  BY <1>3, <1>6, <3>1, <3>2 DEF m
  <2> QED  BY <2>2, <2>3
<1> QED  BY <1>1, <1>9 DEF LengthInv

(* Whatever its callers ask for, and in whatever order, an execution       *)
(* makes at most ten transitions in each of its iterations and one more to *)
(* end: the machine lets no execution run for ever                         *)
(* (state_machine.py:100).                                                 *)
THEOREM LedgerIsBounded ==
    Spec => [](Len(history) <= 10 * context.limits.iterations + 1)
<1>1. Init => LengthInv
  <2> SUFFICES ASSUME Init PROVE LengthInv
    OBVIOUS
  <2>1. Len(history) = 0 /\ context.state = "created" /\ context.iteration = 0
    BY DEF Init, Created
  <2> QED  BY <2>1, LedgerInit DEF LengthInv, Rank
<1>2. ASSUME LengthInv, [Next]_lvars PROVE LengthInv'
  <2>1. CASE Next
    BY <1>2, <2>1, LengthStep DEF Next
  <2>2. CASE UNCHANGED lvars
    BY <1>2, <2>2 DEF lvars, LengthInv, Ledger, TypeOK, LedgerValid, Contiguous,
                      IterationsMatch, Entries
  <2> QED  BY <1>2, <2>1, <2>2
<1>3. LengthInv => Len(history) <= 10 * context.limits.iterations + 1
  <2> SUFFICES ASSUME LengthInv PROVE Len(history) <= 10 * context.limits.iterations + 1
    OBVIOUS
  <2>1. /\ context.iteration \in Nat /\ context.limits.iterations \in Nat
        /\ context.iteration <= context.limits.iterations /\ Len(history) \in Nat
    BY DEF LengthInv, Ledger, TypeOK, Contexts, Budgets
  <2>2. Rank(context.state) <= 11
    BY DEF Rank
  <2>3. Rank(context.state) \in Nat
    BY DEF Rank
  <2> QED  BY <2>1, <2>2, <2>3 DEF LengthInv
<1> QED  BY <1>1, <1>2, <1>3, PTL DEF Spec
=============================================================================
