---------------------- MODULE ApprovalLifecycleProofs ----------------------
(* What the approval manager and the executor guarantee for any commands,  *)
(* approvals, rules and numbers of threads.                                *)
EXTENDS ApprovalLifecycle, FiniteSets, FiniteSetTheorems, TLAPS

-----------------------------------------------------------------------------
(* Types. *)

(* The steps that work with what get() returned.                           *)
Reading == {"decide", "reserve", "consume", "release"}

(* A call is about a request that exists, and so is what it has read.      *)
TypeInv ==
    /\ TypeOK
    /\ \A t \in Thread : pc[t] \in Reading => call[t].read \in Request
    /\ \A t \in Thread :
          pc[t] # "idle" /\ call[t].id \in Approval => store[call[t].id] \in Request

(* A step of thread t that leaves it at step s with call k, and every      *)
(* existing request existing.                                              *)
LEMMA TypeFrame ==
    ASSUME TypeInv, NEW t \in Thread, NEW s \in Steps, NEW k \in Call \cup {NoCall},
           pc' = [pc EXCEPT ![t] = s], call' = [call EXCEPT ![t] = k],
           s # "idle" => k \in Call,
           s \notin {"idle", "prepare", "run"} => k.id \in Approval,
           s \in Reading => k.read \in Request,
           s # "idle" /\ k.id \in Approval => store[k.id] \in Request,
           store' \in [Approval -> Request \cup {Absent}],
           \A a \in Approval : store[a] \in Request => store'[a] \in Request,
           due' \in [Approval -> BOOLEAN],
           verdict' \in [Approval -> SUBSET {"approve", "reject"}],
           runs' \in [Approval -> Nat], takenBack' \in [Approval -> Nat],
           overruled' \in [Approval -> Nat], abandoned' \in [Approval -> BOOLEAN]
    PROVE  TypeInv'
<1>1. TypeOK'
  BY DEF TypeInv, TypeOK
<1>2. ASSUME NEW u \in Thread, pc'[u] \in Reading PROVE call'[u].read \in Request
  BY <1>2 DEF TypeInv, TypeOK
<1>3. ASSUME NEW u \in Thread, pc'[u] # "idle", call'[u].id \in Approval
      PROVE  store'[call'[u].id] \in Request
  BY <1>3 DEF TypeInv, TypeOK
<1> QED  BY <1>1, <1>2, <1>3 DEF TypeInv

(* Leave() and Goto() move one thread.                                     *)
Cleared(k) == [k EXCEPT !.read = Absent, !.late = FALSE]
LEMMA Moves ==
    ASSUME TypeInv, NEW t \in Thread, NEW s
    PROVE  /\ Leave(t) => pc' = [pc EXCEPT ![t] = "idle"] /\ call' = [call EXCEPT ![t] = NoCall]
           /\ Goto(t, s) => /\ pc' = [pc EXCEPT ![t] = s]
                            /\ call' = [call EXCEPT ![t] = Cleared(call[t])]
           /\ pc[t] # "idle" =>
                 /\ Cleared(call[t]) \in Call
                 /\ Cleared(call[t]).op = call[t].op /\ Cleared(call[t]).id = call[t].id
                 /\ Cleared(call[t]).command = call[t].command
                 /\ Cleared(call[t]).read = Absent
<1>1. Leave(t) => pc' = [pc EXCEPT ![t] = "idle"] /\ call' = [call EXCEPT ![t] = NoCall]
  BY DEF Leave
<1>2. Goto(t, s) => pc' = [pc EXCEPT ![t] = s] /\ call' = [call EXCEPT ![t] = Cleared(call[t])]
  BY DEF Goto, Cleared, TypeInv, TypeOK
<1>3. ASSUME pc[t] # "idle"
      PROVE  /\ Cleared(call[t]) \in Call
             /\ Cleared(call[t]).op = call[t].op /\ Cleared(call[t]).id = call[t].id
             /\ Cleared(call[t]).command = call[t].command
             /\ Cleared(call[t]).read = Absent
  <2>1. call[t] \in Call
    BY <1>3 DEF TypeInv, TypeOK
  <2> QED  BY <2>1 DEF Cleared, Call
<1> QED  BY <1>1, <1>2, <1>3

(* save() of a request that was read replaces one existing request.        *)
LEMMA Put ==
    ASSUME TypeInv, NEW a \in Approval, NEW r \in Request, store' = [store EXCEPT ![a] = r]
    PROVE  /\ store' \in [Approval -> Request \cup {Absent}]
           /\ \A b \in Approval : store[b] \in Request => store'[b] \in Request
           /\ store'[a] = r /\ \A b \in Approval \ {a} : store'[b] = store[b]
BY DEF TypeInv, TypeOK

(* The request Save() writes.                                              *)
Written(t, status) == [call[t].read EXCEPT !.status = status]
LEMMA Writes ==
    ASSUME TypeInv, NEW t \in Thread, pc[t] \in Reading, NEW s \in Status
    PROVE  /\ call[t] \in Call /\ call[t].id \in Approval /\ call[t].read \in Request
           /\ store[call[t].id] \in Request
           /\ Written(t, s) \in Request /\ Written(t, s).status = s
           /\ Written(t, s).command = call[t].read.command
           /\ Written(t, s).decided = call[t].read.decided
           /\ Save(t, s) => store' = [store EXCEPT ![call[t].id] = Written(t, s)]
<1>1. /\ call[t] \in Call /\ call[t].id \in Approval /\ call[t].read \in Request
      /\ store[call[t].id] \in Request
  BY DEF TypeInv, TypeOK, Reading
<1>2. Save(t, s) => store' = [store EXCEPT ![call[t].id] = Written(t, s)]
  BY DEF Save, Written
<1>3. /\ Written(t, s) \in Request /\ Written(t, s).status = s
      /\ Written(t, s).command = call[t].read.command
      /\ Written(t, s).decided = call[t].read.decided
  BY <1>1 DEF Written, Request
<1> QED  BY <1>1, <1>2, <1>3

(* A step of t that goes to s or leaves, and writes at most one request.   *)
LEMMA TypeMove ==
    ASSUME TypeInv, NEW t \in Thread, pc[t] # "idle", NEW s \in Steps, s \notin Reading,
           Leave(t) \/ Goto(t, s),
           s \in {"prepare", "run"} \/ call[t].id \in Approval,
           UNCHANGED store
              \/ \E a \in Approval, r \in Request : store' = [store EXCEPT ![a] = r],
           due' \in [Approval -> BOOLEAN],
           verdict' \in [Approval -> SUBSET {"approve", "reject"}],
           runs' \in [Approval -> Nat], takenBack' \in [Approval -> Nat],
           overruled' \in [Approval -> Nat], abandoned' \in [Approval -> BOOLEAN]
    PROVE  TypeInv'
<1>1. /\ store' \in [Approval -> Request \cup {Absent}]
      /\ \A a \in Approval : store[a] \in Request => store'[a] \in Request
  BY Put DEF TypeInv, TypeOK
<1>2. CASE Leave(t)
  <2>1. pc' = [pc EXCEPT ![t] = "idle"] /\ call' = [call EXCEPT ![t] = NoCall]
    BY <1>2, Moves
  <2>2. "idle" \in Steps /\ "idle" \notin Reading /\ NoCall \in Call \cup {NoCall}
    BY DEF Steps, Reading
  <2> QED  BY <1>1, <2>1, <2>2, TypeFrame
<1>3. CASE Goto(t, s)
  <2> DEFINE k == Cleared(call[t])
  <2>1. pc' = [pc EXCEPT ![t] = s] /\ call' = [call EXCEPT ![t] = k]
    BY <1>3, Moves
  <2>2. k \in Call /\ k.id = call[t].id
    BY Moves
  <2>3. k.id \in Approval => store[k.id] \in Request
    BY <2>2 DEF TypeInv
  <2> HIDE DEF k
  <2> QED  BY <1>1, <2>1, <2>2, <2>3, TypeFrame
<1> QED  BY <1>2, <1>3

(* A get() of t brings the request into its call.                          *)
LEMMA TypeReread ==
    ASSUME TypeInv, NEW t \in Thread, pc[t] \in {"fetch", "settle", "giveback"},
           NEW s \in Reading, Reread(t, s), UNCHANGED <<store, due, history>>
    PROVE  /\ TypeInv'
           /\ pc' = [pc EXCEPT ![t] = s]
           /\ \E k \in Call : /\ call' = [call EXCEPT ![t] = k] /\ k.read = store[k.id]
                              /\ k.op = call[t].op /\ k.id = call[t].id
                              /\ k.command = call[t].command
<1> DEFINE k == [call[t] EXCEPT !.read = Mine(t), !.late = due[call[t].id]]
<1>1. call[t] \in Call /\ call[t].id \in Approval /\ store[call[t].id] \in Request
  BY DEF TypeInv, TypeOK
<1>2. due[call[t].id] \in BOOLEAN
  BY <1>1 DEF TypeInv, TypeOK
<1>3. k \in Call
  BY <1>1, <1>2 DEF Call, Mine
<1>4. /\ k.read = store[k.id] /\ k.op = call[t].op /\ k.id = call[t].id
      /\ k.command = call[t].command
  BY <1>1 DEF Call, Mine
<1>5. pc' = [pc EXCEPT ![t] = s] /\ call' = [call EXCEPT ![t] = k]
  BY <1>1 DEF Reread, TypeInv, TypeOK
<1>6. s \in Steps
  BY DEF Steps, Reading
<1>7. /\ store' \in [Approval -> Request \cup {Absent}]
      /\ due' \in [Approval -> BOOLEAN]
      /\ verdict' \in [Approval -> SUBSET {"approve", "reject"}]
      /\ runs' \in [Approval -> Nat] /\ takenBack' \in [Approval -> Nat]
      /\ overruled' \in [Approval -> Nat] /\ abandoned' \in [Approval -> BOOLEAN]
      /\ \A a \in Approval : store'[a] = store[a]
  BY DEF TypeInv, TypeOK, history
<1> HIDE DEF k
<1>8. TypeInv'
  BY <1>1, <1>3, <1>4, <1>5, <1>6, <1>7, TypeFrame
<1> QED  BY <1>3, <1>4, <1>5, <1>8

(* The start of a manager operation, or of execute().                      *)
LEMMA TypeBegin ==
    ASSUME TypeInv, NEW t \in Thread, NEW c \in Command, NEW a \in Approval \cup {NoId},
           NEW op \in {"execute", "approve", "reject", "expire", "consume", "release"},
           NEW s \in {"decide", "fetch", "settle", "giveback", "prepare"},
           Begin(t, op, a, c, s),
           IF a = NoId THEN s = "prepare" ELSE store[a] # Absent,
           UNCHANGED <<store, due, history>>
    PROVE  /\ TypeInv'
           /\ pc' = [pc EXCEPT ![t] = s]
           /\ \E k \in Call : /\ call' = [call EXCEPT ![t] = k]
                              /\ k.op = op /\ k.id = a /\ k.command = c
                              /\ k.read = IF a = NoId THEN Absent ELSE store[a]
<1> DEFINE k == [op |-> op, id |-> a, command |-> c,
                 read |-> IF a = NoId THEN Absent ELSE store[a],
                 late |-> a # NoId /\ due[a]]
<1>1. (IF a = NoId THEN Absent ELSE store[a]) \in Request \cup {Absent}
  BY ApprovalConstants DEF TypeInv, TypeOK
<1>2. (a # NoId /\ due[a]) \in BOOLEAN
  OBVIOUS
<1>3. k \in Call
  BY <1>1, <1>2 DEF Call
<1>4. a # NoId => a \in Approval /\ store[a] \in Request
  BY DEF TypeInv, TypeOK
<1>5. pc' = [pc EXCEPT ![t] = s] /\ call' = [call EXCEPT ![t] = k] /\ s \in Steps
  BY DEF Begin, Steps
<1>6. /\ s \notin {"idle", "prepare", "run"} => k.id \in Approval
      /\ s \in Reading => k.read \in Request
      /\ k.id \in Approval => store[k.id] \in Request
  BY <1>4, ApprovalConstants DEF Reading
<1>7. /\ store' \in [Approval -> Request \cup {Absent}]
      /\ due' \in [Approval -> BOOLEAN]
      /\ verdict' \in [Approval -> SUBSET {"approve", "reject"}]
      /\ runs' \in [Approval -> Nat] /\ takenBack' \in [Approval -> Nat]
      /\ overruled' \in [Approval -> Nat] /\ abandoned' \in [Approval -> BOOLEAN]
      /\ \A b \in Approval : store'[b] = store[b]
  BY DEF TypeInv, TypeOK, history
<1>8. k.op = op /\ k.id = a /\ k.command = c /\ k.read = IF a = NoId THEN Absent ELSE store[a]
  OBVIOUS
<1> HIDE DEF k
<1>9. TypeInv'
  BY <1>3, <1>5, <1>6, <1>7, TypeFrame
<1> QED  BY <1>3, <1>5, <1>8, <1>9

(* The actions of one thread.                                              *)
Threads(t) ==
    \/ t \in Decider /\ BeginDecision(t)
    \/ t \in Executor /\ Execute(t)
    \/ t \in Client /\ CallDirectly(t)
    \/ Approve(t) \/ Reject(t) \/ Expire(t) \/ Fetch(t) \/ Reserve(t) \/ Prepare(t)
    \/ Run(t) \/ Settle(t) \/ Consume(t) \/ GiveBack(t) \/ Release(t)
LEMMA Steps_ ==
    ASSUME [Next]_vars
    PROVE  \/ \E a \in Approval, c \in Command : Coordinate(a, c)
           \/ \E a \in Approval : TimePasses(a)
           \/ \E t \in Thread : Threads(t)
           \/ UNCHANGED vars
BY DEF Next, Threads, Thread

(* No call is under way at the start.                                      *)
LEMMA TypeInit == Init => TypeInv
<1> SUFFICES ASSUME Init PROVE TypeInv
  OBVIOUS
<1>1. TypeOK
  BY DEF Init, TypeOK, Steps
<1>2. \A t \in Thread : pc[t] = "idle" /\ "idle" \notin Reading
  BY DEF Init, Reading
<1> QED  BY <1>1, <1>2 DEF TypeInv

(* The decisions: what they write, and that they leave.                    *)
Marked(t, s) == [call[t].read EXCEPT !.status = s, !.decided = TRUE]
LEMMA DecisionEffect ==
    ASSUME TypeInv, NEW t \in Thread, NEW op \in {"approve", "reject"},
           NEW s \in Status, Decision(t, op, s)
    PROVE  /\ pc[t] \in Reading /\ Leave(t) /\ UNCHANGED <<due, runs, takenBack, abandoned>>
           /\ \/ UNCHANGED <<store, verdict, overruled>>
              \/ /\ call[t].read.status \in Active
                 /\ Save(t, "expired") /\ UNCHANGED <<verdict, overruled>>
              \/ LET a == call[t].id
                 IN  /\ call[t].read.status = "pending"
                     /\ store' = [store EXCEPT ![a] = Marked(t, s)]
                     /\ verdict' = [verdict EXCEPT ![a] = @ \cup {op}]
                     /\ overruled' = [overruled EXCEPT ![a] =
                                        IF store[a] = call[t].read THEN @ ELSE @ + 1]
BY DEF Decision, Lapsed, Reading, Mine, Marked
LEMMA Decided ==
    ASSUME TypeInv, NEW t \in Thread, pc[t] \in Reading, NEW s \in Status
    PROVE  /\ Marked(t, s) \in Request /\ Marked(t, s).status = s /\ Marked(t, s).decided
           /\ Marked(t, s).command = call[t].read.command
<1>1. call[t].read \in Request
  BY DEF TypeInv
<1> QED  BY <1>1 DEF Request, Marked

(* The writing operations of the manager: each writes at most one request. *)
LEMMA TypeWrite ==
    ASSUME TypeInv, NEW t \in Thread, pc[t] \in Reading, NEW s \in Steps, s \notin Reading,
           Leave(t) \/ Goto(t, s),
           UNCHANGED store \/ \E u \in Status : Save(t, u),
           UNCHANGED <<due, verdict, runs, overruled, abandoned>>,
           takenBack' \in [Approval -> Nat]
    PROVE  TypeInv'
<1>1. pc[t] # "idle" /\ call[t].id \in Approval
  BY Writes DEF Reading, Status
<1>2. UNCHANGED store \/ \E a \in Approval, r \in Request : store' = [store EXCEPT ![a] = r]
  <2>1. ASSUME NEW u \in Status, Save(t, u)
        PROVE  \E a \in Approval, r \in Request : store' = [store EXCEPT ![a] = r]
    BY <2>1, <1>1, Writes
  <2> QED  BY <2>1
<1>3. /\ due' \in [Approval -> BOOLEAN]
      /\ verdict' \in [Approval -> SUBSET {"approve", "reject"}]
      /\ runs' \in [Approval -> Nat]
      /\ overruled' \in [Approval -> Nat] /\ abandoned' \in [Approval -> BOOLEAN]
  BY DEF TypeInv, TypeOK
<1> QED  BY <1>1, <1>2, <1>3, TypeMove

(* Every step keeps the types.                                             *)
LEMMA TypeStep == ASSUME TypeInv, [Next]_vars PROVE TypeInv'
<1>1. ASSUME NEW a \in Approval, NEW c \in Command, Coordinate(a, c) PROVE TypeInv'
  <2>1. NewRequest(c) \in Request
    BY DEF NewRequest, Request, Status, Active
  <2>2. store' = [store EXCEPT ![a] = NewRequest(c)] /\ UNCHANGED <<due, pc, call, history>>
    BY <1>1 DEF Coordinate, Create
  <2>3. /\ store' \in [Approval -> Request \cup {Absent}]
        /\ \A b \in Approval : store[b] \in Request => store'[b] \in Request
    BY <2>1, <2>2, Put
  <2>4. TypeOK'
    BY <2>2, <2>3 DEF TypeInv, TypeOK, history
  <2>5. ASSUME NEW t \in Thread, pc[t] # "idle", call[t].id \in Approval
        PROVE  store'[call[t].id] \in Request
    BY <2>3, <2>5 DEF TypeInv
  <2> QED  BY <2>2, <2>4, <2>5 DEF TypeInv
<1>2. ASSUME NEW a \in Approval, TimePasses(a) PROVE TypeInv'
  <2>1. due' \in [Approval -> BOOLEAN] /\ UNCHANGED <<store, pc, call, history>>
    BY <1>2 DEF TimePasses, TypeInv, TypeOK
  <2> QED  BY <2>1 DEF TypeInv, TypeOK, history
<1>3. ASSUME NEW t \in Thread, BeginDecision(t) \/ Execute(t) \/ CallDirectly(t) PROVE TypeInv'
  <2>1. \E c \in Command, a \in Approval \cup {NoId},
           op \in {"execute", "approve", "reject", "expire", "consume", "release"},
           s \in {"decide", "fetch", "settle", "giveback", "prepare"} :
              /\ Begin(t, op, a, c, s)
              /\ IF a = NoId THEN s = "prepare" ELSE store[a] # Absent
    <3>1. CASE BeginDecision(t)
      <4>1. PICK a \in Approval, op \in {"approve", "reject", "expire"} :
               store[a] # Absent /\ Begin(t, op, a, store[a].command, "decide")
        BY <3>1 DEF BeginDecision
      <4>2. store[a].command \in Command /\ a # NoId
        BY <4>1, ApprovalConstants DEF TypeInv, TypeOK, Request
      <4> QED  BY <4>1, <4>2
    <3>2. CASE Execute(t)
      BY <3>2, ApprovalConstants DEF Execute
    <3>3. CASE CallDirectly(t)
      <4>1. PICK a \in Approval :
               /\ store[a] # Absent
               /\ \/ \E c \in Command : Begin(t, "consume", a, c, "settle")
                  \/ Begin(t, "release", a, store[a].command, "giveback")
        BY <3>3 DEF CallDirectly
      <4>2. store[a].command \in Command /\ a # NoId
        BY <4>1, ApprovalConstants DEF TypeInv, TypeOK, Request
      <4> QED  BY <4>1, <4>2
    <3> QED  BY <1>3, <3>1, <3>2, <3>3
  <2>2. UNCHANGED <<store, due, history>>
    BY <1>3 DEF BeginDecision, Execute, CallDirectly
  <2> QED  BY <2>1, <2>2, TypeBegin
<1>4. ASSUME NEW t \in Thread, NEW op \in {"approve", "reject"},
             NEW s \in {"approved", "rejected"}, Decision(t, op, s)
      PROVE  TypeInv'
  <2>1. s \in Status /\ "expired" \in Status /\ "idle" \in Steps /\ "idle" \notin Reading
    BY DEF Status, Active, Steps, Reading
  <2>2. pc[t] \in Reading /\ Leave(t) /\ UNCHANGED <<due, runs, takenBack, abandoned>>
    BY <1>4, <2>1, DecisionEffect
  <2>3. due' \in [Approval -> BOOLEAN] /\ runs' \in [Approval -> Nat]
        /\ takenBack' \in [Approval -> Nat] /\ abandoned' \in [Approval -> BOOLEAN]
    BY <2>2 DEF TypeInv, TypeOK
  <2>4. call[t].id \in Approval /\ pc[t] # "idle"
    BY <2>1, <2>2, Writes DEF Reading
  <2>5. Marked(t, s) \in Request
    BY <2>1, <2>2, Decided
  <2>6. \E r \in Request : Save(t, "expired") => store' = [store EXCEPT ![call[t].id] = r]
    BY <2>1, <2>2, Writes
  <2>7. UNCHANGED store \/ \E a \in Approval, r \in Request : store' = [store EXCEPT ![a] = r]
    BY <1>4, <2>1, <2>4, <2>5, <2>6, DecisionEffect
  <2>8. verdict' \in [Approval -> SUBSET {"approve", "reject"}]
    <3>1. verdict' = verdict \/ verdict' = [verdict EXCEPT ![call[t].id] = @ \cup {op}]
      BY <1>4, <2>1, DecisionEffect
    <3> QED  BY <3>1, <2>4 DEF TypeInv, TypeOK
  <2>9. overruled' \in [Approval -> Nat]
    <3>1. overruled' = overruled
          \/ overruled' = [overruled EXCEPT ![call[t].id] =
                              IF store[call[t].id] = call[t].read THEN @ ELSE @ + 1]
      BY <1>4, <2>1, DecisionEffect
    <3> QED  BY <3>1, <2>4 DEF TypeInv, TypeOK
  <2> QED  BY <2>1, <2>2, <2>7, <2>8, <2>3, <2>4, <2>9, TypeMove
<1>5. ASSUME NEW t \in Thread, Expire(t) \/ Reserve(t) \/ Consume(t) PROVE TypeInv'
  <2>1. pc[t] \in Reading /\ UNCHANGED <<due, history>>
    BY <1>5 DEF Expire, Reserve, Consume, Reading
  <2>2. \E s \in {"idle", "prepare", "giveback"} : Leave(t) \/ Goto(t, s)
    BY <1>5 DEF Expire, Reserve, Consume
  <2>3. UNCHANGED store \/ \E u \in Status : Save(t, u)
    BY <1>5 DEF Expire, Reserve, Consume, Swap, Status, Active
  <2>4. {"idle", "prepare", "giveback"} \subseteq Steps \ Reading
    BY DEF Steps, Reading
  <2>5. takenBack' \in [Approval -> Nat] /\ UNCHANGED <<due, verdict, runs, overruled, abandoned>>
    BY <2>1 DEF history, TypeInv, TypeOK
  <2> QED  BY <2>1, <2>2, <2>3, <2>4, <2>5, TypeWrite
<1>6. ASSUME NEW t \in Thread, Release(t) PROVE TypeInv'
  <2>1. pc[t] \in Reading /\ Leave(t) /\ UNCHANGED <<due, verdict, runs, overruled, abandoned>>
    BY <1>6 DEF Release, Reading
  <2>2. UNCHANGED store \/ \E u \in Status : Save(t, u)
    BY <1>6 DEF Release, Swap, Status, Active
  <2>3. takenBack' \in [Approval -> Nat]
    BY <1>6 DEF Release, TypeInv, TypeOK
  <2>4. "idle" \in Steps /\ "idle" \notin Reading
    BY DEF Steps, Reading
  <2> QED  BY <2>1, <2>2, <2>3, <2>4, TypeWrite
<1>7. ASSUME NEW t \in Thread, Fetch(t) \/ Settle(t) \/ GiveBack(t) PROVE TypeInv'
  <2>1. /\ pc[t] \in {"fetch", "settle", "giveback"} /\ UNCHANGED <<store, due, history>>
        /\ \E s \in Reading : Reread(t, s)
    BY <1>7 DEF Fetch, Settle, GiveBack, Reading
  <2> QED  BY <2>1, TypeReread
<1>8. ASSUME NEW t \in Thread, Prepare(t) PROVE TypeInv'
  <2>1. /\ pc[t] # "idle" /\ (Leave(t) \/ Goto(t, "run"))
        /\ UNCHANGED <<store, due, verdict, runs, takenBack, overruled>>
    BY <1>8 DEF Prepare
  <2>2. abandoned' \in [Approval -> BOOLEAN]
    BY <1>8 DEF Prepare, TypeInv, TypeOK
  <2>3. "run" \in Steps \ Reading
    BY DEF Steps, Reading
  <2> QED  BY <2>1, <2>2, <2>3, TypeMove DEF TypeInv, TypeOK
<1>9. ASSUME NEW t \in Thread, Run(t) PROVE TypeInv'
  <2>1. pc[t] = "run" /\ UNCHANGED <<store, due, verdict, takenBack, overruled, abandoned>>
    BY <1>9 DEF Run
  <2>2. call[t] \in Call /\ call[t].id \in Approval \cup {NoId}
    BY <2>1 DEF TypeInv, TypeOK, Call
  <2>3. runs' \in [Approval -> Nat]
    BY <1>9 DEF Run, TypeInv, TypeOK
  <2>4. \/ Leave(t)
        \/ call[t].id # NoId /\ (Goto(t, "settle") \/ Goto(t, "giveback"))
    BY <1>9 DEF Run
  <2>5. {"run", "settle", "giveback"} \subseteq Steps \ Reading
    BY DEF Steps, Reading
  <2>6. /\ due' \in [Approval -> BOOLEAN]
        /\ verdict' \in [Approval -> SUBSET {"approve", "reject"}]
        /\ takenBack' \in [Approval -> Nat]
        /\ overruled' \in [Approval -> Nat] /\ abandoned' \in [Approval -> BOOLEAN]
    BY <2>1 DEF TypeInv, TypeOK
  <2>7. ASSUME NEW s \in {"settle", "giveback"}, call[t].id # NoId, Goto(t, s) PROVE TypeInv'
    BY <2>1, <2>2, <2>3, <2>5, <2>6, <2>7, TypeMove
  <2>8. CASE Leave(t)
    BY <2>1, <2>3, <2>5, <2>6, <2>8, TypeMove
  <2> QED  BY <2>4, <2>7, <2>8
<1>10. CASE UNCHANGED vars
  BY <1>10 DEF vars, TypeInv, TypeOK
<1> QED
  BY <1>1, <1>2, <1>3, <1>4, <1>5, <1>6, <1>7, <1>8, <1>9, <1>10, Steps_
  DEF Threads, Approve, Reject

(* The store, the calls and the histories are well typed in every          *)
(* behaviour of the manager and the executor.                              *)
THEOREM TypeCorrect == Spec => []TypeOK
<1>1. TypeInv => TypeOK
  BY DEF TypeInv
<1> QED  BY <1>1, TypeInit, TypeStep, PTL DEF Spec

-----------------------------------------------------------------------------
(* The invariant.  A request that was read agrees with the stored request   *)
(* s as far as later writes need it, although s may have moved on: "over"  *)
(* late decisions and "back" foreign releases were counted for it.         *)
Settled == {"approved", "reserved", "consumed", "rejected"}
Fits(r, s, over, back) ==
    r \in Request =>
       /\ s \in Request /\ r.command = s.command
       /\ r.status # "pending" => s.status # "pending"
       /\ over = 0 /\ r.status = "expired" => s.status = "expired"
       /\ over = 0 /\ back = 0 /\ r.status \in Settled => r.decided

(* A stored request and the decisions ds saved for it.                     *)
Sound(s, ds, over, back) ==
    /\ Fits(s, s, over, back)
    /\ s.status \in {"absent", "pending"} => ds = {}
    /\ over = 0 => ds # {"approve", "reject"}
    /\ s.status \in {"approved", "reserved", "consumed"} => "approve" \in ds

(* A call k of thread t at step s, given the store S, the decisions V and  *)
(* the counts O and B.                                                     *)
CallOk(t, s, k, S, V, O, B) ==
    s # "idle" =>
       /\ s \in {"fetch", "reserve", "prepare", "run"} => k.op = "execute"
       /\ k.op = "execute" => t \in Executor
       /\ k.id \in Approval =>
             /\ S[k.id] \in Request
             /\ Fits(k.read, S[k.id], O[k.id], B[k.id])
             /\ k.op = "execute" => S[k.id].status # "pending" /\ k.read.status # "pending"
             /\ k.op = "execute" /\ s \in {"prepare", "run", "settle", "consume"}
                   => k.command = S[k.id].command
             /\ s \in {"prepare", "run"} => "approve" \in V[k.id]

RecordInv(a) == Sound(store[a], verdict[a], overruled[a], takenBack[a])
CallInv(t) == CallOk(t, pc[t], call[t], store, verdict, overruled, takenBack)
CoreInv ==
    /\ TypeInv
    /\ \A a \in Approval : RecordInv(a)
    /\ \A t \in Thread : CallInv(t)

-----------------------------------------------------------------------------
(* How a stored request may change in one step.                            *)
Evolves(s, s2, ds, ds2, over, over2, back, back2) ==
    /\ s \in Request =>
          /\ s2 \in Request /\ s2.command = s.command
          /\ s.status # "pending" => s2.status # "pending"
          /\ over2 = 0 /\ s.status = "expired" => s2.status = "expired"
    /\ ds \subseteq ds2
    /\ over2 = 0 => over = 0
    /\ back2 = 0 => back = 0
Follows(a) == Evolves(store[a], store'[a], verdict[a], verdict'[a],
                      overruled[a], overruled'[a], takenBack[a], takenBack'[a])

(* What was read earlier still fits after such a change.                   *)
LEMMA FitsStep ==
    ASSUME NEW r, NEW s, NEW s2, NEW ds, NEW ds2, NEW over, NEW over2, NEW back, NEW back2,
           Fits(r, s, over, back), Evolves(s, s2, ds, ds2, over, over2, back, back2)
    PROVE  Fits(r, s2, over2, back2)
BY DEF Fits, Evolves

(* A call is as good after the step as before.                             *)
LEMMA CallOkStep ==
    ASSUME NEW t, NEW s, NEW k, \A a \in Approval : Follows(a),
           CallOk(t, s, k, store, verdict, overruled, takenBack)
    PROVE  CallOk(t, s, k, store', verdict', overruled', takenBack')
<1>1. CASE s # "idle" /\ k.id \in Approval
  <2> DEFINE a == k.id
  <2>1. Follows(a)
    BY <1>1
  <2>2. /\ store[a] \in Request
        /\ Fits(k.read, store[a], overruled[a], takenBack[a])
    BY <1>1 DEF CallOk
  <2>3. Fits(k.read, store'[a], overruled'[a], takenBack'[a])
    BY <2>1, <2>2, FitsStep DEF Follows
  <2>4. /\ store'[a] \in Request /\ store'[a].command = store[a].command
        /\ store[a].status # "pending" => store'[a].status # "pending"
        /\ verdict[a] \subseteq verdict'[a]
    BY <2>1, <2>2 DEF Follows, Evolves
  <2> QED  BY <1>1, <2>3, <2>4 DEF CallOk
<1>2. CASE ~(s # "idle" /\ k.id \in Approval)
  BY <1>2 DEF CallOk
<1> QED  BY <1>1, <1>2

(* The writes: what is written over the stored request s from the request  *)
(* r that was read.                                                        *)
Writing(r, s, w, ds, ds2, over, over2, back, back2) ==
    /\ w.command = r.command
    /\ \/ w.status = "expired" /\ ds2 = ds /\ over2 = over /\ back2 = back
       \/ /\ r.status = "pending" /\ w.decided /\ back2 = back
          /\ over2 = IF s = r THEN over ELSE over + 1
          /\ \/ ds2 = ds \cup {"approve"} /\ w.status = "approved"
             \/ ds2 = ds \cup {"reject"} /\ w.status = "rejected"
       \/ /\ s.status = "approved" /\ r.status \notin {"pending", "expired"}
          /\ w.status = "reserved" /\ w.decided = r.decided
          /\ ds2 = ds /\ over2 = over /\ back2 = back
       \/ /\ s.status = "reserved" /\ r.status = "reserved"
          /\ w.status = "consumed" /\ w.decided = r.decided
          /\ ds2 = ds /\ over2 = over /\ back2 = back
       \/ /\ s.status = "reserved" /\ w.status = "approved" /\ w.decided = r.decided
          /\ (r.status # "pending" /\ back2 = back) \/ back2 = back + 1
          /\ ds2 = ds /\ over2 = over

(* Every write turns a sound request into a sound one.                     *)
LEMMA WriteSound ==
    ASSUME NEW r \in Request, NEW s \in Request, NEW w \in Request,
           NEW ds \in SUBSET {"approve", "reject"}, NEW ds2 \in SUBSET {"approve", "reject"},
           NEW over \in Nat, NEW over2 \in Nat, NEW back \in Nat, NEW back2 \in Nat,
           Fits(r, s, over, back), Sound(s, ds, over, back),
           Writing(r, s, w, ds, ds2, over, over2, back, back2)
    PROVE  /\ Sound(w, ds2, over2, back2)
           /\ Evolves(s, w, ds, ds2, over, over2, back, back2)
<1>1. w.command = s.command /\ w.status \in Status /\ r.status \in Status /\ s.status \in Status
  BY DEF Writing, Fits, Request
<1>2. over2 >= over /\ back2 >= back /\ ds \subseteq ds2 /\ w.status # "pending"
  BY <1>1 DEF Writing
<1>3. over2 = 0 /\ s.status = "expired" => w.status = "expired"
  BY <1>1 DEF Writing
<1>4. over2 = 0 /\ back2 = 0 /\ w.status \in Settled => w.decided
  BY <1>1, <1>2 DEF Writing, Fits, Settled, Status, Active
<1>5. over2 = 0 => ds2 # {"approve", "reject"}
  <2>1. ASSUME over2 = 0, ds2 # ds PROVE ds = {}
    BY <2>1, <1>1 DEF Writing, Sound
  <2>2. ASSUME over2 = 0, ds2 = ds PROVE ds2 # {"approve", "reject"}
    BY <2>2, <1>2 DEF Sound
  <2>3. ds2 = ds \/ ds2 = ds \cup {"approve"} \/ ds2 = ds \cup {"reject"}
    BY DEF Writing
  <2> QED  BY <2>1, <2>2, <2>3
<1>6. w.status \in {"approved", "reserved", "consumed"} => "approve" \in ds2
  BY <1>1 DEF Writing, Sound
<1>7. Fits(w, w, over2, back2)
  BY <1>4 DEF Fits
<1>8. Sound(w, ds2, over2, back2)
  BY <1>1, <1>2, <1>5, <1>6, <1>7 DEF Sound, Status, Active
<1>9. Evolves(s, w, ds, ds2, over, over2, back, back2)
  BY <1>1, <1>2, <1>3 DEF Evolves
<1> QED  BY <1>8, <1>9

-----------------------------------------------------------------------------
(* What a step of one thread does to the requests: nothing, or one of the  *)
(* writes to the request of its call.                                      *)
Keeps(a) ==
    /\ store'[a] = store[a] /\ verdict'[a] = verdict[a]
    /\ overruled'[a] = overruled[a] /\ takenBack'[a] = takenBack[a]
WritesOne(t) ==
    LET a == call[t].id
    IN  /\ pc[t] \in Reading
        /\ store'[a] \in Request
        /\ Writing(call[t].read, store[a], store'[a], verdict[a], verdict'[a],
                   overruled[a], overruled'[a], takenBack[a], takenBack'[a])
        /\ \A b \in Approval \ {a} : Keeps(b)

(* A save() of status u, whose decision history stays as it is.            *)
LEMMA SaveEffect ==
    ASSUME TypeInv, NEW t \in Thread, pc[t] \in Reading, NEW u \in Status, Save(t, u),
           UNCHANGED <<verdict, overruled>>,
           \A b \in Approval \ {call[t].id} : takenBack'[b] = takenBack[b],
           LET a == call[t].id
           IN  \/ u = "expired" /\ takenBack'[a] = takenBack[a]
               \/ /\ u = "reserved" /\ takenBack'[a] = takenBack[a]
                  /\ store[a].status = "approved"
                  /\ call[t].read.status \notin {"pending", "expired"}
               \/ /\ u = "consumed" /\ takenBack'[a] = takenBack[a]
                  /\ store[a].status = "reserved" /\ call[t].read.status = "reserved"
               \/ /\ u = "approved" /\ store[a].status = "reserved"
                  /\ \/ call[t].read.status # "pending" /\ takenBack'[a] = takenBack[a]
                     \/ takenBack'[a] = takenBack[a] + 1
    PROVE  WritesOne(t) /\ store'[call[t].id].status = u
<1> DEFINE a == call[t].id
           w == Written(t, u)
<1>1. /\ a \in Approval /\ store[a] \in Request /\ w \in Request /\ w.status = u
      /\ w.command = call[t].read.command /\ w.decided = call[t].read.decided
      /\ store' = [store EXCEPT ![a] = w]
  BY Writes
<1> HIDE DEF w
<1>2. store'[a] = w /\ \A b \in Approval \ {a} : store'[b] = store[b]
  BY <1>1, Put
<1>3. \A b \in Approval \ {a} : Keeps(b)
  BY <1>2 DEF Keeps
<1>4. Writing(call[t].read, store[a], w, verdict[a], verdict'[a],
              overruled[a], overruled'[a], takenBack[a], takenBack'[a])
  BY <1>1 DEF Writing
<1> QED  BY <1>1, <1>2, <1>3, <1>4 DEF WritesOne

(* The decisions.                                                          *)
LEMMA DecisionWrites ==
    ASSUME TypeInv, NEW t \in Thread, NEW op \in {"approve", "reject"},
           NEW s \in Status, Decision(t, op, s),
           s = IF op = "approve" THEN "approved" ELSE "rejected"
    PROVE  \/ \A a \in Approval : Keeps(a)
           \/ LET a == call[t].id
              IN  /\ WritesOne(t)
                  /\ \/ store'[a].status = "expired" /\ overruled'[a] = overruled[a]
                     \/ /\ store'[a].status = s
                        /\ \/ store[a].status = "pending" /\ overruled'[a] = overruled[a]
                           \/ overruled'[a] = overruled[a] + 1
<1> DEFINE a == call[t].id
<1>1. /\ pc[t] \in Reading /\ UNCHANGED takenBack
      /\ "expired" \in Status
  BY DecisionEffect DEF Status, Active
<1>2. CASE UNCHANGED <<store, verdict, overruled>>
  BY <1>1, <1>2 DEF Keeps
<1>3. CASE Save(t, "expired") /\ UNCHANGED <<verdict, overruled>>
  BY <1>1, <1>3, SaveEffect
<1>4. CASE /\ call[t].read.status = "pending"
           /\ store' = [store EXCEPT ![a] = Marked(t, s)]
           /\ verdict' = [verdict EXCEPT ![a] = @ \cup {op}]
           /\ overruled' = [overruled EXCEPT ![a] = IF store[a] = call[t].read THEN @ ELSE @ + 1]
  <2>1. /\ a \in Approval /\ Marked(t, s) \in Request /\ Marked(t, s).status = s
        /\ Marked(t, s).decided /\ Marked(t, s).command = call[t].read.command
    BY <1>1, Writes, Decided
  <2>2. store'[a] = Marked(t, s) /\ \A b \in Approval \ {a} : store'[b] = store[b]
    BY <1>4, <2>1, Put
  <2>3. /\ verdict'[a] = verdict[a] \cup {op}
        /\ \A b \in Approval \ {a} : verdict'[b] = verdict[b]
    BY <1>4, <2>1 DEF TypeInv, TypeOK
  <2>4. /\ overruled'[a] = IF store[a] = call[t].read THEN overruled[a] ELSE overruled[a] + 1
        /\ \A b \in Approval \ {a} : overruled'[b] = overruled[b]
    BY <1>4, <2>1 DEF TypeInv, TypeOK
  <2>5. \A b \in Approval \ {a} : Keeps(b)
    BY <1>1, <2>2, <2>3, <2>4 DEF Keeps
  <2>6. Writing(call[t].read, store[a], store'[a], verdict[a], verdict'[a],
                overruled[a], overruled'[a], takenBack[a], takenBack'[a])
    BY <1>1, <1>4, <2>1, <2>2, <2>3, <2>4 DEF Writing
  <2>7. WritesOne(t)
    BY <1>1, <2>1, <2>2, <2>5, <2>6 DEF WritesOne
  <2>8. \/ store[a].status = "pending" /\ overruled'[a] = overruled[a]
        \/ overruled'[a] = overruled[a] + 1
    BY <1>4, <2>4
  <2> QED  BY <2>1, <2>2, <2>7, <2>8
<1> QED  BY <1>2, <1>3, <1>4, DecisionEffect

(* Each action of a thread.                                                *)
LEMMA Effect ==
    ASSUME CoreInv, NEW t \in Thread, Threads(t)
    PROVE  (\A a \in Approval : Keeps(a)) \/ WritesOne(t)
<1> USE DEF CoreInv
<1>1. CASE UNCHANGED <<store, verdict, overruled, takenBack>>
  BY <1>1 DEF Keeps
<1>2. CASE Approve(t) \/ Reject(t)
  BY <1>2, DecisionWrites DEF Approve, Reject, Status, Active
<1>3. CASE Expire(t)
  <2>1. pc[t] \in Reading /\ UNCHANGED <<verdict, overruled, takenBack>>
        /\ (Save(t, "expired") \/ UNCHANGED store) /\ "expired" \in Status
    BY <1>3 DEF Expire, Reading, history, Status
  <2> QED  BY <2>1, <1>1, SaveEffect
<1>4. CASE Reserve(t)
  <2>1. pc[t] \in Reading /\ UNCHANGED <<verdict, overruled, takenBack>>
    BY <1>4 DEF Reserve, Reading, history
  <2>2. \/ Save(t, "expired") \/ UNCHANGED store
        \/ /\ Save(t, "reserved") /\ call[t].read.status # "expired"
           /\ store[call[t].id].status = "approved"
    BY <1>4 DEF Reserve, Swap, Mine
  <2>3. call[t].read.status # "pending"
    BY <1>4, <2>1, Writes DEF CallInv, CallOk, Reserve, Status
  <2>4. {"expired", "reserved"} \subseteq Status
    BY DEF Status
  <2> QED  BY <1>1, <2>1, <2>2, <2>3, <2>4, SaveEffect
<1>5. CASE Consume(t)
  <2>1. pc[t] \in Reading /\ UNCHANGED <<verdict, overruled, takenBack>>
    BY <1>5 DEF Consume, Reading, history
  <2>2. \/ Save(t, "expired") \/ UNCHANGED store
        \/ /\ Save(t, "consumed") /\ call[t].read.status = "reserved"
           /\ store[call[t].id].status = "reserved"
    BY <1>5 DEF Consume, Swap, Mine
  <2>3. {"expired", "consumed"} \subseteq Status
    BY DEF Status
  <2> QED  BY <1>1, <2>1, <2>2, <2>3, SaveEffect
<1>6. CASE Release(t)
  <2> DEFINE a == call[t].id
  <2>1. pc[t] \in Reading /\ UNCHANGED <<verdict, overruled>> /\ a \in Approval
    BY <1>6, Writes DEF Release, Reading, Status
  <2>2. \A b \in Approval : takenBack'[b] =
           IF call[t].op # "execute" /\ b = a /\ store[a].status = "reserved"
           THEN takenBack[b] + 1 ELSE takenBack[b]
    BY <1>6 DEF Release, Mine
  <2>3. CASE store[a].status # "reserved"
    <3>1. UNCHANGED store
      BY <1>6, <2>3 DEF Release, Swap, Mine
    <3> QED  BY <2>1, <2>2, <2>3, <3>1 DEF Keeps
  <2>4. CASE store[a].status = "reserved"
    <3>1. Save(t, "approved") /\ "approved" \in Status
      BY <1>6, <2>4 DEF Release, Swap, Mine, Status, Active
    <3>2. call[t].op = "execute" => call[t].read.status # "pending"
      BY <1>6, <2>1 DEF CallInv, CallOk, Release
    <3>3. \/ call[t].read.status # "pending" /\ takenBack'[a] = takenBack[a]
          \/ takenBack'[a] = takenBack[a] + 1
      BY <2>1, <2>2, <2>4, <3>2
    <3>4. \A b \in Approval \ {a} : takenBack'[b] = takenBack[b]
      BY <2>2
    <3> QED  BY <2>1, <2>4, <3>1, <3>3, <3>4, SaveEffect
  <2> QED  BY <2>3, <2>4
<1>7. CASE \/ BeginDecision(t) \/ Execute(t) \/ CallDirectly(t)
           \/ Fetch(t) \/ Settle(t) \/ GiveBack(t) \/ Prepare(t) \/ Run(t)
  <2>1. UNCHANGED <<store, verdict, overruled, takenBack>>
    BY <1>7 DEF BeginDecision, Execute, CallDirectly, Fetch, Settle, GiveBack, Prepare, Run, history
  <2> QED  BY <1>1, <2>1
<1> QED  BY <1>2, <1>3, <1>4, <1>5, <1>6, <1>7 DEF Threads

(* So every request stays sound, and goes on as the calls under way expect. *)
LEMMA RecordStep ==
    ASSUME CoreInv, TypeInv', NEW t \in Thread, Threads(t)
    PROVE  \A a \in Approval : Follows(a) /\ RecordInv(a)'
<1> USE DEF CoreInv
<1> SUFFICES ASSUME NEW a \in Approval PROVE Follows(a) /\ RecordInv(a)'
  OBVIOUS
<1>1. CASE Keeps(a)
  BY <1>1 DEF Keeps, Follows, Evolves, RecordInv
<1>2. CASE WritesOne(t) /\ a = call[t].id
  <2>1. call[t].read \in Request /\ store[a] \in Request /\ store'[a] \in Request
    BY <1>2, Writes DEF WritesOne, Status
  <2>2. /\ verdict[a] \in SUBSET {"approve", "reject"} /\ overruled[a] \in Nat
        /\ takenBack[a] \in Nat
    BY DEF TypeInv, TypeOK
  <2>3. /\ verdict'[a] \in SUBSET {"approve", "reject"} /\ overruled'[a] \in Nat
        /\ takenBack'[a] \in Nat
    BY DEF TypeInv, TypeOK
  <2>4. pc[t] # "idle"
    BY <1>2 DEF WritesOne, Reading
  <2>5. Fits(call[t].read, store[a], overruled[a], takenBack[a])
    BY <1>2, <2>4 DEF CallInv, CallOk
  <2>6. Sound(store[a], verdict[a], overruled[a], takenBack[a])
    BY DEF RecordInv
  <2>7. Writing(call[t].read, store[a], store'[a], verdict[a], verdict'[a],
                overruled[a], overruled'[a], takenBack[a], takenBack'[a])
    BY <1>2 DEF WritesOne
  <2> QED  BY <2>1, <2>2, <2>3, <2>5, <2>6, <2>7, WriteSound DEF RecordInv, Follows
<1> QED  BY <1>1, <1>2, Effect DEF WritesOne

(* The call a thread is in after its step was in order before it.          *)
LEMMA NextCallOk ==
    ASSUME CoreInv, NEW t \in Thread, Threads(t)
    PROVE  \E s \in Steps, k \in Call \cup {NoCall} :
              /\ pc' = [pc EXCEPT ![t] = s] /\ call' = [call EXCEPT ![t] = k]
              /\ CallOk(t, s, k, store, verdict, overruled, takenBack)
<1> USE DEF CoreInv
<1> DEFINE Ok(s, k) == CallOk(t, s, k, store, verdict, overruled, takenBack)
           Goal == \E s \in Steps, k \in Call \cup {NoCall} :
                      /\ pc' = [pc EXCEPT ![t] = s] /\ call' = [call EXCEPT ![t] = k]
                      /\ Ok(s, k)
<1> SUFFICES Goal
  OBVIOUS
<1>1. ASSUME Leave(t) PROVE Goal
  <2>1. "idle" \in Steps /\ Ok("idle", NoCall)
    BY DEF Steps, CallOk
  <2> QED  BY <1>1, <2>1, Moves
<1>2. ASSUME NEW s \in {"prepare", "run", "settle", "giveback"}, Goto(t, s), pc[t] # "idle",
             s \in {"prepare", "run", "settle"} => call[t].op = "execute",
             s \in {"prepare", "run", "settle"} /\ call[t].id \in Approval =>
                /\ call[t].command = store[call[t].id].command
                /\ "approve" \in verdict[call[t].id]
      PROVE  Goal
  <2> DEFINE k == Cleared(call[t])
  <2>1. /\ k \in Call /\ k.op = call[t].op /\ k.id = call[t].id
        /\ k.command = call[t].command /\ k.read = Absent
        /\ pc' = [pc EXCEPT ![t] = s] /\ call' = [call EXCEPT ![t] = k]
    BY <1>2, Moves
  <2> HIDE DEF k
  <2>2. Absent \notin Request /\ Absent.status # "pending"
    BY DEF Absent, Request, Status, Active
  <2>3. Ok(s, k)
    BY <1>2, <2>1, <2>2 DEF CallInv, CallOk, Fits
  <2>4. s \in Steps
    BY DEF Steps
  <2> QED  BY <2>1, <2>3, <2>4
<1>3. ASSUME NEW s \in Reading, Reread(t, s), pc[t] \in {"fetch", "settle", "giveback"},
             UNCHANGED <<store, due, history>>,
             s = "reserve" => call[t].op = "execute",
             s = "consume" => pc[t] = "settle", s # "decide"
      PROVE  Goal
  <2>1. PICK k \in Call : /\ call' = [call EXCEPT ![t] = k] /\ k.read = store[k.id]
                          /\ k.op = call[t].op /\ k.id = call[t].id
                          /\ k.command = call[t].command
    BY <1>3, TypeReread
  <2>2. pc' = [pc EXCEPT ![t] = s] /\ s \in Steps
    BY <1>3, TypeReread DEF Steps, Reading
  <2>3. k.id \in Approval /\ store[k.id] \in Request /\ pc[t] # "idle"
    BY <1>3, <2>1 DEF TypeInv, TypeOK
  <2>4. Fits(k.read, store[k.id], overruled[k.id], takenBack[k.id])
    BY <2>1, <2>3 DEF RecordInv, Sound
  <2>5. Ok(s, k)
    BY <1>3, <2>1, <2>3, <2>4 DEF CallInv, CallOk, Reading
  <2> QED  BY <2>1, <2>2, <2>5
<1>4. ASSUME NEW c \in Command, NEW a \in Approval \cup {NoId},
             NEW op \in {"execute", "approve", "reject", "expire", "consume", "release"},
             NEW s \in {"decide", "fetch", "settle", "giveback", "prepare"},
             Begin(t, op, a, c, s), UNCHANGED <<store, due, history>>,
             IF a = NoId THEN s = "prepare" ELSE store[a] # Absent,
             s \in {"fetch", "prepare"} <=> op = "execute",
             s = "prepare" => a = NoId,
             op = "execute" => t \in Executor /\ (a # NoId => store[a].status # "pending")
      PROVE  Goal
  <2>1. PICK k \in Call : /\ call' = [call EXCEPT ![t] = k]
                          /\ k.op = op /\ k.id = a /\ k.command = c
                          /\ k.read = IF a = NoId THEN Absent ELSE store[a]
    BY <1>4, TypeBegin
  <2>2. pc' = [pc EXCEPT ![t] = s] /\ s \in Steps
    BY <1>4, TypeBegin DEF Steps
  <2>3. ASSUME k.id \in Approval
        PROVE  /\ a # NoId /\ store[k.id] \in Request /\ k.read = store[k.id]
               /\ Fits(k.read, store[k.id], overruled[k.id], takenBack[k.id])
    <3>1. a # NoId /\ k.read = store[k.id] /\ store[k.id] \in Request
      BY <1>4, <2>1, <2>3, ApprovalConstants DEF TypeInv, TypeOK
    <3> QED  BY <2>3, <3>1 DEF RecordInv, Sound
  <2>4. Ok(s, k)
    BY <1>4, <2>1, <2>3 DEF CallOk
  <2> QED  BY <2>1, <2>2, <2>4
<1> HIDE DEF Goal
<1>5. CASE Approve(t) \/ Reject(t) \/ Expire(t) \/ Release(t)
  BY <1>1, <1>5 DEF Approve, Reject, Decision, Expire, Release
<1>6. CASE t \in Decider /\ BeginDecision(t)
  <2>1. PICK a \in Approval, op \in {"approve", "reject", "expire"} :
           store[a] # Absent /\ Begin(t, op, a, store[a].command, "decide")
    BY <1>6 DEF BeginDecision
  <2>2. store[a].command \in Command /\ a # NoId
    BY <2>1, ApprovalConstants DEF TypeInv, TypeOK, Request
  <2>3. UNCHANGED <<store, due, history>>
    BY <1>6 DEF BeginDecision
  <2> QED  BY <1>4, <2>1, <2>2, <2>3
<1>7. CASE t \in Executor /\ Execute(t)
  <2>1. UNCHANGED <<store, due, history>>
    BY <1>7 DEF Execute
  <2>2. PICK c \in Command :
           \/ Begin(t, "execute", NoId, c, "prepare")
           \/ \E a \in Approval : /\ store[a] # Absent /\ store[a].status \notin Refusing
                                  /\ Begin(t, "execute", a, c, "fetch")
    BY <1>7 DEF Execute
  <2>3. CASE Begin(t, "execute", NoId, c, "prepare")
    BY <1>4, <1>7, <2>1, <2>3
  <2>4. ASSUME NEW a \in Approval, store[a] # Absent, store[a].status \notin Refusing,
               Begin(t, "execute", a, c, "fetch")
        PROVE  Goal
    BY <1>4, <1>7, <2>1, <2>4, ApprovalConstants DEF Refusing
  <2> QED  BY <2>2, <2>3, <2>4
<1>8. CASE t \in Client /\ CallDirectly(t)
  <2>1. UNCHANGED <<store, due, history>>
    BY <1>8 DEF CallDirectly
  <2>2. PICK a \in Approval :
           /\ store[a] # Absent
           /\ \/ \E c \in Command : Begin(t, "consume", a, c, "settle")
              \/ Begin(t, "release", a, store[a].command, "giveback")
    BY <1>8 DEF CallDirectly
  <2>3. store[a].command \in Command /\ a # NoId
    BY <2>2, ApprovalConstants DEF TypeInv, TypeOK, Request
  <2>4. ASSUME NEW c \in Command, Begin(t, "consume", a, c, "settle") PROVE Goal
    BY <1>4, <2>1, <2>2, <2>3, <2>4
  <2>5. CASE Begin(t, "release", a, store[a].command, "giveback")
    BY <1>4, <2>1, <2>2, <2>3, <2>5
  <2> QED  BY <2>2, <2>4, <2>5
<1>9. CASE Fetch(t) \/ Settle(t) \/ GiveBack(t)
  BY <1>3, <1>9 DEF Fetch, Settle, GiveBack, Reading, CallInv, CallOk
<1>10. CASE Reserve(t)
  <2> DEFINE a == call[t].id
  <2>1. /\ a \in Approval /\ call[t].read \in Request /\ store[a] \in Request
        /\ pc[t] # "idle" /\ pc[t] \in Reading
    BY <1>10, Writes DEF Reserve, Reading, Status
  <2>2. CASE Goto(t, "prepare") /\ Matches(t) /\ store[a].status = "approved"
    <3>1. call[t].command = store[a].command
      BY <2>1, <2>2 DEF Matches, CallInv, CallOk, Fits
    <3>2. "approve" \in verdict[a]
      BY <2>1, <2>2 DEF RecordInv, Sound
    <3>3. call[t].op = "execute"
      BY <1>10 DEF Reserve, CallInv, CallOk
    <3> QED  BY <1>2, <2>1, <2>2, <3>1, <3>2, <3>3
  <2> QED  BY <1>1, <1>10, <2>2 DEF Reserve, Mine
<1>11. CASE Prepare(t)
  <2>1. Leave(t) \/ Goto(t, "run")
    BY <1>11 DEF Prepare
  <2> QED  BY <1>1, <1>2, <1>11, <2>1 DEF Prepare, CallInv, CallOk
<1>12. CASE Run(t)
  <2>1. Leave(t) \/ Goto(t, "settle") \/ Goto(t, "giveback")
    BY <1>12 DEF Run
  <2> QED  BY <1>1, <1>2, <1>12, <2>1 DEF Run, CallInv, CallOk
<1>13. CASE Consume(t)
  <2>1. Leave(t) \/ Goto(t, "giveback")
    BY <1>13 DEF Consume
  <2> QED  BY <1>1, <1>2, <1>13, <2>1 DEF Consume
<1> QED
  BY <1>5, <1>6, <1>7, <1>8, <1>9, <1>10, <1>11, <1>12, <1>13 DEF Threads

(* A new request, which no call can be about yet, is sound.                *)
LEMMA CoordinateStep ==
    ASSUME CoreInv, TypeInv', NEW a \in Approval, NEW c \in Command, Coordinate(a, c)
    PROVE  CoreInv'
<1> USE DEF CoreInv
<1>1. /\ store[a] = Absent /\ store' = [store EXCEPT ![a] = NewRequest(c)]
      /\ UNCHANGED <<pc, call, verdict, overruled, takenBack>>
  BY DEF Coordinate, Create, history
<1>2. NewRequest(c) \in Request /\ NewRequest(c).status = "pending"
  BY DEF NewRequest, Request, Status, Active
<1>3. store'[a] = NewRequest(c) /\ \A b \in Approval \ {a} : store'[b] = store[b]
  BY <1>1, <1>2, Put
<1>4. RecordInv(a)'
  BY <1>1, <1>2, <1>3 DEF RecordInv, Sound, Fits, Absent, Settled
<1>5. ASSUME NEW b \in Approval \ {a} PROVE RecordInv(b)'
  BY <1>1, <1>3 DEF RecordInv
<1>6. Absent \notin Request
  BY DEF Absent, Request, Status, Active
<1>7. \A b \in Approval : Follows(b)
  BY <1>1, <1>3, <1>6 DEF Follows, Evolves
<1>8. ASSUME NEW t \in Thread PROVE CallInv(t)'
  <2>1. CallOk(t, pc[t], call[t], store', verdict', overruled', takenBack')
    BY <1>7, CallOkStep DEF CallInv
  <2> QED  BY <1>1, <2>1 DEF CallInv
<1> QED  BY <1>4, <1>5, <1>8

(* No request, no call: the start is in order.                             *)
LEMMA CoreInit == Init => CoreInv
<1> SUFFICES ASSUME Init PROVE CoreInv
  OBVIOUS
<1>1. TypeInv
  BY TypeInit
<1>2. ASSUME NEW a \in Approval PROVE RecordInv(a)
  <2>1. store[a] = Absent /\ verdict[a] = {}
    BY DEF Init
  <2>2. Absent \notin Request /\ Absent.status = "absent"
    BY DEF Absent, Request, Status, Active
  <2> QED  BY <2>1, <2>2 DEF RecordInv, Sound, Fits
<1>3. ASSUME NEW t \in Thread PROVE CallInv(t)
  BY DEF Init, CallInv, CallOk
<1> QED  BY <1>1, <1>2, <1>3 DEF CoreInv

(* Every step keeps the requests sound and the calls in order.             *)
LEMMA CoreStep == ASSUME CoreInv, [Next]_vars PROVE CoreInv'
<1>1. TypeInv'
  BY TypeStep DEF CoreInv
<1>2. ASSUME NEW a \in Approval, NEW c \in Command, Coordinate(a, c) PROVE CoreInv'
  BY <1>1, <1>2, CoordinateStep
<1>3. ASSUME NEW a \in Approval, TimePasses(a) PROVE CoreInv'
  <2>1. UNCHANGED <<store, pc, call, verdict, overruled, takenBack>>
    BY <1>3 DEF TimePasses, history
  <2> QED  BY <1>1, <2>1 DEF CoreInv, RecordInv, CallInv
<1>4. ASSUME NEW t \in Thread, Threads(t) PROVE CoreInv'
  <2>1. \A a \in Approval : Follows(a) /\ RecordInv(a)'
    BY <1>1, <1>4, RecordStep
  <2>2. PICK s \in Steps, k \in Call \cup {NoCall} :
           /\ pc' = [pc EXCEPT ![t] = s] /\ call' = [call EXCEPT ![t] = k]
           /\ CallOk(t, s, k, store, verdict, overruled, takenBack)
    BY <1>4, NextCallOk
  <2>3. CallOk(t, s, k, store', verdict', overruled', takenBack')
    BY <2>1, <2>2, CallOkStep
  <2>4. pc'[t] = s /\ call'[t] = k
    BY <2>2 DEF CoreInv, TypeInv, TypeOK
  <2>5. ASSUME NEW u \in Thread \ {t} PROVE CallInv(u)'
    <3>1. pc'[u] = pc[u] /\ call'[u] = call[u]
      BY <2>2 DEF CoreInv, TypeInv, TypeOK
    <3>2. CallOk(u, pc[u], call[u], store', verdict', overruled', takenBack')
      BY <2>1, CallOkStep DEF CoreInv, CallInv
    <3> QED  BY <3>1, <3>2 DEF CallInv
  <2>6. CallInv(t)'
    BY <2>3, <2>4 DEF CallInv
  <2> QED  BY <1>1, <2>1, <2>5, <2>6 DEF CoreInv
<1>5. CASE UNCHANGED vars
  BY <1>1, <1>5 DEF vars, CoreInv, RecordInv, CallInv
<1> QED  BY <1>2, <1>3, <1>4, <1>5, Steps_

(* The decision survives in the record of a reserved or consumed request   *)
(* as long as nobody gave it back who did not hold it and no decision came *)
(* late: every write took it from a read that had it.                      *)
THEOREM DecisionSurvives == Spec => []DecisionKept
<1>1. ASSUME CoreInv PROVE DecisionKept
  <2> SUFFICES ASSUME NEW a \in Approval, store[a].status \in {"reserved", "consumed"},
                      takenBack[a] = 0, overruled[a] = 0
               PROVE  store[a].decided
    BY DEF DecisionKept
  <2>1. store[a] \in Request
    BY <1>1 DEF CoreInv, TypeInv, TypeOK, Absent
  <2> QED  BY <1>1, <2>1 DEF CoreInv, RecordInv, Sound, Fits, Settled
<1> QED  BY <1>1, CoreInit, CoreStep, PTL DEF Spec

(* A command that runs under an approval is the one that was approved, and *)
(* nobody rejected it unless a decision came late.                         *)
THEOREM RunsApprovedCommand == Spec => []RunIsApproved
<1>1. ASSUME CoreInv PROVE RunIsApproved
  <2> SUFFICES ASSUME NEW t \in Thread, NEW a \in Approval, Holds(t, a),
                      pc[t] \in {"prepare", "run"}
               PROVE  /\ store[a].command = call[t].command /\ "approve" \in verdict[a]
                      /\ verdict[a] = {"approve"} \/ overruled[a] > 0
    BY DEF RunIsApproved
  <2>1. /\ store[a].command = call[t].command /\ "approve" \in verdict[a]
    BY <1>1 DEF CoreInv, CallInv, CallOk, Holds
  <2>2. overruled[a] = 0 => verdict[a] # {"approve", "reject"}
    BY <1>1 DEF CoreInv, RecordInv, Sound
  <2>3. verdict[a] \subseteq {"approve", "reject"} /\ overruled[a] \in Nat
    BY <1>1 DEF CoreInv, TypeInv, TypeOK
  <2> QED  BY <2>1, <2>2, <2>3
<1> QED  BY <1>1, CoreInit, CoreStep, PTL DEF Spec

-----------------------------------------------------------------------------
(* Uses.  A request that can still be reserved is worth one run, and so is *)
(* a thread that holds a reservation and has not run yet.                  *)
Avail(a) == IF store[a].status \in {"absent", "pending", "approved"} THEN 1 ELSE 0
Unused(t, a) ==
    call[t].op = "execute" /\ call[t].id = a /\ pc[t] \in {"prepare", "run", "giveback", "release"}
One(b) == IF b THEN 1 ELSE 0
Users(a) == {t \in Thread : Unused(t, a)}
UseInv(a) ==
    /\ IsFiniteSet(Users(a))
    /\ runs[a] + Cardinality(Users(a)) + Avail(a) <= 1 + takenBack[a] + overruled[a]

(* A holder whose consume() has read something else than a reservation     *)
(* will not settle; every reservation has another kind of holder.          *)
Good(t, a) == Holds(t, a) /\ ~(pc[t] = "consume" /\ call[t].read.status # "reserved")
HolderInv(a) ==
    store[a].status = "reserved" => abandoned[a] \/ \E t \in Executor : Good(t, a)

(* What a step of t does to approval a: the runs it is worth do not grow   *)
(* but for what is counted, and a reservation keeps its holder.            *)
Balance(t, a) ==
    runs'[a] + One(Unused(t, a)') + Avail(a)' + takenBack[a] + overruled[a]
      <= runs[a] + One(Unused(t, a)) + Avail(a) + takenBack'[a] + overruled'[a]
Custody(t, a) ==
    /\ abandoned[a] => abandoned'[a]
    /\ store'[a].status = "reserved" =>
          IF store[a].status = "reserved" THEN Good(t, a) => abandoned'[a] \/ Good(t, a)'
          ELSE Good(t, a)' /\ t \in Executor
Fair(t, a) == Balance(t, a) /\ Custody(t, a)

(* Where a thread is after it has moved.                                   *)
LEMMA Arrives ==
    ASSUME TypeInv, NEW t \in Thread, NEW s
    PROVE  /\ Leave(t) => pc'[t] = "idle"
           /\ Goto(t, s) /\ pc[t] # "idle" =>
                 pc'[t] = s /\ call'[t].op = call[t].op /\ call'[t].id = call[t].id
<1>1. Leave(t) => pc'[t] = "idle"
  BY DEF Leave, TypeInv, TypeOK
<1>2. ASSUME Goto(t, s), pc[t] # "idle"
      PROVE  pc'[t] = s /\ call'[t].op = call[t].op /\ call'[t].id = call[t].id
  <2>1. pc' = [pc EXCEPT ![t] = s] /\ call' = [call EXCEPT ![t] = Cleared(call[t])]
        /\ Cleared(call[t]).op = call[t].op /\ Cleared(call[t]).id = call[t].id
    BY <1>2, Moves
  <2>2. pc'[t] = s /\ call'[t] = Cleared(call[t])
    BY <2>1 DEF TypeInv, TypeOK
  <2> QED  BY <2>1, <2>2
<1> QED  BY <1>1, <1>2

(* The counts are numbers.                                                 *)
LEMMA Numbers ==
    ASSUME TypeInv, NEW a \in Approval
    PROVE  runs[a] \in Nat /\ takenBack[a] \in Nat /\ overruled[a] \in Nat /\ Avail(a) \in {0, 1}
BY DEF TypeInv, TypeOK, Avail

(* A step that changes no request and does not move t into, or out of, the *)
(* holders.                                                                *)
LEMMA FairElsewhere ==
    ASSUME TypeInv, NEW t \in Thread, NEW a \in Approval,
           store'[a] = store[a], runs'[a] = runs[a], takenBack'[a] = takenBack[a],
           overruled'[a] = overruled[a], abandoned'[a] = abandoned[a],
           ~Unused(t, a)', Unused(t, a) => runs[a] < 0, ~Good(t, a)
    PROVE  Fair(t, a)
<1>1. Avail(a)' = Avail(a)
  BY DEF Avail
<1>2. Balance(t, a)
  BY <1>1, Numbers DEF Balance, One
<1>3. Custody(t, a)
  BY DEF Custody
<1> QED  BY <1>2, <1>3 DEF Fair

(* The reads, and the steps around the run: the store is as it was.        *)
LEMMA FairCalls ==
    ASSUME CoreInv, NEW t \in Thread, NEW a \in Approval,
           \/ t \in Decider /\ BeginDecision(t)
           \/ t \in Executor /\ Execute(t)
           \/ t \in Client /\ CallDirectly(t)
           \/ Fetch(t) \/ Settle(t) \/ GiveBack(t)
    PROVE  Fair(t, a)
<1> USE DEF CoreInv
<1>1. UNCHANGED <<store, runs, takenBack, overruled, abandoned>>
  BY DEF BeginDecision, Execute, CallDirectly, Fetch, Settle, GiveBack, history
<1>2. CASE \/ t \in Decider /\ BeginDecision(t)
           \/ t \in Executor /\ Execute(t)
           \/ t \in Client /\ CallDirectly(t)
  <2>1. pc[t] = "idle"
    BY <1>2 DEF BeginDecision, Execute, CallDirectly
  <2>2. \E s \in Steps, k \in Call :
           /\ pc' = [pc EXCEPT ![t] = s] /\ call' = [call EXCEPT ![t] = k]
           /\ ~(k.op = "execute" /\ k.id = a /\ s \in {"prepare", "run", "giveback", "release"})
    <3>0. UNCHANGED <<store, due, history>>
      BY <1>2 DEF BeginDecision, Execute, CallDirectly
    <3>1. ASSUME NEW c \in Command, NEW b \in Approval \cup {NoId},
                 NEW op \in {"execute", "approve", "reject", "expire", "consume", "release"},
                 NEW s \in {"decide", "fetch", "settle", "giveback", "prepare"},
                 Begin(t, op, b, c, s), IF b = NoId THEN s = "prepare" ELSE store[b] # Absent,
                 op = "execute" => s = "fetch" \/ b = NoId
          PROVE  \E u \in Steps, k \in Call :
                    /\ pc' = [pc EXCEPT ![t] = u] /\ call' = [call EXCEPT ![t] = k]
                    /\ ~(k.op = "execute" /\ k.id = a
                           /\ u \in {"prepare", "run", "giveback", "release"})
      <4>1. PICK k \in Call : call' = [call EXCEPT ![t] = k] /\ k.op = op /\ k.id = b
        BY <3>0, <3>1, TypeBegin
      <4>2. pc' = [pc EXCEPT ![t] = s] /\ s \in Steps
        BY <3>0, <3>1, TypeBegin DEF Steps
      <4> QED  BY <3>1, <4>1, <4>2, ApprovalConstants
    <3>2. CASE BeginDecision(t)
      <4>1. PICK b \in Approval, op \in {"approve", "reject", "expire"} :
               store[b] # Absent /\ Begin(t, op, b, store[b].command, "decide")
        BY <3>2 DEF BeginDecision
      <4>2. store[b].command \in Command /\ b # NoId
        BY <4>1, ApprovalConstants DEF TypeInv, TypeOK, Request
      <4> QED  BY <3>1, <4>1, <4>2
    <3>3. CASE Execute(t)
      <4>1. PICK c \in Command :
               \/ Begin(t, "execute", NoId, c, "prepare")
               \/ \E b \in Approval : store[b] # Absent /\ Begin(t, "execute", b, c, "fetch")
        BY <3>3 DEF Execute
      <4> QED  BY <3>1, <4>1, ApprovalConstants
    <3>4. CASE CallDirectly(t)
      <4>1. PICK b \in Approval :
               /\ store[b] # Absent
               /\ \/ \E c \in Command : Begin(t, "consume", b, c, "settle")
                  \/ Begin(t, "release", b, store[b].command, "giveback")
        BY <3>4 DEF CallDirectly
      <4>2. store[b].command \in Command /\ b # NoId
        BY <4>1, ApprovalConstants DEF TypeInv, TypeOK, Request
      <4> QED  BY <3>1, <4>1, <4>2
    <3> QED  BY <1>2, <3>2, <3>3, <3>4
  <2>3. ~Unused(t, a)'
    BY <2>2 DEF Unused, TypeInv, TypeOK
  <2>4. ~Unused(t, a) /\ ~Good(t, a)
    BY <2>1 DEF Unused, Good, Holds
  <2> QED  BY <1>1, <2>3, <2>4, FairElsewhere
<1>3. CASE Fetch(t) \/ Settle(t) \/ GiveBack(t)
  <2>1. PICK s \in Reading :
           /\ Reread(t, s) /\ pc[t] \in {"fetch", "settle", "giveback"}
           /\ <<pc[t], s>> \in {<<"fetch", "reserve">>, <<"settle", "consume">>,
                               <<"giveback", "release">>}
           /\ UNCHANGED <<store, due, history>>
    BY <1>3 DEF Fetch, Settle, GiveBack, Reading
  <2>2. PICK k \in Call : /\ call' = [call EXCEPT ![t] = k] /\ k.read = store[k.id]
                          /\ k.op = call[t].op /\ k.id = call[t].id
    BY <2>1, TypeReread
  <2>3. pc' = [pc EXCEPT ![t] = s]
    BY <2>1, TypeReread
  <2>4. pc'[t] = s /\ call'[t] = k
    BY <2>2, <2>3 DEF TypeInv, TypeOK
  <2>5. Unused(t, a)' <=> Unused(t, a)
    BY <2>1, <2>2, <2>4 DEF Unused
  <2>6. Avail(a)' = Avail(a)
    BY <1>1 DEF Avail
  <2>7. Balance(t, a)
    BY <1>1, <2>5, <2>6, Numbers DEF Balance, One
  <2>8. store[a].status = "reserved" /\ Good(t, a) => Good(t, a)'
    BY <2>1, <2>2, <2>4 DEF Good, Holds
  <2> QED  BY <1>1, <2>7, <2>8 DEF Fair, Custody
<1> QED  BY <1>2, <1>3

(* The decisions and the expiry.                                           *)
LEMMA FairDecisions ==
    ASSUME CoreInv, NEW t \in Thread, NEW a \in Approval, Approve(t) \/ Reject(t) \/ Expire(t)
    PROVE  Fair(t, a)
<1> USE DEF CoreInv
<1>1. /\ pc[t] = "decide" /\ Leave(t) /\ UNCHANGED <<runs, takenBack, abandoned>>
      /\ pc[t] \in Reading
  BY DEF Approve, Reject, Decision, Expire, history, Reading
<1>2. ~Unused(t, a) /\ ~Good(t, a) /\ ~Unused(t, a)'
  BY <1>1, Arrives DEF Unused, Good, Holds
<1>3. CASE Keeps(a)
  BY <1>1, <1>2, <1>3, FairElsewhere DEF Keeps
<1> DEFINE Decides(b) ==
              \/ store'[b].status = "expired" /\ overruled'[b] = overruled[b]
              \/ /\ store'[b].status \in {"approved", "rejected"}
                 /\ \/ store[b].status = "pending" /\ overruled'[b] = overruled[b]
                    \/ overruled'[b] = overruled[b] + 1
<1>4. CASE Decides(a)
  <2>1. Avail(a)' + overruled[a] <= Avail(a) + overruled'[a]
    BY <1>4, Numbers DEF Avail
  <2>2. Avail(a)' \in {0, 1} /\ overruled'[a] \in Int
    BY <1>4, Numbers DEF Avail
  <2>3. Balance(t, a)
    BY <1>1, <1>2, <2>1, <2>2, Numbers DEF Balance, One
  <2>4. Custody(t, a)
    BY <1>1, <1>4 DEF Custody
  <2> QED  BY <2>3, <2>4 DEF Fair
<1>5. (\A b \in Approval : Keeps(b)) \/ (WritesOne(t) /\ Decides(call[t].id))
  <2>1. CASE Approve(t) \/ Reject(t)
    BY <2>1, DecisionWrites DEF Approve, Reject, Status, Active
  <2>2. CASE Expire(t)
    <3>1. /\ UNCHANGED <<verdict, overruled, takenBack>> /\ "expired" \in Status
          /\ (Save(t, "expired") \/ UNCHANGED store)
      BY <2>2 DEF Expire, history, Status
    <3>2. CASE UNCHANGED store
      BY <3>1, <3>2 DEF Keeps
    <3>3. CASE Save(t, "expired")
      BY <1>1, <3>1, <3>3, SaveEffect
    <3> QED  BY <3>1, <3>2, <3>3
  <2> QED  BY <2>1, <2>2
<1> QED  BY <1>3, <1>4, <1>5 DEF WritesOne

(* reserve(): the request's worth goes to the thread that reserved it.     *)
LEMMA FairReserve ==
    ASSUME CoreInv, NEW t \in Thread, NEW a \in Approval, Reserve(t)
    PROVE  Fair(t, a)
<1> USE DEF CoreInv
<1> DEFINE b == call[t].id
<1>1. /\ pc[t] = "reserve" /\ UNCHANGED <<runs, verdict, overruled, takenBack, abandoned>>
      /\ pc[t] \in Reading /\ call[t].op = "execute" /\ t \in Executor
  BY DEF Reserve, history, Reading, CallInv, CallOk
<1>2. ~Unused(t, a) /\ ~Good(t, a)
  BY <1>1 DEF Unused, Good, Holds
<1>3. CASE Leave(t) /\ (UNCHANGED store \/ Save(t, "expired"))
  <2>1. ~Unused(t, a)'
    BY <1>3, Arrives DEF Unused
  <2>2. store'[a] = store[a] \/ store'[a].status = "expired"
    <3>1. CASE UNCHANGED store
      BY <3>1
    <3>2. CASE Save(t, "expired")
      <4>1. "expired" \in Status
        BY DEF Status
      <4>2. WritesOne(t) /\ store'[b].status = "expired"
        BY <1>1, <3>2, <4>1, SaveEffect
      <4> QED  BY <4>2 DEF WritesOne, Keeps
    <3> QED  BY <1>3, <3>1, <3>2
  <2>3. Avail(a)' <= Avail(a) /\ Avail(a)' \in {0, 1}
    BY <2>2 DEF Avail
  <2>4. Balance(t, a)
    BY <1>1, <1>2, <2>1, <2>3, Numbers DEF Balance, One
  <2>5. Custody(t, a)
    BY <1>1, <1>2, <2>2 DEF Custody
  <2> QED  BY <2>4, <2>5 DEF Fair
<1>4. CASE /\ Save(t, "reserved") /\ Goto(t, "prepare")
           /\ store[b].status = "approved" /\ call[t].read.status # "expired"
  <2>1. call[t].read.status # "pending" /\ "reserved" \in Status
    BY <1>1, Writes DEF CallInv, CallOk, Status
  <2>2. WritesOne(t) /\ store'[b].status = "reserved"
    BY <1>1, <1>4, <2>1, SaveEffect
  <2>3. pc'[t] = "prepare" /\ call'[t].op = "execute" /\ call'[t].id = b
    BY <1>1, <1>4, Arrives
  <2>4. CASE a = b
    <3>1. Unused(t, a)' /\ Avail(a)' = 0 /\ Avail(a) = 1
      BY <1>4, <2>2, <2>3, <2>4 DEF Unused, Avail
    <3>2. Balance(t, a)
      BY <1>1, <1>2, <3>1, Numbers DEF Balance, One
    <3>3. Good(t, a)'
      BY <2>3, <2>4 DEF Good, Holds
    <3> QED  BY <1>1, <1>4, <2>4, <3>2, <3>3 DEF Fair, Custody
  <2>5. CASE a # b
    <3>1. Keeps(a) /\ ~Unused(t, a)'
      BY <2>2, <2>3, <2>5 DEF WritesOne, Unused
    <3> QED  BY <1>1, <1>2, <3>1, FairElsewhere DEF Keeps
  <2> QED  BY <2>4, <2>5
<1>5. \/ Leave(t) /\ (UNCHANGED store \/ Save(t, "expired"))
      \/ /\ Save(t, "reserved") /\ Goto(t, "prepare")
         /\ store[b].status = "approved" /\ call[t].read.status # "expired"
  BY DEF Reserve, Swap, Mine
<1> QED  BY <1>3, <1>4, <1>5

(* From the reservation to the end of the run: raising leaves a trace, and *)
(* the run uses what the reservation was worth.                            *)
LEMMA FairRun ==
    ASSUME CoreInv, NEW t \in Thread, NEW a \in Approval, Prepare(t) \/ Run(t)
    PROVE  Fair(t, a)
<1> USE DEF CoreInv
<1>1. /\ UNCHANGED <<store, verdict, overruled, takenBack>> /\ pc[t] \in {"prepare", "run"}
      /\ pc[t] # "idle" /\ pc[t] # "consume"
      /\ call[t].op = "execute"
  BY DEF Prepare, Run, CallInv, CallOk
<1>2. Avail(a)' = Avail(a)
  BY <1>1 DEF Avail
<1>3. CASE call[t].id # a
  <2>1. runs'[a] = runs[a] /\ abandoned'[a] = abandoned[a]
    BY <1>3 DEF Prepare, Run, TypeInv, TypeOK
  <2>2. \E s \in {"run", "settle", "giveback"} : Leave(t) \/ Goto(t, s)
    BY DEF Prepare, Run
  <2>3. ~Unused(t, a)'
    BY <1>1, <1>3, <2>2, Arrives DEF Unused
  <2>4. ~Unused(t, a) /\ ~Good(t, a)
    BY <1>3 DEF Unused, Good, Holds
  <2> QED  BY <1>1, <2>1, <2>3, <2>4, FairElsewhere
<1>4. CASE call[t].id = a
  <2>1. Unused(t, a) /\ Good(t, a)
    BY <1>1, <1>4 DEF Unused, Good, Holds
  <2>2. ASSUME NEW s \in {"run", "settle", "giveback"}, Goto(t, s)
        PROVE  Good(t, a)' /\ (Unused(t, a)' <=> s # "settle")
    BY <1>1, <1>4, <2>2, Arrives DEF Good, Holds, Unused
  <2>3. CASE Prepare(t)
    <3>1. runs'[a] = runs[a] /\ (abandoned[a] => abandoned'[a])
      BY <2>3 DEF Prepare
    <3>2. Goto(t, "run") \/ abandoned'[a]
      BY <1>4, <2>3 DEF Prepare
    <3>3. Balance(t, a)
      BY <1>1, <1>2, <2>1, <3>1, Numbers DEF Balance, One
    <3> QED  BY <1>1, <2>2, <3>1, <3>2, <3>3 DEF Fair, Custody
  <2>4. CASE Run(t)
    <3>1. /\ UNCHANGED abandoned
          /\ \/ Goto(t, "settle") /\ runs'[a] = runs[a] + 1
             \/ Goto(t, "giveback") /\ runs'[a] = runs[a]
      BY <1>4, <2>4, ApprovalConstants DEF Run
    <3>2. Balance(t, a)
      BY <1>1, <1>2, <2>1, <2>2, <3>1, Numbers DEF Balance, One
    <3> QED  BY <1>1, <2>2, <3>1, <3>2 DEF Fair, Custody
  <2> QED  BY <2>3, <2>4
<1> QED  BY <1>3, <1>4

(* consume(): a holder's command is the approved one, so that only a       *)
(* thread that holds nothing goes on to give the reservation back.         *)
LEMMA FairConsume ==
    ASSUME CoreInv, NEW t \in Thread, NEW a \in Approval, Consume(t)
    PROVE  Fair(t, a)
<1> USE DEF CoreInv
<1> DEFINE b == call[t].id
<1>1. /\ pc[t] = "consume" /\ UNCHANGED <<runs, verdict, overruled, takenBack, abandoned>>
      /\ pc[t] \in Reading
  BY DEF Consume, history, Reading
<1>2. ~Unused(t, a)
  BY <1>1 DEF Unused
<1>3. /\ b \in Approval /\ call[t].read \in Request /\ store[b] \in Request
      /\ {"expired", "consumed"} \subseteq Status
  BY <1>1, Writes DEF Status
<1>4. call[t].op = "execute" => Matches(t)
  BY <1>1, <1>3 DEF CallInv, CallOk, Fits, Matches
<1>5. CASE Leave(t)
  <2>1. ~Unused(t, a)'
    BY <1>5, Arrives DEF Unused
  <2>2. \/ UNCHANGED store
        \/ Save(t, "expired")
        \/ /\ Save(t, "consumed")
           /\ store[b].status = "reserved" /\ call[t].read.status = "reserved"
    BY <1>1 DEF Consume, Swap, Mine
  <2>3. store'[a] = store[a] \/ (a = b /\ store'[a].status \in {"expired", "consumed"})
    <3>1. CASE UNCHANGED store
      BY <3>1
    <3>2. CASE ~UNCHANGED store
      <4>1. WritesOne(t) /\ store'[b].status \in {"expired", "consumed"}
        BY <1>1, <1>3, <2>2, <3>2, SaveEffect
      <4> QED  BY <4>1 DEF WritesOne, Keeps
    <3> QED  BY <3>1, <3>2
  <2>4. Avail(a)' <= Avail(a) /\ Avail(a)' \in {0, 1}
    BY <2>3 DEF Avail
  <2>5. Balance(t, a)
    BY <1>1, <1>2, <2>1, <2>4, Numbers DEF Balance, One
  <2>6. ASSUME store[a].status = "reserved", Good(t, a) PROVE store'[a].status # "reserved"
    <3>1. a = b /\ call[t].read.status = "reserved" /\ call[t].op = "execute"
      BY <1>1, <2>6 DEF Good, Holds
    <3>2. Save(t, "consumed")
      BY <1>4, <2>6, <3>1, <1>1, <1>5, Arrives DEF Consume, Lapsed, Active, Swap, Mine
    <3>3. store'[b].status = "consumed"
      BY <1>1, <1>3, <2>6, <3>1, <3>2, SaveEffect
    <3> QED  BY <3>1, <3>3
  <2>7. Custody(t, a)
    BY <1>1, <2>3, <2>6 DEF Custody
  <2> QED  BY <2>5, <2>7 DEF Fair
<1>6. CASE UNCHANGED store /\ Goto(t, "giveback") /\ ~Matches(t)
  <2>1. call[t].op # "execute" /\ call'[t].op # "execute"
    BY <1>1, <1>4, <1>6, Arrives
  <2>2. ~Unused(t, a)' /\ ~Good(t, a)
    BY <2>1 DEF Unused, Good, Holds
  <2> QED  BY <1>1, <1>2, <1>6, <2>2, FairElsewhere
<1> QED  BY <1>5, <1>6 DEF Consume

(* release(): the holder hands the worth back to the request; what anybody *)
(* else gives back is counted.                                             *)
LEMMA FairRelease ==
    ASSUME CoreInv, NEW t \in Thread, NEW a \in Approval, Release(t)
    PROVE  Fair(t, a)
<1> USE DEF CoreInv
<1> DEFINE b == call[t].id
<1>1. /\ pc[t] = "release" /\ Leave(t) /\ UNCHANGED <<runs, verdict, overruled, abandoned>>
      /\ pc[t] \in Reading
      /\ takenBack'[a] = IF call[t].op # "execute" /\ a = b /\ store[b].status = "reserved"
                         THEN takenBack[a] + 1 ELSE takenBack[a]
  BY DEF Release, Reading, Mine
<1>2. ~Unused(t, a)' /\ (Unused(t, a) <=> call[t].op = "execute" /\ a = b)
  BY <1>1, Arrives DEF Unused
<1>3. b \in Approval /\ store[b] \in Request /\ "approved" \in Status
  BY <1>1, Writes DEF Status, Active
<1>4. CASE a # b \/ store[b].status # "reserved"
  <2>1. store'[a] = store[a]
    <3>1. CASE store[b].status # "reserved"
      BY <3>1 DEF Release, Swap, Mine
    <3>2. CASE a # b
      <4>1. UNCHANGED store \/ Save(t, "approved")
        BY DEF Release, Swap
      <4>2. Save(t, "approved") => store' = [store EXCEPT ![b] = Written(t, "approved")]
        BY <1>1, <1>3, Writes
      <4> QED  BY <3>2, <4>1, <4>2 DEF TypeInv, TypeOK
    <3> QED  BY <1>4, <3>1, <3>2
  <2>2. Avail(a)' = Avail(a) /\ takenBack'[a] = takenBack[a]
    BY <1>1, <1>4, <2>1 DEF Avail
  <2>3. Balance(t, a)
    BY <1>1, <1>2, <2>2, Numbers DEF Balance, One
  <2>4. store[a].status = "reserved" => ~Good(t, a)
    BY <1>4 DEF Good, Holds
  <2> QED  BY <1>1, <2>1, <2>3, <2>4 DEF Fair, Custody
<1>5. CASE a = b /\ store[b].status = "reserved"
  <2>1. Save(t, "approved")
    BY <1>5 DEF Release, Swap, Mine
  <2>2. store'[b].status = "approved"
    <3>1. store' = [store EXCEPT ![b] = Written(t, "approved")] /\ Written(t, "approved").status = "approved"
      BY <1>1, <1>3, <2>1, Writes
    <3> QED  BY <1>3, <3>1 DEF TypeInv, TypeOK
  <2>3. Avail(a)' = 1 /\ Avail(a) = 0
    BY <1>5, <2>2 DEF Avail
  <2>4. Balance(t, a)
    BY <1>1, <1>2, <1>5, <2>3, Numbers DEF Balance, One
  <2> QED  BY <1>1, <1>5, <2>2, <2>4 DEF Fair, Custody
<1> QED  BY <1>4, <1>5

(* Every step of a thread is fair to every approval.                       *)
LEMMA FairStep ==
    ASSUME CoreInv, NEW t \in Thread, Threads(t), NEW a \in Approval PROVE Fair(t, a)
<1>1. \/ t \in Decider /\ BeginDecision(t)
      \/ t \in Executor /\ Execute(t)
      \/ t \in Client /\ CallDirectly(t)
      \/ Fetch(t) \/ Settle(t) \/ GiveBack(t)
      \/ Approve(t) \/ Reject(t) \/ Expire(t)
      \/ Reserve(t) \/ Prepare(t) \/ Run(t) \/ Consume(t) \/ Release(t)
  BY DEF Threads
<1> QED
  BY <1>1, FairCalls, FairDecisions, FairReserve, FairRun, FairConsume, FairRelease

(* The sum and the holders over a step of one thread.                      *)
LEMMA UseStep ==
    ASSUME CoreInv, CoreInv', NEW t \in Thread, Threads(t), NEW a \in Approval,
           UseInv(a), HolderInv(a)
    PROVE  UseInv(a)' /\ HolderInv(a)'
<1> USE DEF CoreInv
<1>1. Balance(t, a) /\ Custody(t, a)
  BY FairStep DEF Fair
<1>2. \A u \in Thread \ {t} : pc'[u] = pc[u] /\ call'[u] = call[u]
  BY NextCallOk DEF TypeInv, TypeOK
<1>3. \A u \in Thread \ {t} : (Unused(u, a)' <=> Unused(u, a)) /\ (Good(u, a) => Good(u, a)')
  BY <1>2 DEF Unused, Good, Holds
<1>4. HolderInv(a)'
  <2> SUFFICES ASSUME store'[a].status = "reserved"
               PROVE  abandoned'[a] \/ \E u \in Executor : Good(u, a)'
    BY DEF HolderInv
  <2>1. CASE store[a].status # "reserved"
    BY <1>1, <2>1 DEF Custody
  <2>2. CASE store[a].status = "reserved" /\ abandoned[a]
    BY <1>1, <2>2 DEF Custody
  <2>3. ASSUME store[a].status = "reserved", NEW u \in Executor, Good(u, a)
        PROVE  abandoned'[a] \/ Good(u, a)'
    <3>1. u \in Thread
      BY DEF Thread
    <3> QED  BY <1>1, <1>3, <2>3, <3>1 DEF Custody
  <2> QED  BY <2>1, <2>2, <2>3 DEF HolderInv
<1>5. UseInv(a)'
  <2>1. IsFiniteSet(Users(a)) /\ Cardinality(Users(a)) \in Nat
    BY FS_CardinalityType DEF UseInv
  <2>2. /\ IsFiniteSet(Users(a)')
        /\ Cardinality(Users(a)') + One(Unused(t, a))
             = Cardinality(Users(a)) + One(Unused(t, a)')
        /\ Cardinality(Users(a)') \in Nat
    <3>1. CASE Unused(t, a)' <=> Unused(t, a)
      <4>1. Users(a)' = Users(a)
        BY <1>3, <3>1 DEF Users
      <4>2. One(Unused(t, a)') = One(Unused(t, a)) /\ One(Unused(t, a)) \in {0, 1}
        BY <3>1 DEF One
      <4> QED  BY <2>1, <4>1, <4>2
    <3>2. CASE Unused(t, a)' /\ ~Unused(t, a)
      <4>1. Users(a)' = Users(a) \cup {t} /\ t \notin Users(a)
        BY <1>3, <3>2 DEF Users
      <4>2. One(Unused(t, a)') = 1 /\ One(Unused(t, a)) = 0
        BY <3>2 DEF One
      <4>3. /\ IsFiniteSet(Users(a) \cup {t})
            /\ Cardinality(Users(a) \cup {t}) = Cardinality(Users(a)) + 1
        BY <2>1, <4>1, FS_AddElement
      <4> QED  BY <2>1, <4>1, <4>2, <4>3
    <3>3. CASE ~Unused(t, a)' /\ Unused(t, a)
      <4>1. Users(a)' = Users(a) \ {t} /\ t \in Users(a)
        BY <1>3, <3>3 DEF Users
      <4>2. One(Unused(t, a)') = 0 /\ One(Unused(t, a)) = 1
        BY <3>3 DEF One
      <4>3. /\ IsFiniteSet(Users(a) \ {t})
            /\ Cardinality(Users(a) \ {t}) = Cardinality(Users(a)) - 1
        BY <2>1, <4>1, FS_RemoveElement
      <4>4. Cardinality(Users(a) \ {t}) \in Nat
        BY <4>3, FS_CardinalityType
      <4> QED  BY <2>1, <4>1, <4>2, <4>3, <4>4
    <3> QED  BY <3>1, <3>2, <3>3
  <2>3. /\ runs[a] \in Nat /\ takenBack[a] \in Nat /\ overruled[a] \in Nat
        /\ Avail(a) \in {0, 1}
    BY Numbers
  <2>4. /\ runs'[a] \in Nat /\ takenBack'[a] \in Nat /\ overruled'[a] \in Nat
        /\ Avail(a)' \in {0, 1}
    BY DEF TypeInv, TypeOK, Avail
  <2>5. One(Unused(t, a)) \in {0, 1} /\ One(Unused(t, a)') \in {0, 1}
    BY DEF One
  <2>6. runs[a] + Cardinality(Users(a)) + Avail(a) <= 1 + takenBack[a] + overruled[a]
    BY DEF UseInv
  <2>7. runs'[a] + One(Unused(t, a)') + Avail(a)' + takenBack[a] + overruled[a]
          <= runs[a] + One(Unused(t, a)) + Avail(a) + takenBack'[a] + overruled'[a]
    BY <1>1 DEF Balance
  <2>8. runs'[a] + Cardinality(Users(a)') + Avail(a)' <= 1 + takenBack'[a] + overruled'[a]
    BY <2>1, <2>2, <2>3, <2>4, <2>5, <2>6, <2>7
  <2> QED  BY <2>2, <2>8 DEF UseInv
<1> QED  BY <1>4, <1>5

(* Every step keeps the sum and the holders.                               *)
UsageInv == CoreInv /\ \A a \in Approval : UseInv(a) /\ HolderInv(a)
LEMMA UsageStep == ASSUME UsageInv, [Next]_vars PROVE UsageInv'
<1>1. CoreInv'
  BY CoreStep DEF UsageInv
<1> SUFFICES ASSUME NEW a \in Approval PROVE UseInv(a)' /\ HolderInv(a)'
  BY <1>1 DEF UsageInv
<1>2. UseInv(a) /\ HolderInv(a)
  BY DEF UsageInv
<1>3. ASSUME UNCHANGED <<pc, call, runs, takenBack, overruled, abandoned>>,
             \/ store'[a] = store[a]
             \/ store[a].status = "absent" /\ store'[a].status = "pending"
      PROVE  UseInv(a)' /\ HolderInv(a)'
  <2>1. Avail(a)' = Avail(a) /\ Users(a)' = Users(a)
    BY <1>3 DEF Avail, Users, Unused
  <2>2. UseInv(a)'
    BY <1>2, <1>3, <2>1 DEF UseInv
  <2>3. HolderInv(a)'
    BY <1>2, <1>3 DEF HolderInv, Good, Holds
  <2> QED  BY <2>2, <2>3
<1>4. ASSUME NEW b \in Approval, NEW c \in Command, Coordinate(b, c)
      PROVE  UseInv(a)' /\ HolderInv(a)'
  <2>1. UNCHANGED <<pc, call, runs, takenBack, overruled, abandoned>>
    BY <1>4 DEF Coordinate, history
  <2>2. /\ store[b] = Absent /\ store' = [store EXCEPT ![b] = NewRequest(c)]
    BY <1>4 DEF Coordinate, Create
  <2>3. IF a = b THEN store[a].status = "absent" /\ store'[a].status = "pending"
        ELSE store'[a] = store[a]
    BY <2>2 DEF UsageInv, CoreInv, TypeInv, TypeOK, Absent, NewRequest
  <2> QED  BY <1>3, <2>1, <2>3
<1>5. ASSUME NEW b \in Approval, TimePasses(b) PROVE UseInv(a)' /\ HolderInv(a)'
  BY <1>3, <1>5 DEF TimePasses, history
<1>6. ASSUME NEW t \in Thread, Threads(t) PROVE UseInv(a)' /\ HolderInv(a)'
  BY <1>1, <1>2, <1>6, UseStep DEF UsageInv
<1>7. CASE UNCHANGED vars
  BY <1>3, <1>7 DEF vars
<1> QED  BY <1>4, <1>5, <1>6, <1>7, Steps_

(* At the start every approval is worth one run.                           *)
LEMMA UsageInit == Init => UsageInv
<1> SUFFICES ASSUME Init, NEW a \in Approval PROVE UseInv(a) /\ HolderInv(a)
  BY CoreInit DEF UsageInv
<1>1. store[a].status = "absent" /\ runs[a] = 0 /\ takenBack[a] = 0 /\ overruled[a] = 0
  BY DEF Init, Absent
<1>2. Users(a) = {}
  BY DEF Init, Users, Unused
<1>3. UseInv(a)
  BY <1>1, <1>2, FS_EmptySet DEF UseInv, Avail
<1> QED  BY <1>1, <1>3 DEF HolderInv

(* The runs under an approval: one, and one more for each reservation given *)
(* back by a thread that held none and for each decision that came late.   *)
THEOREM RunsPaidFor == Spec => []RunsAccounted
<1>1. ASSUME UsageInv PROVE RunsAccounted
  <2> SUFFICES ASSUME NEW a \in Approval PROVE runs[a] <= 1 + takenBack[a] + overruled[a]
    BY DEF RunsAccounted
  <2>1. UseInv(a) /\ runs[a] \in Nat /\ takenBack[a] \in Nat /\ overruled[a] \in Nat
        /\ Avail(a) \in {0, 1}
    BY <1>1, Numbers DEF UsageInv, CoreInv
  <2>2. Cardinality(Users(a)) \in Nat
    BY <2>1, FS_CardinalityType DEF UseInv
  <2> QED  BY <2>1, <2>2 DEF UseInv
<1> QED  BY <1>1, UsageInit, UsageStep, PTL DEF Spec

(* A reservation without a thread that will settle it is one whose holder  *)
(* raised between reserve() and the start of the command.                  *)
THEOREM ReservationsHeld == Spec => []ReservedHasHolder
<1>1. UsageInv => ReservedHasHolder
  BY DEF UsageInv, HolderInv, ReservedHasHolder, Good
<1> QED  BY <1>1, UsageInit, UsageStep, PTL DEF Spec

(* An approval that has started the commands it was worth is of no further *)
(* use: it is neither approved nor to be decided, and no thread stands     *)
(* between its reservation and the start of a command under it, so what    *)
(* the executors do next, however they interleave, starts none.            *)
UsedUp(a) == runs[a] = 1 + takenBack[a] + overruled[a]
NothingLeft ==
    \A a \in Approval : UsedUp(a) =>
        /\ store[a].status \in {"reserved", "rejected", "consumed", "expired"}
        /\ \A t \in Thread : call[t].op = "execute" /\ call[t].id = a =>
                                pc[t] \notin {"prepare", "run", "giveback", "release"}

(* The sum of RunsPaidFor leaves nothing for availability and holders.     *)
THEOREM UsedUpIsSpent == Spec => []NothingLeft
<1>1. ASSUME UsageInv PROVE NothingLeft
  <2> SUFFICES ASSUME NEW a \in Approval, UsedUp(a)
               PROVE  /\ store[a].status \in {"reserved", "rejected", "consumed", "expired"}
                      /\ Users(a) = {}
    BY DEF NothingLeft, Users, Unused
  <2>1. /\ UseInv(a) /\ runs[a] \in Nat /\ takenBack[a] \in Nat /\ overruled[a] \in Nat
        /\ Avail(a) \in {0, 1}
    BY <1>1, Numbers DEF UsageInv, CoreInv
  <2>2. Cardinality(Users(a)) \in Nat
    BY <2>1, FS_CardinalityType DEF UseInv
  <2>3. Avail(a) = 0 /\ Cardinality(Users(a)) = 0
    BY <2>1, <2>2 DEF UseInv, UsedUp
  <2>4. Users(a) = {}
    BY <2>1, <2>3, FS_EmptySet DEF UseInv
  <2>5. store[a] \in Request \cup {Absent}
    BY <1>1 DEF UsageInv, CoreInv, TypeInv, TypeOK
  <2>6. store[a].status \in Status \cup {"absent"}
    BY <2>5 DEF Request, Absent
  <2> QED  BY <2>3, <2>4, <2>6 DEF Avail, Status, Active
<1> QED  BY <1>1, UsageInit, UsageStep, PTL DEF Spec

(* Two executors that present one approval at the same time do not both    *)
(* get to the start of its command, but for what RunsAccounted counts.     *)
OneUser ==
    \A a \in Approval : takenBack[a] = 0 /\ overruled[a] = 0 =>
        \A t, u \in Thread : Unused(t, a) /\ Unused(u, a) => t = u

(* The same sum allows one holder.                                         *)
THEOREM OneAtTheStart == Spec => []OneUser
<1>1. ASSUME UsageInv PROVE OneUser
  <2> SUFFICES ASSUME NEW a \in Approval, takenBack[a] = 0, overruled[a] = 0,
                      NEW t \in Users(a), NEW u \in Users(a)
               PROVE  t = u
    BY DEF OneUser, Users
  <2>1. /\ UseInv(a) /\ runs[a] \in Nat /\ Avail(a) \in {0, 1}
    BY <1>1, Numbers DEF UsageInv, CoreInv
  <2>2. Cardinality(Users(a)) \in Nat /\ IsFiniteSet(Users(a))
    BY <2>1, FS_CardinalityType DEF UseInv
  <2>3. Cardinality(Users(a)) <= 1
    BY <2>1, <2>2 DEF UseInv
  <2>4. CASE Cardinality(Users(a)) = 0
    <3>1. Users(a) = {}
      BY <2>2, <2>4, FS_EmptySet
    <3> QED  BY <3>1
  <2>5. CASE Cardinality(Users(a)) = 1
    <3>1. PICK x : Users(a) = {x}
      BY <2>2, <2>5, FS_Singleton
    <3> QED  BY <3>1
  <2> QED  BY <2>2, <2>3, <2>4, <2>5
<1> QED  BY <1>1, UsageInit, UsageStep, PTL DEF Spec
=============================================================================
