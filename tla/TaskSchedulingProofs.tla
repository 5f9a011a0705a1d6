------------------------ MODULE TaskSchedulingProofs ------------------------
(* What the two schedulers guarantee for any workers, tasks, graphs and    *)
(* numbers of calls and exceptions.                                        *)
EXTENDS TaskScheduling, WellFoundedInduction, FiniteSetTheorems, SequenceTheorems, TLAPS

-----------------------------------------------------------------------------
(* Choosing by the least number. *)

(* A set of natural numbers has a least one.                               *)
LEMMA LeastNumber ==
    ASSUME NEW W, W \subseteq Nat, W # {}
    PROVE  \E w \in W : \A v \in W : w <= v
<1> DEFINE Less == {pair \in Nat \X Nat : pair[1] < pair[2]}
<1>1. IsWellFoundedOn(Less, Nat)
  BY NatLessThanWellFounded, Zenon DEF OpToRel
<1>2. PICK w \in W : \A v \in W : <<v, w>> \notin Less
  <2> HIDE DEF Less
  <2> QED  BY <1>1, WFMin
<1>3. \A v \in W : ~(v < w)
  BY <1>2
<1> QED  BY <1>3

(* The manager returns one of the workers it may choose from.              *)
LEMMA LowestIsOne ==
    ASSUME NEW W, W \subseteq Nat, W # {}
    PROVE  LowestId(W) \in W
BY LeastNumber DEF LowestId

(* The queue's first task is a task of the queue.                          *)
LEMMA FirstIsQueued ==
    ASSUME NEW Q, Q \subseteq Task, Q # {}
    PROVE  First(Q) \in Q
<1> DEFINE P == {Priority[t] : t \in Q}
<1>1. Priority \in [Task -> Nat] /\ Q \subseteq Nat
  BY SchedulingConstants
<1>2. P \subseteq Nat /\ P # {}
  BY <1>1
<1>3. PICK p \in P : \A q \in P : p <= q
  <2> HIDE DEF P
  <2> QED  BY <1>2, LeastNumber
<1> DEFINE M == {t \in Q : Priority[t] = p}
<1>4. M \subseteq Nat /\ M # {}
  BY <1>1, <1>3
<1>5. PICK t \in M : \A u \in M : t <= u
  <2> HIDE DEF M
  <2> QED  BY <1>4, LeastNumber
<1>6. ASSUME NEW u \in Q \ {t} PROVE Before(t, u)
  <2>1. Priority[t] = p /\ p <= Priority[u] /\ p \in Nat /\ Priority[u] \in Nat /\ t \in Nat
    BY <1>1, <1>2, <1>3
  <2>2. Priority[u] = p => t <= u /\ u \in Nat
    BY <1>1, <1>5
  <2> QED  BY <2>1, <2>2 DEF Before
<1>7. \E v \in Q : \A u \in Q \ {v} : Before(v, u)
  BY <1>6
<1> QED  BY <1>7 DEF First

(* What the manager chooses is free, if anything is.                       *)
LEMMA BestIsFree ==
    ASSUME registered \subseteq Worker, NEW able, NEW prefers, Free(able) # {}
    PROVE  BestWorker(able, prefers) \in Free(able)
<1>1. Free(able) \subseteq Nat
  BY SchedulingConstants DEF Free
<1>2. CASE Free(able) \cap prefers # {}
  <2>1. LowestId(Free(able) \cap prefers) \in Free(able) \cap prefers
    BY <1>1, <1>2, LowestIsOne
  <2> QED  BY <1>2, <2>1 DEF BestWorker
<1>3. CASE Free(able) \cap prefers = {}
  BY <1>1, <1>3, LowestIsOne DEF BestWorker
<1> QED  BY <1>2, <1>3

(* A worker's result.  Only one that raises leaves the worker executing.   *)
LEMMA ExecutionShape ==
    ASSUME NEW f \in Nat, NEW x \in Executions(f)
    PROVE  /\ x.failures \in Nat /\ x.state \in {"idle", "executing"}
           /\ x.success \in BOOLEAN /\ x.escapes \in BOOLEAN /\ x.worked \in BOOLEAN
           /\ x.success => x.worked
           /\ ~x.escapes => x.state = "idle"
<1> DEFINE Raising == [worked |-> FALSE, success |-> FALSE, escapes |-> TRUE,
                       state |-> "executing", failures |-> f, raises |-> 1]
<1>1. CASE x = Raising
  BY <1>1
<1>2. CASE x # Raising
  <2>1. PICK s \in BOOLEAN, c \in BOOLEAN, r \in BOOLEAN :
           x = [worked |-> s, success |-> s /\ ~c, escapes |-> r, state |-> "idle",
                failures |-> Counted(f, s, c),
                raises |-> (IF c THEN 1 ELSE 0) + (IF r THEN 1 ELSE 0)]
    BY <1>2 DEF Executions
  <2>2. /\ x.worked = s /\ x.success = (s /\ ~c) /\ x.escapes = r /\ x.state = "idle"
        /\ x.failures = Counted(f, s, c)
    BY <2>1
  <2>3. Counted(f, s, c) \in Nat
    BY DEF Counted
  <2> QED  BY <2>2, <2>3
<1> QED  BY <1>1, <1>2

(* A sequence that is not empty begins with its head, and goes on with its *)
(* tail.                                                                   *)
LEMMA TailShape ==
    ASSUME NEW S, NEW s \in Seq(S), s # << >>
    PROVE  /\ Head(s) \in S /\ Head(s) = s[1] /\ Len(s) \in Nat \ {0}
           /\ Tail(s) \in Seq(S) /\ Len(Tail(s)) = Len(s) - 1
           /\ Tail(s) = << >> <=> Len(s) = 1
           /\ \A i \in 1..(Len(s) - 1) : Tail(s)[i] = s[i + 1]
<1>1. Len(s) \in Nat \ {0}
  BY EmptySeq
<1>2. /\ Head(s) \in S /\ Head(s) = s[1]
      /\ Tail(s) \in Seq(S) /\ Len(Tail(s)) = Len(s) - 1
      /\ \A i \in 1..(Len(s) - 1) : Tail(s)[i] = s[i + 1]
  BY <1>1
<1>3. Tail(s) = << >> <=> Len(Tail(s)) = 0
  BY <1>2, EmptySeq
<1> QED  BY <1>1, <1>2, <1>3

-----------------------------------------------------------------------------
(* Types. *)

Scheduling == {"collect", "dispatch", "execute"}
Batching == {"dispatch", "execute"}
Assignment == [task : Task, worker : Worker]

TypeInv ==
    /\ registered \subseteq Worker
    /\ state \in [Worker -> {"idle", "assigned", "executing"}]
    /\ failures \in [Worker -> Nat]
    /\ queue \subseteq Task /\ completed \subseteq Task
    /\ pc \in {"idle", "nodes", "node"} \cup Scheduling
    /\ pc # "idle" => call.graph \in Graph
    /\ pc \in Batching => batch \in Seq(Assignment)
    /\ pc = "node" => batch \in Seq(Task)
    /\ pc \in {"execute", "node"} => batch # << >>
    /\ pc \in {"idle", "collect", "nodes"} => batch = << >>
    /\ worked \in [Task -> Nat] /\ unseen \in [Task -> Nat]

(* Before the first call everything is well typed.                         *)
LEMMA TypeInit == Init => TypeInv
BY DEF Init, TypeInv, Scheduling, Batching

(* What a worker's execution leaves is well typed.                         *)
LEMMA ApplyType ==
    ASSUME TypeInv, NEW w \in Worker, NEW x \in Executions(failures[w]), Apply(w, x)
    PROVE  /\ state' \in [Worker -> {"idle", "assigned", "executing"}]
           /\ failures' \in [Worker -> Nat] /\ registered' = registered
<1>1. failures[w] \in Nat
  BY DEF TypeInv
<1>2. x.failures \in Nat /\ x.state \in {"idle", "executing"}
  BY <1>1, ExecutionShape
<1> QED  BY <1>2 DEF TypeInv, Apply

(* The tasks that are ready are tasks of the graph.                        *)
LEMMA ReadyShape ==
    ASSUME NEW g \in Graph, call.graph = g, NEW done
    PROVE  Ready(done) \subseteq Task /\ IsFiniteSet(Ready(done))
<1>1. g.tasks \subseteq Task /\ IsFiniteSet(g.tasks)
  BY SchedulingConstants
<1> QED  BY <1>1, FS_Subset DEF Ready

(* A batch of nodes is a sequence.                                         *)
LEMMA BatchShape ==
    ASSUME TypeInv, CollectNodes, pc' = "node"
    PROVE  /\ batch' \in Seq(Ready(Ended)) /\ batch' # << >>
           /\ Ready(Ended) \subseteq Task
<1> DEFINE R == Ready(Ended)
<1>1. call.graph \in Graph /\ R \subseteq Task /\ IsFiniteSet(R)
  BY ReadyShape DEF TypeInv, CollectNodes
<1>2. R # {} /\ batch' \in [1..Cardinality(R) -> R]
  BY DEF CollectNodes, Return
<1>3. Cardinality(R) \in Nat \ {0}
  BY <1>1, <1>2, FS_CardinalityType, FS_EmptySet
<1> HIDE DEF R
<1>4. batch' \in Seq(R) /\ Len(batch') = Cardinality(R)
  BY <1>2, <1>3
<1> QED  BY <1>1, <1>3, <1>4 DEF R

(* Every step keeps the types.                                             *)
LEMMA TypeStep == TypeInv /\ [Next]_vars => TypeInv'
<1> SUFFICES ASSUME TypeInv, [Next]_vars PROVE TypeInv'
  OBVIOUS
<1>1. ASSUME NEW g \in Graph, ExecuteGraph(g) PROVE TypeInv'
  BY <1>1 DEF ExecuteGraph, TypeInv, workers, scheduler, Scheduling, Batching
<1>2. ASSUME NEW g \in Graph, NEW policy \in {"continue", "fail_fast"}, ExecuteNodes(g, policy)
      PROVE  TypeInv'
  BY <1>2 DEF ExecuteNodes, TypeInv, workers, scheduler, history, Scheduling, Batching
<1>3. CASE Collect
  <2>1. call.graph \in Graph /\ Ready(completed) \subseteq Task
    BY <1>3, ReadyShape DEF TypeInv, Collect
  <2>2. /\ queue' \subseteq Task /\ UNCHANGED <<workers, completed, worked, unseen>>
        /\ pc = "collect" /\ batch = << >>
    BY <1>3, <2>1 DEF Collect, TypeInv
  <2>3. \/ pc' = "idle" /\ batch' = << >>
        \/ pc' = "dispatch" /\ batch' = batch /\ call' = call
    BY <1>3 DEF Collect, Return, Goto
  <2>4. << >> \in Seq(Assignment)
    OBVIOUS
  <2> QED  BY <2>1, <2>2, <2>3, <2>4 DEF TypeInv, workers, Scheduling, Batching
<1>4. CASE Dispatch
  <2> DEFINE t == First(queue)
             w == BestWorker(Able[t], Prefers[t])
  <2>1. t \in queue /\ t \in Task
    BY <1>4, FirstIsQueued DEF Dispatch, TypeInv
  <2>2. w \in Free(Able[t]) /\ w \in Worker
    BY <1>4, BestIsFree DEF Dispatch, TypeInv, Free
  <2>3. /\ state' = [state EXCEPT ![w] = "assigned"] /\ queue' = queue \ {t}
        /\ batch' = Append(batch, [task |-> t, worker |-> w])
        /\ pc = "dispatch" /\ pc' = "dispatch"
        /\ UNCHANGED <<registered, failures, completed, call, worked, unseen>>
    BY <1>4 DEF Dispatch, Goto, history
  <2> HIDE DEF t, w
  <2>4. batch' \in Seq(Assignment) /\ batch' # << >>
    <3>1. batch \in Seq(Assignment) /\ [task |-> t, worker |-> w] \in Assignment
      BY <2>1, <2>2, <2>3 DEF TypeInv, Assignment, Batching
    <3> QED  BY <2>3, <3>1
  <2> QED  BY <2>2, <2>3, <2>4 DEF TypeInv, Scheduling, Batching
<1>5. CASE CloseBatch
  BY <1>5 DEF CloseBatch, Return, Goto, TypeInv, workers, scheduler, Scheduling, Batching
<1>6. CASE Execute
  <2> DEFINE t == Head(batch).task
             w == Head(batch).worker
  <2>1. /\ pc = "execute" /\ batch \in Seq(Assignment) /\ batch # << >>
        /\ t \in Task /\ w \in Worker
    <3>1. pc = "execute" /\ batch \in Seq(Assignment) /\ batch # << >>
      BY <1>6 DEF Execute, TypeInv, Batching
    <3>2. Head(batch) \in Assignment
      BY <3>1, TailShape
    <3> QED  BY <3>1, <3>2 DEF Assignment
  <2>2. UNCHANGED <<queue, stale>>
    BY <1>6 DEF Execute
  <2>3. CASE Escape /\ UNCHANGED <<workers, completed, worked, unseen>>
    BY <2>2, <2>3 DEF Escape, TypeInv, workers, Scheduling, Batching
  <2>4. ASSUME NEW x \in Executions(failures[w]), Apply(w, x),
               worked' = [worked EXCEPT ![t] = IF x.worked THEN @ + 1 ELSE @],
               unseen' = [unseen EXCEPT ![t] =
                             IF x.worked /\ (x.escapes \/ ~x.success) THEN @ + 1 ELSE @],
               completed' = completed \cup {u \in {t} : x.success /\ ~x.escapes},
               IF x.escapes THEN Escape
               ELSE /\ batch' = Tail(batch)
                    /\ Goto(IF Len(batch) = 1 THEN "collect" ELSE "execute")
        PROVE  TypeInv'
    <3> HIDE DEF t, w
    <3>1. /\ state' \in [Worker -> {"idle", "assigned", "executing"}]
          /\ failures' \in [Worker -> Nat] /\ registered' = registered
      BY <2>1, <2>4, ApplyType
    <3>2. /\ worked' \in [Task -> Nat] /\ unseen' \in [Task -> Nat]
          /\ completed' \subseteq Task /\ queue' \subseteq Task
      BY <2>1, <2>2, <2>4 DEF TypeInv
    <3>3. CASE x.escapes
      BY <2>4, <3>1, <3>2, <3>3 DEF Escape, TypeInv, Scheduling, Batching
    <3>4. CASE ~x.escapes
      <4>1. /\ batch' = Tail(batch) /\ call' = call
            /\ pc' = IF Len(batch) = 1 THEN "collect" ELSE "execute"
        BY <2>4, <3>4 DEF Goto
      <4>2. Tail(batch) \in Seq(Assignment) /\ (Tail(batch) = << >> <=> Len(batch) = 1)
        BY <2>1, TailShape
      <4>3. call.graph \in Graph
        BY <2>1 DEF TypeInv
      <4> QED  BY <3>1, <3>2, <4>1, <4>2, <4>3 DEF TypeInv, Scheduling, Batching
    <3> QED  BY <3>3, <3>4
  <2> QED  BY <1>6, <2>3, <2>4 DEF Execute
<1>7. CASE CollectNodes
  <2>1. CASE Return
    BY <1>7, <2>1 DEF CollectNodes, Return, TypeInv, workers, scheduler, Scheduling, Batching
  <2>2. CASE ~Return
    <3>1. pc = "nodes" /\ pc' = "node" /\ call' = call
      BY <1>7, <2>2 DEF CollectNodes, Goto
    <3>2. batch' \in Seq(Task) /\ batch' # << >>
      BY <1>7, <3>1, BatchShape
    <3> QED  BY <1>7, <3>1, <3>2
             DEF CollectNodes, TypeInv, workers, scheduler, Scheduling, Batching
  <2> QED  BY <2>1, <2>2
<1>8. CASE ExecuteNode
  <2>1. /\ pc = "node" /\ batch \in Seq(Task) /\ batch # << >> /\ call.graph \in Graph
        /\ UNCHANGED <<scheduler, worked, unseen>>
    BY <1>8 DEF ExecuteNode, TypeInv
  <2>2. /\ state' \in [Worker -> {"idle", "assigned", "executing"}]
        /\ failures' \in [Worker -> Nat] /\ registered' = registered
    <3> DEFINE w == BestWorker(AbleNode, PrefersNode)
    <3>1. CASE UNCHANGED workers
      BY <3>1 DEF TypeInv, workers
    <3>2. ASSUME Free(AbleNode) # {}, NEW x \in Executions(failures[w]), Apply(w, x)
          PROVE  /\ state' \in [Worker -> {"idle", "assigned", "executing"}]
                 /\ failures' \in [Worker -> Nat] /\ registered' = registered
      <4>1. w \in Worker
        BY <3>2, BestIsFree DEF TypeInv, Free
      <4> QED  BY <3>2, <4>1, ApplyType
    <3> QED  BY <1>8, <3>1, <3>2 DEF ExecuteNode
  <2>3. \/ Escape
        \/ \E stop \in BOOLEAN :
              /\ batch' = IF stop THEN << >> ELSE Tail(batch)
              /\ Goto(IF stop \/ Len(batch) = 1 THEN "nodes" ELSE "node")
    BY <1>8 DEF ExecuteNode
  <2>4. Tail(batch) \in Seq(Task) /\ (Tail(batch) = << >> <=> Len(batch) = 1)
    BY <2>1, TailShape
  <2>5. \/ pc' = "idle" /\ batch' = << >>
        \/ pc' = "nodes" /\ batch' = << >> /\ call' = call
        \/ pc' = "node" /\ batch' \in Seq(Task) /\ batch' # << >> /\ call' = call
    <3>1. CASE Escape
      BY <3>1 DEF Escape
    <3>2. ASSUME NEW stop \in BOOLEAN,
                 batch' = (IF stop THEN << >> ELSE Tail(batch)),
                 Goto(IF stop \/ Len(batch) = 1 THEN "nodes" ELSE "node")
          PROVE  \/ pc' = "nodes" /\ batch' = << >> /\ call' = call
                 \/ pc' = "node" /\ batch' \in Seq(Task) /\ batch' # << >> /\ call' = call
      BY <2>4, <3>2 DEF Goto
    <3> QED  BY <2>3, <3>1, <3>2
  <2>6. UNCHANGED <<queue, completed, worked, unseen>>
    BY <2>1 DEF scheduler
  <2>7. /\ registered' \subseteq Worker /\ queue' \subseteq Task /\ completed' \subseteq Task
        /\ worked' \in [Task -> Nat] /\ unseen' \in [Task -> Nat]
    BY <2>2, <2>6 DEF TypeInv
  <2>8. /\ pc' \in {"idle", "nodes", "node"} \cup Scheduling
        /\ pc' # "idle" => call'.graph \in Graph
        /\ pc' \in Batching => batch' \in Seq(Assignment)
        /\ pc' = "node" => batch' \in Seq(Task)
        /\ pc' \in {"execute", "node"} => batch' # << >>
        /\ pc' \in {"idle", "collect", "nodes"} => batch' = << >>
    BY <2>1, <2>5 DEF Batching
  <2> QED  BY <2>2, <2>7, <2>8 DEF TypeInv
<1>9. ASSUME NEW w \in Worker, Register(w) \/ Unregister(w) \/ Recover(w) PROVE TypeInv'
  <2>1. UNCHANGED <<state, scheduler, nodes, running, history>>
    BY <1>9 DEF Register, Unregister, Recover
  <2>2. registered' \subseteq Worker
    BY <1>9 DEF Register, Unregister, Recover, TypeInv
  <2>3. failures' \in [Worker -> Nat]
    <3>1. CASE Register(w) \/ Unregister(w)
      BY <3>1 DEF Register, Unregister, TypeInv
    <3>2. CASE Recover(w)
      BY <3>2 DEF Recover, TypeInv
    <3> QED  BY <1>9, <3>1, <3>2
  <2> QED  BY <2>1, <2>2, <2>3 DEF TypeInv, scheduler, running, history
<1>10. CASE UNCHANGED vars
  BY <1>10 DEF vars, TypeInv, workers, scheduler, running, history
<1> QED
  BY <1>1, <1>2, <1>3, <1>4, <1>5, <1>6, <1>7, <1>8, <1>9, <1>10 DEF Next, Step

(* The scheduler's state and its calls are well typed in every behaviour.  *)
THEOREM TypeCorrect == Spec => []TypeInv
BY TypeInit, TypeStep, PTL DEF Spec

-----------------------------------------------------------------------------
(* What each step does to the batch and the queue.                         *)

(* What an execution of the scheduler's task t by worker w leaves.         *)
Done(t, x) ==
    /\ worked' = [worked EXCEPT ![t] = IF x.worked THEN @ + 1 ELSE @]
    /\ unseen' = [unseen EXCEPT ![t] =
                     IF x.worked /\ (x.escapes \/ ~x.success) THEN @ + 1 ELSE @]
    /\ completed' = completed \cup {u \in {t} : x.success /\ ~x.escapes}
    /\ IF x.escapes THEN Escape
       ELSE /\ batch' = Tail(batch)
            /\ Goto(IF Len(batch) = 1 THEN "collect" ELSE "execute")
            /\ UNCHANGED escaped

(* The scheduler executes the head of its batch, or raises instead.        *)
LEMMA ExecuteShape ==
    ASSUME TypeInv, Execute
    PROVE  /\ pc = "execute" /\ batch \in Seq(Assignment) /\ batch # << >>
           /\ Head(batch) \in Assignment
           /\ UNCHANGED <<queue, nodes, stale, calls>>
           /\ \/ Escape /\ UNCHANGED <<workers, completed, worked, unseen>>
              \/ \E x \in Executions(failures[Head(batch).worker]) :
                    Apply(Head(batch).worker, x) /\ Done(Head(batch).task, x)
<1>1. pc = "execute" /\ batch \in Seq(Assignment) /\ batch # << >>
  BY DEF Execute, TypeInv, Batching
<1>2. UNCHANGED <<queue, nodes, stale, calls>>
  BY DEF Execute
<1>3. \/ Escape /\ UNCHANGED <<workers, completed, worked, unseen>>
      \/ \E x \in Executions(failures[Head(batch).worker]) :
            Apply(Head(batch).worker, x) /\ Done(Head(batch).task, x)
  BY DEF Execute, Done
<1> QED  BY <1>1, <1>2, <1>3, TailShape

(* A queued task is assigned to a free worker.                             *)
LEMMA DispatchShape ==
    ASSUME TypeInv, Dispatch
    PROVE  \E t \in queue, w \in Worker :
              /\ state[w] = "idle" /\ state' = [state EXCEPT ![w] = "assigned"]
              /\ queue' = queue \ {t}
              /\ batch' = Append(batch, [task |-> t, worker |-> w])
              /\ pc = "dispatch" /\ pc' = "dispatch" /\ batch \in Seq(Assignment)
              /\ UNCHANGED <<completed, call, stale, worked, unseen, escaped>>
<1> DEFINE t == First(queue)
           w == BestWorker(Able[t], Prefers[t])
<1>1. t \in queue
  BY FirstIsQueued DEF Dispatch, TypeInv
<1>2. w \in Worker /\ state[w] = "idle"
  BY BestIsFree DEF Dispatch, TypeInv, Free
<1>3. /\ state' = [state EXCEPT ![w] = "assigned"] /\ queue' = queue \ {t}
      /\ batch' = Append(batch, [task |-> t, worker |-> w])
      /\ pc = "dispatch" /\ pc' = "dispatch" /\ batch \in Seq(Assignment)
      /\ UNCHANGED <<completed, call, stale, worked, unseen, escaped>>
  BY DEF Dispatch, Goto, history, TypeInv, Batching
<1> HIDE DEF t, w
<1> QED  BY <1>1, <1>2, <1>3

-----------------------------------------------------------------------------
(* Work is done once.  A task that was completed is neither queued nor in  *)
(* a batch, in which no task is twice.                                     *)

OnceInv ==
    /\ queue \cap completed = {}
    /\ pc \in Batching => \A i \in 1..Len(batch) :
          /\ batch[i].task \notin queue \cup completed
          /\ \A j \in 1..Len(batch) : batch[i].task = batch[j].task => i = j
    /\ \A t \in Task : worked[t] <= unseen[t] + (IF t \in completed THEN 1 ELSE 0)

(* At first no task has been worked on.                                    *)
LEMMA OnceInit == Init => OnceInv
BY DEF Init, OnceInv, Batching

(* A step counts each success once.                                        *)
LEMMA OnceStep == TypeInv /\ OnceInv /\ [Next]_vars => OnceInv'
<1> SUFFICES ASSUME TypeInv, OnceInv, [Next]_vars PROVE OnceInv'
  OBVIOUS
<1>1. ASSUME UNCHANGED <<queue, completed, worked, unseen>>, pc' \notin Batching
      PROVE  OnceInv'
  BY <1>1 DEF OnceInv
<1>2. ASSUME NEW g \in Graph, NEW policy \in {"continue", "fail_fast"},
             ExecuteGraph(g) \/ ExecuteNodes(g, policy)
      PROVE  OnceInv'
  BY <1>1, <1>2 DEF ExecuteGraph, ExecuteNodes, scheduler, history, Batching
<1>3. CASE Collect
  <2>1. /\ queue' \cap completed = {} /\ UNCHANGED <<completed, worked, unseen>>
        /\ pc' \in Batching => Len(batch') = 0
    BY <1>3 DEF Collect, Ready, Return, Goto, OnceInv, TypeInv, Batching
  <2> QED  BY <2>1 DEF OnceInv
<1>4. CASE Dispatch
  <2>1. PICK t \in queue, w \in Worker :
           /\ queue' = queue \ {t}
           /\ batch' = Append(batch, [task |-> t, worker |-> w])
           /\ pc = "dispatch" /\ pc' = "dispatch" /\ batch \in Seq(Assignment)
           /\ UNCHANGED <<completed, worked, unseen>>
    BY <1>4, DispatchShape
  <2>2. \A i \in 1..Len(batch) :
           /\ batch[i].task \notin queue \cup completed
           /\ \A j \in 1..Len(batch) : batch[i].task = batch[j].task => i = j
    BY <2>1 DEF OnceInv, Batching
  <2> DEFINE n == Len(batch) + 1
  <2>3. /\ Len(batch) \in Nat /\ Len(batch') = n
        /\ batch'[n].task = t /\ \A i \in 1..Len(batch) : batch'[i] = batch[i]
    BY <2>1
  <2>4. t \in queue /\ t \notin completed
    BY <2>1 DEF OnceInv
  <2>5. ASSUME NEW i \in 1..n
        PROVE  /\ batch'[i].task \notin queue' \cup completed
               /\ \A j \in 1..n : batch'[i].task = batch'[j].task => i = j
    BY <2>1, <2>2, <2>3, <2>4
  <2> HIDE DEF n
  <2> QED  BY <2>1, <2>3, <2>5 DEF OnceInv
<1>5. CASE CloseBatch
  <2>1. UNCHANGED <<queue, completed, worked, unseen>> /\ (pc' \in Batching => batch' = batch)
    BY <1>5 DEF CloseBatch, Return, Goto, scheduler, Batching
  <2>2. pc \in Batching
    BY <1>5 DEF CloseBatch, Batching
  <2> QED  BY <2>1, <2>2 DEF OnceInv
<1>6. CASE Execute
  <2> DEFINE t == Head(batch).task
  <2>1. /\ pc = "execute" /\ batch \in Seq(Assignment) /\ batch # << >>
        /\ queue' = queue /\ t \in Task
    BY <1>6, ExecuteShape DEF Assignment
  <2>2. /\ t = batch[1].task /\ t \notin completed /\ t \notin queue
        /\ \A i \in 1..Len(batch) :
              /\ batch[i].task \notin queue \cup completed
              /\ \A j \in 1..Len(batch) : batch[i].task = batch[j].task => i = j
    BY <2>1, TailShape DEF OnceInv, Batching
  <2>3. CASE Escape /\ UNCHANGED <<workers, completed, worked, unseen>>
    BY <1>1, <2>1, <2>3 DEF Escape, Batching
  <2>4. ASSUME NEW x \in Executions(failures[Head(batch).worker]), Done(t, x)
        PROVE  OnceInv'
    <3> HIDE DEF t
    <3>1. x.success \in BOOLEAN /\ x.escapes \in BOOLEAN /\ (x.success => x.worked)
      <4>1. failures[Head(batch).worker] \in Nat
        BY <1>6, ExecuteShape DEF Assignment, TypeInv
      <4> QED  BY <4>1, ExecutionShape
    <3>2. completed' = IF x.success /\ ~x.escapes THEN completed \cup {t} ELSE completed
      BY <2>4 DEF Done
    <3>3. queue' \cap completed' = {}
      BY <2>1, <2>2, <3>2 DEF OnceInv
    <3>4. \A u \in Task : worked'[u] <= unseen'[u] + (IF u \in completed' THEN 1 ELSE 0)
      <4> SUFFICES ASSUME NEW u \in Task
                   PROVE  worked'[u] <= unseen'[u] + (IF u \in completed' THEN 1 ELSE 0)
        OBVIOUS
      <4>1. /\ worked[u] \in Nat /\ unseen[u] \in Nat
            /\ worked[u] <= unseen[u] + (IF u \in completed THEN 1 ELSE 0)
        BY DEF TypeInv, OnceInv
      <4>2. CASE u = t
        <5>1. /\ worked'[t] = IF x.worked THEN worked[t] + 1 ELSE worked[t]
              /\ unseen'[t] = IF x.worked /\ (x.escapes \/ ~x.success) THEN unseen[t] + 1
                                                                      ELSE unseen[t]
          BY <2>1, <2>4 DEF Done, TypeInv
        <5> QED  BY <2>2, <3>1, <3>2, <4>1, <4>2, <5>1
      <4>3. CASE u # t
        <5>1. worked'[u] = worked[u] /\ unseen'[u] = unseen[u]
          BY <2>4, <4>3 DEF Done, TypeInv
        <5> QED  BY <3>2, <4>1, <4>3, <5>1
      <4> QED  BY <4>2, <4>3
    <3>5. CASE x.escapes
      BY <2>4, <3>3, <3>4, <3>5 DEF Done, Escape, OnceInv, Batching
    <3>6. CASE ~x.escapes
      <4>1. batch' = Tail(batch) /\ Len(batch') = Len(batch) - 1 /\ Len(batch) \in Nat
        BY <2>1, <2>4, <3>6, TailShape DEF Done
      <4>2. \A i \in 1..(Len(batch) - 1) : batch'[i] = batch[i + 1]
        BY <2>1, <4>1, TailShape
      <4>3. ASSUME NEW i \in 1..Len(batch')
            PROVE  /\ batch'[i].task \notin queue' \cup completed'
                   /\ \A j \in 1..Len(batch') : batch'[i].task = batch'[j].task => i = j
        <5>1. /\ i + 1 \in 1..Len(batch) /\ i + 1 # 1 /\ 1 \in 1..Len(batch)
              /\ batch'[i] = batch[i + 1]
          BY <4>1, <4>2
        <5>2. batch'[i].task \notin queue \cup completed /\ batch'[i].task # t
          BY <2>2, <5>1
        <5>3. ASSUME NEW j \in 1..Len(batch'), batch'[i].task = batch'[j].task PROVE i = j
          <6>1. j + 1 \in 1..Len(batch) /\ batch'[j] = batch[j + 1]
            BY <4>1, <4>2
          <6>2. i + 1 = j + 1
            BY <2>2, <5>1, <5>3, <6>1
          <6> QED  BY <6>2
        <5> QED  BY <2>1, <3>2, <5>2, <5>3
      <4> QED  BY <3>3, <3>4, <4>3 DEF OnceInv
    <3> QED  BY <3>5, <3>6
  <2> QED  BY <1>6, <2>3, <2>4, ExecuteShape
<1>7. CASE CollectNodes \/ ExecuteNode
  <2>1. UNCHANGED <<queue, completed, worked, unseen>>
    BY <1>7 DEF CollectNodes, ExecuteNode, scheduler
  <2>2. pc' \notin Batching
    BY <1>7 DEF CollectNodes, ExecuteNode, Return, Escape, Goto, Batching
  <2> QED  BY <1>1, <2>1, <2>2
<1>8. ASSUME NEW w \in Worker, Register(w) \/ Unregister(w) \/ Recover(w) PROVE OnceInv'
  BY <1>1, <1>8 DEF Register, Unregister, Recover, scheduler, running, history, Batching
<1>9. CASE UNCHANGED vars
  BY <1>9 DEF vars, scheduler, running, history, OnceInv
<1> QED
  BY <1>2, <1>3, <1>4, <1>5, <1>6, <1>7, <1>8, <1>9 DEF Next, Step

(* However many graphs name a task, and however often they are executed,   *)
(* a worker does its work once more only when an exception hid the last    *)
(* success from the scheduler.                                             *)
THEOREM WorksOnce == Spec => []WorkedOnce
<1>1. TypeInv /\ OnceInv => WorkedOnce
  BY DEF TypeInv, OnceInv, WorkedOnce
<1> QED  BY <1>1, TypeInit, TypeStep, OnceInit, OnceStep, PTL DEF Spec

-----------------------------------------------------------------------------
(* Order.  What is queued is ready, or was queued before the call began.   *)

InTurn(t) == t \in stale \/ Parents(t) \subseteq completed

OrderInv ==
    /\ pc \in Scheduling => \A t \in queue : InTurn(t)
    /\ pc \in Batching => \A i \in 1..Len(batch) : InTurn(batch[i].task)
    /\ pc = "node" => \A i \in 1..Len(batch) : Parents(batch[i]) \subseteq Ended

(* At first nothing is queued.                                             *)
LEMMA OrderInit == Init => OrderInv
BY DEF Init, OrderInv, Scheduling, Batching

(* What is in turn stays so during the call, as completed only grows.      *)
LEMMA TurnStays ==
    ASSUME NEW t, InTurn(t), call' = call, stale' = stale, completed \subseteq completed'
    PROVE  InTurn(t)'
BY DEF InTurn, Parents

(* A step within a call of the scheduler that keeps stale and the graph,   *)
(* and queues and assigns what is in turn, keeps the order.                *)
LEMMA TurnsStay ==
    ASSUME pc' \in Scheduling, UNCHANGED <<call, stale>>, completed \subseteq completed',
           \A t \in queue' : InTurn(t),
           pc' \in Batching => \A i \in 1..Len(batch') : \A t : t = batch'[i].task => InTurn(t)
    PROVE  OrderInv'
<1>1. \A t \in queue' : InTurn(t)'
  BY TurnStays
<1>2. ASSUME pc' \in Batching, NEW i \in 1..Len(batch'), NEW t, t = batch'[i].task
      PROVE  InTurn(t)'
  BY <1>2, TurnStays
<1>3. pc' \in Batching => \A i \in 1..Len(batch') : InTurn(batch[i].task)'
  BY <1>2 DEF InTurn, Parents
<1> QED  BY <1>1, <1>3 DEF OrderInv, Scheduling

(* Every step keeps the order.                                             *)
LEMMA OrderStep == TypeInv /\ OrderInv /\ [Next]_vars => OrderInv'
<1> SUFFICES ASSUME TypeInv, OrderInv, [Next]_vars PROVE OrderInv'
  OBVIOUS
<1>1. ASSUME pc' \in {"idle", "nodes"} PROVE OrderInv'
  BY <1>1 DEF OrderInv, Scheduling, Batching
<1>2. ASSUME NEW g \in Graph, ExecuteGraph(g) PROVE OrderInv'
  <2>1. pc' = "collect" /\ stale' = queue /\ queue' = queue
    BY <1>2 DEF ExecuteGraph, scheduler
  <2> QED  BY <2>1 DEF OrderInv, InTurn, Batching
<1>3. CASE Collect
  <2>1. CASE Return
    BY <1>1, <2>1 DEF Return
  <2>2. CASE ~Return
    <3>1. /\ pc = "collect" /\ pc' = "dispatch" /\ Len(batch') = 0
          /\ queue' = queue \cup Ready(completed)
          /\ UNCHANGED <<call, stale, completed>>
      BY <1>3, <2>2 DEF Collect, Goto, TypeInv
    <3>2. \A t \in queue' : InTurn(t)
      BY <3>1 DEF OrderInv, Scheduling, InTurn, Ready
    <3> QED  BY <3>1, <3>2, TurnsStay DEF Scheduling
  <2> QED  BY <2>1, <2>2
<1>4. CASE Dispatch
  <2>1. PICK t \in queue, w \in Worker :
           /\ queue' = queue \ {t}
           /\ batch' = Append(batch, [task |-> t, worker |-> w])
           /\ pc = "dispatch" /\ pc' = "dispatch" /\ batch \in Seq(Assignment)
           /\ UNCHANGED <<completed, call, stale>>
    BY <1>4, DispatchShape
  <2>2. \A u \in queue : InTurn(u)
    BY <2>1 DEF OrderInv, Scheduling
  <2>3. \A i \in 1..Len(batch) : InTurn(batch[i].task)
    BY <2>1 DEF OrderInv, Batching
  <2>4. \A i \in 1..Len(batch') : batch'[i].task = t \/ (i \in 1..Len(batch) /\ batch'[i] = batch[i])
    BY <2>1
  <2>5. ASSUME NEW i \in 1..Len(batch'), NEW u, u = batch'[i].task PROVE InTurn(u)
    BY <2>2, <2>3, <2>4, <2>5
  <2>6. \A u \in queue' : InTurn(u)
    BY <2>1, <2>2
  <2> QED  BY <2>1, <2>5, <2>6, TurnsStay DEF Scheduling
<1>5. CASE CloseBatch
  <2>1. CASE Return
    BY <1>1, <2>1 DEF Return
  <2>2. CASE ~Return
    <3>1. pc = "dispatch" /\ pc' = "execute" /\ UNCHANGED <<call, batch, queue, completed, stale>>
      BY <1>5, <2>2 DEF CloseBatch, Goto, scheduler
    <3>2. /\ \A t \in queue : InTurn(t)
          /\ \A i \in 1..Len(batch) : InTurn(batch[i].task)
      BY <3>1 DEF OrderInv, Scheduling, Batching
    <3> QED  BY <3>1, <3>2, TurnsStay DEF Scheduling
  <2> QED  BY <2>1, <2>2
<1>6. CASE Execute
  <2>1. CASE Escape
    BY <1>1, <2>1 DEF Escape
  <2>2. ASSUME NEW x, Done(Head(batch).task, x), ~Escape PROVE OrderInv'
    <3>1. /\ batch' = Tail(batch) /\ call' = call
          /\ pc' = IF Len(batch) = 1 THEN "collect" ELSE "execute"
          /\ completed \subseteq completed'
      BY <2>2 DEF Done, Goto
    <3>2. pc = "execute" /\ batch \in Seq(Assignment) /\ batch # << >> /\ UNCHANGED <<queue, stale>>
      BY <1>6, ExecuteShape
    <3>3. /\ Len(batch') = Len(batch) - 1 /\ Len(batch) \in Nat
          /\ \A i \in 1..(Len(batch) - 1) : batch'[i] = batch[i + 1]
      BY <3>1, <3>2, TailShape
    <3>4. /\ \A t \in queue' : InTurn(t)
          /\ \A i \in 1..Len(batch) : InTurn(batch[i].task)
      BY <3>2 DEF OrderInv, Scheduling, Batching
    <3>5. ASSUME NEW i \in 1..Len(batch'), NEW t, t = batch'[i].task PROVE InTurn(t)
      <4>1. i + 1 \in 1..Len(batch) /\ batch'[i] = batch[i + 1]
        BY <3>3
      <4> QED  BY <3>4, <3>5, <4>1
    <3> QED  BY <3>1, <3>2, <3>4, <3>5, TurnsStay DEF Scheduling
  <2> QED  BY <1>6, <2>1, <2>2, ExecuteShape
<1>7. ASSUME NEW g \in Graph, NEW policy \in {"continue", "fail_fast"}, ExecuteNodes(g, policy)
      PROVE  OrderInv'
  BY <1>1, <1>7 DEF ExecuteNodes
<1>8. CASE CollectNodes
  <2>1. CASE Return
    BY <1>1, <2>1 DEF Return
  <2>2. CASE ~Return
    <3>1. pc' = "node" /\ UNCHANGED <<call, doneNodes, failedNodes>>
      BY <1>8, <2>2 DEF CollectNodes, Goto, nodes
    <3>2. batch' \in Seq(Ready(Ended))
      BY <1>8, <3>1, BatchShape
    <3>3. \A i \in 1..Len(batch') : batch'[i] \in Ready(Ended)
      BY <3>2
    <3>4. ASSUME NEW i \in 1..Len(batch'), NEW n, n = batch'[i] PROVE Parents(n)' \subseteq Ended'
      BY <3>1, <3>3, <3>4 DEF Ready, Parents, Ended
    <3> QED  BY <3>1, <3>4 DEF OrderInv, Scheduling, Batching, Parents, Ended
  <2> QED  BY <2>1, <2>2
<1>9. CASE ExecuteNode
  <2>1. CASE Escape
    BY <1>1, <2>1 DEF Escape
  <2>2. CASE ~Escape
    <3>1. PICK stop \in BOOLEAN :
             /\ batch' = IF stop THEN << >> ELSE Tail(batch)
             /\ Goto(IF stop \/ Len(batch) = 1 THEN "nodes" ELSE "node")
      BY <1>9, <2>2 DEF ExecuteNode
    <3>2. CASE stop \/ Len(batch) = 1
      BY <1>1, <3>1, <3>2 DEF Goto
    <3>3. CASE ~stop /\ Len(batch) # 1
      <4>1. pc = "node" /\ pc' = "node" /\ batch \in Seq(Task) /\ batch # << >>
            /\ batch' = Tail(batch) /\ call' = call
        BY <1>9, <3>1, <3>3 DEF ExecuteNode, Goto, TypeInv
      <4>2. /\ Len(batch') = Len(batch) - 1 /\ Len(batch) \in Nat
            /\ \A i \in 1..(Len(batch) - 1) : batch'[i] = batch[i + 1]
        BY <4>1, TailShape
      <4>3. doneNodes \subseteq doneNodes' /\ failedNodes \subseteq failedNodes'
        BY <1>9 DEF ExecuteNode
      <4>4. ASSUME NEW i \in 1..Len(batch'), NEW n, n = batch'[i] PROVE Parents(n)' \subseteq Ended'
        <5>1. i + 1 \in 1..Len(batch) /\ n = batch[i + 1]
          BY <4>2, <4>4
        <5>2. Parents(n) \subseteq Ended
          BY <4>1, <5>1 DEF OrderInv
        <5> QED  BY <4>1, <4>3, <5>2 DEF Parents, Ended
      <4> QED  BY <4>1, <4>4 DEF OrderInv, Scheduling, Batching, Parents, Ended
    <3> QED  BY <3>2, <3>3
  <2> QED  BY <2>1, <2>2
<1>10. ASSUME NEW w \in Worker, Register(w) \/ Unregister(w) \/ Recover(w) PROVE OrderInv'
  BY <1>1, <1>10 DEF Register, Unregister, Recover, running
<1>11. CASE UNCHANGED vars
  BY <1>11 DEF vars, scheduler, nodes, running, history, OrderInv, InTurn, Parents, Ended
<1> QED
  BY <1>2, <1>3, <1>4, <1>5, <1>6, <1>7, <1>8, <1>9, <1>10, <1>11 DEF Next, Step

(* The scheduler runs a task when all its parents have succeeded, unless   *)
(* an earlier call left it in the queue; a node of the execution graph     *)
(* runs when its parents have ended.                                       *)
THEOREM RunsInOrder == Spec => []InOrder
<1>1. TypeInv /\ OrderInv => InOrder
  <2> SUFFICES ASSUME TypeInv, OrderInv, NEW i \in DOMAIN batch
               PROVE  /\ pc \in Batching => InTurn(batch[i].task)
                      /\ pc = "node" => Parents(batch[i]) \subseteq Ended
    BY DEF InOrder, InTurn, Batching
  <2>1. pc \in Batching \/ pc = "node" => DOMAIN batch = 1..Len(batch)
    BY DEF TypeInv
  <2> QED  BY <2>1 DEF OrderInv
<1> QED  BY <1>1, TypeInit, TypeStep, OrderInit, OrderStep, PTL DEF Spec

-----------------------------------------------------------------------------
(* The workers.  Until an exception leaves a runtime, the workers that are *)
(* not idle are those of the scheduler's batch, in which none is twice.    *)

Busy == {w \in Worker : state[w] # "idle"}

Holding(b, B) ==
    /\ \A i \in 1..Len(b) : b[i].worker \in B
    /\ \A v \in B : \E i \in 1..Len(b) : b[i].worker = v
    /\ \A i, j \in 1..Len(b) : b[i].worker = b[j].worker => i = j
    /\ IsFiniteSet(B) /\ Cardinality(B) = Len(b)

HeldInv ==
    ~escaped =>
       /\ pc \notin Batching => Busy = {}
       /\ pc \in Batching => Holding(batch, Busy)

(* An empty batch holds nobody, and nobody is held by an empty batch only. *)
LEMMA HoldingNone ==
    ASSUME NEW b, NEW B, Len(b) = 0
    PROVE  Holding(b, B) <=> B = {}
<1>1. Holding(b, B) => B = {}
  BY DEF Holding
<1>2. IsFiniteSet({}) /\ Cardinality({}) = 0
  BY FS_EmptySet
<1> QED  BY <1>1, <1>2 DEF Holding

(* A free worker that is assigned a task is held by the batch.             *)
LEMMA HoldingMore ==
    ASSUME NEW b \in Seq(Assignment), NEW a \in Assignment, NEW B, Holding(b, B), a.worker \notin B
    PROVE  Holding(Append(b, a), B \cup {a.worker})
<1> DEFINE c == Append(b, a)
           n == Len(b) + 1
           C == B \cup {a.worker}
<1>1. /\ Len(b) \in Nat /\ Len(c) = n /\ c[n] = a
      /\ \A i \in 1..Len(b) : c[i] = b[i]
  BY DEF Assignment
<1>2. \A i \in 1..n : i = n \/ i \in 1..Len(b)
  BY <1>1
<1>3. n \in 1..n /\ \A i \in 1..Len(b) : i \in 1..n
  BY <1>1
<1>4. /\ \A i \in 1..Len(b) : b[i].worker \in B
      /\ \A v \in B : \E i \in 1..Len(b) : b[i].worker = v
      /\ \A i, j \in 1..Len(b) : b[i].worker = b[j].worker => i = j
      /\ IsFiniteSet(B) /\ Cardinality(B) = Len(b)
  BY DEF Holding
<1>5. IsFiniteSet(C) /\ Cardinality(C) = n
  BY <1>4, FS_AddElement
<1> HIDE DEF c, n
<1>6. \A i \in 1..n : c[i].worker \in C
  BY <1>1, <1>2, <1>4
<1>7. \A v \in C : \E i \in 1..n : c[i].worker = v
  BY <1>1, <1>3, <1>4
<1>8. \A i, j \in 1..n : c[i].worker = c[j].worker => i = j
  BY <1>1, <1>2, <1>4
<1>9. Holding(c, C)
  BY <1>1, <1>5, <1>6, <1>7, <1>8 DEF Holding
<1> QED  BY <1>9 DEF c

(* The worker of the first assignment is let go with it.                   *)
LEMMA HoldingLess ==
    ASSUME NEW b \in Seq(Assignment), NEW B, Holding(b, B), b # << >>
    PROVE  Holding(Tail(b), B \ {Head(b).worker})
<1> DEFINE c == Tail(b)
           w == Head(b).worker
           C == B \ {w}
<1>1. /\ Len(b) \in Nat \ {0} /\ Len(c) = Len(b) - 1
      /\ \A i \in 1..(Len(b) - 1) : c[i] = b[i + 1]
      /\ w = b[1].worker
  BY TailShape
<1>2. /\ \A i \in 1..Len(b) : b[i].worker \in B
      /\ \A v \in B : \E i \in 1..Len(b) : b[i].worker = v
      /\ \A i, j \in 1..Len(b) : b[i].worker = b[j].worker => i = j
      /\ IsFiniteSet(B) /\ Cardinality(B) = Len(b)
  BY DEF Holding
<1> HIDE DEF c, w
<1>3. ASSUME NEW i \in 1..Len(c) PROVE i + 1 \in 1..Len(b) /\ i + 1 # 1 /\ c[i] = b[i + 1]
  BY <1>1
<1>4. 1 \in 1..Len(b)
  BY <1>1
<1>5. w \in B
  BY <1>1, <1>2, <1>4
<1>6. IsFiniteSet(C) /\ Cardinality(C) = Len(c)
  <2>1. IsFiniteSet(C) /\ Cardinality(C) = Cardinality(B) - 1
    BY <1>2, <1>5, FS_RemoveElement
  <2> QED  BY <1>1, <1>2, <2>1
<1>7. ASSUME NEW i \in 1..Len(c) PROVE c[i].worker \in C
  <2>1. b[i + 1].worker # w
    BY <1>1, <1>2, <1>3, <1>4
  <2> QED  BY <1>2, <1>3, <2>1
<1>8. ASSUME NEW v \in C PROVE \E i \in 1..Len(c) : c[i].worker = v
  <2>1. PICK j \in 1..Len(b) : b[j].worker = v
    BY <1>2
  <2>2. j # 1
    BY <1>1, <2>1
  <2>3. j - 1 \in 1..Len(c) /\ c[j - 1] = b[j]
    BY <1>1, <2>2
  <2> QED  BY <2>1, <2>3
<1>9. ASSUME NEW i \in 1..Len(c), NEW j \in 1..Len(c), c[i].worker = c[j].worker PROVE i = j
  <2>1. i + 1 = j + 1
    BY <1>2, <1>3, <1>9
  <2> QED  BY <2>1
<1>10. Holding(c, C)
  BY <1>6, <1>7, <1>8, <1>9 DEF Holding
<1> QED  BY <1>10 DEF c, w

(* At first every worker is idle.                                          *)
LEMMA HeldInit == Init => HeldInv
BY DEF Init, HeldInv, Busy, Batching

(* Every step keeps the workers held.                                      *)
LEMMA HeldStep == TypeInv /\ HeldInv /\ [Next]_vars => HeldInv'
<1> SUFFICES ASSUME TypeInv, HeldInv, [Next]_vars, ~escaped, ~escaped' PROVE HeldInv'
  <2>1. ASSUME escaped, Next PROVE escaped'
    <3>1. CASE \E g \in Graph : ExecuteGraph(g)
      BY <2>1, <3>1 DEF ExecuteGraph
    <3>2. CASE \E g \in Graph, policy \in {"continue", "fail_fast"} : ExecuteNodes(g, policy)
      BY <2>1, <3>2 DEF ExecuteNodes, history
    <3>3. CASE Collect \/ CloseBatch \/ CollectNodes
      BY <2>1, <3>3 DEF Collect, CloseBatch, CollectNodes, Return
    <3>4. CASE Dispatch
      BY <2>1, <3>4 DEF Dispatch, history
    <3>5. CASE Execute
      BY <2>1, <3>5 DEF Execute, Escape
    <3>6. CASE ExecuteNode
      BY <2>1, <3>6 DEF ExecuteNode, Escape
    <3>7. CASE \E w \in Worker : Register(w) \/ Unregister(w) \/ Recover(w)
      BY <2>1, <3>7 DEF Register, Unregister, Recover, history
    <3> QED  BY <2>1, <3>1, <3>2, <3>3, <3>4, <3>5, <3>6, <3>7 DEF Next, Step
  <2>2. UNCHANGED vars => escaped' = escaped
    BY DEF vars, history
  <2> QED  BY <2>1, <2>2 DEF HeldInv
<1>1. ASSUME pc \notin Batching, pc' \notin Batching, state' = state PROVE HeldInv'
  BY <1>1 DEF HeldInv, Busy
<1>2. ASSUME NEW g \in Graph, NEW policy \in {"continue", "fail_fast"},
             ExecuteGraph(g) \/ ExecuteNodes(g, policy)
      PROVE  HeldInv'
  BY <1>1, <1>2 DEF ExecuteGraph, ExecuteNodes, workers, Batching
<1>3. CASE Collect
  <2>1. CASE Return
    BY <1>1, <1>3, <2>1 DEF Collect, Return, workers, Batching
  <2>2. CASE ~Return
    <3>1. /\ pc = "collect" /\ pc' = "dispatch" /\ state' = state /\ Len(batch') = 0
      BY <1>3, <2>2 DEF Collect, Goto, TypeInv, workers
    <3>2. Busy' = {}
      BY <3>1 DEF HeldInv, Busy, Batching
    <3>3. Holding(batch', Busy')
      BY <3>1, <3>2, HoldingNone
    <3> QED  BY <3>1, <3>3 DEF HeldInv, Batching
  <2> QED  BY <2>1, <2>2
<1>4. CASE Dispatch
  <2>1. PICK t \in queue, w \in Worker :
           /\ state[w] = "idle" /\ state' = [state EXCEPT ![w] = "assigned"]
           /\ batch' = Append(batch, [task |-> t, worker |-> w])
           /\ pc = "dispatch" /\ pc' = "dispatch" /\ batch \in Seq(Assignment)
    BY <1>4, DispatchShape
  <2>2. Holding(batch, Busy)
    BY <2>1 DEF HeldInv, Batching
  <2>3. Busy' = Busy \cup {w} /\ w \notin Busy
    BY <2>1 DEF Busy, TypeInv
  <2> DEFINE a == [task |-> t, worker |-> w]
  <2>4. a \in Assignment /\ a.worker = w /\ batch' = Append(batch, a)
    BY <2>1 DEF TypeInv, Assignment
  <2> HIDE DEF a
  <2>5. Holding(Append(batch, a), Busy \cup {w})
    BY <2>1, <2>2, <2>3, <2>4, HoldingMore
  <2>6. Holding(batch', Busy')
    BY <2>3, <2>4, <2>5
  <2> QED  BY <2>1, <2>6 DEF HeldInv, Batching
<1>5. CASE CloseBatch
  <2>1. pc = "dispatch" /\ state' = state /\ Holding(batch, Busy)
    BY <1>5 DEF CloseBatch, workers, HeldInv, Batching
  <2>2. CASE batch = << >>
    <3>1. pc' = "idle"
      BY <1>5, <2>2 DEF CloseBatch, Return
    <3>2. Busy = {}
      BY <2>1, <2>2, HoldingNone
    <3> QED  BY <2>1, <3>1, <3>2 DEF HeldInv, Busy, Batching
  <2>3. CASE batch # << >>
    <3>1. pc' = "execute" /\ batch' = batch
      BY <1>5, <2>3 DEF CloseBatch, Goto
    <3>2. Holding(batch, Busy)'
      BY <2>1, <3>1 DEF Holding, Busy
    <3> QED  BY <3>1, <3>2 DEF HeldInv, Batching
  <2> QED  BY <2>2, <2>3
<1>6. CASE Execute
  <2> DEFINE w == Head(batch).worker
  <2>1. /\ pc = "execute" /\ batch \in Seq(Assignment) /\ batch # << >> /\ w \in Worker
    BY <1>6, ExecuteShape DEF Assignment
  <2>2. PICK x \in Executions(failures[w]) : Apply(w, x) /\ Done(Head(batch).task, x)
    BY <1>6, ExecuteShape DEF Escape
  <2>3. ~x.escapes
    BY <2>2 DEF Done, Escape
  <2>4. x.state = "idle"
    <3>1. failures[w] \in Nat
      BY <2>1 DEF TypeInv
    <3> QED  BY <2>3, <3>1, ExecutionShape
  <2>5. state' = [state EXCEPT ![w] = "idle"]
    BY <2>2, <2>4 DEF Apply
  <2>6. /\ batch' = Tail(batch) /\ pc' = IF Len(batch) = 1 THEN "collect" ELSE "execute"
    BY <2>2, <2>3 DEF Done, Goto
  <2>7. Holding(batch, Busy)
    BY <2>1 DEF HeldInv, Batching
  <2>8. Holding(Tail(batch), Busy \ {w})
    BY <2>1, <2>7, HoldingLess
  <2>9. Len(Tail(batch)) = Len(batch) - 1 /\ Len(batch) \in Nat
    BY <2>1, TailShape
  <2> HIDE DEF w
  <2>10. Busy' = Busy \ {w}
    BY <2>1, <2>5 DEF Busy, TypeInv
  <2>11. Holding(batch', Busy')
    BY <2>6, <2>8, <2>10
  <2>12. CASE Len(batch) = 1
    <3>1. Len(batch') = 0
      BY <2>6, <2>9, <2>12
    <3>2. Busy' = {}
      BY <2>11, <3>1, HoldingNone
    <3> QED  BY <2>6, <2>12, <3>2 DEF HeldInv, Batching
  <2>13. CASE Len(batch) # 1
    BY <2>6, <2>11, <2>13 DEF HeldInv, Batching
  <2> QED  BY <2>12, <2>13
<1>7. CASE CollectNodes
  BY <1>1, <1>7 DEF CollectNodes, Return, Goto, workers, Batching
<1>8. CASE ExecuteNode
  <2> DEFINE w == BestWorker(AbleNode, PrefersNode)
  <2>1. pc = "node" /\ pc' \notin Batching /\ ~Escape
    BY <1>8 DEF ExecuteNode, Escape, Goto, Batching
  <2>2. CASE UNCHANGED workers
    BY <1>1, <2>1, <2>2 DEF workers, Batching
  <2>3. ASSUME Free(AbleNode) # {}, NEW x \in Executions(failures[w]), Apply(w, x), ~x.escapes
        PROVE  HeldInv'
    <3>1. w \in Worker /\ state[w] = "idle"
      BY <2>3, BestIsFree DEF TypeInv, Free
    <3>2. failures[w] \in Nat
      BY <3>1 DEF TypeInv
    <3>3. x.state = "idle"
      BY <2>3, <3>2, ExecutionShape
    <3>4. state' = state
      BY <2>3, <3>1, <3>3 DEF Apply, TypeInv
    <3> QED  BY <1>1, <2>1, <3>4 DEF Batching
  <2> QED  BY <1>8, <2>1, <2>2, <2>3 DEF ExecuteNode
<1>9. ASSUME NEW w \in Worker, Register(w) \/ Unregister(w) \/ Recover(w) PROVE HeldInv'
  BY <1>1, <1>9 DEF Register, Unregister, Recover, running, Batching
<1>10. CASE UNCHANGED vars
  BY <1>10 DEF vars, workers, running, history, HeldInv, Busy, Holding
<1> QED
  BY <1>2, <1>3, <1>4, <1>5, <1>6, <1>7, <1>8, <1>9, <1>10 DEF Next, Step

(* Until an exception leaves a runtime, a busy worker holds one task of    *)
(* the batch, and between batches and calls every worker is idle.          *)
THEOREM WorkersComeBack == Spec => []WorkersReturned
<1>1. TypeInv /\ HeldInv => WorkersReturned
  <2> SUFFICES ASSUME TypeInv, HeldInv, ~escaped
               PROVE  /\ pc \in {"idle", "collect", "nodes", "node"} =>
                            \A w \in Worker : state[w] = "idle"
                      /\ pc \in Batching =>
                            /\ Holders = Busy
                            /\ Cardinality(Holders) = Len(batch)
    BY DEF WorkersReturned, Batching, Busy
  <2>1. pc \in {"idle", "collect", "nodes", "node"} => \A w \in Worker : state[w] = "idle"
    BY DEF HeldInv, Busy, Batching
  <2>2. ASSUME pc \in Batching PROVE Holders = Busy /\ Cardinality(Busy) = Len(batch)
    <3>1. DOMAIN batch = 1..Len(batch)
      BY <2>2 DEF TypeInv
    <3>2. Holding(batch, Busy)
      BY <2>2 DEF HeldInv
    <3> QED  BY <3>1, <3>2 DEF Holders, Holding
  <2> QED  BY <2>1, <2>2
<1> QED  BY <1>1, TypeInit, TypeStep, HeldInit, HeldStep, PTL DEF Spec

-----------------------------------------------------------------------------
(* Why a call returns.  The loops of both runtimes also stop when nothing  *)
(* is ready; as a graph has no cycle, that is when all of it is done.      *)

(* A graph with something left to do has a task that is ready.             *)
LEMMA SomethingIsReady ==
    ASSUME call.graph \in Graph, NEW done, Ready(done) = {}
    PROVE  call.graph.tasks \subseteq done
<1> DEFINE g == call.graph
           S == g.tasks \ done
<1>1. SUFFICES ASSUME S # {} PROVE FALSE
  OBVIOUS
<1>2. Acyclic(g)
  BY SchedulingConstants
<1>3. PICK t \in S : \A p \in S : <<p, t>> \notin g.edges
  BY <1>1, <1>2 DEF Acyclic
<1>4. Parents(t) \subseteq done
  BY <1>3 DEF Parents
<1> QED  BY <1>3, <1>4 DEF Ready

(* No registered worker that is able to do t is healthy or degraded.       *)
Worn(t) == \A w \in Able[t] \cap registered : failures[w] >= UnavailableAt

(* The scheduler forms no batch of an empty queue.                         *)
BatchedInv == pc = "dispatch" => queue # {} \/ batch # << >>

(* At first no batch is formed.                                            *)
LEMMA BatchedInit == Init => BatchedInv
BY DEF Init, BatchedInv

(* What leaves the queue enters the batch.                                 *)
LEMMA BatchedStep == TypeInv /\ BatchedInv /\ [Next]_vars => BatchedInv'
<1> SUFFICES ASSUME TypeInv, BatchedInv, [Next]_vars, pc' = "dispatch"
             PROVE  queue' # {} \/ batch' # << >>
  BY DEF BatchedInv
<1>1. CASE Collect
  BY <1>1 DEF Collect, Return
<1>2. CASE Dispatch
  <2>1. PICK a \in Assignment : batch \in Seq(Assignment) /\ batch' = Append(batch, a)
    BY <1>2, DispatchShape DEF Assignment, TypeInv
  <2>2. Len(batch') = Len(batch) + 1 /\ Len(batch) \in Nat
    BY <2>1
  <2> QED  BY <2>2
<1>3. /\ ~CloseBatch /\ ~Execute /\ ~CollectNodes /\ ~ExecuteNode
      /\ \A g \in Graph : ~ExecuteGraph(g)
      /\ \A g \in Graph, policy \in {"continue", "fail_fast"} : ~ExecuteNodes(g, policy)
  BY DEF CloseBatch, Execute, CollectNodes, ExecuteNode, ExecuteGraph, ExecuteNodes,
     Return, Escape, Goto
<1>4. ASSUME NEW w \in Worker, Register(w) \/ Unregister(w) \/ Recover(w) PROVE FALSE
  BY <1>4 DEF Register, Unregister, Recover, running
<1>5. CASE UNCHANGED vars
  BY <1>5 DEF vars, scheduler, running, BatchedInv
<1> QED  BY <1>1, <1>2, <1>3, <1>4, <1>5 DEF Next, Step

(* A return of the scheduler's call, where no exception has left a runtime.*)
ScheduledOut ==
    pc \in Scheduling /\ pc' = "idle" /\ ~escaped' =>
       \/ call.graph.tasks \subseteq completed
       \/ \E t \in queue : Worn(t)

(* While every worker is idle, a worker that is not free is worn.          *)
LEMMA NoneFree ==
    ASSUME TypeInv, Busy = {}, NEW t \in Task, Free(Able[t]) = {}
    PROVE  Worn(t)
<1> SUFFICES ASSUME NEW w \in Able[t] \cap registered PROVE failures[w] >= UnavailableAt
  BY DEF Worn
<1>1. w \in Worker /\ failures[w] \in Nat /\ UnavailableAt \in Nat /\ state[w] = "idle"
  BY SchedulingConstants DEF TypeInv, Busy
<1> QED  BY <1>1 DEF Free

(* The two places where the scheduler's loop breaks.                       *)
LEMMA ScheduledOutStep == TypeInv /\ HeldInv /\ BatchedInv /\ [Next]_vars => ScheduledOut
<1> SUFFICES ASSUME TypeInv, HeldInv, BatchedInv, [Next]_vars,
                    pc \in Scheduling, pc' = "idle", ~escaped'
             PROVE  \/ call.graph.tasks \subseteq completed
                    \/ \E t \in queue : Worn(t)
  BY DEF ScheduledOut
<1>1. CASE Collect
  <2>1. queue \cup Ready(completed) = {}
    BY <1>1 DEF Collect, Goto
  <2> QED  BY <2>1, SomethingIsReady DEF TypeInv, Scheduling
<1>2. CASE CloseBatch
  <2>1. batch = << >> /\ pc = "dispatch" /\ ~escaped
    BY <1>2 DEF CloseBatch, Goto, Return
  <2>2. Busy = {}
    <3>1. Holding(batch, Busy)
      BY <2>1 DEF HeldInv, Batching
    <3>2. Len(batch) = 0
      BY <2>1
    <3> QED  BY <3>1, <3>2, HoldingNone
  <2>3. queue # {}
    BY <2>1 DEF BatchedInv
  <2>4. First(queue) \in queue /\ First(queue) \in Task
    BY <2>3, FirstIsQueued DEF TypeInv
  <2>5. Free(Able[First(queue)]) = {}
    BY <1>2, <2>3 DEF CloseBatch
  <2> QED  BY <2>2, <2>4, <2>5, NoneFree
<1>3. ~Dispatch /\ ~CollectNodes /\ ~ExecuteNode
  BY DEF Dispatch, CollectNodes, ExecuteNode, Goto, Scheduling
<1>4. ~Execute
  BY DEF Execute, Escape, Goto
<1>5. /\ ~UNCHANGED vars
      /\ \A g \in Graph : ~ExecuteGraph(g)
      /\ \A g \in Graph, policy \in {"continue", "fail_fast"} : ~ExecuteNodes(g, policy)
      /\ \A w \in Worker : ~(Register(w) \/ Unregister(w) \/ Recover(w))
  BY DEF vars, running, ExecuteGraph, ExecuteNodes, Register, Unregister, Recover, Scheduling
<1> QED  BY <1>1, <1>2, <1>3, <1>4, <1>5 DEF Next, Step

(* A call of the scheduler (execute_graph(), runtime.py:34-83) never stops *)
(* in a deadlock, which its comment reckons with.  Unless an exception has *)
(* left a runtime, it returns when every task of its graph is completed,   *)
(* or when a queued task, perhaps one that another graph left, has no      *)
(* registered worker that is not worn out.                                 *)
THEOREM SchedulerStopsForAReason == Spec => [][ScheduledOut]_vars
<1>1. TypeInv /\ HeldInv /\ BatchedInv /\ [Next]_vars => [ScheduledOut]_vars
  BY ScheduledOutStep
<1> QED
  BY <1>1, TypeInit, TypeStep, HeldInit, HeldStep, BatchedInit, BatchedStep, PTL DEF Spec

-----------------------------------------------------------------------------
(* The execution graph.  In one call a node ends once, with one outcome.   *)

NodesInv ==
    pc \in {"nodes", "node"} =>
       /\ Ended \subseteq call.graph.tasks
       /\ doneNodes \cap failedNodes = {}
       /\ pc = "node" => \A i \in 1..Len(batch) :
             /\ batch[i] \in call.graph.tasks \ Ended
             /\ \A j \in 1..Len(batch) : batch[i] = batch[j] => i = j

(* Before the first call there is nothing to show.                         *)
LEMMA NodesInit == Init => NodesInv
BY DEF Init, NodesInv

(* One node of the batch ends, and no other changes.                       *)
NodeEnds ==
    pc = "node" => \E n \in call.graph.tasks \ Ended : Ended' = Ended \cup {n}

(* The head of the batch ends, and the rest of the batch is left, or none. *)
LEMMA NodeShape ==
    ASSUME TypeInv, ExecuteNode
    PROVE  /\ pc = "node" /\ batch \in Seq(Task) /\ batch # << >>
           /\ \/ doneNodes' = doneNodes \cup {Head(batch)} /\ failedNodes' = failedNodes
              \/ doneNodes' = doneNodes /\ failedNodes' = failedNodes \cup {Head(batch)}
           /\ \/ pc' = "idle"
              \/ pc' = "nodes" /\ call' = call
              \/ pc' = "node" /\ call' = call /\ batch' = Tail(batch)
<1> DEFINE n == Head(batch)
           w == BestWorker(AbleNode, PrefersNode)
<1>1. pc = "node" /\ batch \in Seq(Task) /\ batch # << >>
  BY DEF ExecuteNode, TypeInv
<1>2. \/ doneNodes' = doneNodes \cup {n} /\ failedNodes' = failedNodes
      \/ doneNodes' = doneNodes /\ failedNodes' = failedNodes \cup {n}
  <2>1. CASE failedNodes' = failedNodes \cup {n} /\ UNCHANGED doneNodes
    BY <2>1
  <2>2. ASSUME Free(AbleNode) # {}, NEW x \in Executions(failures[w]),
               doneNodes' = doneNodes \cup {u \in {n} : x.success},
               failedNodes' = failedNodes \cup {u \in {n} : ~x.success}
        PROVE  \/ doneNodes' = doneNodes \cup {n} /\ failedNodes' = failedNodes
               \/ doneNodes' = doneNodes /\ failedNodes' = failedNodes \cup {n}
    <3>1. w \in Worker /\ failures[w] \in Nat
      BY <2>2, BestIsFree DEF TypeInv, Free
    <3>2. x.success \in BOOLEAN
      BY <2>2, <3>1, ExecutionShape
    <3>3. CASE x.success = TRUE
      BY <2>2, <3>3
    <3>4. CASE x.success = FALSE
      BY <2>2, <3>4
    <3> QED  BY <3>2, <3>3, <3>4
  <2> QED  BY <2>1, <2>2 DEF ExecuteNode
<1>3. \/ pc' = "idle"
      \/ pc' = "nodes" /\ call' = call
      \/ pc' = "node" /\ call' = call /\ batch' = Tail(batch)
  BY DEF ExecuteNode, Escape, Goto
<1> QED  BY <1>1, <1>2, <1>3

(* Every step keeps each node's one outcome, and a batch to come of nodes  *)
(* that have none.                                                         *)
LEMMA NodesStep ==
    TypeInv /\ NodesInv /\ [Next]_vars => NodesInv' /\ [NodeEnds]_vars
<1> SUFFICES ASSUME TypeInv, NodesInv, [Next]_vars PROVE NodesInv' /\ [NodeEnds]_vars
  OBVIOUS
<1>1. CASE ExecuteNode
  <2> DEFINE n == Head(batch)
  <2>1. /\ pc = "node" /\ batch \in Seq(Task) /\ batch # << >>
        /\ \/ doneNodes' = doneNodes \cup {n} /\ failedNodes' = failedNodes
           \/ doneNodes' = doneNodes /\ failedNodes' = failedNodes \cup {n}
        /\ \/ pc' = "idle"
           \/ pc' = "nodes" /\ call' = call
           \/ pc' = "node" /\ call' = call /\ batch' = Tail(batch)
    BY <1>1, NodeShape
  <2>2. /\ n = batch[1] /\ Len(batch) \in Nat \ {0} /\ Len(Tail(batch)) = Len(batch) - 1
        /\ \A i \in 1..(Len(batch) - 1) : Tail(batch)[i] = batch[i + 1]
    BY <2>1, TailShape
  <2> HIDE DEF n
  <2>3. 1 \in 1..Len(batch)
    BY <2>2
  <2>4. n \in call.graph.tasks \ Ended /\ Ended \subseteq call.graph.tasks
        /\ doneNodes \cap failedNodes = {}
    BY <2>1, <2>2, <2>3 DEF NodesInv
  <2>5. Ended' = Ended \cup {n} /\ doneNodes' \cap failedNodes' = {}
    BY <2>1, <2>4 DEF Ended
  <2>6. ASSUME pc' = "node", NEW i \in 1..Len(batch')
        PROVE  /\ batch'[i] \in call.graph.tasks \ (Ended \cup {n})
               /\ \A j \in 1..Len(batch') : batch'[i] = batch'[j] => i = j
    <3>1. batch' = Tail(batch) /\ Len(batch') = Len(batch) - 1
      BY <2>1, <2>2, <2>6
    <3>2. ASSUME NEW j \in 1..Len(batch')
          PROVE  j + 1 \in 1..Len(batch) /\ j + 1 # 1 /\ batch'[j] = batch[j + 1]
      BY <2>2, <3>1
    <3>3. batch[i + 1] \in call.graph.tasks \ Ended /\ batch[i + 1] # n
      BY <2>1, <2>2, <2>3, <2>6, <3>2 DEF NodesInv
    <3>4. ASSUME NEW j \in 1..Len(batch'), batch'[i] = batch'[j] PROVE i = j
      <4>1. i + 1 = j + 1
        BY <2>1, <2>6, <3>2, <3>4 DEF NodesInv
      <4> QED  BY <4>1
    <3> QED  BY <2>6, <3>2, <3>3, <3>4
  <2>7. NodesInv'
    BY <2>1, <2>4, <2>5, <2>6 DEF NodesInv
  <2> QED  BY <2>4, <2>5, <2>7 DEF NodeEnds
<1>2. CASE CollectNodes
  <2>1. pc = "nodes" /\ UNCHANGED nodes
    BY <1>2 DEF CollectNodes
  <2>2. CASE pc' = "idle"
    BY <2>1, <2>2 DEF NodesInv, NodeEnds
  <2>3. CASE pc' # "idle"
    <3> DEFINE R == Ready(Ended)
    <3>1. /\ pc' = "node" /\ call' = call
          /\ \A i, j \in DOMAIN batch' : i < j => batch'[i] < batch'[j]
      BY <1>2, <2>3 DEF CollectNodes, Return, Goto
    <3>2. batch' \in Seq(R) /\ R \subseteq Task /\ R \subseteq Nat
      BY <1>2, <3>1, BatchShape, SchedulingConstants
    <3> HIDE DEF R
    <3>3. /\ \A i \in 1..Len(batch') : batch'[i] \in R
          /\ \A i, j \in 1..Len(batch') : i < j => batch'[i] < batch'[j]
          /\ Len(batch') \in Nat
      <4>1. DOMAIN batch' = 1..Len(batch') /\ Len(batch') \in Nat
        BY <3>2
      <4>2. \A i \in 1..Len(batch') : batch'[i] \in R
        BY <3>2
      <4> QED  BY <3>1, <4>1, <4>2
    <3>4. ASSUME NEW i \in 1..Len(batch'), NEW j \in 1..Len(batch'), batch'[i] = batch'[j]
          PROVE  i = j
      <4>1. batch'[i] \in Nat /\ batch'[j] \in Nat
        BY <3>2, <3>3
      <4>2. ~(i < j) /\ ~(j < i)
        BY <3>3, <3>4, <4>1
      <4> QED  BY <3>3, <4>2
    <3>5. R \subseteq call.graph.tasks \ Ended
      BY DEF R, Ready
    <3> QED  BY <2>1, <3>1, <3>3, <3>4, <3>5 DEF NodesInv, NodeEnds, nodes, Ended
  <2> QED  BY <2>2, <2>3
<1>3. ASSUME NEW g \in Graph, NEW policy \in {"continue", "fail_fast"}, ExecuteNodes(g, policy)
      PROVE  NodesInv' /\ [NodeEnds]_vars
  BY <1>3 DEF ExecuteNodes, NodesInv, NodeEnds, Ended
<1>4. CASE Collect \/ Dispatch \/ CloseBatch \/ Execute \/ \E g \in Graph : ExecuteGraph(g)
  <2>1. pc # "node" /\ pc' \notin {"nodes", "node"}
    BY <1>4 DEF Collect, Dispatch, CloseBatch, Execute, ExecuteGraph, Return, Escape, Goto
  <2> QED  BY <2>1 DEF NodesInv, NodeEnds
<1>5. ASSUME NEW w \in Worker, Register(w) \/ Unregister(w) \/ Recover(w)
      PROVE  NodesInv' /\ [NodeEnds]_vars
  <2>1. pc = "idle" /\ pc' = "idle"
    BY <1>5 DEF Register, Unregister, Recover, running
  <2> QED  BY <2>1 DEF NodesInv, NodeEnds
<1>6. CASE UNCHANGED vars
  <2>1. UNCHANGED <<doneNodes, failedNodes, pc, call, batch>>
    BY <1>6 DEF vars, nodes, running
  <2> QED  BY <1>6, <2>1 DEF NodesInv, Ended
<1> QED  BY <1>1, <1>2, <1>3, <1>4, <1>5, <1>6 DEF Next, Step

(* In one call of the execution graph's runtime each executed node of the  *)
(* batch ends that had not ended, so none is executed twice, and after as  *)
(* many executions as the graph has nodes there is none to execute; and a  *)
(* node has not both succeeded and failed (executor.py:36-63).             *)
THEOREM NodesEndOnce == Spec => []NodesInv /\ [][NodeEnds]_vars
BY NodesInit, NodesStep, TypeInit, TypeStep, PTL DEF Spec

(* A call of that runtime that returns has ended every node of its graph,  *)
(* or its policy is to stop at a failure and there was one.                *)
AllEnded == pc = "nodes" /\ pc' = "idle" => Stops \/ Ended = call.graph.tasks

(* The execution graph's runtime (execute(), runtime.py:31-54) does not    *)
(* give up on a node: its `Deadlock or done' break is only taken when      *)
(* done, and a node whose parents failed is executed all the same.         *)
THEOREM GraphIsExhausted == Spec => [][AllEnded]_vars
<1>1. TypeInv /\ NodesInv /\ [Next]_vars => AllEnded
  <2> SUFFICES ASSUME TypeInv, NodesInv, [Next]_vars, pc = "nodes", pc' = "idle", ~Stops
               PROVE  Ended = call.graph.tasks
    BY DEF AllEnded
  <2>1. CollectNodes
    <3>1. /\ ~UNCHANGED vars
          /\ ~Collect /\ ~Dispatch /\ ~CloseBatch /\ ~Execute /\ ~ExecuteNode
          /\ \A g \in Graph : ~ExecuteGraph(g)
          /\ \A g \in Graph, policy \in {"continue", "fail_fast"} : ~ExecuteNodes(g, policy)
          /\ \A w \in Worker : ~(Register(w) \/ Unregister(w) \/ Recover(w))
      BY DEF vars, running, Collect, Dispatch, CloseBatch, Execute, ExecuteNode, ExecuteGraph,
         ExecuteNodes, Register, Unregister, Recover
    <3> QED  BY <3>1 DEF Next, Step
  <2>2. Ready(Ended) = {}
    BY <2>1 DEF CollectNodes, Goto
  <2>3. call.graph \in Graph
    BY DEF TypeInv
  <2> QED  BY <2>2, <2>3, SomethingIsReady DEF NodesInv
<1>2. TypeInv /\ NodesInv /\ [Next]_vars => [AllEnded]_vars
  BY <1>1
<1> QED  BY <1>2, NodesInit, NodesStep, TypeInit, TypeStep, PTL DEF Spec

-----------------------------------------------------------------------------
(* Progress.  The scheduler tries a failed task again without a limit of   *)
(* its own; what runs out is the patience with its workers.                *)

Undone == call.graph.tasks \ (IF pc \in Scheduling THEN completed ELSE Ended)
Patience == {p \in registered \X (1..UnavailableAt) : failures[p[1]] < p[2]}
Phase == CASE pc = "collect" -> 2 [] pc \in {"dispatch", "nodes"} -> 1 [] OTHER -> 0

Shrinks(S, T) == S \subseteq T /\ S # T

Advances ==
    pc # "idle" /\ pc' # "idle" =>
       \/ raises' > raises
       \/ Shrinks(Undone', Undone)
       \/ Undone' = Undone /\ Shrinks(Patience', Patience)
       \/ /\ Undone' = Undone /\ Patience' = Patience
          /\ \/ Phase' < Phase
             \/ Phase' = Phase /\ Shrinks(queue', queue)

(* The workers of a batch are registered, busy, not worn out, and no two   *)
(* assignments share one.                                                  *)
Seated(b) ==
    \A i \in 1..Len(b) :
       /\ b[i].worker \in registered /\ state[b[i].worker] # "idle"
       /\ failures[b[i].worker] < UnavailableAt
       /\ \A j \in 1..Len(b) : b[i].worker = b[j].worker => i = j

SeatedInv == raises \in Nat /\ IsFiniteSet(queue) /\ (pc \in Batching => Seated(batch))

(* At first nothing is queued, raised or assigned.                         *)
LEMMA SeatedInit == Init => SeatedInv
BY FS_EmptySet DEF Init, SeatedInv, Batching

(* An execution that leaves the call running succeeds, or takes patience   *)
(* with the worker, or a subscriber raises in it.                          *)
LEMMA ExecutionTakes ==
    ASSUME NEW f \in Nat, NEW x \in Executions(f)
    PROVE  /\ x.raises \in Nat
           /\ ~x.escapes => x.success \/ x.failures = f + 1 \/ x.raises > 0
<1>1. CASE x = [worked |-> FALSE, success |-> FALSE, escapes |-> TRUE,
                state |-> "executing", failures |-> f, raises |-> 1]
  BY <1>1
<1>2. ASSUME NEW s \in BOOLEAN, NEW c \in BOOLEAN, NEW r \in BOOLEAN,
             x = [worked |-> s, success |-> s /\ ~c, escapes |-> r, state |-> "idle",
                  failures |-> Counted(f, s, c),
                  raises |-> (IF c THEN 1 ELSE 0) + (IF r THEN 1 ELSE 0)]
      PROVE  /\ x.raises \in Nat
             /\ ~x.escapes => x.success \/ x.failures = f + 1 \/ x.raises > 0
  <2>1. /\ x.success = (s /\ ~c) /\ x.escapes = r /\ x.failures = Counted(f, s, c)
        /\ x.raises = (IF c THEN 1 ELSE 0) + (IF r THEN 1 ELSE 0)
    BY <1>2
  <2>2. CASE c = TRUE
    BY <2>1, <2>2
  <2>3. CASE c = FALSE
    BY <2>1, <2>3 DEF Counted
  <2> QED  BY <2>2, <2>3
<1> QED  BY <1>1, <1>2 DEF Executions

(* Every step keeps the batch's workers seated.                            *)
LEMMA SeatedStep == TypeInv /\ SeatedInv /\ [Next]_vars => SeatedInv'
<1> SUFFICES ASSUME TypeInv, SeatedInv, [Next]_vars PROVE SeatedInv'
  OBVIOUS
<1>1. ASSUME UNCHANGED <<queue, raises>>, pc' \notin Batching PROVE SeatedInv'
  BY <1>1 DEF SeatedInv
<1>2. ASSUME NEW g \in Graph, NEW policy \in {"continue", "fail_fast"},
             ExecuteGraph(g) \/ ExecuteNodes(g, policy)
      PROVE  SeatedInv'
  BY <1>1, <1>2 DEF ExecuteGraph, ExecuteNodes, scheduler, Batching
<1>3. CASE Collect
  <2>1. IsFiniteSet(Ready(completed))
    BY <1>3, ReadyShape DEF Collect, TypeInv
  <2>2. IsFiniteSet(queue') /\ raises' = raises
    BY <1>3, <2>1, FS_Union DEF Collect, SeatedInv
  <2>3. pc' \in Batching => Len(batch') = 0
    BY <1>3 DEF Collect, Return, Goto, TypeInv, Batching
  <2> QED  BY <2>2, <2>3 DEF SeatedInv, Seated
<1>4. CASE Dispatch
  <2> DEFINE t == First(queue)
             w == BestWorker(Able[t], Prefers[t])
             a == [task |-> t, worker |-> w]
  <2>1. /\ t \in Task /\ w \in Free(Able[t]) /\ w \in Worker
        /\ w \in registered /\ state[w] = "idle" /\ failures[w] < UnavailableAt
    BY <1>4, FirstIsQueued, BestIsFree DEF Dispatch, TypeInv, Free
  <2>2. /\ state' = [state EXCEPT ![w] = "assigned"] /\ queue' = queue \ {t}
        /\ batch' = Append(batch, a) /\ pc = "dispatch" /\ batch \in Seq(Assignment)
        /\ UNCHANGED <<registered, failures, raises>>
    BY <1>4 DEF Dispatch, TypeInv, Batching
  <2>3. a.worker = w /\ a \in Assignment
    BY <2>1 DEF Assignment
  <2> HIDE DEF t, w, a
  <2>4. IsFiniteSet(queue') /\ raises' \in Nat
    BY <2>2, FS_RemoveElement, FS_Subset DEF SeatedInv
  <2>5. Seated(batch)
    BY <2>2 DEF SeatedInv, Batching
  <2> DEFINE n == Len(batch) + 1
  <2>6. /\ Len(batch) \in Nat /\ Len(batch') = n /\ batch'[n] = a
        /\ \A i \in 1..Len(batch) : batch'[i] = batch[i] /\ batch[i].worker \in Worker
    <3>1. \A i \in 1..Len(batch) : batch[i] \in Assignment
      BY <2>2
    <3> QED  BY <2>2, <2>3, <3>1 DEF Assignment
  <2>7. \A i \in 1..n : i = n \/ i \in 1..Len(batch)
    BY <2>6
  <2> HIDE DEF n
  <2>8. ASSUME NEW i \in 1..n
        PROVE  /\ batch'[i].worker \in registered /\ state'[batch'[i].worker] # "idle"
               /\ failures[batch'[i].worker] < UnavailableAt
    BY <2>1, <2>2, <2>3, <2>5, <2>6, <2>7 DEF Seated, TypeInv
  <2>9. ASSUME NEW i \in 1..n, NEW j \in 1..n, batch'[i].worker = batch'[j].worker
        PROVE  i = j
    BY <2>1, <2>3, <2>5, <2>6, <2>7, <2>9 DEF Seated
  <2> QED  BY <2>2, <2>4, <2>6, <2>8, <2>9 DEF SeatedInv, Seated
<1>5. CASE CloseBatch
  <2>1. /\ UNCHANGED <<queue, raises, registered, state, failures>> /\ pc \in Batching
        /\ pc' \in Batching => batch' = batch
    BY <1>5 DEF CloseBatch, Return, Goto, workers, scheduler, Batching
  <2> QED  BY <2>1 DEF SeatedInv, Seated
<1>6. CASE Execute
  <2> DEFINE w == Head(batch).worker
  <2>1. /\ pc = "execute" /\ batch \in Seq(Assignment) /\ batch # << >>
        /\ queue' = queue /\ w \in Worker
    BY <1>6, ExecuteShape DEF Assignment
  <2>2. CASE Escape /\ UNCHANGED raises
    BY <1>1, <2>1, <2>2 DEF Escape, Batching
  <2>3. ASSUME NEW x \in Executions(failures[w]), Apply(w, x), Done(Head(batch).task, x)
        PROVE  SeatedInv'
    <3>1. x.raises \in Nat /\ raises' \in Nat
      BY <2>1, <2>3, ExecutionTakes DEF Apply, SeatedInv, TypeInv
    <3>2. CASE x.escapes
      BY <2>1, <2>3, <3>1, <3>2 DEF Done, Escape, SeatedInv, Batching
    <3>3. CASE ~x.escapes
      <4>1. /\ batch' = Tail(batch) /\ registered' = registered
            /\ \A v \in Worker \ {w} : state'[v] = state[v] /\ failures'[v] = failures[v]
        BY <2>3, <3>3 DEF Done, Apply, TypeInv
      <4>2. /\ w = batch[1].worker /\ Len(batch) \in Nat \ {0}
            /\ Len(batch') = Len(batch) - 1
            /\ \A i \in 1..(Len(batch) - 1) : batch'[i] = batch[i + 1]
            /\ \A i \in 1..Len(batch) : batch[i].worker \in Worker
        <5>1. \A i \in 1..Len(batch) : batch[i] \in Assignment
          BY <2>1
        <5> QED  BY <2>1, <4>1, <5>1, TailShape DEF Assignment
      <4> HIDE DEF w
      <4>3. Seated(batch)
        BY <2>1 DEF SeatedInv, Batching
      <4>4. ASSUME NEW i \in 1..Len(batch')
            PROVE  /\ i + 1 \in 1..Len(batch) /\ batch'[i] = batch[i + 1]
                   /\ batch'[i].worker \in Worker \ {w}
        <5>1. i + 1 \in 1..Len(batch) /\ 1 \in 1..Len(batch) /\ i + 1 # 1
              /\ batch'[i] = batch[i + 1]
          BY <4>2
        <5>2. batch[i + 1].worker # w
          BY <4>2, <4>3, <5>1 DEF Seated
        <5> QED  BY <4>2, <5>1, <5>2
      <4>5. ASSUME NEW i \in 1..Len(batch')
            PROVE  /\ batch'[i].worker \in registered' /\ state'[batch'[i].worker] # "idle"
                   /\ failures'[batch'[i].worker] < UnavailableAt
        BY <4>1, <4>3, <4>4 DEF Seated
      <4>6. ASSUME NEW i \in 1..Len(batch'), NEW j \in 1..Len(batch'),
                   batch'[i].worker = batch'[j].worker
            PROVE  i = j
        <5>1. i + 1 = j + 1
          BY <4>3, <4>4, <4>6 DEF Seated
        <5> QED  BY <5>1
      <4>7. Seated(batch)'
        BY <4>5, <4>6 DEF Seated
      <4> QED  BY <2>1, <3>1, <4>7 DEF SeatedInv
    <3> QED  BY <3>2, <3>3
  <2>4. \/ Escape /\ UNCHANGED raises
        \/ \E x \in Executions(failures[w]) : Apply(w, x) /\ Done(Head(batch).task, x)
    BY <1>6 DEF Execute, Done
  <2> QED  BY <2>2, <2>3, <2>4
<1>7. CASE CollectNodes
  BY <1>1, <1>7 DEF CollectNodes, scheduler, Return, Goto, Batching
<1>8. CASE ExecuteNode
  <2>1. queue' = queue /\ pc' \notin Batching
    BY <1>8 DEF ExecuteNode, scheduler, Escape, Goto, Batching
  <2>2. raises' \in Nat
    <3> DEFINE w == BestWorker(AbleNode, PrefersNode)
    <3>1. ASSUME Free(AbleNode) # {}, NEW x \in Executions(failures[w]), Apply(w, x)
          PROVE  raises' \in Nat
      <4>1. failures[w] \in Nat
        BY <3>1, BestIsFree DEF TypeInv, Free
      <4>2. x.raises \in Nat
        BY <3>1, <4>1, ExecutionTakes
      <4> QED  BY <3>1, <4>2 DEF Apply, SeatedInv
    <3> QED  BY <1>8, <3>1 DEF ExecuteNode, SeatedInv
  <2> QED  BY <2>1, <2>2 DEF SeatedInv
<1>9. ASSUME NEW w \in Worker, Register(w) \/ Unregister(w) \/ Recover(w) PROVE SeatedInv'
  BY <1>1, <1>9 DEF Register, Unregister, Recover, scheduler, running, Batching
<1>10. CASE UNCHANGED vars
  BY <1>10 DEF vars, workers, scheduler, running, SeatedInv, Seated
<1> QED
  BY <1>2, <1>3, <1>4, <1>5, <1>6, <1>7, <1>8, <1>9, <1>10 DEF Next, Step

(* One assignment of the batch is executed, and the call goes on.          *)
LEMMA ExecuteAdvances ==
    ASSUME TypeInv, OnceInv, SeatedInv, Execute, pc' # "idle"
    PROVE  raises' > raises \/ Shrinks(Undone', Undone)
             \/ (Undone' = Undone /\ Shrinks(Patience', Patience))
<1> DEFINE t == Head(batch).task
           w == Head(batch).worker
<1>1. /\ pc = "execute" /\ batch \in Seq(Assignment) /\ batch # << >>
      /\ t \in Task /\ w \in Worker /\ failures[w] \in Nat
  BY ExecuteShape DEF Assignment, TypeInv
<1>2. /\ t \notin completed
      /\ w \in registered /\ failures[w] < UnavailableAt
  <2>1. 1 \in 1..Len(batch) /\ Head(batch) = batch[1]
    BY <1>1, TailShape
  <2> QED  BY <1>1, <2>1 DEF OnceInv, SeatedInv, Seated, Batching
<1>3. t \in call.graph.tasks
  BY DEF Execute, Escape
<1>4. PICK x \in Executions(failures[w]) : Apply(w, x) /\ Done(t, x)
  BY ExecuteShape DEF Escape
<1> HIDE DEF t, w
<1>5. /\ ~x.escapes /\ call' = call /\ pc' \in Scheduling
      /\ completed' = completed \cup {u \in {t} : x.success /\ ~x.escapes}
      /\ registered' = registered /\ raises' = raises + x.raises
      /\ failures' = [failures EXCEPT ![w] = x.failures]
  BY <1>4 DEF Done, Apply, Escape, Goto, Scheduling
<1>6. /\ Undone = call.graph.tasks \ completed
      /\ Undone' = call.graph.tasks \ completed'
  BY <1>1, <1>5 DEF Undone, Scheduling
<1>7. CASE x.success
  <2>1. completed' = completed \cup {t}
    BY <1>5, <1>7
  <2> QED  BY <1>2, <1>3, <1>6, <2>1 DEF Shrinks
<1>8. CASE ~x.success /\ x.raises > 0
  BY <1>1, <1>5, <1>8, ExecutionTakes DEF SeatedInv
<1>9. CASE ~x.success /\ ~(x.raises > 0)
  <2>1. x.failures = failures[w] + 1
    BY <1>1, <1>5, <1>9, ExecutionTakes
  <2>2. Undone' = Undone
    BY <1>5, <1>6, <1>9
  <2>3. /\ failures \in [Worker -> Nat] /\ registered \subseteq Worker /\ UnavailableAt \in Nat
    BY SchedulingConstants DEF TypeInv
  <2>4. Patience' \subseteq Patience
    <3> SUFFICES ASSUME NEW v \in registered, NEW k \in 1..UnavailableAt, failures'[v] < k
                 PROVE  failures[v] < k
      BY <1>5 DEF Patience
    <3>1. CASE v = w
      BY <1>1, <1>5, <2>1, <2>3, <3>1
    <3>2. CASE v # w
      BY <1>5, <2>3, <3>2
    <3> QED  BY <3>1, <3>2
  <2>5. <<w, failures[w] + 1>> \in Patience
    BY <1>1, <1>2, <2>3 DEF Patience
  <2>6. <<w, failures[w] + 1>> \notin Patience'
    BY <1>1, <1>5, <2>1, <2>3 DEF Patience
  <2> QED  BY <2>2, <2>4, <2>5, <2>6 DEF Shrinks
<1> QED  BY <1>7, <1>8, <1>9

(* Every step that leaves a call running takes it further.                 *)
LEMMA AdvancesStep ==
    TypeInv /\ OnceInv /\ NodesInv /\ SeatedInv /\ [Next]_vars => [Advances]_vars
<1> SUFFICES ASSUME TypeInv, OnceInv, NodesInv, SeatedInv, Next, ~UNCHANGED vars,
                    pc # "idle", pc' # "idle"
             PROVE  Advances
  BY DEF Advances
<1>1. Step
  BY DEF Next, ExecuteGraph, ExecuteNodes, Register, Unregister, Recover
<1>2. CASE Collect
  <2>1. /\ pc = "collect" /\ pc' = "dispatch"
        /\ UNCHANGED <<call, completed, registered, failures>>
    BY <1>2 DEF Collect, Return, Goto, workers
  <2> QED  BY <2>1 DEF Advances, Undone, Patience, Phase, Scheduling
<1>3. CASE Dispatch
  <2>1. /\ pc = "dispatch" /\ pc' = "dispatch"
        /\ UNCHANGED <<call, completed, registered, failures>>
        /\ queue' = queue \ {First(queue)} /\ queue # {}
    BY <1>3 DEF Dispatch, Goto
  <2>2. First(queue) \in queue
    BY <2>1, FirstIsQueued DEF TypeInv
  <2>3. Shrinks(queue', queue)
    BY <2>1, <2>2 DEF Shrinks
  <2> QED  BY <2>1, <2>3 DEF Advances, Undone, Patience, Phase, Scheduling
<1>4. CASE CloseBatch
  <2>1. /\ pc = "dispatch" /\ pc' = "execute"
        /\ UNCHANGED <<call, completed, registered, failures>>
    BY <1>4 DEF CloseBatch, Return, Goto, workers, scheduler
  <2> QED  BY <2>1 DEF Advances, Undone, Patience, Phase, Scheduling
<1>5. CASE Execute
  BY <1>5, ExecuteAdvances DEF Advances
<1>6. CASE CollectNodes
  <2>1. /\ pc = "nodes" /\ pc' = "node"
        /\ UNCHANGED <<call, doneNodes, failedNodes, registered, failures>>
    BY <1>6 DEF CollectNodes, Return, Goto, workers, nodes
  <2> QED  BY <2>1 DEF Advances, Undone, Patience, Phase, Scheduling, Ended
<1>7. CASE ExecuteNode
  <2>1. pc = "node" /\ pc' \in {"nodes", "node"} /\ call' = call
    BY <1>7, NodeShape
  <2>2. PICK n \in call.graph.tasks \ Ended : Ended' = Ended \cup {n}
    BY <1>7, <2>1, NodesStep DEF NodeEnds
  <2>3. Undone = call.graph.tasks \ Ended /\ Undone' = call.graph.tasks \ Ended'
    BY <2>1 DEF Undone, Scheduling
  <2>4. Shrinks(Undone', Undone)
    BY <2>2, <2>3 DEF Shrinks
  <2> QED  BY <2>4 DEF Advances
<1> QED  BY <1>1, <1>2, <1>3, <1>4, <1>5, <1>6, <1>7 DEF Step

LeftIsFinite ==
    pc # "idle" => IsFiniteSet(Undone) /\ IsFiniteSet(Patience) /\ IsFiniteSet(queue)

(* The three sets are finite, so no call advances for ever.                *)
LEMMA FiniteLeft ==
    ASSUME IsFiniteSet(Worker), TypeInv, SeatedInv
    PROVE  LeftIsFinite
<1> SUFFICES ASSUME pc # "idle"
             PROVE  IsFiniteSet(Undone) /\ IsFiniteSet(Patience) /\ IsFiniteSet(queue)
  BY DEF LeftIsFinite
<1>1. IsFiniteSet(call.graph.tasks)
  BY SchedulingConstants DEF TypeInv
<1>2. IsFiniteSet(Undone)
  BY <1>1, FS_Subset DEF Undone
<1>3. IsFiniteSet(registered) /\ IsFiniteSet(1..UnavailableAt)
  <2>1. 1 \in Int /\ UnavailableAt \in Int
    BY SchedulingConstants
  <2>2. IsFiniteSet(1..UnavailableAt)
    BY <2>1, FS_Interval
  <2> QED  BY <2>2, FS_Subset DEF TypeInv
<1>4. IsFiniteSet(Patience)
  BY <1>3, FS_Product, FS_Subset DEF Patience
<1> QED  BY <1>2, <1>4 DEF SeatedInv

(* What CallsEnd rests on: with finitely many workers, every step of a     *)
(* call of either runtime that does not end it completes or ends a task,   *)
(* or, no task being lost, uses up patience with a worker, or, neither     *)
(* being lost, goes on to the next phase or takes a task from the queue.   *)
(* While no task is completed, only an exception of a subscriber gives a   *)
(* worker its patience back, by hiding a success, and with it another try  *)
(* to the task: so only exceptions without end could keep execute_graph()  *)
(* (runtime.py:34) going.                                                  *)
THEOREM CallsAdvance ==
    ASSUME IsFiniteSet(Worker)
    PROVE  Spec => [][Advances]_vars /\ []LeftIsFinite
<1>1. TypeInv /\ OnceInv /\ NodesInv /\ SeatedInv /\ [Next]_vars
        => TypeInv' /\ OnceInv' /\ NodesInv' /\ SeatedInv'
  BY TypeStep, OnceStep, NodesStep, SeatedStep
<1>2. Init => TypeInv /\ OnceInv /\ NodesInv /\ SeatedInv
  BY TypeInit, OnceInit, NodesInit, SeatedInit
<1>3. TypeInv /\ SeatedInv => LeftIsFinite
  BY FiniteLeft
<1> QED  BY <1>1, <1>2, <1>3, AdvancesStep, PTL DEF Spec
=============================================================================
