--------------------------- MODULE TaskScheduling ---------------------------
(***************************************************************************)
(* Workers and the two runtimes that execute graphs of tasks with them:    *)
(* SchedulerRuntime (a priority queue and batches of assignments) and      *)
(* ParallelExecutionRuntime (batches of ready nodes).  Both run one task   *)
(* at a time on the caller's thread.  What makes them hard is what lasts:  *)
(* the scheduler keeps its queue and its completed and failed sets over    *)
(* several graphs, the manager keeps each worker's state, the health       *)
(* manager counts failures, and the event bus lets an exception of any     *)
(* subscriber pass through the runtime that published.                     *)
(***************************************************************************)
EXTENDS Naturals, Sequences, FiniteSets

CONSTANTS
    Worker, Task,       \* ids, as numbers: the code sorts by id
    Graph,              \* graphs that callers build: [tasks, edges]
    Priority,           \* of a task, 0 the most urgent
    Able, Prefers,      \* the workers that have, and prefer, the capability a task requires
    AbleNode, PrefersNode, \* the same of "python", which the execution graph asks for
    UnavailableAt,      \* consecutive failures that make a worker unavailable
    MaxCalls,           \* bound on calls of the runtimes
    MaxRaises           \* bound on exceptions of event subscribers

VARIABLES
    registered, state, failures,        \* the registry, the manager, the health manager
    queue, completed, failed,           \* SchedulerRuntime, over all its calls
    doneNodes, failedNodes,             \* ParallelExecutionRuntime, of its call
    pc, call, batch,                    \* the call that is running
    calls, raises,
    stale,      \* history: tasks that were queued when the call began
    worked,     \* history: how often a worker did a scheduler's task with success
    unseen,     \* history: how often that success did not reach the scheduler
    escaped     \* history: an exception has left a runtime

workers == <<registered, state, failures>>
scheduler == <<queue, completed, failed>>
nodes == <<doneNodes, failedNodes>>
running == <<pc, call, batch>>
history == <<stale, worked, unseen, escaped>>
vars == <<workers, scheduler, nodes, running, calls, raises, history>>

(* What the constructors of both graphs accept: known ends, no cycle.      *)
Acyclic(g) ==
    /\ g.edges \subseteq g.tasks \X g.tasks
    /\ \A S \in SUBSET g.tasks : S # {} => \E t \in S : \A p \in S : <<p, t>> \notin g.edges

ASSUME SchedulingConstants ==
    /\ Worker \subseteq Nat /\ Task \subseteq Nat
    /\ \A g \in Graph : g.tasks \subseteq Task /\ IsFiniteSet(g.tasks) /\ Acyclic(g)
    /\ Priority \in [Task -> 0..3]
    /\ Able \in [Task -> SUBSET Worker] /\ Prefers \in [Task -> SUBSET Worker]
    /\ AbleNode \subseteq Worker /\ PrefersNode \subseteq Worker
    /\ UnavailableAt \in Nat \ {0} /\ MaxCalls \in Nat /\ MaxRaises \in Nat

NoCall == [by |-> "nobody"]

Init ==
    /\ registered = Worker
    /\ state = [w \in Worker |-> "idle"] /\ failures = [w \in Worker |-> 0]
    /\ queue = {} /\ completed = {} /\ failed = {}
    /\ doneNodes = {} /\ failedNodes = {}
    /\ pc = "idle" /\ call = NoCall /\ batch = << >>
    /\ calls = 0 /\ raises = 0
    /\ stale = {} /\ worked = [t \in Task |-> 0] /\ unseen = [t \in Task |-> 0]
    /\ escaped = FALSE

-----------------------------------------------------------------------------
(* The task graph and the queue.                                           *)
Parents(t) == {p \in call.graph.tasks : <<p, t>> \in call.graph.edges}
Ready_Failed(done) ==                   \* faulty form: failed parents count as done
    {t \in call.graph.tasks \ done : Parents(t) \subseteq done \cup failed}
Ready_Again(done) ==                    \* faulty form: completed tasks come again
    {t \in call.graph.tasks : Parents(t) \subseteq done}
Ready(done) == {t \in call.graph.tasks \ done : Parents(t) \subseteq done}

Before(t, u) == Priority[t] < Priority[u] \/ (Priority[t] = Priority[u] /\ t < u)
First(Q) == CHOOSE t \in Q : \A u \in Q \ {t} : Before(t, u)

(* The manager: idle, healthy or degraded, and preferring if there is one. *)
Free(W) == {w \in W \cap registered : state[w] = "idle" /\ failures[w] < UnavailableAt}
LowestId(W) == CHOOSE w \in W : \A v \in W : w <= v
BestWorker(able, prefers) ==
    LowestId(IF Free(able) \cap prefers # {} THEN Free(able) \cap prefers ELSE Free(able))

(* WorkerRuntime.execute(): the worker's result and the subscribers' that  *)
(* raise.  One that raises on WorkerStarted leaves the worker executing.   *)
(* One that raises on WorkerCompleted turns any result into a failure, and *)
(* a failure is then counted twice.  One that raises on WorkerFailed or    *)
(* WorkerReleased raises out of the runtime, the worker being free again.  *)
Counted(f, success, onCompleted) ==
    (IF success THEN 0 ELSE f + 1) + (IF onCompleted THEN 1 ELSE 0)
Executions(f) ==
    {[worked |-> FALSE, success |-> FALSE, escapes |-> TRUE, state |-> "executing",
      failures |-> f, raises |-> 1]}
    \cup
    {[worked |-> s, success |-> s /\ ~c, escapes |-> r, state |-> "idle",
      failures |-> Counted(f, s, c),
      raises |-> (IF c THEN 1 ELSE 0) + (IF r THEN 1 ELSE 0)] : s, c, r \in BOOLEAN}

Apply_NoRelease(w, x) ==                \* faulty form: a failed worker is not released
    /\ raises + x.raises <= MaxRaises /\ raises' = raises + x.raises
    /\ state' = [state EXCEPT ![w] = IF x.success THEN x.state ELSE "executing"]
    /\ failures' = [failures EXCEPT ![w] = x.failures]
    /\ UNCHANGED registered
Apply_NoCount(w, x) ==                  \* faulty form: failures are not counted
    /\ raises + x.raises <= MaxRaises /\ raises' = raises + x.raises
    /\ state' = [state EXCEPT ![w] = x.state]
    /\ UNCHANGED <<registered, failures>>
Apply(w, x) ==
    /\ raises + x.raises <= MaxRaises /\ raises' = raises + x.raises
    /\ state' = [state EXCEPT ![w] = x.state]
    /\ failures' = [failures EXCEPT ![w] = x.failures]
    /\ UNCHANGED registered

Goto(step) == pc' = step /\ UNCHANGED call
Return == pc' = "idle" /\ call' = NoCall /\ batch' = << >> /\ UNCHANGED escaped
Escape == pc' = "idle" /\ call' = NoCall /\ batch' = << >> /\ escaped' = TRUE

-----------------------------------------------------------------------------
(* SchedulerRuntime.execute_graph().                                       *)
ExecuteGraph(g) ==
    /\ pc = "idle" /\ calls < MaxCalls
    /\ calls' = calls + 1
    /\ pc' = "collect" /\ call' = [by |-> "scheduler", graph |-> g] /\ batch' = << >>
    /\ stale' = queue
    /\ UNCHANGED <<workers, scheduler, nodes, raises, worked, unseen, escaped>>

(* The ready tasks are queued; an empty queue ends the call.               *)
Collect ==
    /\ pc = "collect"
    /\ queue' = queue \cup Ready(completed)
    /\ IF queue' = {} THEN Return ELSE Goto("dispatch") /\ UNCHANGED <<batch, escaped>>
    /\ UNCHANGED <<workers, completed, failed, nodes, calls, raises, stale, worked, unseen>>

(* The first task of the queue gets a worker ...                           *)
Dispatch ==
    /\ pc = "dispatch" /\ queue # {}
    /\ LET t == First(queue)
           w == BestWorker(Able[t], Prefers[t])
       IN /\ Free(Able[t]) # {}
          /\ state' = [state EXCEPT ![w] = "assigned"]
          /\ queue' = queue \ {t}
          /\ batch' = Append(batch, [task |-> t, worker |-> w])
    /\ Goto("dispatch")
    /\ UNCHANGED <<registered, failures, completed, failed, nodes, calls, raises, history>>

(* ... or stays, and the batch is complete: also for every task behind it. *)
CloseBatch ==
    /\ pc = "dispatch"
    /\ queue # {} => Free(Able[First(queue)]) = {}
    /\ IF batch = << >> THEN Return ELSE Goto("execute") /\ UNCHANGED <<batch, escaped>>
    /\ UNCHANGED <<workers, scheduler, nodes, calls, raises, stale, worked, unseen>>

(* One assignment of the batch.  A task that is not of this graph was left *)
(* in the queue by an earlier one: next() raises StopIteration, and every  *)
(* worker of the batch stays assigned.                                     *)
Execute ==
    /\ pc = "execute"
    /\ LET t == Head(batch).task
           w == Head(batch).worker
       IN \/ /\ t \notin call.graph.tasks
             /\ Escape
             /\ UNCHANGED <<workers, completed, failed, raises, worked, unseen>>
          \/ /\ t \in call.graph.tasks
             /\ \E x \in Executions(failures[w]) :
                   /\ Apply(w, x)
                   /\ worked' = [worked EXCEPT ![t] = IF x.worked THEN @ + 1 ELSE @]
                   /\ unseen' = [unseen EXCEPT ![t] =
                                   IF x.worked /\ (x.escapes \/ ~x.success) THEN @ + 1 ELSE @]
                   /\ completed' = completed \cup {u \in {t} : x.success /\ ~x.escapes}
                   /\ failed' = failed \cup {u \in {t} : ~x.success /\ ~x.escapes}
                   /\ IF x.escapes THEN Escape
                      ELSE /\ batch' = Tail(batch)
                           /\ Goto(IF Len(batch) = 1 THEN "collect" ELSE "execute")
                           /\ UNCHANGED escaped
    /\ UNCHANGED <<queue, nodes, calls, stale>>

-----------------------------------------------------------------------------
(* ParallelExecutionRuntime.execute(), with its failure policy.            *)
ExecuteNodes(g, policy) ==
    /\ pc = "idle" /\ calls < MaxCalls
    /\ calls' = calls + 1
    /\ pc' = "nodes" /\ call' = [by |-> "graph", graph |-> g, policy |-> policy]
    /\ batch' = << >> /\ doneNodes' = {} /\ failedNodes' = {}
    /\ UNCHANGED <<workers, scheduler, raises, history>>

(* A batch is what is ready when failed nodes count as completed.          *)
Ended == doneNodes \cup failedNodes
Stops == call.policy = "fail_fast" /\ failedNodes # {}
CollectNodes ==
    /\ pc = "nodes"
    /\ IF Stops \/ Ready(Ended) = {} THEN Return
       ELSE /\ batch' \in {b \in [1..Cardinality(Ready(Ended)) -> Ready(Ended)] :
                             \A i, j \in DOMAIN b : i < j => b[i] < b[j]}
            /\ Goto("node")
            /\ UNCHANGED escaped
    /\ UNCHANGED <<workers, scheduler, nodes, calls, raises, stale, worked, unseen>>

(* One node.  Without a worker it has failed, which does not yet stop a    *)
(* fail-fast batch.                                                        *)
ExecuteNode ==
    /\ pc = "node"
    /\ LET n == Head(batch)
           w == BestWorker(AbleNode, PrefersNode)
           Next_(stop) == /\ batch' = IF stop THEN << >> ELSE Tail(batch)
                          /\ Goto(IF stop \/ Len(batch) = 1 THEN "nodes" ELSE "node")
                          /\ UNCHANGED escaped
       IN \/ /\ Free(AbleNode) = {}
             /\ failedNodes' = failedNodes \cup {n}
             /\ Next_(FALSE)
             /\ UNCHANGED <<workers, doneNodes, raises>>
          \/ /\ Free(AbleNode) # {}
             /\ \E x \in Executions(failures[w]) :
                   /\ Apply(w, x)
                   /\ doneNodes' = doneNodes \cup {u \in {n} : x.success}
                   /\ failedNodes' = failedNodes \cup {u \in {n} : ~x.success}
                   /\ IF x.escapes THEN Escape
                      ELSE Next_(~x.success /\ call.policy = "fail_fast")
    /\ UNCHANGED <<scheduler, calls, stale, worked, unseen>>

-----------------------------------------------------------------------------
(* The registry and the health manager, between calls.                     *)
Register(w) ==
    /\ pc = "idle" /\ w \notin registered
    /\ registered' = registered \cup {w}
    /\ UNCHANGED <<state, failures, scheduler, nodes, running, calls, raises, history>>
Unregister(w) ==
    /\ pc = "idle" /\ w \in registered
    /\ registered' = registered \ {w}
    /\ UNCHANGED <<state, failures, scheduler, nodes, running, calls, raises, history>>
Recover(w) ==
    /\ pc = "idle"
    /\ failures' = [failures EXCEPT ![w] = 0]
    /\ UNCHANGED <<registered, state, scheduler, nodes, running, calls, raises, history>>

Step == Collect \/ Dispatch \/ CloseBatch \/ Execute \/ CollectNodes \/ ExecuteNode

Next ==
    \/ \E g \in Graph : ExecuteGraph(g)
    \/ \E g \in Graph, policy \in {"continue", "fail_fast"} : ExecuteNodes(g, policy)
    \/ Step
    \/ \E w \in Worker : Register(w) \/ Unregister(w) \/ Recover(w)

Spec == Init /\ [][Next]_vars /\ WF_vars(Step)

-----------------------------------------------------------------------------
(* A task the scheduler runs has all its parents done: not tried, not      *)
(* failed.  Only a task that an earlier call left in the queue may go      *)
(* ahead of its parents.  The execution graph's runtime promises less: the *)
(* parents of a node have ended.                                           *)
InOrder ==
    \A i \in DOMAIN batch :
        /\ pc \in {"dispatch", "execute"} =>
              \/ batch[i].task \in stale
              \/ Parents(batch[i].task) \subseteq completed
        /\ pc = "node" => Parents(batch[i]) \subseteq Ended

(* The work of a task is done once, over all graphs that name it: it is    *)
(* repeated only when a subscriber's exception hid the success.            *)
WorkedOnce == \A t \in Task : worked[t] <= 1 + unseen[t]

(* While the scheduler executes, a worker that is not idle holds one task  *)
(* of the batch, and between calls every worker is idle, unless an         *)
(* exception has left a runtime before (its workers are lost for good).    *)
Holders == {batch[i].worker : i \in DOMAIN batch}
WorkersReturned ==
    ~escaped =>
       /\ pc \in {"idle", "collect", "nodes", "node"} => \A w \in Worker : state[w] = "idle"
       /\ pc \in {"dispatch", "execute"} =>
             /\ Holders = {w \in Worker : state[w] # "idle"}
             /\ Cardinality(Holders) = Len(batch)

(* Every call ends, although the scheduler tries a failed task again and   *)
(* again: the failures make its workers unavailable, and only a finite     *)
(* number of successes resets their counts.                                *)
CallsEnd == (pc # "idle") ~> (pc = "idle")
=============================================================================
