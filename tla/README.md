# EAG: verification project

EAG is an "engineering operating system" in Python: it takes an engineering goal, obtains a
decision from a provider, and changes one workspace file under a chain of recorded human and
machine evidence. The code is synchronous. Concurrency comes from several processes that share
durable control roots (`fcntl.flock`), several threads that share a workspace or an audit root
(`threading.Lock`), other programs that edit the workspace, and from being killed or losing power
between two system calls. This directory holds TLA+ models of that part of the code, TLC
configurations, and proofs checked by TLAPS.

Paths below are relative to `src/src/eag/` of the repository tree.

## 1. Inventory

### The governed chain

| component | state it keeps | operations | hard behaviour | what makes it correct |
|---|---|---|---|---|
| six durable claim stores (`governed_session/ledger.py`, `governed_approval/store.py`, `governed_composition/store.py`, `governed_workspace/store.py`, `governed_transition_authorization/store.py`, `governed_transition_control/ledger.py`): one algorithm, six copies | one file per identity key, a lock file | `claim`, `read` | processes racing, failing system calls, kills, power loss | a key is granted once and durably; answers are never stale; records are never overwritten; the lock is always released |
| evidence gates (`governed_approval/gate.py`, `governed_composition/gate.py`, `governed_workspace/gate.py`) | none but their stores | `record`/`attest`, `validate` | evidence read in separate operations and used later | evidence on record stays on record |
| controlled sessions (`governed_session/gate.py`, `readiness.py`) and invoker (`governed_invocation/`) | replay ledger: activation claimed, session issued, session consumed | `create_session`, `consume_for_runtime_start`, `invoke` | two claims that are not atomic together; replayed sessions; reuse of `id(observer)` | one session and one start per activation; every start is vouched for |
| execution state machine (`governed_execution/`) | an immutable context with counters and an append-only ledger | `transition` | budgets that redirect a transition to a terminal state | the ledger the machine builds is one the model validators accept |
| governed runtime (`governed_runtime/runtime.py`) | context, iteration artifacts, previous authority; a lock per workspace | `execute` | two iterations, replanning, failure at every call, threads, edits by others | completed means charged and verified; results are on record; the call ends |
| mutation (`mutation/`, `chief/intelligence/gateway/mutation_*.py`) | the target file | `validate`, `authorize`, `mutate`, restore | check, write and read-back are separate file operations | own write verified, restore of own write only |
| audit (`governed_audit/`) | one immutable record per execution id | `append`, `get`, `list`, `find_by_evidence` | the same id twice; failure after the record is in place | the first record stays |
| file construction (`governed_file_construction/`, root handle in `governed_workspace/models.py`) | a one-shot descriptor | `construct`, `consume_for_g2_4_22`, `close` | another thread closing the descriptor; partial batches | receipts name what exists |
| transition authorization and control (`governed_transition_authorization/assessor.py`, `governed_transition_control/assessor.py`) | an authorization store and a control ledger, both claim stores | `assess` | two stores with different keys; lost answers and retries; receipts that expire | one human authorization controls at most one transition |
| evidence policies (`governed_artifact_readiness`, `governed_promotion`, `governed_destination_contract`, `governed_outcome_policy`, `governed_attestation_policy`, `governed_construction_work_order`) | none: immutable assessments, which callers keep | `assess` | callers choose which assessments, receipts and requests they present together | what a work order rests on is one chain of evidence |
| presentation (`governed_presentation`, `governed_visual_presentation`), activation admission (`governed_activation`) | none | views of assessments, an admission decision | none: pure functions of frozen values | agreement with their tables |

### The platform packages

| component | state it keeps | operations | hard behaviour | what makes it correct |
|---|---|---|---|---|
| command approval (`approval/`) and command execution (`execution/`) | the approval requests, shared by the threads of a process | `coordinate`, `approve`, `reject`, `expire`, `reserve`, `consume`, `release`; `CommandExecutor.execute` | the store's lock covers one `get`, `save` or `transition`, so operations interleave; some writes compare again, some do not | an approval starts one command, the approved one; a reservation has a holder |
| scheduling (`scheduler/`, `task_graph/`, `execution_graph/`) and `workers/` | a queue and result sets that outlive a call; worker states and failure counts | `execute_graph`, `execute`; `register`, `unregister`, `recover` | state left by an earlier call; failing tasks tried again; exceptions of event subscribers | dependency order; work is not repeated; workers come back; a call ends |
| events (`events/`) | subscriptions | `publish` | synchronous: a subscriber's exception reaches the publisher | the publishers survive it |
| `autonomous` | none that lasts: a result that its caller keeps | `run`, `resume` | cycle detection, a pause that can be resumed twice | a finite number of iterations |

The rest, `planner`, `workspace`, `changeset`, `vcs` and `safety` (files and git), `chief` (goals,
context, provider gateways) and the in-memory services (`registry`, `knowledge`, `memory`, `graph`,
`index`, `source`, `review`, `reflection`, `session`, `kernel`, `config`, `cli`, ...), are sequential
programs over in-memory data.

### How the parts interact

    evidence gates --claim--> stores <--read-- readiness + approval checks
                                  ^                    |
                                  +---claim/read-- session gate <-- invoker
                                                                      | execute()
    workspace file <--mutate-- mutation runtime <-- workflow <-- governed runtime --> audit store
         ^                                                            |
      editors, other processes                          execution state machine

    readiness -> promotion -> human receipt -> authorization (store) -> control (ledger)
                                                   |
                                  contract -> outcome policy -> attestation policy, work order

    policy -> coordinator -> approval store <-- deciders, other callers
                                  ^
                 command executor +      scheduler / execution graph -> workers -> event bus

All calls are synchronous; shared state is the files, the two kinds of lock, and in one process the
approval store and the workers.

## 2. Modules

| module | stands for | role |
|---|---|---|
| `ClaimOps` | the outcomes of `claim` and `read` on one key's entry | constant operators, used by `ClaimRegistry`, `SessionGate` and `EvidenceChain` |
| `ClaimRegistry` | the promise of a durable store: each call takes effect in one step | abstract specification |
| `ClaimStore` | the stores' algorithm, one step per system call | implements `ClaimRegistry` (property `ImplementsRegistry`) |
| `ActivationProtocol` | what the gates promise: sessions and starts on evidence that stands | abstract specification |
| `SessionGate` | evidence gates, readiness, session gate and invoker over atomic stores | composes six `ClaimOps` stores; implements `ActivationProtocol` (property `ImplementsProtocol`) |
| `LedgerOps` | transition table, budgets, `_advance` | constant operators, used by the next two |
| `ExecutionLedger` | `GovernedExecutionStateMachine.transition` on one context | state machine and its validator |
| `GovernedRuntime` | `execute()` with workflow, mutation runtime, verifier and audit | composes `LedgerOps` with the file, the lock and the audit store |
| `FileConstruction` | `construct()` and the root handle, one step per system call | state machine of the threads that share one handle |
| `ApprovalLifecycle` | command policy, approval manager and its store, `CommandExecutor.execute` | several threads of one process over one store |
| `EvidenceChain` | the eight `assess` operations between an artifact and a work order | composes two `ClaimOps` stores with the assessments that callers keep |
| `TaskScheduling` | both graph runtimes, queue, dispatcher, worker registry, manager, health and runtime | one call at a time over state that lasts |
| `MC*` | the small instances TLC checks | |
| `ClaimStoreProofs`, `SessionGateProofs`, `FileConstructionProofs`, `ExecutionLedgerProofs`, `GovernedRuntimeProofs`, `EvidenceChainProofs`, `ApprovalLifecycleProofs`, `TaskSchedulingProofs` | theorems about the module each is named for | |

**ClaimStore.** `file[k]` is the record file of key `k`: its content (a record, `Absent`, or `Torn`
for an empty or unparsable file) and whether it was synchronised; `lock` is the holder of
`flock(LOCK_EX)`; `pc` is the next system call of each process. `OpenLock`, `AcquireLock` and
`Return` are `_locked_root`; `ReadRecord` is `_read_unlocked` with the comparison in `claim`;
`CreateRecord`, `WriteRecord`, `SyncRecord` are the three system calls of `_write_unlocked`. Each
has its failing form (`LockUnavailable`, `RecordUnavailable`, `SyncUnavailable`). `Crash` drops a
process and its lock, `PowerLoss` all processes and perhaps everything unsynchronised. The
constant `NamesDurable` says whether `fsync` of a new file also persists its directory entry: the
code never synchronises the control root, so this is the file system's choice. The refinement
mapping lets a key count as free while a writer is between its exclusive open and its `fsync`:
`claim` takes effect when it succeeds, fails or dies.

`ClaimRegistry` is implemented under `NamesDurable` only. `ClaimOps` carries that hypothesis on:
`AfterPowerLoss` keeps every `firm` entry. So whatever `SessionGate` and `EvidenceChain` say across a
power loss is said of file systems on which the `fsync` of a new file persists its name as well;
elsewhere a grant can be lost (`claim_store_names`), and with it one start per activation and one
transition per authorization.

**SessionGate.** The three evidence stores and the three kinds of ledger entry are functions from
keys to entries of `ClaimOps`: `free`, `firm` (synchronised), `shaky` (complete but unconfirmed) or
`spoiled`. Identifiers that the code derives by digest from bindings are those bindings: a session
*is* its receipt, request and observer identity, so the field-by-field comparisons of the code are
equality. `create_session` is `BeginCreate`, `CheckCustody`, `CheckComposition`, `CheckApproval`,
`ClaimActivation`, `IssueSession`; `invoke` is `BeginInvoke`, `LookupIssued`, `ConsumeSession`,
`Dispatch`. A restart gives the process's observer any identity, including a used one, because
`_observer_identity` is built from `id()`. A session, once returned, is a value that can be
presented any number of times by any process. `Burned` is an activation claimed without a session,
`Forfeited` a session consumed without a run: what fails or dies between two durable steps is spent.

**ActivationProtocol** says the same without stores, claims, processes and restarts: a session
stands or does not (`vouched`), `Issue` and `Start` take a session that stands, each once for an
activation, evidence is added (`Vouch`), and only a power loss takes any away. The refinement maps
`vouched` to the sessions whose three pieces of evidence are on record at this moment and `lost` to
a power loss having happened; `IssueSession` and `Dispatch` are the two steps that take effect. It
is where three reads in different stores and a consumption that looks at none of them again become
evidence that stands.

**LedgerOps, ExecutionLedger.** A context is its state, three counters and its limits. `Advance` is
`_advance`: the requested target, or `failed` when the budget for entering the target is spent, with
the counters of the state actually entered. `ExecutionLedger` keeps the records and states the code's own validator as `LedgerValid`.

**GovernedRuntime.** One action per call that can fail or be interleaved: `Assemble`, `Decide`,
`Translate`, `Validate`, `Retry` (the workflow's second way into the mutation runtime), `Revalidate`,
`Capture`, `Replace`, `ReadBack`, `CheckRestore`, `Restore`, `VerifyPasses`/`VerifyFails`,
`Recover`, `Report`. `Fail` is any path to a `FAILED` context, `Raised` any path on which an
exception leaves `execute()`. Reaching `Escape` from a step stands for exceptions that nothing on
the way catches. A proposal may be `barred`: the policy rejects it for its size, content or path,
whatever the file holds, so that `ValidateFails` sends it to `Retry` and that rejects it again. `Edit`
is another program changing the target file, `Crash` the death of the process.

**FileConstruction.** The handle is `owner`, `handle`, `consumed` and `number`: what the descriptor
number denotes *now*, the workspace, nothing, or another directory the process opened after the
number was freed (`ReuseNumber`). `tree` holds the entries below each. `construct` is `Begin`,
`Authorize`, `Consume` or `ConsumeRefused`, then per file action `MakeDirectory` and
`OpenDirectory` for each directory of the path, `CreateFile`, `WriteFile`, `VerifyFile`, and the
`finally` clause `Return`, which closes the handle whoever the caller is. The root's number is
looked up at each use (`Directory`), a directory the thread opened stays what it was. Each system
call may fail (`Fail`), and `os.close` may raise past every `except` clause (`CloseRaises`). The
evidence relations of `_authorize` are one predicate of the request (`sound`).

**ApprovalLifecycle.** `store` holds the requests; `due` says which expiry times have passed
(`TimePasses`). The store's lock is held for one operation, so each manager operation is a read
(`Begin`, `Reread`) and a later write, with the clock read in between (`Lateness`): `Save`
overwrites whatever is there, `Swap` is the compare-and-set of `transition()`. `Coordinate` is the
policy decision and the new request. `BeginDecision` followed by `Approve`, `Reject` or `Expire` is
a decider; `Execute`, `Fetch`, `Reserve`, `Prepare`, `Run`, `Settle`, then `Consume`, or `GiveBack`
and `Release`, is one call of the executor, with the exception between reservation and start, the
command that cannot be launched and the timeout as outcomes. `CallDirectly` stands for other
callers of the public `consume()` and `release()`. Five histories say what happened: the saved
decisions (`verdict`), started commands (`runs`), reservations given back by a thread that held none
(`takenBack`), decisions saved on a stale read (`overruled`), and holders that raised (`abandoned`).

**EvidenceChain.** An assessment names its evidence by id and digest, so it is the record of what it
was issued for, and only favourable ones are kept, because every later stage refuses the others.
`AssessReadiness`, `AssessPromotion`, `Decide` (the human), `AssessAuthorization`, `AssessControl`,
`AssessContract`, `AssessOutcome`, `AssessAttestation` and `AssessWorkOrder` take any mixture of
what exists, and compare what the code compares: the promotion stage artifact and snapshot, not the
fingerprint; only the contract stage the destination of the eligibility. Authorization and control
claim in a store: the claim may fail, or succeed while its answer is lost. `Tick` lets evidence
expire, `PowerLoss` drops what no store synchronised. `DistinctIds` says whether approvers give each
receipt an id of its own, which nothing in the code enforces.

**TaskScheduling.** `ExecuteGraph`, `Collect`, `Dispatch`, `CloseBatch` and `Execute` are
`SchedulerRuntime.execute_graph()` with its queue, its batches and its result sets, which no call
clears; `ExecuteNodes`, `CollectNodes` and `ExecuteNode` are `ParallelExecutionRuntime.execute()`;
`Register`, `Unregister` and `Recover` happen between the calls. `Executions` enumerates what
`WorkerRuntime.execute()` can do: the worker's result, and a subscriber that raises on any of the
events, which may turn a success into a failure, count a failure twice, or leave the runtime
(`Escape`) with the worker still executing. A task of the queue that the current graph does not know
ends a call the same way.

Definitions whose names carry an underscore (`AcquireLock_Shared`, `Report_Replace`, ...) are faulty
forms of the definition that follows them. They take part in no specification; each is a plausible
bug that the property named with it in `PROJECT.json` detects.

## 3. Runs

| run | instance | what it shows |
|---|---|---|
| `claim_store` | 2 processes, 2 records, 2 keys, `NamesDurable`, fair | claims are exclusive and durable, dispositions current, records never overwritten, the lock always returned, the store linearizable |
| `claim_store_names` | one key, without `NamesDurable` | expected violation: a granted key granted again after a power loss |
| `session_gate` | 2 processes, 1 activation, 2 policies, 2 approvals, 1 observer identity, 1 power loss | one session and one start per activation, both on evidence that stands (the protocol); burned activations stay burned and consumed sessions without a run never run |
| `execution_ledger` | every combination of limits up to `MaxBudget` = 3 | every ledger `transition` can build is accepted by the validator; one mutation and one verification per iteration at most |
| `governed_runtime` | 2 threads, 1 request, 2 contents, 2 foreign edits, fair | the five properties of the runtime below, and that each call ends |
| `governed_runtime_approved`, `governed_runtime_restore` | 1 thread, the same otherwise | expected violations, see section 5 |
| `file_construction` | 2 threads with 2 calls each, plans of up to 2 files of which one path is a directory of the other, 1 foreign entry, fair | one call creates everything, dispositions and receipts are truthful, nothing is replaced, entries stray from the workspace only when another thread closed the handle, every call returns with the handle closed |
| `file_construction_root` | the same with 1 call each | expected violation: a file created outside the workspace |
| `approval_lifecycle` | 2 executor threads, of which one also decides, 1 thread that decides and calls `consume`/`release` itself, 1 approval, 3 commands | every started command is accounted for and is the approved one, decisions are kept, reservations have holders |
| `evidence_chain` | 3 fingerprints of 2 snapshots, 3 destinations, 2 authorization ids, 2 idempotency keys | one transition per authorization, whole chains, no late grant |
| `task_scheduling` | 2 workers, 3 tasks, 3 graphs that share tasks, 2 calls, 1 exception, fair | dependency order, no repeated work, workers come back, calls end |

Why the bounds are enough. *Two processes* give every pair of interleaved steps on a key, and the
lock makes a third wait like the second. *Two records* tell a repetition from a conflict, *two
keys* show that files are independent while the lock is shared. One activation suffices in
`session_gate` because ledger entries of different activations share no key; two policies are two
receipts that compete for it, and with two approval ids both can be approved at once and race from
the approval to the claim. All observer objects there have one identity, so that every restart
reuses it, which is the worst case; different identities are left to the proofs. One power loss separates what was durable from what was not; the
proofs cover any number. The runtime's own bound is two iterations. Two foreign edits are enough
for one between validation and retry and one between write and read-back, or for a change and its
reversal. In `file_construction` a path of three names walks two directories, the second call of
a thread meets a handle that is closed, consumed or another thread's, and the second action of a
plan meets what the first one made. In `approval_lifecycle` one approval suffices, as
requests share nothing; two executors race for its reservation while the others decide, expire
and take back, and three commands are one the policy allows and two it wants approved, of which one
is not the approved one. In `evidence_chain` two fingerprints of one snapshot are what promotion
cannot tell apart, the third belongs to another snapshot; two assessments of each stage can be mixed
up, and one tick separates evidence in force from expired evidence. In `task_scheduling` two calls
are a call and one that meets what the first has left, and the graphs give one task parents, other
parents or none; a worker is unavailable after two failures, so one failure can be made up for.
`MaxPowerLosses`, `MaxEdits`, `MaxCalls`, `MaxForeign`, `MaxActions`, `MaxBudget`, `MaxTakeBacks`,
`MaxNow`, `MaxIssued` and `MaxRaises` are the only bounds in guards or initial states.

`execution_ledger`, `governed_runtime`, `file_construction`, `approval_lifecycle`, `evidence_chain`
and `task_scheduling` do not check for deadlock: a terminal context, a call that has ended and a
chain whose evidence has expired really stop.

**Fairness.** `ClaimStore`, `GovernedRuntime`, `FileConstruction` and `TaskScheduling` assume weak
fairness of the steps of a call (of each process, or of the one caller's thread): whoever is inside
a call runs synchronous operations that return or raise. The other modules assume none and state no
liveness. Nobody
is forced to *enter* a call, and crashes, power losses, edits and failures are never fair. No
strong fairness is assumed: `LockReleased` and `Terminates` need only that a holder proceeds.
`Terminates` holds with weak fairness because each call takes the workspace lock once and the
number of calls is finite; it says nothing about starvation by an endless stream of callers, and
neither does the code.

**Properties of the runtime.** `CompletedIsCharged` (a completed context's counters equal the writes
that really happened), `OwnWriteStands` (between an execution's write and its verification no other
execution touches the file), `ResultAudited` (a returned result is on record, as it is),
`FirstRecordStays` (a second execution of a request cannot rewrite the record), `Terminates`.

**Properties of approvals.** `RunsAccounted`: as many commands start under an approval as approvals
were given: one, and one more for every foreign release and every decision saved on a stale read.
The code does not promise one; it promises nothing worse than this. `RunIsApproved`: from the
reservation to the end of the run the command is the approved one. `DecisionKept`: the decision stays
in the record of a reserved or consumed request. `ReservedHasHolder`: a reservation has a thread that
will settle it, or its holder raised before the start.

**Properties of the chain.** `OneTransition`, `ChainIsWhole` (a work order and an attestation policy
lead back to one receipt, the one the durable store holds, for an artifact and destination found
eligible) and `NoLateGrant` (a receipt that is spent without an answer never becomes authorized).

**Properties of scheduling.** `InOrder` (a task runs after its parents have succeeded, the tasks an
earlier call left behind excepted; a node after its parents have *ended*), `WorkedOnce` (work is
repeated only when an exception hid its success), `WorkersReturned` (until an exception leaves a
runtime, busy workers are exactly those of the batch), `CallsEnd`: although a failed task is ready
again at once, failures make its workers unavailable.

## 4. Proofs

TLAPS checks the following for every value of the constants that satisfies the assumption of the
module: `ClaimStoreConstants`, `SessionGateConstants`, `FileConstructionConstants`,
`LedgerConstants`, `GovernedRuntimeConstants`, `ApprovalConstants`, `ChainConstants`, `SchedulingConstants`.
They say that model values that mean "none" are not real values, that bounds are numbers, that ids
are numbers where the code sorts them, and that task graphs are finite and acyclic, which both
graph constructors enforce.

`ClaimStoreProofs`

- `TypeCorrect` and `DispositionsCurrent` (`AnswersCurrent`) from the invariant `LockedInv`.
  `AnswersCurrent` alone is not inductive: one must know that only the holder of the flock is in
  the locked block (`LockInv`), that a process in the block has a call (`CallInv`), and what a
  writer knows of its file (`WriterInv`).
- `GrantsOnce`: `OneGrant` and `GrantKept`, under the hypothesis `NamesDurable`. `GrantInv` adds
  that a granted record is synchronised in its file; hence a writer, which found no record, works
  on a key never granted (`WriterUngranted`). The run `claim_store_names` shows the hypothesis is
  needed.
- `RecordsNotOverwritten`: the action property `NoOverwrite`, under the same hypothesis.
- `StoreImplementsRegistry` (`ImplementsRegistry`): the refinement, under the same hypothesis. With `LockedInv` and what a caller has read (`RefInv`), every step maps to a step of
  `ClaimRegistry` or to a stutter: the successful or failed `fsync`, the failed write and the crash of
  a writer to a claim, a power loss to the registry's; at most one process is a writer, so no other
  key changes.
- `GrantsLostToPowerOnly`, without the hypothesis: a grant stands while its record is in its file;
  while it stands its key is not granted again, and only a power loss ends it. This bounds the
  finding of `claim_store_names`.
- `HolderNearsRelease`: the holder of the flock has at most four more system calls before it releases,
  and nobody else adds to them.

`SessionGateProofs`

- `TypeCorrect`.
- `StartsOnce`: `OneSession` and `StartOnce`. `StartInv` follows the chain of claims: a session
  exists only under a firm activation claim and a firm issue record; at most one process holds the
  right to issue (its activation claim is firm and no session exists yet) and at most one the right
  to dispatch (its session is firmly consumed and no run is recorded).
- `StartsAreVouched`: `StartIsVouched`, with `EvidenceInv`: what a process has checked on its way is
  still on record while no power was lost, because no store operation removes a record. The runs
  check it as part of the protocol.
- `GatesImplementProtocol` (`ImplementsProtocol`): the refinement, from the three invariants. A step
  of a gate adds evidence or leaves it (`EvidenceKept`), a power loss only takes some (`EvidenceLost`);
  the session being issued or started stands (`SessionsStand`).
- `IssuesOnce`: `OneSession` by itself, from the same invariant.
- `BurnedForGood`: the action property `StaysBurned`. For a consumed session without a run it takes
  `StartInv`: its activation has no other session that could start.

Of these, what is said across a power loss rests on `ClaimOps` keeping confirmed claims, that is on
`NamesDurable`. The same holds of `EvidenceChainProofs` below.

`FileConstructionProofs`

- `TypeCorrect`; its part `OnPath` says that a call is always at an action of its plan and within
  that action's path.
- `ConstructsOnce` (`OneConstruction`): `OneCall` adds that a creating call is the owner's and
  follows the one consumption, before which nothing was made.
- `StraysNeedOtherThread` (`StrayNeedsOtherThread`): `RootInv` adds that the number is the
  workspace's while the handle is open, and that a creating thread has not closed it.
  `OneThreadStaysInWorkspace`: hence with a single thread `EffectsInWorkspace` holds, which the run
  `file_construction_root` refutes for two.
- `CreatesOnly` (`CreateOnly`): `FileInv` says that the file a call is about to fill is still the
  unfinished one it created, because no other call creates anything.

- `OutcomesAreTruthful` (`OutcomeIsTruthful`) and `ReceiptsStayWhole` (`ReceiptedIsWhole`) from
  `ReportInv`: the receipts follow the plan, a call has an effect exactly when it made something, and
  it made the files of its receipts and at most the one it is at (`BatchInv`); the directories that
  lead to its place exist (`WalkedInv`); nothing that is whole or a directory changes (`TreeKeeps`).
- `ReturnsClose`: once any call has returned, refused ones included, the handle is closed and the call
  has its outcome. `OwnersCloseIsFinal`: after the owner's close nothing is created with the handle.
- `CallsGoOnward`: each step of a call is further in its plan, on its path, or in its action, and no
  other step takes it back.

`ExecutionLedgerProofs`

- `TypeCorrect`, `LedgerStaysValid` (`LedgerValid`) and `OneEffect` (`OneEffectPerIteration`), for
  every budget. A transition is abstracted to where it lands and what it counts; the validator's
  conditions are then inductive together with the types. `OneEffect` needs `PhaseInv`:
  verifications never pass mutations, mutations never pass iterations, and before and in a mutation
  one of the two is still owed.
- `LedgerIsBounded`: the length of a ledger is bounded by the iterations its limits allow, whatever
  transitions are asked for; the other two budgets do not matter for it.

`GovernedRuntimeProofs`

- `TypeCorrect`, `CompletedWasCharged`, `WritesStand` (`OwnWriteStands`), `ResultsAreAudited` and
  `RecordsStay` (`FirstRecordStays`). `RuntimeInv` says in which phase each call is and what it
  knows there (`CallInv`), and who may hold the lock (`LockInv`). Each step is one of four kinds: on
  the caller's own context, on the lock, on the file, on the records; another thread's step leaves
  the first alone, and the file is used by the holder of the lock only.
- `TransitionsAreLegal`: a step of `execute()` changes its context by at most two transitions of the
  machine. `CallsShrink`: each step leaves a call fewer steps, 25 at most, and nobody gives it more.
- What the two findings below leave: `OneUnchargedWrite` (a write without approval is the last a call
  makes, and such a call never completes), `UndisturbedWritesApproved` and `UndisturbedNeverRestores`
  (while no other program changes the file there is no such write, and nothing to restore). `QuietInv`
  says that a call then finds the file as it left it, which rests on the lock (`OneAtWork`).
- `SecondMutationIsFresh`: a second charged mutation is never made on the first one's repository context.

`EvidenceChainProofs`

- `TypeCorrect` and `NeverGrantedLate` (`NoLateGrant`).
- `ReceiptsControlOnce` and `ContractsRestOnRecord`, with nothing assumed of the approvers.
  `ChainInv` follows the chain: an authorization was issued on the receipt that is firmly in the
  store, a claimed transition on an authorization of its receipt's id, a contract on one that fits
  its receipt, and everything later on its contract. So an id is authorized once, a receipt
  controls one transition (the ledger's key, receipt and assessment, is the receipt alone), and a work
  order leads to a durable decision for its artifact and destination.
- Under `DistinctIds`, `ControlsOnce` (`OneTransition`) and `ChainsAreWhole` (`ChainIsWhole`): with
  `IdsDiffer` that decision is the receipt presented. Without the hypothesis TLC finds both violated:
  two receipts with one id can both be presented with the one authorization, or to a contract.

`ApprovalLifecycleProofs`

- `TypeCorrect`.
- `DecisionSurvives` (`DecisionKept`) and `RunsApprovedCommand` (`RunIsApproved`) from `CoreInv`: what a
  thread has read fits the stored request as far as its later write needs (`Fits`), unless a late
  decision or a foreign release has been counted.
- `RunsPaidFor` (`RunsAccounted`) from `UseInv`: the started commands, the holders that have not
  started one (`Users`, a finite set) and the availability of the stored request, one or none, never
  add up to more than one and what was counted. Only this sum is inductive: each of its terms moves to another.
- `UsedUpIsSpent` and `OneAtTheStart` from the same sum: an approval that has paid for its runs is of
  no further use to anybody, and two executors do not both get to the start of its command.
- `ReservationsHeld` (`ReservedHasHolder`), with what a holder is (`HolderInv`).

`TaskSchedulingProofs`

- `WorksOnce` (`WorkedOnce`) from `OnceInv`: a completed task is neither queued nor assigned, queue and
  batch name a task at most once, and a success that was not hidden completed its task.
- `RunsInOrder` (`InOrder`) from `OrderInv`: the queue and the batch hold tasks whose turn has come,
  and result sets only grow.
- `WorkersComeBack` (`WorkersReturned`) from `HeldInv`: the batch holds each busy worker once
  (`Holding`), which one more assignment and one less preserve. That dispatch chooses a free worker
  rests on the least element of a set of numbers (`LeastNumber`).
- `SchedulerStopsForAReason`: the scheduler returns with its graph completed, or with a queued task
  whose workers are all worn out. In an acyclic graph that is not completed some task is ready
  (`SomethingIsReady`: by the assumption every set of its tasks has one without a parent in the
  set), and between batches every worker is idle, so one that is not free is worn out (`NoneFree`).
- `NodesEndOnce` and `GraphIsExhausted`, the same of the execution graph's runtime: nodes end once
  (`NodesInv`), and it gives up on none.
- `CallsAdvance`: each step of a call that does not end it gains a completed task, uses up patience with
  a worker, or goes on to the next phase; the first two are finite (`LeftIsFinite`).

Each invariant was first checked by TLC. Only model-checked are the liveness properties
`LockReleased`, `Terminates`, `CallsReturn` and `CallsEnd` (liveness under fairness and `ENABLED` are
beyond the prover, as are inductions over data and RECURSIVE operators, of which the project has
none). What they rest on besides fairness is proved: `HolderNearsRelease`, `CallsShrink`,
`CallsGoOnward` and `CallsAdvance` each say that a call's own steps use up something that nobody else
gives back.

## 5. Where the code and its documentation differ

1. `claim_store_names`: `governed_session/ledger.py` calls itself durable but synchronises only the
   record file (line 260), not the control root; `governed_audit/store.py:128` does both.
2. `governed_runtime_approved`: after a policy rejection `mutation_workflow.py:143` runs
   `execute()` for the receipt; that validates again and can write, without `before_mutating` and
   with the context still `AUTHORIZING` (`runtime.py:511` promises approval before each effect).
3. `governed_runtime_restore`: `_conditional_restore` (`mutation/runtime.py:239`) compares with what
   was read back. It runs only when that is *not* what the mutation wrote, so what it restores over
   is another program's content; its docstring (line 234) says the opposite.
4. `file_construction_root`: `consume_for_g2_4_22` checks the thread a handle is local to, `close`
   (`governed_workspace/models.py:625`) does not, and `construct` closes the handle even when it
   refuses (`constructor.py:149`). A refused call from another thread frees the descriptor number
   under the constructing one; when another directory gets it, the remaining files are created
   there. `ARCHITECTURE.md:70` says files are created through the retained descriptor.

Observations without a run of their own:

- When the context factory raises (`governed_runtime/runtime.py:263`), the result model refuses the
  failed context for its missing artifact, so the call raises before any audit record exists.
- Two deciders with overlapping reads can save an approval over a reservation or a consumption, and the
  command runs again; a foreign `release()` has the same effect. `RunsAccounted` counts both.
- `governed_promotion/assessor.py` compares the readiness assessment with its request by artifact and
  snapshot id, not by fingerprint, so an eligibility can rest on the readiness of another artifact of
  the snapshot. `ChainIsWhole` therefore says "found eligible", not "found ready".
- A receipt at the moment of its expiry is refused by authorization and contract (`>=`) and accepted by
  control (`<`, `governed_transition_control/assessor.py:178`).
- The comment at `tests/test_execution_graph.py:219` expects a failed parent to hold its children back;
  `ParallelExecutionRuntime` counts it as completed under the continue policy.
- `governed_transition_control/ledger.py:82` says that control evidence is keyed "by a canonical
  idempotency key". Its key is `control_key`, the transition itself, and `models.py:140` there says that the
  idempotency key "is not a control-key authority". `ControlKey` follows the code; the docstring read
  literally is its faulty form `ControlKey_Idempotency`, which breaks `OneTransition`.
- A task that one call of the scheduler leaves in its queue is dispatched by the next one ahead of its
  parents, and if the next graph does not know it, `next()` raises (`scheduler/runtime.py:91`) with the
  workers of the batch still assigned. `InOrder` and `WorkersReturned` except both.
- A subscriber that always raises on `WorkerCompleted` makes the scheduler repeat work that was done.
- The scheduler's batch ends at the first queued task without a free worker, also for those behind it
  that have one.

## 6. Plan

Done, in the order of importance it was planned in: `ClaimStore`/`ClaimRegistry` and `SessionGate`;
`LedgerOps`/`ExecutionLedger`; `GovernedRuntime`; `FileConstruction`; `ApprovalLifecycle`;
`EvidenceChain`; `TaskScheduling`; each with its run and its proofs. What is left:

1. `AutonomousLoop`: iterations, cycle and oscillation detection, pause and resume over results that
   callers keep.
2. `AuditStore`: append with its temporary file, replace and directory `fsync`, kills and power loss,
   implementing an append-only map; then `GovernedRuntime` over that map.
3. `MutationAuthority`: an authorization value that is presented again.

## 7. Not modelled, and why

Presentation and visual presentation (layout), activation admission (a pure function of immutable
values), provider gateways and clients (I/O whose outcomes are the
inputs of `GovernedRuntime`), the platform's registries, indexes, source parsers, memory,
configuration, command line and logging (sequential data handling). Inside the modelled parts,
digests, identifiers, timestamps and messages are model values or left out; several target files
and several workspaces are left out of `GovernedRuntime` because proposals name one file and locks
are per workspace; expiry times of evidence are inputs that may or may not pass. The transition-control ledger's
`AMBIGUOUS` answer needs a record in a state that no code in the repository writes, so `ClaimStore`
does not have it. A handle inherited by a forked process, and directories that other programs rename
or remove while files are created in them, are left out of `FileConstruction`. In `EvidenceChain`
unsupported profiles, malformed fields and packaging checks are refusals and are not enumerated; the
custody and composition evidence of a work order is one value with its terms. In `ApprovalLifecycle`
output decoding, the environment and the allowed directories of a command are left out. In
`TaskScheduling` the matcher, delegation, metrics, `ArtifactGraph` and `topological_sort`, which
neither runtime uses, are left out, and so is calling a runtime from two threads: its state has no
lock and the code never shares it.
