-------------------------- MODULE FileConstruction --------------------------
(***************************************************************************)
(* Creating the files of a work order through a live workspace descriptor: *)
(* the custody gate hands out one WorkspaceCustodyRootHandle, and          *)
(* BoundedWorkspaceFileConstructor.construct() takes it, consumes it and   *)
(* makes the plan's files one after the other, stopping at the first       *)
(* failure and closing the handle on every way out.                        *)
(*                                                                         *)
(* Several threads of the process hold the handle.  A handle stands for a  *)
(* descriptor NUMBER: after close() the operating system may give the      *)
(* number to any other directory the process opens.  Another program may   *)
(* create entries in the same tree, and any system call may fail.          *)
(***************************************************************************)
EXTENDS Naturals, Sequences, SequencesExt

CONSTANTS Thread,      \* threads of the process that call construct()
          Paths,       \* relative paths a plan may name, as sequences of names
          MaxActions,  \* bound on the file actions of a plan
          MaxCalls,    \* bound on the construct() calls of each thread
          MaxForeign,  \* bound on the entries other programs create
          Nobody       \* no thread and no request

ASSUME FileConstructionConstants ==
    /\ Nobody \notin Thread
    /\ Paths \subseteq Seq(UNION {Range(path) : path \in Paths}) \ {<<>>}
    /\ MaxActions \in Nat \ {0} /\ MaxCalls \in Nat /\ MaxForeign \in Nat

VARIABLES
    owner,      \* the thread that acquired the handle, which is bound to it
    handle,     \* "none", "open" or "closed"
    consumed,   \* the handle's one consumption has happened
    number,     \* what the descriptor number now denotes: a tree, or "closed"
    tree,       \* the entries below each directory a number may denote
    pc, calls,  \* step of each thread, and how many calls it has begun
    request,    \* the authorization request of each thread's call
    action,     \* index of the file action under way
    depth,      \* how many directories of its path are open
    base,       \* the tree that the descriptor opened last belongs to
    started,    \* effect_started of the action under way
    receipts,   \* paths of the completed actions, in order
    outcome,    \* disposition of the thread's last call, "raised" without one
    made,       \* history: the entries created, with the call that made each
    closer,     \* history: the thread that closed the handle
    foreign     \* history: how many entries other programs have created

custody == <<owner, handle, consumed, number>>
local == <<request, action, depth, base, started, receipts, outcome>>
history == <<made, closer, foreign>>
vars == <<owner, handle, consumed, number, tree, pc, calls, request, action,
          depth, base, started, receipts, outcome, made, closer, foreign>>

Trees == {"workspace", "elsewhere"}
Entries == UNION {{SubSeq(path, 1, n) : n \in 1..Len(path)} : path \in Paths}
Contents == {"absent", "directory", "partial", "whole", "foreign"}

(* ConstructionActionPlan: at least one action, and no path twice.         *)
Plans == {plan \in UNION {[1..n -> Paths] : n \in 1..MaxActions} : IsInjective(plan)}

(* A request is sound when _authorize() finds its evidence unaltered,      *)
(* attested and bound to this plan, custody and handle, and the platform   *)
(* has the primitives.                                                     *)
Requests == [plan : Plans, sound : BOOLEAN]
Dispositions == {"none", "created", "partial", "refused", "raised"}
Steps == {"idle", "authorize", "consume", "directory", "open", "create",
          "write", "verify", "close"}

Creating == {"directory", "open", "create", "write", "verify"}

Call(t) == <<t, calls[t]>>

CallId == Thread \X (1..MaxCalls)
Made == [call : CallId, root : Trees, entry : Entries, kind : {"directory", "file"}]

Init ==
    /\ owner = Nobody
    /\ handle = "none"
    /\ consumed = FALSE
    /\ number = "closed"
    /\ tree = [r \in Trees |-> [e \in Entries |-> "absent"]]
    /\ pc = [t \in Thread |-> "idle"]
    /\ calls = [t \in Thread |-> 0]
    /\ request = [t \in Thread |-> Nobody]
    /\ action = [t \in Thread |-> 1]
    /\ depth = [t \in Thread |-> 0]
    /\ base = [t \in Thread |-> "closed"]
    /\ started = [t \in Thread |-> FALSE]
    /\ receipts = [t \in Thread |-> <<>>]
    /\ outcome = [t \in Thread |-> "none"]
    /\ made = {}
    /\ closer = Nobody
    /\ foreign = 0
-----------------------------------------------------------------------------

(* attest_and_acquire_root_handoff(): the custody store grants one claim   *)
(* for the workspace, and its winner gets the handle over the descriptor   *)
(* that admission opened; every other thread is refused.                   *)
AcquireHandle(t) ==
    /\ pc[t] = "idle" /\ owner = Nobody
    /\ owner' = t
    /\ handle' = "open"
    /\ number' = "workspace"
    /\ UNCHANGED <<consumed, tree, pc, calls, local, history>>

(* close(): the first one closes the descriptor and revokes the handle;    *)
(* any thread may call it.                                                 *)
CloseBy(t) ==
    IF handle = "open"
    THEN /\ handle' = "closed"
         /\ number' = "closed"
         /\ closer' = t
    ELSE UNCHANGED <<handle, number, closer>>

(* `with handle:` ends in the thread that acquired it.                     *)
LeaveHandle(t) ==
    /\ pc[t] = "idle" /\ owner = t /\ handle = "open"
    /\ CloseBy(t)
    /\ UNCHANGED <<owner, consumed, tree, pc, calls, local, made, foreign>>

(* construct() is called with a request and the handle.                    *)
Begin(t) ==
    /\ pc[t] = "idle" /\ handle # "none" /\ calls[t] < MaxCalls
    /\ \E q \in Requests : request' = [request EXCEPT ![t] = q]
    /\ calls' = [calls EXCEPT ![t] = @ + 1]
    /\ receipts' = [receipts EXCEPT ![t] = <<>>]
    /\ outcome' = [outcome EXCEPT ![t] = "none"]
    /\ pc' = [pc EXCEPT ![t] = "authorize"]
    /\ UNCHANGED <<custody, tree, action, depth, base, started, history>>

(* The call ends with a batch receipt; the finally clause comes next.      *)
Finish(t, disposition) ==
    /\ outcome' = [outcome EXCEPT ![t] = disposition]
    /\ pc' = [pc EXCEPT ![t] = "close"]

(* The evidence and the platform are looked at before the handle is.       *)
Authorize(t) ==
    /\ pc[t] = "authorize"
    /\ IF request[t].sound
       THEN pc' = [pc EXCEPT ![t] = "consume"] /\ UNCHANGED outcome
       ELSE Finish(t, "refused")
    /\ UNCHANGED <<custody, tree, calls, request, action, depth, base, started,
                   receipts, history>>

(* Mutant: the depth reached in the last action is not reset.              *)
StartAction_KeepsDepth(t, n) ==
    /\ action' = [action EXCEPT ![t] = n]
    /\ base' = [base EXCEPT ![t] = "closed"]
    /\ started' = [started EXCEPT ![t] = FALSE]
    /\ pc' = [pc EXCEPT ![t] = IF Len(request[t].plan[n]) = 1 THEN "create" ELSE "directory"]
    /\ UNCHANGED depth

(* _create_one_file() starts: its path is walked from the root descriptor. *)
StartAction(t, n) ==
    LET path == request[t].plan[n] IN
    /\ action' = [action EXCEPT ![t] = n]
    /\ depth' = [depth EXCEPT ![t] = 0]
    /\ base' = [base EXCEPT ![t] = "closed"]
    /\ started' = [started EXCEPT ![t] = FALSE]
    /\ pc' = [pc EXCEPT ![t] = IF Len(path) = 1 THEN "create" ELSE "directory"]

(* Mutant: an open handle is consumed again, and by any thread.            *)
Consume_Open(t) ==
    /\ pc[t] = "consume" /\ handle = "open"
    /\ consumed' = TRUE
    /\ StartAction(t, 1)
    /\ UNCHANGED <<owner, handle, number, tree, calls, request, receipts, outcome,
                   history>>

(* Mutant: consumption closes the handle before its number is used.        *)
Consume_Closes(t) ==
    /\ pc[t] = "consume"
    /\ handle = "open" /\ ~consumed /\ owner = t
    /\ consumed' = TRUE
    /\ CloseBy(t)
    /\ StartAction(t, 1)
    /\ UNCHANGED <<owner, tree, calls, request, receipts, outcome, made, foreign>>

(* consume_for_g2_4_22(), in one hold of the handle's lock: once, by the   *)
(* thread the handle was issued to, while it is open.                      *)
Consume(t) ==
    /\ pc[t] = "consume"
    /\ handle = "open" /\ ~consumed /\ owner = t
    /\ consumed' = TRUE
    /\ StartAction(t, 1)
    /\ UNCHANGED <<owner, handle, number, tree, calls, request, receipts, outcome,
                   history>>

ConsumeRefused(t) ==
    /\ pc[t] = "consume"
    /\ handle # "open" \/ consumed \/ owner # t
    /\ Finish(t, "refused")
    /\ UNCHANGED <<custody, tree, calls, request, action, depth, base, started,
                   receipts, history>>
-----------------------------------------------------------------------------
(* The action under way: its path, and the entry its next step is about.   *)
Path(t) == request[t].plan[action[t]]
Entry(t) == SubSeq(Path(t), 1, depth[t] + 1)

(* The directory the next call is relative to: the root's number is looked *)
(* up when it is used, a directory descriptor of the thread is its own.    *)
Directory(t) == IF depth[t] = 0 THEN number ELSE base[t]

(* The entry comes into being by thread t's call.                          *)
Make(t, content) ==
    /\ tree' = [tree EXCEPT ![Directory(t)][Entry(t)] = content]
    /\ made' = made \cup {[call |-> Call(t), root |-> Directory(t), entry |-> Entry(t),
                             kind |-> IF content = "directory" THEN "directory" ELSE "file"]}
    /\ started' = [started EXCEPT ![t] = TRUE]

Fail(t) ==
    /\ Finish(t, IF receipts[t] # <<>> \/ started[t] THEN "partial" ELSE "refused")
    /\ UNCHANGED <<custody, tree, calls, request, action, depth, base, started,
                   receipts, history>>

(* Mutant: a directory created does not count as an effect.                *)
MakeDirectory_NotStarted(t) ==
    /\ pc[t] = "directory"
    /\ \/ /\ Directory(t) \in Trees
          /\ tree' = [tree EXCEPT ![Directory(t)][Entry(t)] =
                         IF @ = "absent" THEN "directory" ELSE @]
          /\ made' = made \cup {m \in Made : /\ m.call = Call(t) /\ m.kind = "directory"
                                             /\ m.root = Directory(t) /\ m.entry = Entry(t)
                                             /\ tree[m.root][m.entry] = "absent"}
          /\ pc' = [pc EXCEPT ![t] = "open"]
          /\ UNCHANGED <<custody, calls, request, action, depth, base, started,
                         receipts, outcome, closer, foreign>>
       \/ Fail(t)

(* os.mkdir: an entry that exists is left for os.open to judge.            *)
MakeDirectory(t) ==
    /\ pc[t] = "directory"
    /\ \/ /\ Directory(t) \in Trees
          /\ IF tree[Directory(t)][Entry(t)] = "absent"
             THEN Make(t, "directory")
             ELSE UNCHANGED <<tree, made, started>>
          /\ pc' = [pc EXCEPT ![t] = "open"]
          /\ UNCHANGED <<custody, calls, request, action, depth, base, receipts,
                         outcome, closer, foreign>>
       \/ Fail(t)

(* os.open with O_DIRECTORY and O_NOFOLLOW, and fstat.                     *)
OpenDirectory(t) ==
    /\ pc[t] = "open"
    /\ \/ /\ Directory(t) \in Trees
          /\ tree[Directory(t)][Entry(t)] = "directory"
          /\ base' = [base EXCEPT ![t] = Directory(t)]
          /\ depth' = [depth EXCEPT ![t] = @ + 1]
          /\ pc' = [pc EXCEPT ![t] = IF depth[t] + 2 = Len(Path(t)) THEN "create"
                                                                   ELSE "directory"]
          /\ UNCHANGED <<custody, tree, calls, request, action, started, receipts,
                         outcome, history>>
       \/ Fail(t)

(* Mutant: the file is opened without O_EXCL.                              *)
CreateFile_Truncates(t) ==
    /\ pc[t] = "create"
    /\ \/ /\ Directory(t) \in Trees
          /\ tree[Directory(t)][Entry(t)] # "directory"
          /\ Make(t, "partial")
          /\ base' = [base EXCEPT ![t] = Directory(t)]
          /\ pc' = [pc EXCEPT ![t] = "write"]
          /\ UNCHANGED <<custody, calls, request, action, depth, receipts, outcome,
                         closer, foreign>>
       \/ Fail(t)

(* os.open with O_CREAT, O_EXCL and O_NOFOLLOW; TARGET_EXISTS is a failure *)
(* like any other.                                                         *)
CreateFile(t) ==
    /\ pc[t] = "create"
    /\ \/ /\ Directory(t) \in Trees
          /\ tree[Directory(t)][Entry(t)] = "absent"
          /\ Make(t, "partial")
          /\ base' = [base EXCEPT ![t] = Directory(t)]
          /\ pc' = [pc EXCEPT ![t] = "write"]
          /\ UNCHANGED <<custody, calls, request, action, depth, receipts, outcome,
                         closer, foreign>>
       \/ Fail(t)

(* Mutant: a short write is not continued.                                 *)
WriteFile_Short(t) ==
    /\ pc[t] = "write"
    /\ pc' = [pc EXCEPT ![t] = "verify"]
    /\ UNCHANGED <<custody, tree, calls, local, history>>

(* The content is written and synced, through the file's own descriptor.   *)
WriteFile(t) ==
    /\ pc[t] = "write"
    /\ \/ /\ tree' = [tree EXCEPT ![base[t]][Path(t)] = "whole"]
          /\ pc' = [pc EXCEPT ![t] = "verify"]
          /\ UNCHANGED <<custody, calls, local, history>>
       \/ Fail(t)

(* Regular, one link, and the content read back: the action has a receipt, *)
(* and the next action starts or the batch is complete.                    *)
VerifyFile(t) ==
    /\ pc[t] = "verify"
    /\ \/ /\ receipts' = [receipts EXCEPT ![t] = Append(@, Path(t))]
          /\ IF action[t] < Len(request[t].plan)
             THEN StartAction(t, action[t] + 1) /\ UNCHANGED outcome
             ELSE Finish(t, "created") /\ UNCHANGED <<action, depth, base, started>>
          /\ UNCHANGED <<custody, tree, calls, request, history>>
       \/ Fail(t)

(* os.close() of a file or directory descriptor raises, in a finally       *)
(* clause: no except clause is around it, and construct() raises.          *)
CloseRaises(t) ==
    /\ \/ pc[t] \in {"directory", "open", "create"} /\ depth[t] > 0
       \/ pc[t] \in {"write", "verify"}
    /\ Finish(t, "raised")
    /\ UNCHANGED <<custody, tree, calls, request, action, depth, base, started,
                   receipts, history>>

(* Mutant: a refused call leaves the handle open.                          *)
Return_RefusedKeeps(t) ==
    /\ pc[t] = "close"
    /\ IF outcome[t] = "refused" THEN UNCHANGED <<handle, number, closer>> ELSE CloseBy(t)
    /\ pc' = [pc EXCEPT ![t] = "idle"]
    /\ UNCHANGED <<owner, consumed, tree, calls, local, made, foreign>>

(* finally: handle.close(), and the batch receipt is returned.             *)
Return(t) ==
    /\ pc[t] = "close"
    /\ CloseBy(t)
    /\ pc' = [pc EXCEPT ![t] = "idle"]
    /\ UNCHANGED <<owner, consumed, tree, calls, local, made, foreign>>
-----------------------------------------------------------------------------
(* Another thread opens a directory and gets the number that is free.      *)
ReuseNumber ==
    /\ handle = "closed" /\ number = "closed"
    /\ number' = "elsewhere"
    /\ UNCHANGED <<owner, handle, consumed, tree, pc, calls, local, history>>

(* Another program creates an entry of the workspace.                      *)
CreateForeign(e, content) ==
    /\ foreign < MaxForeign
    /\ tree["workspace"][e] = "absent"
    /\ \A d \in Entries : IsStrictPrefix(d, e) => tree["workspace"][d] = "directory"
    /\ tree' = [tree EXCEPT !["workspace"][e] = content]
    /\ foreign' = foreign + 1
    /\ UNCHANGED <<custody, pc, calls, local, made, closer>>

Construct(t) ==
    \/ Authorize(t) \/ Consume(t) \/ ConsumeRefused(t)
    \/ MakeDirectory(t) \/ OpenDirectory(t) \/ CreateFile(t)
    \/ WriteFile(t) \/ VerifyFile(t) \/ CloseRaises(t)
    \/ Return(t)

Next ==
    \/ \E t \in Thread : AcquireHandle(t) \/ LeaveHandle(t) \/ Begin(t) \/ Construct(t)
    \/ ReuseNumber
    \/ \E e \in Entries, content \in {"foreign", "directory"} : CreateForeign(e, content)

(* A call, once begun, runs in a thread the operating system schedules.    *)
Spec == Init /\ [][Next]_vars /\ \A t \in Thread : WF_vars(Construct(t))
-----------------------------------------------------------------------------

(* A call that creates files is at an action of its plan, and as deep as   *)
(* its step says on that action's path.                                    *)
OnPath(t) ==
    /\ action[t] <= Len(request[t].plan)
    /\ depth[t] < Len(Path(t))
    /\ pc[t] \in {"create", "write", "verify"} <=> depth[t] + 1 = Len(Path(t))
    /\ depth[t] > 0 \/ pc[t] \in {"write", "verify"} => base[t] \in Trees

(* Every variable has its type.                                            *)
TypeOK ==
    /\ owner \in Thread \cup {Nobody}
    /\ handle \in {"none", "open", "closed"}
    /\ consumed \in BOOLEAN
    /\ number \in Trees \cup {"closed"}
    /\ tree \in [Trees -> [Entries -> Contents]]
    /\ pc \in [Thread -> Steps]
    /\ calls \in [Thread -> 0..MaxCalls]
    /\ request \in [Thread -> Requests \cup {Nobody}]
    /\ action \in [Thread -> 1..MaxActions]
    /\ depth \in [Thread -> Nat]
    /\ base \in [Thread -> Trees \cup {"closed"}]
    /\ started \in [Thread -> BOOLEAN]
    /\ receipts \in [Thread -> Seq(Paths)]
    /\ outcome \in [Thread -> Dispositions]
    /\ made \subseteq Made
    /\ closer \in Thread \cup {Nobody}
    /\ foreign \in 0..MaxForeign
    /\ \A t \in Thread : pc[t] # "idle" => request[t] \in Requests /\ calls[t] # 0
    /\ \A t \in Thread : pc[t] \in Creating => OnPath(t)

(* construct(), consume_for_g2_4_22(): however often and from however many *)
(* threads construct() is called, one call creates everything.             *)
OneConstruction == \A m, n \in made : m.call = n.call

MadeBy(t) == {m \in made : m.call = Call(t)}

(* construct(), ConstructionBatchReceipt: the disposition a call returns   *)
(* says what it did: refused when it created nothing, partial when it      *)
(* created something and stopped, created when every file of the plan is   *)
(* there; and the receipts are a prefix of the plan, all of whose files    *)
(* the call made, followed by at most the file at which it stopped.  (A    *)
(* call that raises returns no receipt at all.)                            *)
OutcomeIsTruthful ==
    \A t \in Thread : outcome[t] \notin {"none", "raised"} =>
        LET plan == request[t].plan
            done == receipts[t]
            files == {m.entry : m \in {f \in MadeBy(t) : f.kind = "file"}}
        IN  /\ outcome[t] = "refused" <=> MadeBy(t) = {}
            /\ outcome[t] = "created" <=> done = plan
            /\ IsPrefix(done, plan)
            /\ Range(done) \subseteq files
            /\ files \subseteq {plan[i] : i \in DOMAIN plan \cap 1..(Len(done) + 1)}

(* _create_one_file(): a receipt's file is whole in the directory the      *)
(* call made it in, with the directories that lead to it.                  *)
ReceiptedIsWhole ==
    \A t \in Thread : \A i \in DOMAIN receipts[t] : \E m \in MadeBy(t) :
        /\ m.entry = receipts[t][i] /\ m.kind = "file"
        /\ tree[m.root][m.entry] = "whole"
        /\ \A d \in Entries : IsStrictPrefix(d, m.entry) => tree[m.root][d] = "directory"

(* handle.close() in the finally clause: while only the constructing       *)
(* thread closes the handle, nothing is created outside the workspace.     *)
StrayNeedsOtherThread ==
    \A m \in made : m.root # "workspace" => closer \notin {m.call[1], Nobody}

(* _create_one_file() is create-only: an entry some other program made,    *)
(* a directory or a completed file is never replaced or removed.           *)
CreateOnly ==
    [][\A r \in Trees, e \in Entries :
          tree[r][e] \notin {"absent", "partial"} => tree'[r][e] = tree[r][e]]_vars

(* construct(): every call returns, and the handle it was given is closed. *)
CallsReturn ==
    \A t \in Thread : pc[t] # "idle" ~> pc[t] = "idle" /\ handle = "closed" /\ outcome[t] # "none"

(* ARCHITECTURE.md:70 says that the files are created "through the         *)
(* retained descriptor", that is, in the workspace custody was taken of.   *)
EffectsInWorkspace == \A m \in made : m.root = "workspace"
=============================================================================
