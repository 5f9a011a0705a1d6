--------------------------- MODULE GovernedRuntime ---------------------------
(***************************************************************************)
(* GovernedEngineeringExecutionRuntime.execute() with the workflow, the    *)
(* mutation runtime, the verifier and the required audit store it drives:  *)
(* at most two serial iterations of assemble, decide, translate,           *)
(* authorize, mutate, verify and replan on one workspace file.             *)
(*                                                                         *)
(* The threads of one process share a lock per workspace.  Editors and     *)
(* other processes do not take it: Edit changes the file between any two   *)
(* file operations.  Calls out of the runtime (factories, the gateway,     *)
(* event handlers) may raise, file operations may fail, and the process    *)
(* may be killed.                                                          *)
(***************************************************************************)
EXTENDS LedgerOps, Sequences

CONSTANTS Exec,      \* calls of execute(), each by a thread of its own
          Request,   \* requests: an execution id with its goal and policy
          Content,   \* contents (fingerprints) the target file may have
          Missing,   \* the target file does not exist
          Nobody,    \* no holder of the lock, no record, no authority, no thread
          MaxEdits   \* bound on the changes other programs make to the file

(* Two iterations, mutations and verifications (GovernedExecutionRequest).  *)
Two == [iterations |-> 2, mutations |-> 2, verifications |-> 2]

Contexts == [state : States, iteration : 0..2, mutations : 0..2, verifications : 0..2,
             limits : {Two}]

(* A record of the audit store: who recorded which terminal context.       *)
Envelopes == [by : Exec, context : Contexts]

ASSUME GovernedRuntimeConstants ==
    /\ Missing \notin Content
    /\ Nobody \notin Exec \cup Envelopes
    /\ MaxEdits \in Nat

VARIABLES file,     \* the target file
          writer,   \* history: the last to change it, Nobody for other programs
          edits,    \* history: changes made by other programs
          lock,     \* holder of the workspace lock
          pc,       \* the next step of each call
          ctx,      \* its GovernedExecutionContext
          job,      \* its local values
          audit     \* the audit store, by execution id

vars == <<file, writer, edits, lock, pc, ctx, job, audit>>

Target == Content \cup {Missing}
Working == {"assemble", "decide", "translate", "validate", "retry", "mutate",
            "capture", "replace", "readback", "check", "restore", "verify",
            "recover", "report"}
Ended == {"returned", "raised", "killed"}

(* request     what execute() was called with                              *)
(* context     fingerprint of the assembled context                        *)
(* op, content the proposal; expected its precondition                     *)
(* barred      the policy rejects the proposal for what it is              *)
(* before      the bytes captured for a restore                            *)
(* observed    the post-state read back                                    *)
(* previous    authority of the first iteration: its context and content   *)
(* artifacts   iteration artifacts collected for the result                *)
(* writes      history: replacements of the file by this call's mutations  *)
Idle == [request |-> Nobody, context |-> Missing, op |-> "modify", content |-> Missing,
         barred |-> FALSE, expected |-> Missing, before |-> Missing, observed |-> Missing,
         previous |-> Nobody, artifacts |-> 0, writes |-> 0]

(* What outlives the iterations; the other local values are gone.          *)
Closed(j) ==
    [Idle EXCEPT !.request = j.request, !.artifacts = j.artifacts, !.writes = j.writes]

Init ==
    /\ file \in Target
    /\ writer = Nobody
    /\ edits = 0
    /\ lock = Nobody
    /\ pc = [e \in Exec |-> "ready"]
    /\ ctx = [e \in Exec |-> Created(Two)]
    /\ job = [e \in Exec |-> Idle]
    /\ audit = [r \in Request |-> Nobody]

-----------------------------------------------------------------------------
Goto(e, step) == pc' = [pc EXCEPT ![e] = step]

(* Transitions of e's context through two or more states in one step.      *)
Moved(e, target) == ctx' = [ctx EXCEPT ![e] = Advance(@, target)]
MovedVia(e, s, target) == ctx' = [ctx EXCEPT ![e] = Advance(Advance(@, s), target)]

Close(e) == job' = [job EXCEPT ![e] = Closed(@)]

(* execute() is left by an exception: the `with` releases the lock.        *)
Raised(e) == Goto(e, "raised") /\ lock' = Nobody /\ Close(e)

(* The execution ends with a terminal context, to be reported.             *)
Finish(e, state) ==
    Goto(e, "report") /\ Moved(e, state) /\ Close(e) /\ UNCHANGED lock

Fail(e) == Finish(e, "failed")

Continue(e, step) == Goto(e, step) /\ UNCHANGED <<lock, ctx, job>>

(* The policy accepts the proposal for a target file in state f: it is not *)
(* barred, and the file is as the proposal expects it.                     *)
Fits(j, f) == ~ j.barred /\ j.expected = f /\ (j.op = "create" <=> f = Missing)

-----------------------------------------------------------------------------
(* execute() is called; the audit preflight passes or raises.              *)
Begin(e) ==
    /\ pc[e] = "ready"
    /\ \E r \in Request : job' = [job EXCEPT ![e].request = r]
    /\ \E step \in {"acquire", "raised"} : Goto(e, step)
    /\ UNCHANGED <<file, writer, edits, lock, ctx, audit>>

Acquire_Unlocked(e) ==        \* faulty form: one lock per runtime instance
    /\ pc[e] = "acquire"
    /\ lock' = e
    /\ Goto(e, "assemble")
    /\ Moved(e, "context_assembling")
    /\ UNCHANGED <<file, writer, edits, job, audit>>

(* The workspace lock is taken and the first iteration entered.            *)
Acquire(e) ==
    /\ pc[e] = "acquire"
    /\ lock = Nobody
    /\ lock' = e
    /\ Goto(e, "assemble")
    /\ Moved(e, "context_assembling")
    /\ UNCHANGED <<file, writer, edits, job, audit>>

(* A fresh context of the repository as it is now; before_deciding.        *)
Assemble(e) ==
    /\ pc[e] = "assemble"
    /\ job' = [job EXCEPT ![e].context = file, ![e].artifacts = @ + 1]
    /\ MovedVia(e, "planning", "deciding")
    /\ Goto(e, "decide")
    /\ UNCHANGED <<file, writer, edits, lock, audit>>

(* The context or request factory raises: a failed context, no artifact.   *)
AssembleFails(e) ==
    /\ pc[e] = "assemble"
    /\ Fail(e)
    /\ UNCHANGED <<file, writer, edits, audit>>

(* The gateway answers with one mutation intent; before_proposing.  Its    *)
(* content may be too large or sensitive, or its path protected.           *)
Decide(e) ==
    /\ pc[e] = "decide"
    /\ \E op \in {"create", "modify"}, c \in Content, b \in BOOLEAN :
          job' = [job EXCEPT ![e].op = op, ![e].content = c, ![e].barred = b]
    /\ Moved(e, "proposing")
    /\ Goto(e, "translate")
    /\ UNCHANGED <<file, writer, edits, lock, audit>>

(* A provider failure, an invalid or rejected decision.                    *)
DecideFails(e) ==
    /\ pc[e] = "decide"
    /\ Fail(e)
    /\ UNCHANGED <<file, writer, edits, audit>>

(* The translator reads the target for the precondition;                   *)
(* before_authorizing.                                                     *)
Translate(e) ==
    /\ pc[e] = "translate"
    /\ job' = [job EXCEPT ![e].expected = file]
    /\ Moved(e, "authorizing")
    /\ Goto(e, "validate")
    /\ UNCHANGED <<file, writer, edits, lock, audit>>

TranslateFails(e) ==
    /\ pc[e] = "translate"
    /\ Fail(e)
    /\ UNCHANGED <<file, writer, edits, audit>>

(* validate_fresh_authority(): the second iteration must not rest on the   *)
(* context or the decision of the first; the same content may or may not   *)
(* come from a decision with the same digest.                              *)
Stale(j) ==
    IF j.previous = Nobody THEN {FALSE}
    ELSE IF j.previous.context = j.context THEN {TRUE}
    ELSE IF j.previous.content = j.content THEN BOOLEAN
    ELSE {FALSE}

(* The workflow validates the proposal, authorizes it and asks             *)
(* before_mutating, which raises FreshIterationAuthorityError for a stale  *)
(* authority.                                                              *)
Validate(e) ==
    /\ pc[e] = "validate"
    /\ Fits(job[e], file)
    /\ \E stale \in Stale(job[e]) :
          IF stale THEN Raised(e) /\ UNCHANGED ctx
                   ELSE Goto(e, "mutate") /\ Moved(e, "mutating") /\ UNCHANGED <<lock, job>>
    /\ UNCHANGED <<file, writer, edits, audit>>

(* MutationPolicyError, for the proposal itself or for the file's state:   *)
(* the workflow asks the mutation runtime to execute the proposal for its  *)
(* rejection receipt.                                                      *)
ValidateFails(e) ==
    /\ pc[e] = "validate"
    /\ ~ Fits(job[e], file)
    /\ Goto(e, "retry")
    /\ UNCHANGED <<file, writer, edits, lock, ctx, job, audit>>

(* GovernedMutationRuntime.execute() validates again; what is valid by now *)
(* it authorizes and mutates, whatever state the context is in.  A barred  *)
(* proposal is rejected again.                                             *)
Retry(e) ==
    /\ pc[e] = "retry"
    /\ IF Fits(job[e], file) THEN Continue(e, "mutate") ELSE Fail(e)
    /\ UNCHANGED <<file, writer, edits, audit>>

(* mutate(): the policy validates once more and the authorization, issued  *)
(* for this very proposal, is consumed.                                    *)
Revalidate(e) ==
    /\ pc[e] = "mutate"
    /\ IF Fits(job[e], file) THEN Continue(e, "capture") ELSE Fail(e)
    /\ UNCHANGED <<file, writer, edits, audit>>

(* before = target.read_bytes(), which raises if the file is gone by now;  *)
(* a file to be created is not read.                                       *)
Capture(e) ==
    /\ pc[e] = "capture"
    /\ IF job[e].op = "modify" /\ file = Missing
       THEN Raised(e)
       ELSE /\ Goto(e, "replace")
            /\ job' = [job EXCEPT ![e].before = IF job[e].op = "create" THEN Missing ELSE file]
            /\ UNCHANGED lock
    /\ UNCHANGED <<file, writer, edits, ctx, audit>>

(* os.replace(): from here on the write is done.                           *)
Replace(e) ==
    /\ pc[e] = "replace"
    /\ file' = job[e].content
    /\ writer' = e
    /\ job' = [job EXCEPT ![e].writes = @ + 1]
    /\ Goto(e, "readback")
    /\ UNCHANGED <<edits, lock, ctx, audit>>

(* OSError before os.replace(): a FAILED receipt, the file untouched.      *)
ReplaceFails(e) ==
    /\ pc[e] = "replace"
    /\ Fail(e)
    /\ UNCHANGED <<file, writer, edits, audit>>

Differs(e) ==
    /\ Goto(e, "check")
    /\ job' = [job EXCEPT ![e].observed = file]
    /\ UNCHANGED <<lock, ctx>>

ReadBack_AnyState(e) ==       \* faulty form: verifies whatever state it is in
    /\ pc[e] = "readback"
    /\ IF file = Missing THEN Fail(e)
       ELSE IF file # job[e].content THEN Differs(e)
       ELSE Goto(e, "verify") /\ Moved(e, "verifying") /\ UNCHANGED <<lock, job>>
    /\ UNCHANGED <<file, writer, edits, audit>>

(* The post-state is read back.  A COMPLETED receipt takes the runtime to  *)
(* VERIFYING, which is illegal, and raises, if before_mutating was never   *)
(* asked.                                                                  *)
ReadBack(e) ==
    /\ pc[e] = "readback"
    /\ IF file = Missing THEN Fail(e)
       ELSE IF file # job[e].content THEN Differs(e)
       ELSE IF "verifying" \in LegalTargets(ctx[e].state)
       THEN Goto(e, "verify") /\ Moved(e, "verifying") /\ UNCHANGED <<lock, job>>
       ELSE Raised(e) /\ UNCHANGED ctx
    /\ UNCHANGED <<file, writer, edits, audit>>

(* OSError from the read-back or a handler: a FAILED receipt over a file   *)
(* that has been replaced.                                                 *)
ReadBackFails(e) ==
    /\ pc[e] = "readback"
    /\ Fail(e)
    /\ UNCHANGED <<file, writer, edits, audit>>

(* _conditional_restore(): is the target still what was read back?         *)
CheckRestore(e) ==
    /\ pc[e] = "check"
    /\ IF file = job[e].observed THEN Continue(e, "restore") ELSE Fail(e)
    /\ UNCHANGED <<file, writer, edits, audit>>

(* ... then the file is unlinked or the captured bytes are written back;   *)
(* a handler of MutationFailed may still raise.                            *)
Restore(e) ==
    /\ pc[e] = "restore"
    /\ file' = job[e].before
    /\ writer' = e
    /\ \/ Fail(e)
       \/ Raised(e) /\ UNCHANGED ctx
    /\ UNCHANGED <<edits, audit>>

(* An OSError of the restore leaves the file and gives up.                 *)
RestoreFails(e) ==
    /\ pc[e] \in {"check", "restore"}
    /\ Fail(e)
    /\ UNCHANGED <<file, writer, edits, audit>>

(* The verifier passes the proposed content; the objective is satisfied.   *)
VerifyPasses(e) ==
    /\ pc[e] = "verify"
    /\ file = job[e].content
    /\ Finish(e, "completed")
    /\ UNCHANGED <<file, writer, edits, audit>>

VerifyFails_Again(e) ==       \* faulty form: every failure is recoverable
    /\ pc[e] = "verify"
    /\ Goto(e, "recover") /\ Moved(e, "reflecting")
    /\ UNCHANGED <<file, writer, edits, lock, job, audit>>

(* Another content, or one that cannot be read: the first iteration        *)
(* reflects, the second fails.                                             *)
VerifyFails(e) ==
    /\ pc[e] = "verify"
    /\ IF ctx[e].iteration = 1
       THEN Goto(e, "recover") /\ Moved(e, "reflecting") /\ UNCHANGED <<lock, job>>
       ELSE Fail(e)
    /\ UNCHANGED <<file, writer, edits, audit>>

(* Reflection and replanning succeed: the next iteration starts, with the  *)
(* authority of this one to be compared with.                              *)
Recover(e) ==
    /\ pc[e] = "recover"
    /\ MovedVia(e, "replanning", "context_assembling")
    /\ job' = [job EXCEPT ![e] =
                  [Closed(@) EXCEPT !.previous = [context |-> job[e].context,
                                                  content |-> job[e].content]]]
    /\ Goto(e, "assemble")
    /\ UNCHANGED <<file, writer, edits, lock, audit>>

(* Reflection, the adaptive planner or the replanning policy fails.        *)
RecoverFails(e) ==
    /\ pc[e] = "recover"
    /\ \/ Fail(e)
       \/ /\ MovedVia(e, "replanning", "failed")
          /\ Goto(e, "report") /\ Close(e)
          /\ UNCHANGED lock
    /\ UNCHANGED <<file, writer, edits, audit>>

-----------------------------------------------------------------------------
(* _terminal_result() *)

(* GovernedExecutionResult accepts one artifact per iteration.             *)
ResultAccepted(e) == job[e].artifacts = ctx[e].iteration

Envelope(e) == [by |-> e, context |-> ctx[e]]

Report_Swallow(e) ==          \* faulty form: a failed append does not matter
    /\ pc[e] = "report" /\ ResultAccepted(e)
    /\ \E r \in {audit[job[e].request], Envelope(e)} :
          audit' = [audit EXCEPT ![job[e].request] = IF @ = Nobody THEN r ELSE @]
    /\ Goto(e, "returned")
    /\ lock' = Nobody
    /\ UNCHANGED <<file, writer, edits, ctx, job>>

Report_Replace(e) ==          \* faulty form: the last record wins
    /\ pc[e] = "report" /\ ResultAccepted(e)
    /\ audit' = [audit EXCEPT ![job[e].request] = Envelope(e)]
    /\ Goto(e, "returned")
    /\ lock' = Nobody
    /\ UNCHANGED <<file, writer, edits, ctx, job>>

(* The result is recorded, and only then returned.                         *)
Report(e) ==
    /\ pc[e] = "report" /\ ResultAccepted(e)
    /\ audit[job[e].request] = Nobody
    /\ audit' = [audit EXCEPT ![job[e].request] = Envelope(e)]
    /\ Goto(e, "returned")
    /\ lock' = Nobody
    /\ UNCHANGED <<file, writer, edits, ctx, job>>

(* The result is refused; the execution id is taken by another record; or  *)
(* the append fails, before or after os.replace() has put the record in    *)
(* place.                                                                  *)
ReportFails(e) ==
    /\ pc[e] = "report"
    /\ \/ UNCHANGED audit
       \/ /\ ResultAccepted(e) /\ audit[job[e].request] = Nobody
          /\ audit' = [audit EXCEPT ![job[e].request] = Envelope(e)]
    /\ Raised(e)
    /\ UNCHANGED <<file, writer, edits, ctx>>

-----------------------------------------------------------------------------
(* The environment. *)

Escape_KeepsLock(e) ==        \* faulty form: released only on return
    /\ pc[e] \in Working \ {"report"}
    /\ Goto(e, "raised")
    /\ UNCHANGED <<file, writer, edits, lock, ctx, job, audit>>

(* An exception nothing on the way catches: a binding the factories got    *)
(* wrong, a gateway or an event handler that raises, an unreadable file    *)
(* outside the guarded block, a specification or a replanning input that   *)
(* cannot be built, a second iteration that is not fresh.                  *)
Escape(e) ==
    /\ pc[e] \in Working \ {"report"}
    /\ Raised(e)
    /\ UNCHANGED <<file, writer, edits, ctx, audit>>

(* An editor or another process changes the target file.                   *)
Edit ==
    /\ edits < MaxEdits
    /\ edits' = edits + 1
    /\ file' \in Target \ {file}
    /\ writer' = Nobody
    /\ UNCHANGED <<lock, pc, ctx, job, audit>>

(* The process is killed with all its threads; its locks are gone.         *)
Crash ==
    /\ \E e \in Exec : pc[e] \in Working \cup {"acquire"}
    /\ pc' = [e \in Exec |-> IF pc[e] \in Working \cup {"acquire"} THEN "killed" ELSE pc[e]]
    /\ job' = [e \in Exec |-> IF pc'[e] = "killed" THEN Closed(job[e]) ELSE job[e]]
    /\ lock' = Nobody
    /\ UNCHANGED <<file, writer, edits, ctx, audit>>

-----------------------------------------------------------------------------
Authorizing(e) ==
    \/ Assemble(e) \/ AssembleFails(e) \/ Decide(e) \/ DecideFails(e)
    \/ Translate(e) \/ TranslateFails(e) \/ Validate(e) \/ ValidateFails(e) \/ Retry(e)

Mutating(e) ==
    \/ Revalidate(e) \/ Capture(e) \/ Replace(e) \/ ReplaceFails(e)
    \/ ReadBack(e) \/ ReadBackFails(e) \/ CheckRestore(e) \/ Restore(e) \/ RestoreFails(e)

Concluding(e) ==
    \/ VerifyPasses(e) \/ VerifyFails(e) \/ Recover(e) \/ RecoverFails(e)
    \/ Report(e) \/ ReportFails(e)

Step(e) == Acquire(e) \/ Authorizing(e) \/ Mutating(e) \/ Concluding(e) \/ Escape(e)

Next ==
    \/ \E e \in Exec : Begin(e) \/ Step(e)
    \/ Edit \/ Crash

(* A thread that has called execute() keeps running.                       *)
Fairness == \A e \in Exec : WF_vars(Step(e))

Spec == Init /\ [][Next]_vars
FairSpec == Spec /\ Fairness

-----------------------------------------------------------------------------
(* Properties. *)

Authority == [context : Target, content : Content]
Jobs == [request : Request \cup {Nobody}, context : Target, op : {"create", "modify"},
         content : Target, barred : BOOLEAN, expected : Target, before : Target, observed : Target,
         previous : Authority \cup {Nobody}, artifacts : 0..2, writes : 0..2]

TypeOK ==
    /\ file \in Target
    /\ writer \in Exec \cup {Nobody}
    /\ edits \in 0..MaxEdits
    /\ lock \in Exec \cup {Nobody}
    /\ pc \in [Exec -> {"ready", "acquire"} \cup Working \cup Ended]
    /\ ctx \in [Exec -> Contexts]
    /\ job \in [Exec -> Jobs]
    /\ audit \in [Request -> Envelopes \cup {Nobody}]

(* A completed execution has written, been charged for and verified once   *)
(* in each of its iterations: no write reached the file that its ledger    *)
(* does not show (runtime.py:144, state_machine.py:100).                   *)
CompletedIsCharged ==
    \A e \in Exec : ctx[e].state = "completed" =>
        /\ ctx[e].mutations = job[e].writes
        /\ ctx[e].verifications = job[e].writes
        /\ ctx[e].iteration = job[e].writes

(* From its own write to its own verification an execution finds its own   *)
(* content in the file, unless another program has changed it: the         *)
(* workspace lock spans the whole of execute() (runtime.py:156).           *)
OwnWriteStands ==
    \A e \in Exec : pc[e] \in {"readback", "check", "verify"} =>
        /\ writer \in {e, Nobody}
        /\ writer = e => file = job[e].content

(* A result is returned only with its own context on record, and for an    *)
(* execution id that no other call has recorded (runtime.py:227).          *)
ResultAudited ==
    \A e \in Exec : pc[e] = "returned" => audit[job[e].request] = Envelope(e)

(* The record of an execution id never changes: a second execution of the  *)
(* same request, however it ends, cannot rewrite what the first recorded   *)
(* (FileGovernedExecutionAuditStore.append, store.py:55).                  *)
FirstRecordStays ==
    [][\A r \in Request : audit[r] # Nobody => audit'[r] = audit[r]]_vars

(* Every call of execute() ends, by a result, an exception or the death of *)
(* its process, however its iterations fail and whoever else waits for the *)
(* workspace.                                                              *)
Terminates == \A e \in Exec : pc[e] # "ready" ~> pc[e] \in Ended

(* What the documentation says and some execution does not do. *)

(* "Runtime-owned observer that obtains G2.4.1 approval before each        *)
(* workflow effect" (runtime.py:511): only an execution in state MUTATING  *)
(* replaces the file.                                                      *)
WritesApproved ==
    [][\A e \in Exec : job'[e].writes # job[e].writes => ctx[e].state = "mutating"]_vars

(* "Compensate only while target still exactly equals this mutation's      *)
(* post-state" (mutation/runtime.py:234): a restore replaces nothing but   *)
(* what this mutation wrote.                                               *)
RestoresOwnWrite ==
    [][\A e \in Exec : pc[e] = "restore" /\ file' # file /\ edits' = edits =>
          file = job[e].content]_vars
=============================================================================
