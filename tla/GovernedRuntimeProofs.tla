------------------------ MODULE GovernedRuntimeProofs ------------------------
(* What the governed runtime guarantees for any number of threads,         *)
(* requests and contents, however often other programs change the file.    *)
EXTENDS GovernedRuntime, TLAPS

-----------------------------------------------------------------------------
(* The invariant of one call at step s with context c and local values j:  *)
(* m mutations and v verifications are charged, w writes are done.         *)
Spent(c, j, m, v, w) == c.mutations = m /\ c.verifications = v /\ j.writes = w

(* Steps between the assembled context and the first mutation, between the *)
(* mutation and the write, and between the write and the verification.     *)
Asking == {"decide", "translate", "validate", "retry"}
Entering == {"mutate", "capture", "replace"}
Written == {"readback", "check", "restore"}
Deep == Entering \cup Written \cup {"validate", "retry", "translate", "verify", "recover"}

(* A mutation by the workflow is charged before it writes; one that the    *)
(* retry for a receipt makes is not charged at all.                        *)
Phase(s, c, j) ==
    /\ s \in {"ready", "acquire"} => c = Created(Two) /\ j.artifacts = 0 /\ j.writes = 0
    /\ s # "ready" => j.request \in Request
    /\ s \in Working \ {"report"} => c.iteration \in {1, 2}
    /\ s = "assemble" => /\ c.state = "context_assembling" /\ j.artifacts = c.iteration - 1
                         /\ Spent(c, j, c.iteration - 1, c.iteration - 1, c.iteration - 1)
    /\ s \in Working \ {"assemble", "report"} => j.artifacts = c.iteration
    /\ s \in Asking => Spent(c, j, c.iteration - 1, c.iteration - 1, c.iteration - 1)
    /\ s = "decide" => c.state = "deciding"
    /\ s = "translate" => c.state = "proposing"
    /\ s \in {"validate", "retry"} => c.state = "authorizing"
    /\ s \in Entering \cup Written =>
          LET w == IF s \in Written THEN c.iteration ELSE c.iteration - 1
          IN  \/ c.state = "mutating" /\ Spent(c, j, c.iteration, c.iteration - 1, w)
              \/ c.state = "authorizing" /\ Spent(c, j, c.iteration - 1, c.iteration - 1, w)
    /\ s = "verify" => c.state = "verifying" /\ Spent(c, j, c.iteration, c.iteration, c.iteration)
    /\ s = "recover" => c.state = "reflecting" /\ c.iteration = 1 /\ Spent(c, j, 1, 1, 1)
    /\ c.state = "completed" =>
          s \in {"report"} \cup Ended /\ Spent(c, j, c.iteration, c.iteration, c.iteration)
    /\ s \in Deep => j.content \in Content

Steps == {"ready", "acquire"} \cup Working \cup Ended
CallOk(s, c, j) == s \in Steps /\ c \in Contexts /\ j \in Jobs /\ Phase(s, c, j)
CallInv(e) == CallOk(pc[e], ctx[e], job[e])

LockInv == \A e \in Exec : pc[e] \in Working <=> lock = e

RuntimeInv ==
    /\ TypeOK
    /\ \A e \in Exec : CallInv(e)
    /\ LockInv
    /\ OwnWriteStands
    /\ ResultAudited

-----------------------------------------------------------------------------
(* Contexts. *)

(* A transition keeps the counters within the two iterations.              *)
Used(s, u) == IF s = u THEN 1 ELSE 0
(* A transition leaves a context.                                          *)
LEMMA AdvanceType ==
    ASSUME NEW c \in Contexts, NEW t \in States
    PROVE  Advance(c, t) \in Contexts
<1> DEFINE s == Landing(c, t)
<1>1. s \in States /\ c.iteration \in 0..2 /\ c.mutations \in 0..2 /\ c.verifications \in 0..2
      /\ c.limits = Two
  BY DEF Landing, States, Terminal, Contexts
<1>2. /\ s = "context_assembling" => c.iteration # 2
      /\ s = "mutating" => c.mutations # 2
      /\ s = "verifying" => c.verifications # 2
  BY <1>1 DEF Landing, Exhausted, Two
<1>3. Advance(c, t) = [c EXCEPT !.state = s, !.iteration = @ + Used(s, "context_assembling"),
                                !.mutations = @ + Used(s, "mutating"),
                                !.verifications = @ + Used(s, "verifying")]
  BY DEF Advance, Used
<1> HIDE DEF s
<1>4. /\ c.iteration + Used(s, "context_assembling") \in 0..2
      /\ c.mutations + Used(s, "mutating") \in 0..2
      /\ c.verifications + Used(s, "verifying") \in 0..2
  BY <1>1, <1>2 DEF Used
<1> QED  BY <1>1, <1>3, <1>4 DEF Contexts

(* The state entered and the counters after it.                            *)
LEMMA AdvanceFields ==
    ASSUME NEW c \in Contexts, NEW t \in States
    PROVE  LET s == Landing(c, t)
           IN  /\ Advance(c, t).state = s
               /\ Advance(c, t).iteration = c.iteration + Used(s, "context_assembling")
               /\ Advance(c, t).mutations = c.mutations + Used(s, "mutating")
               /\ Advance(c, t).verifications = c.verifications + Used(s, "verifying")
<1> DEFINE s == Landing(c, t)
<1>1. Advance(c, t) = [c EXCEPT !.state = s, !.iteration = @ + Used(s, "context_assembling"),
                                !.mutations = @ + Used(s, "mutating"),
                                !.verifications = @ + Used(s, "verifying")]
  BY DEF Advance, Used
<1> HIDE DEF s
<1>2. /\ Advance(c, t).state = s
      /\ Advance(c, t).iteration = c.iteration + Used(s, "context_assembling")
      /\ Advance(c, t).mutations = c.mutations + Used(s, "mutating")
      /\ Advance(c, t).verifications = c.verifications + Used(s, "verifying")
  BY <1>1 DEF Contexts
<1> QED  BY <1>2 DEF s

(* Entering a state without a budget changes the state only.               *)
LEMMA AdvanceFree ==
    ASSUME NEW c \in Contexts,
           NEW t \in States \ {"context_assembling", "mutating", "verifying"}
    PROVE  /\ Advance(c, t) \in Contexts /\ Advance(c, t).state = t
           /\ Advance(c, t).iteration = c.iteration
           /\ Advance(c, t).mutations = c.mutations
           /\ Advance(c, t).verifications = c.verifications
<1>1. Landing(c, t) = t
  BY DEF Landing, Exhausted
<1>2. Used(t, "context_assembling") = 0 /\ Used(t, "mutating") = 0 /\ Used(t, "verifying") = 0
  BY DEF Used
<1>3. c.iteration \in Nat /\ c.mutations \in Nat /\ c.verifications \in Nat
  BY DEF Contexts
<1> QED  BY <1>1, <1>2, <1>3, AdvanceFields, AdvanceType

(* Entering a state whose budget is not used up charges it.                *)
LEMMA AdvanceCharged ==
    ASSUME NEW c \in Contexts, NEW t \in {"context_assembling", "mutating", "verifying"},
           t = "context_assembling" => c.iteration # 2,
           t = "mutating" => c.mutations # 2,
           t = "verifying" => c.verifications # 2
    PROVE  /\ Advance(c, t) \in Contexts /\ Advance(c, t).state = t
           /\ Advance(c, t).iteration = c.iteration + Used(t, "context_assembling")
           /\ Advance(c, t).mutations = c.mutations + Used(t, "mutating")
           /\ Advance(c, t).verifications = c.verifications + Used(t, "verifying")
<1>1. Landing(c, t) = t
  BY DEF Landing, Exhausted, Contexts, Two
<1>2. t \in States
  BY DEF States
<1> QED  BY <1>1, <1>2, AdvanceFields, AdvanceType

-----------------------------------------------------------------------------
(* What a step of e does to its own call, to the lock, to the file and to  *)
(* the audit store.                                                        *)
Own(e) ==
    /\ pc' = [pc EXCEPT ![e] = pc'[e]]
    /\ ctx' = [ctx EXCEPT ![e] = ctx'[e]]
    /\ job' = [job EXCEPT ![e] = job'[e]]
    /\ CallOk(pc'[e], ctx'[e], job'[e])
    /\ pc[e] \notin Ended

Custody(e) ==
    \/ UNCHANGED lock /\ (pc[e] \in Working <=> pc'[e] \in Working)
    \/ lock' = Nobody /\ pc[e] \in Working /\ pc'[e] \notin Working
    \/ lock = Nobody /\ lock' = e /\ pc'[e] \in Working

Reviewing == {"readback", "check", "verify"}
FileUse(e) ==
    /\ UNCHANGED edits
    /\ \/ /\ UNCHANGED <<file, writer>>
          /\ pc'[e] \in Reviewing => pc[e] \in Reviewing /\ job'[e].content = job[e].content
       \/ /\ pc[e] \in Working /\ writer' = e /\ file' \in Target
          /\ pc'[e] \in Reviewing => file' = job'[e].content

Recording(e) ==
    \/ UNCHANGED audit /\ pc'[e] # "returned"
    \/ /\ audit[job[e].request] = Nobody
       /\ audit' = [audit EXCEPT ![job[e].request] = Envelope(e)]
       /\ job[e].request \in Request
       /\ ctx'[e] = ctx[e] /\ job'[e].request = job[e].request

Did(e) == Own(e) /\ Custody(e) /\ FileUse(e) /\ Recording(e)

(* The types of a call's variables.                                        *)
LEMMA CallTypes ==
    ASSUME RuntimeInv, NEW e \in Exec
    PROVE  /\ pc[e] \in Steps /\ ctx[e] \in Contexts /\ job[e] \in Jobs
           /\ Phase(pc[e], ctx[e], job[e])
           /\ pc \in [Exec -> Steps] /\ ctx \in [Exec -> Contexts] /\ job \in [Exec -> Jobs]
BY DEF RuntimeInv, CallInv, CallOk, TypeOK, Steps

(* An execution that stops keeps what its result is about.                 *)
LEMMA ClosedType ==
    ASSUME NEW j \in Jobs
    PROVE  /\ Closed(j) \in Jobs
           /\ Closed(j).request = j.request
           /\ Closed(j).artifacts = j.artifacts /\ Closed(j).writes = j.writes
<1>0. PICK no : no = FALSE
  OBVIOUS
<1> DEFINE Rec(r, a, w) ==
             [request |-> r, context |-> Missing, op |-> "modify", content |-> Missing,
              barred |-> no, expected |-> Missing, before |-> Missing, observed |-> Missing,
              previous |-> Nobody, artifacts |-> a, writes |-> w]
<1>1. Idle = Rec(Nobody, 0, 0)
  BY <1>0 DEF Idle
<1>2. [Rec(Nobody, 0, 0) EXCEPT !.request = j.request] = Rec(j.request, 0, 0)
  OBVIOUS
<1>3. [Rec(j.request, 0, 0) EXCEPT !.artifacts = j.artifacts] = Rec(j.request, j.artifacts, 0)
  OBVIOUS
<1>4. [Rec(j.request, j.artifacts, 0) EXCEPT !.writes = j.writes]
      = Rec(j.request, j.artifacts, j.writes)
  OBVIOUS
<1>5. Closed(j) = Rec(j.request, j.artifacts, j.writes)
  <2> HIDE DEF Rec
  <2> QED  BY <1>1, <1>2, <1>3, <1>4 DEF Closed
<1>6. j.request \in Request \cup {Nobody} /\ j.artifacts \in 0..2 /\ j.writes \in 0..2
  BY DEF Jobs
<1>7. Missing \in Target /\ Nobody \in Authority \cup {Nobody} /\ no \in BOOLEAN
  BY <1>0 DEF Target
<1>8. Closed(j) \in Jobs
  BY <1>5, <1>6, <1>7 DEF Jobs
<1> QED  BY <1>5, <1>8

(* An execution can fail at any of its steps ...                           *)
LEMMA Fails ==
    ASSUME RuntimeInv, NEW e \in Exec, pc[e] \in Working, pc[e] # "report", Fail(e),
           UNCHANGED <<edits, audit>>,
           UNCHANGED <<file, writer>> \/ (writer' = e /\ file' \in Target)
    PROVE  Did(e)
<1>1. /\ pc' = [pc EXCEPT ![e] = "report"] /\ job' = [job EXCEPT ![e] = Closed(job[e])]
      /\ ctx' = [ctx EXCEPT ![e] = Advance(ctx[e], "failed")] /\ UNCHANGED lock
  BY DEF Fail, Finish, Goto, Moved, Close
<1>2. pc'[e] = "report" /\ job'[e] = Closed(job[e]) /\ ctx'[e] = Advance(ctx[e], "failed")
  BY <1>1, CallTypes
<1>4. Advance(ctx[e], "failed") \in Contexts /\ Advance(ctx[e], "failed").state = "failed"
  BY CallTypes, AdvanceFree DEF States, Terminal
<1>5. Phase("report", Advance(ctx[e], "failed"), Closed(job[e]))
  BY <1>4, CallTypes, ClosedType
     DEF Phase, Working, Asking, Entering, Written, Deep
<1>6. Own(e)
  BY <1>1, <1>2, <1>4, <1>5, CallTypes, ClosedType DEF Own, CallOk, Steps, Working, Ended
<1> QED
  BY <1>1, <1>2, <1>6 DEF Did, Custody, FileUse, Recording, Reviewing, Working

(* ... and be left by an exception.                                        *)
LEMMA Raises ==
    ASSUME RuntimeInv, NEW e \in Exec, pc[e] \in Working, Raised(e), UNCHANGED <<edits, ctx>>,
           UNCHANGED <<file, writer>> \/ (writer' = e /\ file' \in Target),
           Recording(e)
    PROVE  Did(e)
<1>1. /\ pc' = [pc EXCEPT ![e] = "raised"] /\ job' = [job EXCEPT ![e] = Closed(job[e])]
      /\ ctx' = [ctx EXCEPT ![e] = ctx[e]] /\ lock' = Nobody
  BY CallTypes DEF Raised, Goto, Close
<1>2. pc'[e] = "raised" /\ job'[e] = Closed(job[e]) /\ ctx'[e] = ctx[e]
  BY <1>1, CallTypes
<1>3. Phase("raised", ctx[e], Closed(job[e]))
  BY CallTypes, ClosedType
     DEF Phase, Working, Asking, Entering, Written, Deep, Ended, Spent
<1>4. Own(e)
  BY <1>1, <1>2, <1>3, CallTypes, ClosedType DEF Own, CallOk, Steps, Working, Ended
<1> QED
  BY <1>1, <1>2, <1>4 DEF Did, Custody, FileUse, Reviewing, Working

(* A step on which a call goes on: its step, context and local values.     *)
LEMMA GoesOn ==
    ASSUME RuntimeInv, NEW e \in Exec, NEW s \in Steps, NEW c \in Contexts, NEW j \in Jobs,
           pc' = [pc EXCEPT ![e] = s], ctx' = [ctx EXCEPT ![e] = c],
           job' = [job EXCEPT ![e] = j], Phase(s, c, j), pc[e] \notin Ended
    PROVE  Own(e) /\ pc'[e] = s /\ ctx'[e] = c /\ job'[e] = j
<1>1. pc'[e] = s /\ ctx'[e] = c /\ job'[e] = j
  BY CallTypes
<1> QED  BY <1>1 DEF Own, CallOk

-----------------------------------------------------------------------------
(* The steps up to the proposal. *)

(* execute() is called, and enters its first iteration.                    *)
LEMMA BeginDid == ASSUME RuntimeInv, NEW e \in Exec, Begin(e) PROVE Did(e)
<1>1. PICK r \in Request, s \in {"acquire", "raised"} :
         pc' = [pc EXCEPT ![e] = s] /\ job' = [job EXCEPT ![e].request = r]
  BY DEF Begin, Goto
<1>2. pc[e] = "ready" /\ UNCHANGED <<file, writer, edits, lock, ctx, audit>>
  BY DEF Begin
<1> DEFINE j == [job[e] EXCEPT !.request = r]
<1>3. j \in Jobs /\ j.request = r /\ j.artifacts = job[e].artifacts /\ j.writes = job[e].writes
  BY CallTypes DEF Jobs
<1>4. job' = [job EXCEPT ![e] = j] /\ ctx' = [ctx EXCEPT ![e] = ctx[e]]
  BY <1>1, <1>2, CallTypes
<1>5. ctx[e] = Created(Two) /\ job[e].artifacts = 0 /\ job[e].writes = 0
  BY <1>2, CallTypes DEF Phase
<1>6. Created(Two).state = "created"
  BY DEF Created
<1> HIDE DEF j
<1>7. Phase(s, ctx[e], j)
  BY <1>3, <1>5, <1>6 DEF Phase, Working, Asking, Entering, Written, Deep
<1>8. Own(e) /\ pc'[e] = s
  BY <1>1, <1>2, <1>3, <1>4, <1>7, CallTypes, GoesOn DEF Steps, Ended
<1> QED
  BY <1>2, <1>8 DEF Did, Custody, FileUse, Recording, Reviewing, Working

(* The lock is taken.                                                      *)
LEMMA AcquireDid == ASSUME RuntimeInv, NEW e \in Exec, Acquire(e) PROVE Did(e)
<1> DEFINE c == Advance(ctx[e], "context_assembling")
<1>1. /\ pc[e] = "acquire" /\ lock = Nobody /\ lock' = e
      /\ pc' = [pc EXCEPT ![e] = "assemble"] /\ ctx' = [ctx EXCEPT ![e] = c]
      /\ UNCHANGED <<file, writer, edits, job, audit>>
  BY CallTypes DEF Acquire, Goto, Moved
<1>2. ctx[e] = Created(Two) /\ job[e].artifacts = 0 /\ job[e].writes = 0
      /\ job[e].request \in Request
  BY <1>1, CallTypes DEF Phase
<1>3. ctx[e].iteration = 0 /\ ctx[e].mutations = 0 /\ ctx[e].verifications = 0
  BY <1>2 DEF Created
<1>4. c \in Contexts /\ c.state = "context_assembling" /\ c.iteration = 1
      /\ c.mutations = 0 /\ c.verifications = 0
  BY <1>3, CallTypes, AdvanceCharged DEF Used
<1> HIDE DEF c
<1>5. Phase("assemble", c, job[e])
  BY <1>2, <1>4 DEF Phase, Spent, Asking, Entering, Written, Deep
<1>6. job' = [job EXCEPT ![e] = job[e]]
  BY <1>1, CallTypes
<1>7. Own(e) /\ pc'[e] = "assemble"
  BY <1>1, <1>4, <1>5, <1>6, CallTypes, GoesOn DEF Steps, Working, Ended
<1> QED
  BY <1>1, <1>7 DEF Did, Custody, FileUse, Recording, Reviewing, Working

(* A fresh context is assembled ...                                        *)
LEMMA AssembleDid == ASSUME RuntimeInv, NEW e \in Exec, Assemble(e) PROVE Did(e)
<1> DEFINE d == Advance(ctx[e], "planning")
           c == Advance(d, "deciding")
           j == [job[e] EXCEPT !.context = file, !.artifacts = @ + 1]
<1>1. /\ pc[e] = "assemble" /\ pc' = [pc EXCEPT ![e] = "decide"]
      /\ ctx' = [ctx EXCEPT ![e] = c] /\ UNCHANGED <<file, writer, edits, lock, audit>>
  BY CallTypes DEF Assemble, Goto, MovedVia
<1>2. job' = [job EXCEPT ![e] = j]
  BY CallTypes DEF Assemble
<1>3. ctx[e].iteration \in {1, 2} /\ job[e].artifacts = ctx[e].iteration - 1
      /\ job[e].request \in Request
      /\ Spent(ctx[e], job[e], ctx[e].iteration - 1, ctx[e].iteration - 1, ctx[e].iteration - 1)
  BY <1>1, CallTypes DEF Phase, Working
<1>4. /\ d \in Contexts /\ d.iteration = ctx[e].iteration
      /\ d.mutations = ctx[e].mutations /\ d.verifications = ctx[e].verifications
  BY CallTypes, AdvanceFree DEF States
<1> HIDE DEF d
<1>5. /\ c \in Contexts /\ c.state = "deciding" /\ c.iteration = ctx[e].iteration
      /\ c.mutations = ctx[e].mutations /\ c.verifications = ctx[e].verifications
  BY <1>4, AdvanceFree DEF States
<1>6. j.request = job[e].request /\ j.artifacts = ctx[e].iteration /\ j.writes = job[e].writes
  BY <1>3, CallTypes DEF Jobs
<1>7. job[e].artifacts + 1 \in 0..2 /\ file \in Target
  BY <1>3 DEF RuntimeInv, TypeOK
<1>8. j \in Jobs
  BY <1>7, CallTypes DEF Jobs
<1> HIDE DEF c, j
<1>9. Phase("decide", c, j)
  BY <1>3, <1>5, <1>6 DEF Phase, Spent, Asking, Entering, Written, Deep
<1>10. Own(e) /\ pc'[e] = "decide"
  BY <1>1, <1>2, <1>5, <1>8, <1>9, GoesOn DEF Steps, Working, Ended
<1> QED
  BY <1>1, <1>10 DEF Did, Custody, FileUse, Recording, Reviewing, Working

(* ... the gateway decides ...                                             *)
LEMMA DecideDid == ASSUME RuntimeInv, NEW e \in Exec, Decide(e) PROVE Did(e)
<1> DEFINE c == Advance(ctx[e], "proposing")
<1>1. /\ pc[e] = "decide" /\ pc' = [pc EXCEPT ![e] = "translate"]
      /\ ctx' = [ctx EXCEPT ![e] = c] /\ UNCHANGED <<file, writer, edits, lock, audit>>
  BY CallTypes DEF Decide, Goto, Moved
<1>2. PICK op \in {"create", "modify"}, x \in Content, b \in BOOLEAN :
         job' = [job EXCEPT ![e].op = op, ![e].content = x, ![e].barred = b]
  BY DEF Decide
<1> DEFINE j == [job[e] EXCEPT !.op = op, !.content = x, !.barred = b]
<1>3. job' = [job EXCEPT ![e] = j]
  BY <1>2, CallTypes
<1>4. /\ c \in Contexts /\ c.state = "proposing" /\ c.iteration = ctx[e].iteration
      /\ c.mutations = ctx[e].mutations /\ c.verifications = ctx[e].verifications
  BY CallTypes, AdvanceFree DEF States
<1>5. /\ j \in Jobs /\ j.request = job[e].request /\ j.artifacts = job[e].artifacts
      /\ j.writes = job[e].writes /\ j.content \in Content
  BY CallTypes DEF Jobs, Target
<1> HIDE DEF c, j
<1>6. Phase("translate", c, j)
  BY <1>1, <1>4, <1>5, CallTypes DEF Phase, Spent, Working, Asking, Entering, Written, Deep
<1>7. Own(e) /\ pc'[e] = "translate"
  BY <1>1, <1>3, <1>4, <1>5, <1>6, GoesOn DEF Steps, Working, Ended
<1> QED
  BY <1>1, <1>7 DEF Did, Custody, FileUse, Recording, Reviewing, Working

(* ... and the proposal is translated against the file.                    *)
LEMMA TranslateDid == ASSUME RuntimeInv, NEW e \in Exec, Translate(e) PROVE Did(e)
<1> DEFINE c == Advance(ctx[e], "authorizing")
           j == [job[e] EXCEPT !.expected = file]
<1>1. /\ pc[e] = "translate" /\ pc' = [pc EXCEPT ![e] = "validate"]
      /\ ctx' = [ctx EXCEPT ![e] = c] /\ UNCHANGED <<file, writer, edits, lock, audit>>
  BY CallTypes DEF Translate, Goto, Moved
<1>2. job' = [job EXCEPT ![e] = j]
  BY CallTypes DEF Translate
<1>3. /\ c \in Contexts /\ c.state = "authorizing" /\ c.iteration = ctx[e].iteration
      /\ c.mutations = ctx[e].mutations /\ c.verifications = ctx[e].verifications
  BY CallTypes, AdvanceFree DEF States
<1>4. file \in Target
  BY DEF RuntimeInv, TypeOK
<1>5. /\ j \in Jobs /\ j.request = job[e].request /\ j.artifacts = job[e].artifacts
      /\ j.writes = job[e].writes /\ j.content = job[e].content
  BY <1>4, CallTypes DEF Jobs
<1> HIDE DEF c, j
<1>6. Phase("validate", c, j)
  BY <1>1, <1>3, <1>5, CallTypes DEF Phase, Spent, Working, Asking, Entering, Written, Deep
<1>7. Own(e) /\ pc'[e] = "validate"
  BY <1>1, <1>2, <1>3, <1>5, <1>6, GoesOn DEF Steps, Working, Ended
<1> QED
  BY <1>1, <1>7 DEF Did, Custody, FileUse, Recording, Reviewing, Working

-----------------------------------------------------------------------------
(* From the proposal to the write. *)

(* A step to s that leaves everything but the step as it is.               *)
LEMMA Continues ==
    ASSUME RuntimeInv, NEW e \in Exec, NEW s \in Working, pc[e] \in Working,
           s \in Reviewing => pc[e] \in Reviewing,
           Phase(s, ctx[e], job[e]), Goto(e, s), UNCHANGED <<lock, ctx, job>>,
           UNCHANGED <<file, writer, edits, audit>>
    PROVE  Did(e)
<1>1. pc' = [pc EXCEPT ![e] = s] /\ ctx' = [ctx EXCEPT ![e] = ctx[e]]
      /\ job' = [job EXCEPT ![e] = job[e]]
  BY CallTypes DEF Goto
<1>2. Own(e) /\ pc'[e] = s /\ job'[e] = job[e]
  BY <1>1, CallTypes, GoesOn DEF Steps, Working, Ended
<1> QED
  BY <1>2 DEF Did, Custody, FileUse, Recording, Working

(* The proposal is accepted, and before_mutating charges the mutation.     *)
LEMMA ValidateDid == ASSUME RuntimeInv, NEW e \in Exec, Validate(e) PROVE Did(e)
<1>1. pc[e] = "validate" /\ UNCHANGED <<file, writer, edits, audit>>
  BY DEF Validate
<1>2. CASE Raised(e) /\ UNCHANGED ctx
  <2>1. pc'[e] = "raised"
    BY <1>2, CallTypes DEF Raised, Goto
  <2> QED  BY <1>1, <1>2, <2>1, Raises DEF Working, Recording
<1>3. CASE Goto(e, "mutate") /\ Moved(e, "mutating") /\ UNCHANGED <<lock, job>>
  <2> DEFINE c == Advance(ctx[e], "mutating")
  <2>1. /\ pc' = [pc EXCEPT ![e] = "mutate"] /\ ctx' = [ctx EXCEPT ![e] = c]
        /\ job' = [job EXCEPT ![e] = job[e]]
    BY <1>3, CallTypes DEF Goto, Moved
  <2>2. /\ ctx[e].iteration \in {1, 2} /\ job[e].artifacts = ctx[e].iteration
        /\ Spent(ctx[e], job[e], ctx[e].iteration - 1, ctx[e].iteration - 1, ctx[e].iteration - 1)
        /\ job[e].request \in Request /\ job[e].content \in Content
    BY <1>1, CallTypes DEF Phase, Working, Asking, Deep
  <2>3. /\ c \in Contexts /\ c.state = "mutating" /\ c.iteration = ctx[e].iteration
        /\ c.mutations = ctx[e].iteration /\ c.verifications = ctx[e].verifications
    <3>1. ctx[e].mutations # 2 /\ ctx[e].mutations + 1 = ctx[e].iteration
      BY <2>2 DEF Spent
    <3>2. /\ Used("mutating", "context_assembling") = 0 /\ Used("mutating", "mutating") = 1
          /\ Used("mutating", "verifying") = 0
      BY DEF Used
    <3>3. ctx[e].iteration + 0 = ctx[e].iteration /\ ctx[e].verifications + 0 = ctx[e].verifications
      BY CallTypes DEF Contexts
    <3> QED  BY <3>1, <3>2, <3>3, CallTypes, AdvanceCharged
  <2> HIDE DEF c
  <2>4. Phase("mutate", c, job[e])
    BY <2>2, <2>3 DEF Phase, Spent, Working, Asking, Entering, Written, Deep
  <2>5. Own(e) /\ pc'[e] = "mutate"
    BY <1>1, <2>1, <2>3, <2>4, CallTypes, GoesOn DEF Steps, Working, Ended
  <2> QED
    BY <1>1, <1>3, <2>5 DEF Did, Custody, FileUse, Recording, Reviewing, Working
<1> QED  BY <1>2, <1>3 DEF Validate

(* The policy's refusal, the retry for the receipt and the second          *)
(* validation change nothing but the step, or fail.                        *)
LEMMA RetryDid ==
    ASSUME RuntimeInv, NEW e \in Exec, ValidateFails(e) \/ Retry(e) \/ Revalidate(e)
    PROVE  Did(e)
<1>1. CASE ValidateFails(e)
  <2>1. pc[e] = "validate" /\ Goto(e, "retry")
        /\ UNCHANGED <<file, writer, edits, lock, ctx, job, audit>>
    BY <1>1 DEF ValidateFails
  <2>2. Phase("retry", ctx[e], job[e])
    BY <2>1, CallTypes DEF Phase, Working, Asking, Entering, Written, Deep
  <2> QED  BY <2>1, <2>2, Continues DEF Working, Reviewing
<1>2. CASE Retry(e)
  <2>1. pc[e] = "retry" /\ UNCHANGED <<file, writer, edits, audit>>
    BY <1>2 DEF Retry
  <2>2. CASE Continue(e, "mutate")
    <3>1. Phase("mutate", ctx[e], job[e])
      BY <2>1, CallTypes DEF Phase, Working, Asking, Entering, Written, Deep, Spent
    <3> QED  BY <2>1, <2>2, <3>1, Continues DEF Continue, Working, Reviewing
  <2>3. CASE Fail(e)
    BY <2>1, <2>3, Fails DEF Working
  <2> QED  BY <1>2, <2>2, <2>3 DEF Retry
<1>3. CASE Revalidate(e)
  <2>1. pc[e] = "mutate" /\ UNCHANGED <<file, writer, edits, audit>>
    BY <1>3 DEF Revalidate
  <2>2. CASE Continue(e, "capture")
    <3>1. Phase("capture", ctx[e], job[e])
      BY <2>1, CallTypes DEF Phase, Working, Asking, Entering, Written, Deep
    <3> QED  BY <2>1, <2>2, <3>1, Continues DEF Continue, Working, Reviewing
  <2>3. CASE Fail(e)
    BY <2>1, <2>3, Fails DEF Working
  <2> QED  BY <1>3, <2>2, <2>3 DEF Revalidate
<1> QED  BY <1>1, <1>2, <1>3

(* The bytes are captured for a restore.                                   *)
LEMMA CaptureDid == ASSUME RuntimeInv, NEW e \in Exec, Capture(e) PROVE Did(e)
<1>1. pc[e] = "capture" /\ UNCHANGED <<file, writer, edits, ctx, audit>>
  BY DEF Capture
<1>2. CASE Raised(e)
  <2>1. pc'[e] = "raised"
    BY <1>2, CallTypes DEF Raised, Goto
  <2> QED  BY <1>1, <1>2, <2>1, Raises DEF Working, Recording
<1>3. ASSUME ~Raised(e) PROVE Did(e)
  <2> DEFINE j == [job[e] EXCEPT !.before = IF job[e].op = "create" THEN Missing ELSE file]
  <2>1. /\ pc' = [pc EXCEPT ![e] = "replace"] /\ UNCHANGED lock
        /\ ctx' = [ctx EXCEPT ![e] = ctx[e]]
    BY <1>1, <1>3, CallTypes DEF Capture, Goto
  <2>2. job' = [job EXCEPT ![e] = j]
    BY <1>3, CallTypes DEF Capture
  <2>3. file \in Target /\ Missing \in Target
    BY DEF RuntimeInv, TypeOK, Target
  <2>4. /\ j \in Jobs /\ j.request = job[e].request /\ j.artifacts = job[e].artifacts
        /\ j.writes = job[e].writes /\ j.content = job[e].content
    BY <2>3, CallTypes DEF Jobs
  <2> HIDE DEF j
  <2>5. Phase("replace", ctx[e], j)
    BY <1>1, <2>4, CallTypes DEF Phase, Spent, Working, Asking, Entering, Written, Deep
  <2>6. Own(e) /\ pc'[e] = "replace"
    BY <1>1, <2>1, <2>2, <2>4, <2>5, CallTypes, GoesOn DEF Steps, Working, Ended
  <2> QED
    BY <1>1, <2>1, <2>6 DEF Did, Custody, FileUse, Recording, Reviewing, Working
<1> QED  BY <1>2, <1>3

(* The file is replaced.                                                   *)
LEMMA ReplaceDid == ASSUME RuntimeInv, NEW e \in Exec, Replace(e) PROVE Did(e)
<1> DEFINE j == [job[e] EXCEPT !.writes = @ + 1]
<1>1. /\ pc[e] = "replace" /\ pc' = [pc EXCEPT ![e] = "readback"]
      /\ ctx' = [ctx EXCEPT ![e] = ctx[e]] /\ UNCHANGED <<edits, lock, ctx, audit>>
      /\ file' = job[e].content /\ writer' = e
  BY CallTypes DEF Replace, Goto
<1>2. job' = [job EXCEPT ![e] = j]
  BY CallTypes DEF Replace
<1>3. /\ ctx[e].iteration \in {1, 2} /\ job[e].writes = ctx[e].iteration - 1
      /\ job[e].content \in Content
  BY <1>1, CallTypes DEF Phase, Spent, Working, Entering, Written, Deep
<1>4. job[e].writes + 1 = ctx[e].iteration /\ job[e].writes + 1 \in 0..2
  BY <1>3
<1>5. /\ j \in Jobs /\ j.request = job[e].request /\ j.artifacts = job[e].artifacts
      /\ j.writes = ctx[e].iteration /\ j.content = job[e].content
  BY <1>4, CallTypes DEF Jobs
<1> HIDE DEF j
<1>6. Phase("readback", ctx[e], j)
  BY <1>1, <1>5, CallTypes DEF Phase, Spent, Working, Asking, Entering, Written, Deep
<1>7. Own(e) /\ pc'[e] = "readback" /\ job'[e] = j
  BY <1>1, <1>2, <1>5, <1>6, CallTypes, GoesOn DEF Steps, Working, Ended
<1> QED
  BY <1>1, <1>3, <1>5, <1>7 DEF Did, Custody, FileUse, Recording, Working, Target

-----------------------------------------------------------------------------
(* From the write to the verdict. *)

(* The post-state is read back: it verifies, differs, or cannot be had.    *)
LEMMA ReadBackDid == ASSUME RuntimeInv, NEW e \in Exec, ReadBack(e) PROVE Did(e)
<1>1. pc[e] = "readback" /\ UNCHANGED <<file, writer, edits, audit>>
  BY DEF ReadBack
<1>2. CASE Fail(e)
  BY <1>1, <1>2, Fails DEF Working
<1>3. CASE Raised(e) /\ UNCHANGED ctx
  <2>1. pc'[e] = "raised"
    BY <1>3, CallTypes DEF Raised, Goto
  <2> QED  BY <1>1, <1>3, <2>1, Raises DEF Working, Recording
<1>4. CASE Differs(e)
  <2> DEFINE j == [job[e] EXCEPT !.observed = file]
  <2>1. /\ pc' = [pc EXCEPT ![e] = "check"] /\ ctx' = [ctx EXCEPT ![e] = ctx[e]]
        /\ UNCHANGED lock
    BY <1>4, CallTypes DEF Differs, Goto
  <2>2. job' = [job EXCEPT ![e] = j]
    BY <1>4, CallTypes DEF Differs
  <2>3. file \in Target
    BY DEF RuntimeInv, TypeOK
  <2>4. /\ j \in Jobs /\ j.request = job[e].request /\ j.artifacts = job[e].artifacts
        /\ j.writes = job[e].writes /\ j.content = job[e].content
    BY <2>3, CallTypes DEF Jobs
  <2> HIDE DEF j
  <2>5. Phase("check", ctx[e], j)
    BY <1>1, <2>4, CallTypes DEF Phase, Spent, Working, Asking, Entering, Written, Deep
  <2>6. Own(e) /\ pc'[e] = "check" /\ job'[e] = j
    BY <1>1, <2>1, <2>2, <2>4, <2>5, CallTypes, GoesOn DEF Steps, Working, Ended
  <2> QED
    BY <1>1, <2>1, <2>4, <2>6 DEF Did, Custody, FileUse, Recording, Reviewing, Working
<1>5. CASE /\ "verifying" \in LegalTargets(ctx[e].state)
           /\ Goto(e, "verify") /\ Moved(e, "verifying") /\ UNCHANGED <<lock, job>>
  <2> DEFINE c == Advance(ctx[e], "verifying")
  <2>1. /\ pc' = [pc EXCEPT ![e] = "verify"] /\ ctx' = [ctx EXCEPT ![e] = c]
        /\ job' = [job EXCEPT ![e] = job[e]]
    BY <1>5, CallTypes DEF Goto, Moved
  <2>2. ctx[e].state # "authorizing"
    BY <1>5 DEF LegalTargets
  <2>3. /\ ctx[e].iteration \in {1, 2} /\ job[e].artifacts = ctx[e].iteration
        /\ Spent(ctx[e], job[e], ctx[e].iteration, ctx[e].iteration - 1, ctx[e].iteration)
        /\ job[e].request \in Request /\ job[e].content \in Content
    BY <1>1, <2>2, CallTypes DEF Phase, Working, Entering, Written, Deep
  <2>4. /\ c \in Contexts /\ c.state = "verifying" /\ c.iteration = ctx[e].iteration
        /\ c.mutations = ctx[e].mutations /\ c.verifications = ctx[e].iteration
    <3>1. ctx[e].verifications # 2 /\ ctx[e].verifications + 1 = ctx[e].iteration
      BY <2>3 DEF Spent
    <3>2. /\ Used("verifying", "context_assembling") = 0 /\ Used("verifying", "mutating") = 0
          /\ Used("verifying", "verifying") = 1
      BY DEF Used
    <3>3. ctx[e].iteration + 0 = ctx[e].iteration /\ ctx[e].mutations + 0 = ctx[e].mutations
      BY CallTypes DEF Contexts
    <3> QED  BY <3>1, <3>2, <3>3, CallTypes, AdvanceCharged
  <2> HIDE DEF c
  <2>5. Phase("verify", c, job[e])
    BY <2>3, <2>4 DEF Phase, Spent, Working, Asking, Entering, Written, Deep
  <2>6. Own(e) /\ pc'[e] = "verify" /\ job'[e] = job[e]
    BY <1>1, <2>1, <2>4, <2>5, CallTypes, GoesOn DEF Steps, Working, Ended
  <2> QED
    BY <1>1, <1>5, <2>6 DEF Did, Custody, FileUse, Recording, Reviewing, Working
<1> QED  BY <1>2, <1>3, <1>4, <1>5 DEF ReadBack

(* _conditional_restore(), and the failures of the file operations.        *)
LEMMA RestoreDid ==
    ASSUME RuntimeInv, NEW e \in Exec, CheckRestore(e) \/ Restore(e) \/ RestoreFails(e)
    PROVE  Did(e)
<1>1. CASE CheckRestore(e)
  <2>1. pc[e] = "check" /\ UNCHANGED <<file, writer, edits, audit>>
    BY <1>1 DEF CheckRestore
  <2>2. CASE Continue(e, "restore")
    <3>1. Phase("restore", ctx[e], job[e])
      BY <2>1, CallTypes DEF Phase, Working, Asking, Entering, Written, Deep
    <3> QED  BY <2>1, <2>2, <3>1, Continues DEF Continue, Working, Reviewing
  <2>3. CASE Fail(e)
    BY <2>1, <2>3, Fails DEF Working
  <2> QED  BY <1>1, <2>2, <2>3 DEF CheckRestore
<1>2. CASE Restore(e)
  <2>1. pc[e] = "restore" /\ writer' = e /\ file' = job[e].before /\ UNCHANGED <<edits, audit>>
    BY <1>2 DEF Restore
  <2>2. file' \in Target
    BY <2>1, CallTypes DEF Jobs
  <2>3. CASE Fail(e)
    BY <2>1, <2>2, <2>3, Fails DEF Working
  <2>4. CASE Raised(e) /\ UNCHANGED ctx
    <3>1. pc'[e] = "raised"
      BY <2>4, CallTypes DEF Raised, Goto
    <3> QED  BY <2>1, <2>2, <2>4, <3>1, Raises DEF Working, Recording
  <2> QED  BY <1>2, <2>3, <2>4 DEF Restore
<1>3. CASE RestoreFails(e)
  BY <1>3, Fails DEF RestoreFails, Working
<1> QED  BY <1>1, <1>2, <1>3

(* The verifier's verdict.                                                 *)
LEMMA VerifyDid ==
    ASSUME RuntimeInv, NEW e \in Exec, VerifyPasses(e) \/ VerifyFails(e) PROVE Did(e)
<1>1. pc[e] = "verify" /\ UNCHANGED <<file, writer, edits, audit>>
  BY DEF VerifyPasses, VerifyFails
<1>2. /\ ctx[e].iteration \in {1, 2} /\ job[e].artifacts = ctx[e].iteration
      /\ Spent(ctx[e], job[e], ctx[e].iteration, ctx[e].iteration, ctx[e].iteration)
      /\ job[e].request \in Request /\ job[e].content \in Content
  BY <1>1, CallTypes DEF Phase, Working, Deep
<1>3. CASE VerifyPasses(e)
  <2> DEFINE c == Advance(ctx[e], "completed")
             j == Closed(job[e])
  <2>1. /\ pc' = [pc EXCEPT ![e] = "report"] /\ ctx' = [ctx EXCEPT ![e] = c]
        /\ job' = [job EXCEPT ![e] = j] /\ UNCHANGED lock
    BY <1>3, CallTypes DEF VerifyPasses, Finish, Goto, Moved, Close
  <2>2. /\ c \in Contexts /\ c.state = "completed" /\ c.iteration = ctx[e].iteration
        /\ c.mutations = ctx[e].mutations /\ c.verifications = ctx[e].verifications
    BY CallTypes, AdvanceFree DEF States, Terminal
  <2>3. /\ j \in Jobs /\ j.request = job[e].request /\ j.artifacts = job[e].artifacts
        /\ j.writes = job[e].writes
    BY CallTypes, ClosedType
  <2> HIDE DEF c, j
  <2>4. Phase("report", c, j)
    BY <1>2, <2>2, <2>3 DEF Phase, Spent, Working, Asking, Entering, Written, Deep
  <2>5. Own(e) /\ pc'[e] = "report"
    BY <1>1, <2>1, <2>2, <2>3, <2>4, CallTypes, GoesOn DEF Steps, Working, Ended
  <2> QED
    BY <1>1, <2>1, <2>5 DEF Did, Custody, FileUse, Recording, Reviewing, Working
<1>4. CASE VerifyFails(e) /\ Fail(e)
  BY <1>1, <1>4, Fails DEF Working
<1>5. CASE VerifyFails(e) /\ ~Fail(e)
  <2> DEFINE c == Advance(ctx[e], "reflecting")
  <2>1. /\ pc' = [pc EXCEPT ![e] = "recover"] /\ ctx' = [ctx EXCEPT ![e] = c]
        /\ job' = [job EXCEPT ![e] = job[e]] /\ ctx[e].iteration = 1 /\ UNCHANGED lock
    BY <1>5, CallTypes DEF VerifyFails, Goto, Moved
  <2>2. /\ c \in Contexts /\ c.state = "reflecting" /\ c.iteration = ctx[e].iteration
        /\ c.mutations = ctx[e].mutations /\ c.verifications = ctx[e].verifications
    BY CallTypes, AdvanceFree DEF States
  <2> HIDE DEF c
  <2>3. Phase("recover", c, job[e])
    BY <1>2, <2>1, <2>2 DEF Phase, Spent, Working, Asking, Entering, Written, Deep
  <2>4. Own(e) /\ pc'[e] = "recover"
    BY <1>1, <2>1, <2>2, <2>3, CallTypes, GoesOn DEF Steps, Working, Ended
  <2> QED
    BY <1>1, <2>1, <2>4 DEF Did, Custody, FileUse, Recording, Reviewing, Working
<1> QED  BY <1>3, <1>4, <1>5

(* The second iteration starts, with the authority of the first kept.      *)
LEMMA RecoverDid == ASSUME RuntimeInv, NEW e \in Exec, Recover(e) PROVE Did(e)
<1> DEFINE d == Advance(ctx[e], "replanning")
           c == Advance(d, "context_assembling")
           a == [context |-> job[e].context, content |-> job[e].content]
           j == [Closed(job[e]) EXCEPT !.previous = a]
<1>1. /\ pc[e] = "recover" /\ pc' = [pc EXCEPT ![e] = "assemble"]
      /\ ctx' = [ctx EXCEPT ![e] = c] /\ UNCHANGED <<file, writer, edits, lock, audit>>
  BY CallTypes DEF Recover, Goto, MovedVia
<1>2. job' = [job EXCEPT ![e] = j]
  BY CallTypes DEF Recover
<1>3. /\ ctx[e].iteration = 1 /\ job[e].artifacts = 1 /\ Spent(ctx[e], job[e], 1, 1, 1)
      /\ job[e].request \in Request /\ job[e].content \in Content
  BY <1>1, CallTypes DEF Phase, Working, Deep
<1>4. /\ d \in Contexts /\ d.iteration = 1 /\ d.mutations = 1 /\ d.verifications = 1
  BY <1>3, CallTypes, AdvanceFree DEF States, Spent
<1> HIDE DEF d
<1>5. /\ c \in Contexts /\ c.state = "context_assembling" /\ c.iteration = 2
      /\ c.mutations = 1 /\ c.verifications = 1
  BY <1>4, AdvanceCharged DEF Used
<1>6. a \in Authority
  BY <1>3, CallTypes DEF Authority, Jobs
<1> HIDE DEF a
<1>7. /\ j \in Jobs /\ j.request = job[e].request /\ j.artifacts = 1 /\ j.writes = 1
  BY <1>3, <1>6, CallTypes, ClosedType DEF Jobs, Spent
<1> HIDE DEF c, j
<1>8. Phase("assemble", c, j)
  BY <1>3, <1>5, <1>7 DEF Phase, Spent, Asking, Entering, Written, Deep
<1>9. Own(e) /\ pc'[e] = "assemble"
  BY <1>1, <1>2, <1>5, <1>7, <1>8, GoesOn DEF Steps, Working, Ended
<1> QED
  BY <1>1, <1>9 DEF Did, Custody, FileUse, Recording, Reviewing, Working

(* Replanning fails, also half way.                                        *)
LEMMA RecoverFailsDid == ASSUME RuntimeInv, NEW e \in Exec, RecoverFails(e) PROVE Did(e)
<1>1. pc[e] = "recover" /\ UNCHANGED <<file, writer, edits, audit>>
  BY DEF RecoverFails
<1>2. CASE Fail(e)
  BY <1>1, <1>2, Fails DEF Working
<1>3. ASSUME ~Fail(e) PROVE Did(e)
  <2> DEFINE d == Advance(ctx[e], "replanning")
             c == Advance(d, "failed")
             j == Closed(job[e])
  <2>1. /\ pc' = [pc EXCEPT ![e] = "report"] /\ ctx' = [ctx EXCEPT ![e] = c]
        /\ job' = [job EXCEPT ![e] = j] /\ UNCHANGED lock
    BY <1>3, CallTypes DEF RecoverFails, Goto, MovedVia, Close
  <2>2. d \in Contexts
    BY CallTypes, AdvanceFree DEF States
  <2> HIDE DEF d
  <2>3. c \in Contexts /\ c.state = "failed"
    BY <2>2, AdvanceFree DEF States, Terminal
  <2>4. j \in Jobs /\ j.request = job[e].request
    BY CallTypes, ClosedType
  <2>5. job[e].request \in Request
    BY <1>1, CallTypes DEF Phase
  <2> HIDE DEF c, j
  <2>6. Phase("report", c, j)
    BY <2>3, <2>4, <2>5 DEF Phase, Working, Asking, Entering, Written, Deep
  <2>7. Own(e) /\ pc'[e] = "report"
    BY <1>1, <2>1, <2>3, <2>4, <2>6, CallTypes, GoesOn DEF Steps, Working, Ended
  <2> QED
    BY <1>1, <2>1, <2>7 DEF Did, Custody, FileUse, Recording, Reviewing, Working
<1> QED  BY <1>2, <1>3

(* The result is recorded and returned, or not.                            *)
LEMMA ReportDid == ASSUME RuntimeInv, NEW e \in Exec, Report(e) \/ ReportFails(e) PROVE Did(e)
<1>1. pc[e] = "report" /\ UNCHANGED <<file, writer, edits, ctx>>
  BY DEF Report, ReportFails
<1>2. job[e].request \in Request
  BY <1>1, CallTypes DEF Phase
<1>3. CASE Report(e)
  <2>1. /\ pc' = [pc EXCEPT ![e] = "returned"] /\ ctx' = [ctx EXCEPT ![e] = ctx[e]]
        /\ job' = [job EXCEPT ![e] = job[e]] /\ lock' = Nobody
        /\ audit[job[e].request] = Nobody
        /\ audit' = [audit EXCEPT ![job[e].request] = Envelope(e)]
    BY <1>3, CallTypes DEF Report, Goto
  <2>2. Phase("returned", ctx[e], job[e])
    BY <1>1, CallTypes DEF Phase, Spent, Working, Asking, Entering, Written, Deep, Ended
  <2>3. Own(e) /\ pc'[e] = "returned" /\ ctx'[e] = ctx[e] /\ job'[e] = job[e]
    BY <1>1, <2>1, <2>2, CallTypes, GoesOn DEF Steps, Ended
  <2> QED
    BY <1>1, <1>2, <2>1, <2>3 DEF Did, Custody, FileUse, Recording, Reviewing, Working
<1>4. CASE ReportFails(e)
  <2>1. Raised(e) /\ pc'[e] = "raised" /\ ctx'[e] = ctx[e] /\ job'[e] = Closed(job[e])
    BY <1>1, <1>4, CallTypes DEF ReportFails, Raised, Goto, Close
  <2>2. Recording(e)
    BY <1>2, <1>4, <2>1, CallTypes, ClosedType DEF ReportFails, Recording
  <2> QED  BY <1>1, <2>1, <2>2, Raises DEF Working
<1> QED  BY <1>3, <1>4

(* Every step of a thread is of that form.                                 *)
LEMMA StepDid == ASSUME RuntimeInv, NEW e \in Exec, Begin(e) \/ Step(e) PROVE Did(e)
<1>1. CASE AssembleFails(e) \/ DecideFails(e) \/ TranslateFails(e) \/ ReplaceFails(e)
           \/ ReadBackFails(e)
  BY <1>1, Fails DEF AssembleFails, DecideFails, TranslateFails, ReplaceFails, ReadBackFails,
                     Working
<1>2. CASE Escape(e)
  <2>1. pc[e] \in Working /\ Raised(e) /\ UNCHANGED <<file, writer, edits, ctx, audit>>
    BY <1>2 DEF Escape
  <2>2. pc'[e] = "raised"
    BY <2>1, CallTypes DEF Raised, Goto
  <2> QED  BY <2>1, <2>2, Raises DEF Recording
<1>3. CASE Authorizing(e)
  BY <1>1, <1>3, AssembleDid, DecideDid, TranslateDid, ValidateDid, RetryDid DEF Authorizing
<1>4. CASE Mutating(e)
  BY <1>1, <1>4, RetryDid, CaptureDid, ReplaceDid, ReadBackDid, RestoreDid DEF Mutating
<1>5. CASE Concluding(e)
  BY <1>5, VerifyDid, RecoverDid, RecoverFailsDid, ReportDid DEF Concluding
<1> QED  BY <1>2, <1>3, <1>4, <1>5, BeginDid, AcquireDid DEF Step

-----------------------------------------------------------------------------
(* All threads. *)

(* The other threads stay where they are.                                  *)
LEMMA OthersStay ==
    ASSUME RuntimeInv, NEW e \in Exec, Did(e), NEW d \in Exec, d # e
    PROVE  pc'[d] = pc[d] /\ ctx'[d] = ctx[d] /\ job'[d] = job[d]
BY CallTypes DEF Did, Own

(* The audit store takes the envelope of a thread for a free id only, and  *)
(* an envelope is never the absence of a record.                           *)
LEMMA AuditStep ==
    ASSUME RuntimeInv, NEW e \in Exec, Did(e)
    PROVE  /\ audit' \in [Request -> Envelopes \cup {Nobody}]
           /\ \A r \in Request : audit[r] # Nobody => audit'[r] = audit[r]
           /\ pc'[e] = "returned" => audit'[job'[e].request] = Envelope(e)'
<1>1. audit \in [Request -> Envelopes \cup {Nobody}]
  BY DEF RuntimeInv, TypeOK
<1>2. Envelope(e) \in Envelopes
  BY CallTypes DEF Envelope, Envelopes
<1>3. CASE UNCHANGED audit /\ pc'[e] # "returned"
  BY <1>1, <1>3
<1>4. CASE /\ audit[job[e].request] = Nobody
           /\ audit' = [audit EXCEPT ![job[e].request] = Envelope(e)]
           /\ job[e].request \in Request
           /\ ctx'[e] = ctx[e] /\ job'[e].request = job[e].request
  <2>1. Envelope(e)' = Envelope(e)
    BY <1>4 DEF Envelope
  <2> QED  BY <1>1, <1>2, <1>4, <2>1
<1> QED  BY <1>3, <1>4 DEF Did, Recording

(* A thread's step keeps the lock exclusive ...                            *)
LEMMA LockStep == ASSUME RuntimeInv, NEW e \in Exec, Did(e) PROVE LockInv'
<1>1. \A d \in Exec : pc[d] \in Working <=> lock = d
  BY DEF RuntimeInv, LockInv
<1>2. \A d \in Exec \ {e} : pc'[d] = pc[d]
  BY OthersStay
<1>3. Nobody \notin Exec
  BY GovernedRuntimeConstants
<1>4. Custody(e)
  BY DEF Did
<1> HIDE DEF Working
<1>5. \A d \in Exec : pc'[d] \in Working <=> lock' = d
  BY <1>1, <1>2, <1>3, <1>4 DEF Custody
<1> QED  BY <1>5 DEF LockInv

(* ... and so the file between a write and its verification.               *)
LEMMA FileStep == ASSUME RuntimeInv, NEW e \in Exec, Did(e) PROVE OwnWriteStands'
<1>1. SUFFICES ASSUME NEW d \in Exec, pc'[d] \in Reviewing
               PROVE  writer' \in {d, Nobody} /\ (writer' = d => file' = job'[d].content)
  BY DEF OwnWriteStands, Reviewing
<1>2. \A x \in Exec : pc[x] \in Working <=> lock = x
  BY DEF RuntimeInv, LockInv
<1>3. pc[d] \in Reviewing => writer \in {d, Nobody} /\ (writer = d => file = job[d].content)
  BY DEF RuntimeInv, OwnWriteStands, Reviewing
<1>4. Reviewing \subseteq Working
  BY DEF Reviewing, Working
<1>5. CASE d = e
  <2>1. FileUse(e)
    BY DEF Did
  <2> QED  BY <1>1, <1>3, <1>5, <2>1 DEF FileUse
<1>6. CASE d # e
  <2>1. pc[d] \in Reviewing /\ job'[d] = job[d]
    BY <1>1, <1>6, OthersStay
  <2>2. pc[e] \notin Working
    BY <1>2, <1>4, <1>6, <2>1
  <2>3. UNCHANGED <<file, writer>>
    BY <2>2 DEF Did, FileUse
  <2> QED  BY <1>3, <2>1, <2>3
<1> QED  BY <1>5, <1>6

(* A thread's step keeps the invariant.                                    *)
LEMMA ThreadStep == ASSUME RuntimeInv, NEW e \in Exec, Did(e) PROVE RuntimeInv'
<1>1. \A d \in Exec : CallInv(d)'
  <2>1. CallOk(pc'[e], ctx'[e], job'[e])
    BY DEF Did, Own
  <2>2. \A d \in Exec : CallOk(pc[d], ctx[d], job[d])
    BY DEF RuntimeInv, CallInv
  <2>3. \A d \in Exec : CallOk(pc'[d], ctx'[d], job'[d])
    BY <2>1, <2>2, OthersStay
  <2> QED  BY <2>3 DEF CallInv
<1>2. TypeOK'
  <2>1. pc' \in [Exec -> Steps] /\ ctx' \in [Exec -> Contexts] /\ job' \in [Exec -> Jobs]
    BY CallTypes DEF Did, Own, CallOk
  <2>2. file' \in Target /\ writer' \in Exec \cup {Nobody} /\ edits' \in 0..MaxEdits
    BY DEF RuntimeInv, TypeOK, Did, FileUse
  <2>3. lock' \in Exec \cup {Nobody}
    BY DEF RuntimeInv, TypeOK, Did, Custody
  <2> QED  BY <2>1, <2>2, <2>3, AuditStep DEF TypeOK, Steps
<1>3. ResultAudited'
  <2>1. ASSUME NEW d \in Exec, pc'[d] = "returned"
        PROVE  audit'[job'[d].request] = Envelope(d)'
    <3>1. CASE d = e
      BY <2>1, <3>1, AuditStep
    <3>2. CASE d # e
      <4>1. pc[d] = "returned" /\ job'[d] = job[d] /\ Envelope(d)' = Envelope(d)
        BY <2>1, <3>2, OthersStay DEF Envelope
      <4>2. audit[job[d].request] = Envelope(d) /\ job[d].request \in Request
        BY <4>1, CallTypes DEF RuntimeInv, ResultAudited, Phase
      <4>3. Envelope(d) # Nobody
        BY CallTypes, GovernedRuntimeConstants DEF Envelope, Envelopes
      <4> QED  BY <4>1, <4>2, <4>3, AuditStep
    <3> QED  BY <3>1, <3>2
  <2> QED  BY <2>1 DEF ResultAudited
<1> QED  BY <1>1, <1>2, <1>3, LockStep, FileStep DEF RuntimeInv

(* Another program changes the file.                                       *)
LEMMA EditStep == ASSUME RuntimeInv, Edit PROVE RuntimeInv'
<1>1. /\ edits < MaxEdits /\ edits' = edits + 1 /\ file' \in Target /\ writer' = Nobody
      /\ UNCHANGED <<lock, pc, ctx, job, audit>>
  BY DEF Edit
<1>2. edits' \in 0..MaxEdits
  BY <1>1, GovernedRuntimeConstants DEF RuntimeInv, TypeOK
<1>3. TypeOK'
  BY <1>1, <1>2 DEF RuntimeInv, TypeOK
<1>4. (\A e \in Exec : CallInv(e)') /\ LockInv' /\ ResultAudited'
  BY <1>1 DEF RuntimeInv, CallInv, LockInv, ResultAudited, Envelope
<1>5. OwnWriteStands'
  BY <1>1, GovernedRuntimeConstants DEF OwnWriteStands
<1> QED  BY <1>3, <1>4, <1>5 DEF RuntimeInv

(* The process is killed.                                                  *)
LEMMA CrashStep == ASSUME RuntimeInv, Crash PROVE RuntimeInv'
<1> DEFINE Hit(e) == pc[e] \in Working \cup {"acquire"}
<1>1. /\ pc' = [e \in Exec |-> IF Hit(e) THEN "killed" ELSE pc[e]]
      /\ job' = [e \in Exec |-> IF pc'[e] = "killed" THEN Closed(job[e]) ELSE job[e]]
      /\ lock' = Nobody /\ UNCHANGED <<file, writer, edits, ctx, audit>>
  BY DEF Crash
<1>2. ASSUME NEW e \in Exec PROVE CallOk(pc'[e], ctx'[e], job'[e])
  <2>1. CASE Hit(e) \/ pc[e] = "killed"
    <3>1. pc'[e] = "killed" /\ job'[e] = Closed(job[e]) /\ ctx'[e] = ctx[e]
      BY <1>1, <2>1
    <3>2. pc[e] # "ready"
      BY <2>1 DEF Working
    <3>3. Phase("killed", ctx[e], Closed(job[e]))
      BY <3>2, CallTypes, ClosedType
         DEF Phase, Working, Asking, Entering, Written, Deep, Ended, Spent
    <3> QED  BY <3>1, <3>3, CallTypes, ClosedType DEF CallOk, Steps, Ended
  <2>2. CASE ~Hit(e) /\ pc[e] # "killed"
    BY <1>1, <2>2, CallTypes DEF CallOk
  <2> QED  BY <2>1, <2>2
<1>3. ASSUME NEW e \in Exec PROVE pc'[e] \notin Working
  BY <1>1 DEF Working
<1>4. LockInv'
  BY <1>1, <1>3, GovernedRuntimeConstants DEF LockInv
<1>5. OwnWriteStands'
  BY <1>3 DEF OwnWriteStands, Working
<1>6. ASSUME NEW e \in Exec, pc'[e] = "returned" PROVE audit'[job'[e].request] = Envelope(e)'
  <2>1. pc[e] = "returned" /\ job'[e] = job[e] /\ Envelope(e)' = Envelope(e)
    BY <1>1, <1>6 DEF Envelope
  <2> QED  BY <1>1, <2>1 DEF RuntimeInv, ResultAudited
<1>7. pc' \in [Exec -> Steps] /\ job' \in [Exec -> Jobs]
  BY <1>1, <1>2 DEF CallOk
<1>8. TypeOK'
  BY <1>1, <1>7 DEF RuntimeInv, TypeOK, Steps
<1>9. ResultAudited'
  BY <1>6 DEF ResultAudited
<1> QED  BY <1>2, <1>4, <1>5, <1>8, <1>9 DEF RuntimeInv, CallInv

(* Before any call nothing is held, charged or recorded.                   *)
LEMMA RuntimeInit == Init => RuntimeInv
<1>1. SUFFICES ASSUME Init PROVE RuntimeInv
  OBVIOUS
<1>2. Created(Two) = [state |-> "created", iteration |-> 0, mutations |-> 0,
                      verifications |-> 0, limits |-> Two]
  BY DEF Created
<1>3. Created(Two) \in Contexts /\ Created(Two).state = "created"
  BY <1>2 DEF Contexts, States
<1>4. Idle \in Jobs /\ Idle.artifacts = 0 /\ Idle.writes = 0
  BY DEF Idle, Jobs, Target
<1>5. Phase("ready", Created(Two), Idle)
  BY <1>3, <1>4 DEF Phase, Working, Asking, Entering, Written, Deep
<1>6. \A e \in Exec : CallInv(e)
  BY <1>1, <1>3, <1>4, <1>5 DEF Init, CallInv, CallOk, Steps
<1>7. TypeOK
  BY <1>1, <1>3, <1>4, GovernedRuntimeConstants DEF Init, TypeOK
<1>8. LockInv
  BY <1>1, GovernedRuntimeConstants DEF Init, LockInv, Working
<1>9. OwnWriteStands /\ ResultAudited
  BY <1>1 DEF Init, OwnWriteStands, ResultAudited
<1> QED  BY <1>6, <1>7, <1>8, <1>9 DEF RuntimeInv

(* Every step keeps the invariant.                                         *)
LEMMA RuntimeStep == ASSUME RuntimeInv, [Next]_vars PROVE RuntimeInv'
<1>1. CASE UNCHANGED vars
  <2>1. UNCHANGED <<file, writer, edits, lock, pc, ctx, job, audit>>
    BY <1>1 DEF vars
  <2>2. TypeOK'
    BY <2>1 DEF RuntimeInv, TypeOK
  <2>3. (\A e \in Exec : CallInv(e)') /\ LockInv' /\ ResultAudited' /\ OwnWriteStands'
    BY <2>1 DEF RuntimeInv, CallInv, LockInv, ResultAudited, Envelope, OwnWriteStands
  <2> QED  BY <2>2, <2>3 DEF RuntimeInv
<1> QED  BY <1>1, StepDid, ThreadStep, EditStep, CrashStep DEF Next

(* The invariant holds in every behaviour.                                 *)
LEMMA RuntimeSafety == Spec => []RuntimeInv
BY RuntimeInit, RuntimeStep, PTL DEF Spec

-----------------------------------------------------------------------------
(* The file, the audit store and what the threads work with are well       *)
(* typed; no counter exceeds the two iterations.                           *)
THEOREM TypeCorrect == Spec => []TypeOK
<1>1. RuntimeInv => TypeOK
  BY DEF RuntimeInv
<1> QED  BY <1>1, RuntimeSafety, PTL

(* A completed execution has been charged for every write it made, and     *)
(* verified each (runtime.py:198).                                         *)
THEOREM CompletedWasCharged == Spec => []CompletedIsCharged
<1>1. RuntimeInv => CompletedIsCharged
  BY CallTypes DEF CompletedIsCharged, Phase, Spent
<1> QED  BY <1>1, RuntimeSafety, PTL

(* Between a write and its verification no other execution touches the     *)
(* file, for any number of threads: the lock spans execute()               *)
(* (runtime.py:156).                                                       *)
THEOREM WritesStand == Spec => []OwnWriteStands
<1>1. RuntimeInv => OwnWriteStands
  BY DEF RuntimeInv
<1> QED  BY <1>1, RuntimeSafety, PTL

(* A result that was returned is on record, as it is (runtime.py:227).     *)
THEOREM ResultsAreAudited == Spec => []ResultAudited
<1>1. RuntimeInv => ResultAudited
  BY DEF RuntimeInv
<1> QED  BY <1>1, RuntimeSafety, PTL

(* What is on record stays there, whoever executes the request again       *)
(* (store.py:55).                                                          *)
THEOREM RecordsStay == Spec => FirstRecordStays
<1>1. ASSUME RuntimeInv, [Next]_vars
      PROVE  [\A r \in Request : audit[r] # Nobody => audit'[r] = audit[r]]_vars
  <2>1. CASE \E e \in Exec : Begin(e) \/ Step(e)
    BY <1>1, <2>1, StepDid, AuditStep
  <2>2. CASE Edit \/ Crash
    BY <2>2 DEF Edit, Crash
  <2> QED  BY <1>1, <2>1, <2>2 DEF Next
<1> QED  BY <1>1, RuntimeSafety, PTL DEF Spec, FirstRecordStays

-----------------------------------------------------------------------------
(* The course of one call: where its steps lead, with which context, and   *)
(* what it keeps on the way.                                               *)
Edge(e, s, u, c) == pc[e] = s /\ pc'[e] = u /\ ctx'[e] = c

Course(e) ==
    LET c == ctx[e]
    IN  \/ \E u \in {"acquire", "raised"} : Edge(e, "ready", u, c)
        \/ Edge(e, "acquire", "assemble", Advance(c, "context_assembling"))
        \/ Edge(e, "assemble", "decide", Advance(Advance(c, "planning"), "deciding"))
        \/ Edge(e, "decide", "translate", Advance(c, "proposing"))
        \/ Edge(e, "translate", "validate", Advance(c, "authorizing"))
        \/ Edge(e, "validate", "mutate", Advance(c, "mutating"))
        \/ Edge(e, "validate", "retry", c)
        \/ Edge(e, "retry", "mutate", c)
        \/ Edge(e, "mutate", "capture", c)
        \/ Edge(e, "capture", "replace", c)
        \/ Edge(e, "replace", "readback", c)
        \/ Edge(e, "readback", "check", c)
        \/ /\ Edge(e, "readback", "verify", Advance(c, "verifying"))
           /\ "verifying" \in LegalTargets(c.state)
        \/ Edge(e, "check", "restore", c)
        \/ Edge(e, "verify", "report", Advance(c, "completed"))
        \/ Edge(e, "verify", "recover", Advance(c, "reflecting")) /\ c.iteration = 1
        \/ Edge(e, "recover", "assemble",
                Advance(Advance(c, "replanning"), "context_assembling"))
        \/ Edge(e, "recover", "report", Advance(Advance(c, "replanning"), "failed"))
        \/ Edge(e, "report", "returned", c)
        \/ \E s \in Working : Edge(e, s, "raised", c)
        \/ \E s \in Working \ {"report"} : Edge(e, s, "report", Advance(c, "failed"))

(* The writes are counted, and what was decided is what is validated,      *)
(* written and verified.                                                   *)
Deciding == {"validate", "retry"} \cup Entering \cup Written \cup {"verify", "recover"}
Keeps(e) ==
    LET j == job[e]
        k == job'[e]
    IN  /\ k.writes = IF pc[e] = "replace" /\ pc'[e] = "readback" THEN j.writes + 1 ELSE j.writes
        /\ pc[e] \in Deciding /\ pc'[e] \in Deciding =>
              k.context = j.context /\ k.previous = j.previous /\ k.expected = j.expected
              /\ k.op = j.op

(* What a step found in the file.                                          *)
Fresh(j) == j.previous # Nobody => j.previous.context # j.context
Found(e) ==
    /\ pc'[e] = "validate" => job'[e].expected = file
    /\ pc[e] = "validate" /\ pc'[e] = "mutate" => Fits(job[e], file) /\ Fresh(job[e])
    /\ pc'[e] = "retry" => ~Fits(job'[e], file)
    /\ pc[e] = "retry" /\ pc'[e] = "mutate" => Fits(job[e], file)
    /\ pc'[e] = "check" => file # job[e].content
    /\ pc'[e] = "readback" => writer' = e
    /\ \/ UNCHANGED <<file, writer>>
       \/ pc[e] = "replace" /\ pc'[e] = "readback"
       \/ pc[e] = "restore"

Went(e) == Course(e) /\ Keeps(e) /\ Found(e)

(* A call that stops keeps the count of its writes.                        *)
LEMMA StopWent ==
    ASSUME RuntimeInv, NEW e \in Exec, NEW c, pc[e] \in Working, pc[e] # "report",
           Goto(e, "report"), ctx' = [ctx EXCEPT ![e] = c], Close(e),
           UNCHANGED <<file, writer>> \/ pc[e] = "restore",
           \/ c = Advance(ctx[e], "failed")
           \/ pc[e] = "verify" /\ c = Advance(ctx[e], "completed")
           \/ pc[e] = "recover" /\ c = Advance(Advance(ctx[e], "replanning"), "failed")
    PROVE  Went(e)
<1>1. pc'[e] = "report" /\ ctx'[e] = c /\ job'[e] = Closed(job[e])
  BY CallTypes DEF Goto, Close
<1>2. Course(e)
  BY <1>1 DEF Course, Edge
<1>3. Keeps(e) /\ Found(e)
  BY <1>1, CallTypes, ClosedType DEF Keeps, Found, Deciding, Entering, Written
<1> QED  BY <1>2, <1>3 DEF Went

(* So does one that fails or finishes, wherever it is.                     *)
LEMMA FailWent ==
    ASSUME RuntimeInv, NEW e \in Exec, pc[e] \in Working, pc[e] # "report", Fail(e),
           UNCHANGED <<file, writer>> \/ pc[e] = "restore"
    PROVE  Went(e)
BY StopWent, CallTypes DEF Fail, Finish, Moved

(* So does one that is left by an exception.                               *)
LEMMA RaiseWent ==
    ASSUME RuntimeInv, NEW e \in Exec, pc[e] \in Working, Raised(e), UNCHANGED ctx,
           UNCHANGED <<file, writer>> \/ pc[e] = "restore"
    PROVE  Went(e)
<1>1. pc'[e] = "raised" /\ ctx'[e] = ctx[e] /\ job'[e] = Closed(job[e])
  BY CallTypes DEF Raised, Goto, Close
<1>2. Course(e)
  BY <1>1 DEF Course, Edge
<1>3. Keeps(e) /\ Found(e)
  BY <1>1, CallTypes, ClosedType DEF Keeps, Found, Deciding, Entering, Written
<1> QED  BY <1>2, <1>3 DEF Went

(* The steps up to the validation.                                         *)
LEMMA AskingWent ==
    ASSUME RuntimeInv, NEW e \in Exec,
           Begin(e) \/ Acquire(e) \/ Assemble(e) \/ Decide(e) \/ Translate(e)
    PROVE  Went(e)
<1>0. UNCHANGED <<file, writer>>
  BY DEF Begin, Acquire, Assemble, Decide, Translate
<1>1. CASE Begin(e)
  <2>1. PICK r \in Request, s \in {"acquire", "raised"} :
           pc' = [pc EXCEPT ![e] = s] /\ job' = [job EXCEPT ![e].request = r]
    BY <1>1 DEF Begin, Goto
  <2>2. pc[e] = "ready" /\ pc'[e] = s /\ ctx'[e] = ctx[e] /\ job'[e].writes = job[e].writes
    BY <1>1, <2>1, CallTypes DEF Begin, Jobs
  <2> QED  BY <1>0, <2>2 DEF Went, Course, Edge, Keeps, Found, Deciding, Entering, Written
<1>2. CASE Acquire(e)
  <2>1. /\ pc[e] = "acquire" /\ pc'[e] = "assemble" /\ job'[e] = job[e]
        /\ ctx'[e] = Advance(ctx[e], "context_assembling")
    BY <1>2, CallTypes DEF Acquire, Goto, Moved
  <2> QED  BY <1>0, <2>1 DEF Went, Course, Edge, Keeps, Found, Deciding, Entering, Written
<1>3. CASE Assemble(e)
  <2>1. /\ pc[e] = "assemble" /\ pc'[e] = "decide"
        /\ ctx'[e] = Advance(Advance(ctx[e], "planning"), "deciding")
    BY <1>3, CallTypes DEF Assemble, Goto, MovedVia
  <2>2. job'[e].writes = job[e].writes
    BY <1>3, CallTypes DEF Assemble, Jobs
  <2> QED  BY <1>0, <2>1, <2>2 DEF Went, Course, Edge, Keeps, Found, Deciding, Entering, Written
<1>4. CASE Decide(e)
  <2>1. pc[e] = "decide" /\ pc'[e] = "translate" /\ ctx'[e] = Advance(ctx[e], "proposing")
    BY <1>4, CallTypes DEF Decide, Goto, Moved
  <2>2. PICK op \in {"create", "modify"}, x \in Content, b \in BOOLEAN :
           job' = [job EXCEPT ![e].op = op, ![e].content = x, ![e].barred = b]
    BY <1>4 DEF Decide
  <2>3. job'[e].writes = job[e].writes
    BY <2>2, CallTypes DEF Jobs
  <2> QED  BY <1>0, <2>1, <2>3 DEF Went, Course, Edge, Keeps, Found, Deciding, Entering, Written
<1>5. CASE Translate(e)
  <2>1. pc[e] = "translate" /\ pc'[e] = "validate" /\ ctx'[e] = Advance(ctx[e], "authorizing")
    BY <1>5, CallTypes DEF Translate, Goto, Moved
  <2>2. job'[e].writes = job[e].writes /\ job'[e].expected = file
    BY <1>5, CallTypes DEF Translate, Jobs
  <2> QED  BY <1>0, <2>1, <2>2 DEF Went, Course, Edge, Keeps, Found, Deciding, Entering, Written
<1> QED  BY <1>1, <1>2, <1>3, <1>4, <1>5

(* The validation, and the retry for a receipt.                            *)
LEMMA ValidatingWent ==
    ASSUME RuntimeInv, NEW e \in Exec,
           Validate(e) \/ ValidateFails(e) \/ Retry(e) \/ Revalidate(e)
    PROVE  Went(e)
<1>0. UNCHANGED <<file, writer>>
  BY DEF Validate, ValidateFails, Retry, Revalidate
<1>1. CASE Validate(e)
  <2>1. CASE Raised(e) /\ UNCHANGED ctx
    BY <1>1, <2>1, <1>0, RaiseWent DEF Validate, Working
  <2>2. CASE ~(Raised(e) /\ UNCHANGED ctx)
    <3>1. /\ pc[e] = "validate" /\ pc'[e] = "mutate" /\ job'[e] = job[e]
          /\ ctx'[e] = Advance(ctx[e], "mutating")
      BY <1>1, <2>2, CallTypes DEF Validate, Goto, Moved
    <3>2. Fits(job[e], file) /\ FALSE \in Stale(job[e])
      <4>1. PICK stale \in Stale(job[e]) : ~stale
        BY <1>1, <2>2 DEF Validate
      <4>2. stale \in BOOLEAN
        BY <4>1 DEF Stale
      <4>3. stale = FALSE
        BY <4>1, <4>2
      <4> QED  BY <1>1, <4>3 DEF Validate
    <3>3. Fresh(job[e])
      BY <3>2 DEF Stale, Fresh
    <3>4. Course(e)
      BY <3>1 DEF Course, Edge
    <3> QED  BY <1>0, <3>1, <3>2, <3>3, <3>4 DEF Went, Keeps, Found
  <2> QED  BY <2>1, <2>2
<1>2. CASE ValidateFails(e)
  <2>1. pc[e] = "validate" /\ pc'[e] = "retry" /\ ctx'[e] = ctx[e] /\ job'[e] = job[e]
        /\ ~Fits(job[e], file)
    BY <1>2, CallTypes DEF ValidateFails, Goto
  <2> QED  BY <1>0, <2>1 DEF Went, Course, Edge, Keeps, Found
<1>3. CASE Retry(e) /\ ~Fail(e)
  <2>1. pc[e] = "retry" /\ pc'[e] = "mutate" /\ ctx'[e] = ctx[e] /\ job'[e] = job[e]
        /\ Fits(job[e], file)
    BY <1>3, CallTypes DEF Retry, Continue, Goto
  <2> QED  BY <1>0, <2>1 DEF Went, Course, Edge, Keeps, Found
<1>4. CASE Revalidate(e) /\ ~Fail(e)
  <2>1. pc[e] = "mutate" /\ pc'[e] = "capture" /\ ctx'[e] = ctx[e] /\ job'[e] = job[e]
    BY <1>4, CallTypes DEF Revalidate, Continue, Goto
  <2> QED  BY <1>0, <2>1 DEF Went, Course, Edge, Keeps, Found
<1>5. CASE (Retry(e) \/ Revalidate(e)) /\ Fail(e)
  BY <1>5, <1>0, FailWent DEF Retry, Revalidate, Working
<1> QED  BY <1>1, <1>2, <1>3, <1>4, <1>5

(* The capture, the write, and what is read back of it.                    *)
LEMMA WritingWent ==
    ASSUME RuntimeInv, NEW e \in Exec, Capture(e) \/ Replace(e) \/ ReadBack(e)
    PROVE  Went(e)
<1>0. Capture(e) \/ ReadBack(e) => UNCHANGED <<file, writer>>
  BY DEF Capture, ReadBack
<1>1. CASE Capture(e) /\ ~Raised(e)
  <2>1. pc[e] = "capture" /\ pc'[e] = "replace" /\ ctx'[e] = ctx[e]
    BY <1>1, CallTypes DEF Capture, Goto
  <2>2. /\ job'[e].writes = job[e].writes /\ job'[e].context = job[e].context
        /\ job'[e].previous = job[e].previous /\ job'[e].expected = job[e].expected
        /\ job'[e].op = job[e].op
    BY <1>1, CallTypes DEF Capture, Jobs
  <2> QED  BY <1>0, <1>1, <2>1, <2>2 DEF Went, Course, Edge, Keeps, Found
<1>2. CASE Replace(e)
  <2>1. pc[e] = "replace" /\ pc'[e] = "readback" /\ ctx'[e] = ctx[e] /\ writer' = e
    BY <1>2, CallTypes DEF Replace, Goto
  <2>2. /\ job'[e].writes = job[e].writes + 1 /\ job'[e].context = job[e].context
        /\ job'[e].previous = job[e].previous /\ job'[e].expected = job[e].expected
        /\ job'[e].op = job[e].op
    BY <1>2, CallTypes DEF Replace, Jobs
  <2> QED  BY <2>1, <2>2 DEF Went, Course, Edge, Keeps, Found
<1>3. CASE ReadBack(e) /\ Differs(e) /\ file # job[e].content
  <2>1. pc[e] = "readback" /\ pc'[e] = "check" /\ ctx'[e] = ctx[e]
    BY <1>3, CallTypes DEF ReadBack, Differs, Goto
  <2>2. /\ job'[e].writes = job[e].writes /\ job'[e].context = job[e].context
        /\ job'[e].previous = job[e].previous /\ job'[e].expected = job[e].expected
        /\ job'[e].op = job[e].op
    BY <1>3, CallTypes DEF Differs, Jobs
  <2> QED  BY <1>0, <1>3, <2>1, <2>2 DEF Went, Course, Edge, Keeps, Found
<1>4. CASE /\ ReadBack(e) /\ pc[e] = "readback" /\ "verifying" \in LegalTargets(ctx[e].state)
           /\ Goto(e, "verify") /\ Moved(e, "verifying") /\ UNCHANGED <<lock, job>>
  <2>1. /\ pc'[e] = "verify" /\ ctx'[e] = Advance(ctx[e], "verifying") /\ job'[e] = job[e]
    BY <1>4, CallTypes DEF Goto, Moved
  <2> QED  BY <1>0, <1>4, <2>1 DEF Went, Course, Edge, Keeps, Found
<1>5. CASE (Capture(e) \/ ReadBack(e)) /\ Raised(e) /\ UNCHANGED ctx
  BY <1>5, <1>0, RaiseWent DEF Capture, ReadBack, Working
<1>6. CASE ReadBack(e) /\ Fail(e)
  BY <1>6, <1>0, FailWent DEF ReadBack, Working
<1> QED  BY <1>1, <1>2, <1>3, <1>4, <1>5, <1>6 DEF Capture, ReadBack

(* The restore, the verdict, the replanning and the report.                *)
LEMMA ConcludingWent ==
    ASSUME RuntimeInv, NEW e \in Exec,
           \/ CheckRestore(e) \/ Restore(e) \/ VerifyPasses(e) \/ VerifyFails(e)
           \/ Recover(e) \/ RecoverFails(e) \/ Report(e) \/ ReportFails(e)
    PROVE  Went(e)
<1>0. UNCHANGED <<file, writer>> \/ pc[e] = "restore"
  BY DEF CheckRestore, Restore, VerifyPasses, VerifyFails, Recover, RecoverFails, Report,
         ReportFails
<1>1. CASE CheckRestore(e) /\ ~Fail(e)
  <2>1. pc[e] = "check" /\ pc'[e] = "restore" /\ ctx'[e] = ctx[e] /\ job'[e] = job[e]
    BY <1>1, CallTypes DEF CheckRestore, Continue, Goto
  <2> QED  BY <1>0, <2>1 DEF Went, Course, Edge, Keeps, Found
<1>2. CASE (CheckRestore(e) \/ Restore(e) \/ VerifyFails(e) \/ RecoverFails(e)) /\ Fail(e)
  BY <1>2, <1>0, FailWent DEF CheckRestore, Restore, VerifyFails, RecoverFails, Working
<1>3. CASE (Restore(e) \/ ReportFails(e)) /\ ~Fail(e)
  <2>1. pc[e] \in Working /\ Raised(e) /\ UNCHANGED ctx
    BY <1>3 DEF Restore, ReportFails, Working
  <2> QED  BY <2>1, <1>0, RaiseWent
<1>4. CASE VerifyPasses(e)
  <2>1. /\ pc[e] = "verify" /\ Goto(e, "report") /\ Close(e)
        /\ ctx' = [ctx EXCEPT ![e] = Advance(ctx[e], "completed")]
    BY <1>4, CallTypes DEF VerifyPasses, Finish, Moved
  <2>2. pc[e] \in Working /\ pc[e] # "report"
    BY <2>1 DEF Working
  <2> QED  BY <2>1, <2>2, <1>0, StopWent
<1>5. CASE VerifyFails(e) /\ ~Fail(e)
  <2>1. /\ pc[e] = "verify" /\ pc'[e] = "recover" /\ ctx'[e] = Advance(ctx[e], "reflecting")
        /\ job'[e] = job[e] /\ ctx[e].iteration = 1
    BY <1>5, CallTypes DEF VerifyFails, Goto, Moved
  <2> QED  BY <1>0, <2>1 DEF Went, Course, Edge, Keeps, Found
<1>6. CASE Recover(e)
  <2>1. /\ pc[e] = "recover" /\ pc'[e] = "assemble"
        /\ ctx'[e] = Advance(Advance(ctx[e], "replanning"), "context_assembling")
    BY <1>6, CallTypes DEF Recover, Goto, MovedVia
  <2> DEFINE a == [context |-> job[e].context, content |-> job[e].content]
  <2>2. job' = [job EXCEPT ![e] = [Closed(job[e]) EXCEPT !.previous = a]]
    BY <1>6, CallTypes DEF Recover
  <2>3. job'[e].writes = job[e].writes
    <3>1. Closed(job[e]) \in Jobs /\ Closed(job[e]).writes = job[e].writes
      BY CallTypes, ClosedType
    <3>2. job'[e] = [Closed(job[e]) EXCEPT !.previous = a]
      BY <2>2, CallTypes
    <3> QED  BY <3>1, <3>2 DEF Jobs
  <2> QED  BY <1>0, <2>1, <2>3 DEF Went, Course, Edge, Keeps, Found, Deciding, Entering, Written
<1>7. CASE RecoverFails(e) /\ ~Fail(e)
  BY <1>7, <1>0, StopWent, CallTypes DEF RecoverFails, MovedVia, Working
<1>8. CASE Report(e)
  <2>1. pc[e] = "report" /\ pc'[e] = "returned" /\ ctx'[e] = ctx[e] /\ job'[e] = job[e]
    BY <1>8, CallTypes DEF Report, Goto
  <2> QED  BY <1>0, <2>1 DEF Went, Course, Edge, Keeps, Found, Deciding, Entering, Written
<1>9. CASE ReportFails(e) /\ Fail(e)
  BY <1>9, <1>0, RaiseWent DEF ReportFails, Working
<1> QED  BY <1>1, <1>2, <1>3, <1>4, <1>5, <1>6, <1>7, <1>8, <1>9

(* Every step of a thread is one of these.                                 *)
LEMMA StepWent == ASSUME RuntimeInv, NEW e \in Exec, Begin(e) \/ Step(e) PROVE Went(e)
<1>1. CASE \/ AssembleFails(e) \/ DecideFails(e) \/ TranslateFails(e) \/ ReplaceFails(e)
           \/ ReadBackFails(e) \/ RestoreFails(e)
  BY <1>1, FailWent DEF AssembleFails, DecideFails, TranslateFails, ReplaceFails, ReadBackFails,
                        RestoreFails, Working
<1>2. CASE Escape(e)
  BY <1>2, RaiseWent DEF Escape
<1> QED
  BY <1>1, <1>2, AskingWent, ValidatingWent, WritingWent, ConcludingWent
     DEF Step, Authorizing, Mutating, Concluding

-----------------------------------------------------------------------------
(* The runtime asks the state machine for legal transitions only. *)

(* The machine accepts a transition of c, with budget left for its target. *)
Moves(c, d) == \E t \in LegalTargets(c.state) : ~Exhausted(c, t) /\ d = Advance(c, t)
MovesTwice(c, d) ==
    \E t \in LegalTargets(c.state) : ~Exhausted(c, t) /\ Moves(Advance(c, t), d)

(* Only three states have a budget.                                        *)
LEMMA Unlimited ==
    ASSUME NEW c, NEW t, t \notin {"context_assembling", "mutating", "verifying"}
    PROVE  ~Exhausted(c, t)
BY DEF Exhausted

(* A step of a call is at most two transitions the machine accepts.        *)
LEMMA CourseIsLegal ==
    ASSUME RuntimeInv, NEW e \in Exec, Course(e)
    PROVE  ctx'[e] = ctx[e] \/ Moves(ctx[e], ctx'[e]) \/ MovesTwice(ctx[e], ctx'[e])
<1> DEFINE c == ctx[e]
           d == ctx'[e]
<1>1. c \in Contexts /\ Phase(pc[e], c, job[e])
  BY CallTypes
<1>2. CASE pc[e] = "assemble" /\ d = Advance(Advance(c, "planning"), "deciding")
  <2>1. c.state = "context_assembling"
    BY <1>1, <1>2 DEF Phase
  <2>2. Advance(c, "planning").state = "planning"
    BY <1>1, AdvanceFree DEF States
  <2>3. "planning" \in LegalTargets(c.state) /\ Moves(Advance(c, "planning"), d)
    BY <1>2, <2>1, <2>2, Unlimited DEF Moves, LegalTargets
  <2> QED  BY <2>3, Unlimited DEF MovesTwice
<1>3. CASE /\ pc[e] = "recover"
           /\ \E t \in {"context_assembling", "failed"} : d = Advance(Advance(c, "replanning"), t)
  <2>1. c.state = "reflecting" /\ c.iteration = 1
    BY <1>1, <1>3 DEF Phase
  <2>2. LET r == Advance(c, "replanning")
        IN  r.state = "replanning" /\ r.iteration = 1 /\ r.limits.iterations = 2
    BY <1>1, <2>1, AdvanceFree DEF States, Contexts, Two
  <2>3. PICK t \in {"context_assembling", "failed"} : d = Advance(Advance(c, "replanning"), t)
    BY <1>3
  <2>4. ~Exhausted(Advance(c, "replanning"), t)
    BY <2>2 DEF Exhausted
  <2>5. "replanning" \in LegalTargets(c.state) /\ Moves(Advance(c, "replanning"), d)
    BY <2>1, <2>2, <2>3, <2>4 DEF Moves, LegalTargets
  <2> QED  BY <2>5, Unlimited DEF MovesTwice
<1>4. CASE pc[e] \in Working \ {"report"} /\ d = Advance(c, "failed")
  <2>1. c.state \in {"context_assembling", "deciding", "proposing", "authorizing", "mutating",
                     "verifying", "reflecting"}
    BY <1>1, <1>4 DEF Phase, Working, Entering, Written
  <2>2. "failed" \in LegalTargets(c.state)
    BY <2>1 DEF LegalTargets
  <2> QED  BY <1>4, <2>2, Unlimited DEF Moves
<1>5. CASE d = c
  BY <1>5
<1>6. CASE \/ pc[e] = "decide" /\ d = Advance(c, "proposing")
           \/ pc[e] = "translate" /\ d = Advance(c, "authorizing")
           \/ pc[e] = "verify" /\ \E t \in {"completed", "reflecting"} : d = Advance(c, t)
  <2>1. /\ pc[e] = "decide" => c.state = "deciding"
        /\ pc[e] = "translate" => c.state = "proposing"
        /\ pc[e] = "verify" => c.state = "verifying"
    BY <1>1 DEF Phase
  <2> QED  BY <1>6, <2>1, Unlimited DEF Moves, LegalTargets
<1>7. CASE pc[e] = "acquire" /\ d = Advance(c, "context_assembling")
  <2>1. c.state = "created" /\ c.iteration = 0 /\ c.limits.iterations = 2
    BY <1>1, <1>7 DEF Phase, Created, Two
  <2> QED  BY <1>7, <2>1 DEF Moves, LegalTargets, Exhausted
<1>8. CASE pc[e] = "validate" /\ d = Advance(c, "mutating")
  <2>1. c.state = "authorizing" /\ c.iteration \in {1, 2} /\ c.mutations = c.iteration - 1
        /\ c.limits.mutations = 2
    BY <1>1, <1>8 DEF Phase, Asking, Spent, Working, Contexts, Two
  <2>2. ~Exhausted(c, "mutating")
    BY <2>1 DEF Exhausted
  <2> QED  BY <1>8, <2>1, <2>2 DEF Moves, LegalTargets
<1>9. CASE /\ pc[e] = "readback" /\ d = Advance(c, "verifying")
           /\ "verifying" \in LegalTargets(c.state)
  <2>1. c.iteration \in {1, 2} /\ c.verifications = c.iteration - 1 /\ c.limits.verifications = 2
    BY <1>1, <1>9 DEF Phase, Written, Spent, Working, Contexts, Two
  <2>2. ~Exhausted(c, "verifying")
    BY <2>1 DEF Exhausted
  <2> QED  BY <1>9, <2>2 DEF Moves
<1> QED  BY <1>2, <1>3, <1>4, <1>5, <1>6, <1>7, <1>8, <1>9 DEF Course, Edge

(* No call of transition_or_raise() in the runtime raises, but for the one *)
(* to VERIFYING after a write that was never charged: its targets are in   *)
(* the matrix, and no transition is redirected to FAILED because a budget  *)
(* of two has run out (runtime.py:496, state_machine.py:106).              *)
THEOREM TransitionsAreLegal ==
    Spec => [][\A e \in Exec : \/ ctx'[e] = ctx[e]
                              \/ Moves(ctx[e], ctx'[e])
                              \/ MovesTwice(ctx[e], ctx'[e])]_vars
<1>1. ASSUME RuntimeInv, [Next]_vars
      PROVE  [\A e \in Exec : \/ ctx'[e] = ctx[e]
                             \/ Moves(ctx[e], ctx'[e])
                             \/ MovesTwice(ctx[e], ctx'[e])]_vars
  <2>1. ASSUME NEW d \in Exec, Begin(d) \/ Step(d), NEW e \in Exec
        PROVE  ctx'[e] = ctx[e] \/ Moves(ctx[e], ctx'[e]) \/ MovesTwice(ctx[e], ctx'[e])
    BY <1>1, <2>1, StepDid, StepWent, OthersStay, CourseIsLegal DEF Went
  <2>2. CASE Edit \/ Crash
    BY <2>2 DEF Edit, Crash
  <2> QED  BY <1>1, <2>1, <2>2 DEF Next
<1> QED  BY <1>1, RuntimeSafety, PTL DEF Spec

-----------------------------------------------------------------------------
(* Every call gets nearer to its end. *)

(* The steps call e may still take: what is left of its iteration, and of  *)
(* a second one as long as it is in its first.                             *)
Rank(s) ==
    CASE s = "ready"     -> 25
      [] s = "acquire"   -> 24
      [] s = "assemble"  -> 12
      [] s = "decide"    -> 11
      [] s = "translate" -> 10
      [] s = "validate"  -> 9
      [] s = "retry"     -> 8
      [] s = "mutate"    -> 7
      [] s = "capture"   -> 6
      [] s = "replace"   -> 5
      [] s = "readback"  -> 4
      [] s \in {"check", "verify"} -> 3
      [] s \in {"restore", "recover"} -> 2
      [] s = "report"    -> 1
      [] OTHER           -> 0
StepsLeft(s, c) ==
    Rank(s) + IF s \in Working \ {"report"} /\ c.iteration = 1 THEN 11 ELSE 0

(* Only entering the context-assembling state changes the iteration.       *)
LEMMA SameIteration ==
    ASSUME NEW c \in Contexts, NEW t \in States \ {"context_assembling"}
    PROVE  Advance(c, t).iteration = c.iteration
<1>1. Landing(c, t) # "context_assembling"
  BY DEF Landing
<1>2. c.iteration \in Nat
  BY DEF Contexts
<1> QED  BY <1>1, <1>2, AdvanceFields DEF Used

(* A step that stays in the iteration takes away at least one.             *)
LEMMA LeftInIteration ==
    ASSUME NEW s \in Steps, NEW u \in Steps, NEW c, NEW d,
           Rank(u) < Rank(s), d.iteration = c.iteration,
           u \in Working \ {"report"} => s \in Working \ {"report"}
    PROVE  StepsLeft(u, d) < StepsLeft(s, c)
<1>1. Rank(s) \in Nat /\ Rank(u) \in Nat
  BY DEF Rank
<1> DEFINE a == IF s \in Working \ {"report"} /\ c.iteration = 1 THEN 11 ELSE 0
           b == IF u \in Working \ {"report"} /\ d.iteration = 1 THEN 11 ELSE 0
<1>2. a \in Nat /\ b \in Nat /\ b <= a
  OBVIOUS
<1>3. StepsLeft(s, c) = Rank(s) + a /\ StepsLeft(u, d) = Rank(u) + b
  BY DEF StepsLeft
<1> HIDE DEF a, b
<1> QED  BY <1>1, <1>2, <1>3

(* So does one that starts an iteration.                                   *)
LEMMA CourseShrinks ==
    ASSUME RuntimeInv, NEW e \in Exec, Course(e), pc'[e] \in Steps
    PROVE  StepsLeft(pc'[e], ctx'[e]) < StepsLeft(pc[e], ctx[e])
<1> DEFINE s == pc[e]
           u == pc'[e]
           c == ctx[e]
           d == ctx'[e]
<1>1. c \in Contexts /\ Phase(s, c, job[e]) /\ s \in Steps
  BY CallTypes
<1>2. CASE s = "acquire" /\ u = "assemble"
  BY <1>2 DEF StepsLeft, Rank, Working
<1>3. CASE s = "recover" /\ u = "assemble"
  <2>1. c.iteration = 1 /\ d = Advance(Advance(c, "replanning"), "context_assembling")
    BY <1>1, <1>3 DEF Phase, Course, Edge
  <2>2. /\ Advance(c, "replanning") \in Contexts /\ Advance(c, "replanning").iteration = 1
    BY <1>1, <2>1, AdvanceFree DEF States
  <2>3. d.iteration = 2
    BY <2>1, <2>2, AdvanceCharged DEF Used
  <2> QED  BY <1>3, <2>1, <2>3 DEF StepsLeft, Rank, Working
<1>4. CASE ~(u = "assemble")
  <2>1. d.iteration = c.iteration
    <3>1. CASE s = "assemble" /\ d = Advance(Advance(c, "planning"), "deciding")
      <4>1. Advance(c, "planning") \in Contexts /\ Advance(c, "planning").iteration = c.iteration
        BY <1>1, AdvanceFree DEF States
      <4> QED  BY <3>1, <4>1, SameIteration DEF States
    <3>2. CASE s = "recover" /\ d = Advance(Advance(c, "replanning"), "failed")
      <4>1. /\ Advance(c, "replanning") \in Contexts
            /\ Advance(c, "replanning").iteration = c.iteration
        BY <1>1, AdvanceFree DEF States
      <4> QED  BY <3>2, <4>1, SameIteration DEF States, Terminal
    <3>3. CASE \E t \in States \ {"context_assembling"} : d = Advance(c, t)
      BY <1>1, <3>3, SameIteration
    <3>4. CASE d = c
      BY <3>4
    <3> QED  BY <1>4, <3>1, <3>2, <3>3, <3>4 DEF Course, Edge, States, Terminal
  <2>2. Rank(u) < Rank(s)
    BY <1>4 DEF Course, Edge, Rank, Working
  <2>3. u \in Working \ {"report"} => s \in Working \ {"report"}
    BY <1>4 DEF Course, Edge, Working
  <2> QED  BY <1>1, <2>1, <2>2, <2>3, LeftInIteration
<1>5. u = "assemble" => s \in {"acquire", "recover"}
  BY DEF Course, Edge, Working
<1> QED  BY <1>2, <1>3, <1>4, <1>5

Progress(e) ==
    /\ StepsLeft(pc[e], ctx[e]) \in 0..25
    /\ StepsLeft(pc'[e], ctx'[e]) <= StepsLeft(pc[e], ctx[e])
    /\ Begin(e) \/ Step(e) => StepsLeft(pc'[e], ctx'[e]) < StepsLeft(pc[e], ctx[e])

(* No call of execute() runs for ever: each step of its thread leaves it   *)
(* fewer to take, 25 at most, and no other thread, program or crash gives  *)
(* it more.  Only a thread that is not scheduled, or waits for the lock,   *)
(* keeps a call from its end (runtime.py:144).                             *)
THEOREM CallsShrink == Spec => [][\A e \in Exec : Progress(e)]_vars
<1> DEFINE Left(e) == StepsLeft(pc[e], ctx[e])
           Later(e) == StepsLeft(pc'[e], ctx'[e])
<1>1. ASSUME RuntimeInv, [Next]_vars, NEW e \in Exec, vars' # vars
      PROVE  Progress(e)
  <2>1. Left(e) \in 0..25
    BY DEF StepsLeft, Rank, Working
  <2>2. ASSUME Begin(e) \/ Step(e) PROVE Later(e) < Left(e) /\ Later(e) \in Nat
    <3>1. Course(e) /\ pc'[e] \in Steps
      BY <1>1, <2>2, StepWent, StepDid DEF Went, Did, Own, CallOk
    <3>2. Later(e) \in Nat
      BY DEF StepsLeft, Rank
    <3> QED  BY <1>1, <3>1, <3>2, CourseShrinks
  <2>3. ASSUME NEW d \in Exec \ {e}, Begin(d) \/ Step(d) PROVE Later(e) = Left(e)
    BY <1>1, <2>3, StepDid, OthersStay
  <2>4. ASSUME Crash PROVE Later(e) <= Left(e)
    <3>1. pc'[e] = pc[e] \/ pc'[e] = "killed"
      BY <2>4 DEF Crash
    <3>2. ctx' = ctx
      BY <2>4 DEF Crash
    <3>3. CASE pc'[e] = "killed"
      <4>1. Later(e) = 0
        BY <3>3 DEF StepsLeft, Rank, Working
      <4> QED  BY <2>1, <4>1
    <3> HIDE DEF Left, Later
    <3>4. CASE pc'[e] = pc[e]
      <4>1. Later(e) = Left(e)
        BY <3>2, <3>4 DEF Left, Later
      <4> QED  BY <2>1, <4>1
    <3> QED  BY <3>1, <3>3, <3>4
  <2> HIDE DEF Left, Later
  <2>5. \/ \E d \in Exec : Begin(d) \/ Step(d)
        \/ Edit \/ Crash
    BY <1>1 DEF Next
  <2>6. ASSUME Edit PROVE Later(e) = Left(e)
    BY <2>6 DEF Edit, Left, Later
  <2>7. Later(e) <= Left(e)
    <3>1. CASE Begin(e) \/ Step(e)
      BY <2>1, <2>2, <3>1
    <3>2. CASE (\E d \in Exec \ {e} : Begin(d) \/ Step(d)) \/ Edit
      BY <2>1, <2>3, <2>6, <3>2
    <3> QED  BY <2>4, <2>5, <3>1, <3>2
  <2> QED  BY <2>1, <2>2, <2>7 DEF Progress, Left, Later
<1>2. ASSUME RuntimeInv, [Next]_vars PROVE [\A e \in Exec : Progress(e)]_vars
  BY <1>1, <1>2
<1> QED  BY <1>2, RuntimeSafety, PTL DEF Spec

-----------------------------------------------------------------------------
(* A write the ledger does not show. *)

(* Writes and mutations of one call: they differ by one at most, and only  *)
(* once it has written its last.                                           *)
Over == Written \cup {"report"} \cup Ended
Charges(s, c, j) ==
    /\ j.writes <= c.iteration
    /\ j.writes <= c.mutations + 1
    /\ j.writes > c.mutations => s \in Over

(* What the phase of a call at work says of its charges.                   *)
LEMMA PhaseCharges ==
    ASSUME NEW s \in Steps \ ({"report"} \cup Ended), NEW c \in Contexts, NEW j \in Jobs,
           Phase(s, c, j)
    PROVE  Charges(s, c, j)
<1>1. c.iteration \in 0..2 /\ c.mutations \in 0..2 /\ j.writes \in 0..2
  BY DEF Contexts, Jobs
<1>2. CASE s \in {"ready", "acquire"}
  <2>1. c = Created(Two) /\ j.writes = 0
    BY <1>2 DEF Phase
  <2>2. c.iteration = 0 /\ c.mutations = 0
    BY <2>1 DEF Created
  <2> QED  BY <2>1, <2>2 DEF Charges
<1>3. CASE s \in {"assemble"} \cup Asking \cup {"verify", "recover"}
  BY <1>1, <1>3 DEF Phase, Spent, Charges, Asking, Working
<1>4. CASE s \in Entering
  <2>1. j.writes = c.iteration - 1 /\ (c.mutations = c.iteration \/ c.mutations = c.iteration - 1)
        /\ c.iteration \in {1, 2}
    BY <1>4 DEF Phase, Spent, Entering, Written, Working
  <2> QED  BY <1>1, <2>1 DEF Charges
<1>5. CASE s \in Written
  <2>1. j.writes = c.iteration /\ (c.mutations = c.iteration \/ c.mutations = c.iteration - 1)
        /\ c.iteration \in {1, 2}
    BY <1>5 DEF Phase, Spent, Entering, Written, Working
  <2> QED  BY <1>1, <1>5, <2>1 DEF Charges, Over
<1> QED  BY <1>2, <1>3, <1>4, <1>5 DEF Steps, Working, Ended, Asking, Entering, Written

(* A call that stops is charged no less than before.                       *)
LEMMA ChargesStep ==
    ASSUME RuntimeInv, NEW e \in Exec, Went(e), Did(e), Charges(pc[e], ctx[e], job[e])
    PROVE  Charges(pc'[e], ctx'[e], job'[e])
<1> DEFINE s == pc[e]
           u == pc'[e]
           c == ctx[e]
           d == ctx'[e]
<1>1. CASE u \notin {"report"} \cup Ended
  BY <1>1, PhaseCharges DEF Did, Own, CallOk
<1>2. CASE u \in {"report"} \cup Ended
  <2>1. job'[e].writes = job[e].writes
    BY <1>2 DEF Went, Keeps, Ended
  <2>2. c \in Contexts
    BY CallTypes
  <2>3. d.iteration = c.iteration /\ d.mutations = c.mutations
    <3>1. CASE \E t \in {"failed", "completed"} : d = Advance(c, t)
      BY <2>2, <3>1, AdvanceFree DEF States, Terminal
    <3>2. CASE d = Advance(Advance(c, "replanning"), "failed")
      <4>1. /\ Advance(c, "replanning") \in Contexts
            /\ Advance(c, "replanning").iteration = c.iteration
            /\ Advance(c, "replanning").mutations = c.mutations
        BY <2>2, AdvanceFree DEF States
      <4> QED  BY <3>2, <4>1, AdvanceFree DEF States, Terminal
    <3>3. CASE d = c
      BY <3>3
    <3> QED  BY <1>2, <3>1, <3>2, <3>3 DEF Went, Course, Edge, Ended
  <2> QED  BY <1>2, <2>1, <2>3 DEF Charges, Over
<1> QED  BY <1>1, <1>2

(* The approval a write may lack (see WritesApproved) is missing at most   *)
(* once in an execution, and then it was the last of its writes: no        *)
(* execution writes the file more often than it has iterations, and one    *)
(* that has written without being charged never writes again, nor          *)
(* verifies, nor completes (mutation/runtime.py:83, runtime.py:312).       *)
THEOREM OneUnchargedWrite == Spec => [](\A e \in Exec : Charges(pc[e], ctx[e], job[e]))
<1> DEFINE Inv == RuntimeInv /\ \A e \in Exec : Charges(pc[e], ctx[e], job[e])
<1>1. Init => Inv
  <2> SUFFICES ASSUME Init PROVE Inv
    OBVIOUS
  <2>1. RuntimeInv
    BY RuntimeInit
  <2>2. \A e \in Exec : pc[e] = "ready"
    BY DEF Init
  <2> QED  BY <2>1, <2>2, CallTypes, PhaseCharges DEF Ended
<1>2. ASSUME Inv, [Next]_vars PROVE Inv'
  <2>1. RuntimeInv'
    BY <1>2, RuntimeStep
  <2>2. ASSUME NEW e \in Exec PROVE Charges(pc'[e], ctx'[e], job'[e])
    <3>1. CASE Begin(e) \/ Step(e)
      BY <1>2, <3>1, StepWent, StepDid, ChargesStep
    <3>2. ASSUME NEW d \in Exec \ {e}, Begin(d) \/ Step(d)
          PROVE  Charges(pc'[e], ctx'[e], job'[e])
      BY <1>2, <3>2, StepDid, OthersStay
    <3>3. CASE Edit \/ UNCHANGED vars
      BY <1>2, <3>3 DEF Edit, vars
    <3>4. CASE Crash
      <4>1. /\ pc'[e] = pc[e] \/ pc'[e] = "killed"
            /\ job'[e] = job[e] \/ job'[e] = Closed(job[e])
            /\ ctx'[e] = ctx[e]
        BY <3>4 DEF Crash
      <4>2. job'[e].writes = job[e].writes
        BY <1>2, <4>1, CallTypes, ClosedType
      <4> QED  BY <1>2, <4>1, <4>2 DEF Charges, Over, Ended
    <3> QED  BY <1>2, <3>1, <3>2, <3>3, <3>4 DEF Next
  <2> QED  BY <2>1, <2>2
<1>3. Inv => \A e \in Exec : Charges(pc[e], ctx[e], job[e])
  OBVIOUS
<1> QED  BY <1>1, <1>2, <1>3, PTL DEF Spec

-----------------------------------------------------------------------------
(* The second mutation. *)

(* What an iteration that is charged for a mutation rests on.              *)
FreshCall(s, c, j) ==
    s \in Entering \cup Written \cup {"verify"} /\ c.state \in {"mutating", "verifying"}
        => Fresh(j)

(* Every step of the call keeps that.                                      *)
LEMMA FreshStep ==
    ASSUME RuntimeInv, NEW e \in Exec, Went(e), Did(e), FreshCall(pc[e], ctx[e], job[e])
    PROVE  FreshCall(pc'[e], ctx'[e], job'[e])
<1> DEFINE s == pc[e]
           u == pc'[e]
           c == ctx[e]
           d == ctx'[e]
<1> SUFFICES ASSUME u \in Entering \cup Written \cup {"verify"},
                    d.state \in {"mutating", "verifying"}
             PROVE  Fresh(job'[e])
  BY DEF FreshCall
<1>1. c \in Contexts /\ Phase(s, c, job[e])
  BY CallTypes
<1>2. Course(e) /\ Keeps(e) /\ Found(e)
  BY DEF Went
<1>3. s \in Deciding /\ u \in Deciding
  BY <1>2 DEF Course, Edge, Deciding, Entering, Written
<1>4. job'[e].context = job[e].context /\ job'[e].previous = job[e].previous
  BY <1>2, <1>3 DEF Keeps
<1>5. Fresh(job[e])
  <2>1. CASE s = "validate"
    <3>1. u = "mutate"
      BY <1>2, <2>1 DEF Course, Edge, Entering, Written
    <3> QED  BY <1>2, <2>1, <3>1 DEF Found
  <2>2. CASE s = "retry"
    <3>1. d = c /\ c.state = "authorizing"
      BY <1>1, <1>2, <2>2 DEF Course, Edge, Entering, Written, Phase
    <3> QED  BY <3>1
  <2>3. CASE s \notin {"validate", "retry"}
    <3>1. s \in Entering \cup Written
      BY <1>2, <2>3 DEF Course, Edge, Entering, Written
    <3>2. c.state \in {"mutating", "verifying"}
      <4>1. d = c \/ "verifying" \in LegalTargets(c.state)
        BY <1>2, <2>3 DEF Course, Edge, Entering, Written
      <4> QED  BY <4>1 DEF LegalTargets
    <3> QED  BY <3>1, <3>2 DEF FreshCall
  <2> QED  BY <2>1, <2>2, <2>3
<1> QED  BY <1>4, <1>5 DEF Fresh

(* A second iteration is charged for a mutation, writes and verifies on a  *)
(* repository context of its own: what the first iteration was decided on  *)
(* is never good for two mutations (authority.py:56).  The retry for a     *)
(* receipt, which is not charged, is outside: it never asks.               *)
THEOREM SecondMutationIsFresh == Spec => [](\A e \in Exec : FreshCall(pc[e], ctx[e], job[e]))
<1> DEFINE Inv == RuntimeInv /\ \A e \in Exec : FreshCall(pc[e], ctx[e], job[e])
<1>1. Init => Inv
  BY RuntimeInit DEF Init, FreshCall, Entering, Written
<1>2. ASSUME Inv, [Next]_vars PROVE Inv'
  <2>1. RuntimeInv'
    BY <1>2, RuntimeStep
  <2>2. ASSUME NEW e \in Exec PROVE FreshCall(pc'[e], ctx'[e], job'[e])
    <3>1. CASE Begin(e) \/ Step(e)
      BY <1>2, <3>1, StepWent, StepDid, FreshStep
    <3>2. ASSUME NEW d \in Exec \ {e}, Begin(d) \/ Step(d)
          PROVE  FreshCall(pc'[e], ctx'[e], job'[e])
      BY <1>2, <3>2, StepDid, OthersStay
    <3>3. CASE Edit \/ UNCHANGED vars
      BY <1>2, <3>3 DEF Edit, vars
    <3>4. CASE Crash
      BY <3>4 DEF Crash, FreshCall, Entering, Written, Working
    <3> QED  BY <1>2, <3>1, <3>2, <3>3, <3>4 DEF Next
  <2> QED  BY <2>1, <2>2
<1>3. Inv => \A e \in Exec : FreshCall(pc[e], ctx[e], job[e])
  OBVIOUS
<1> QED  BY <1>1, <1>2, <1>3, PTL DEF Spec

-----------------------------------------------------------------------------
(* The workspace to themselves. *)

(* The lock of a workspace admits one execution at a time (runtime.py:156), *)
(* and nobody but an execution at work keeps the others waiting.           *)
THEOREM OneAtWork ==
    Spec => [](/\ \A d, e \in Exec : pc[d] \in Working /\ pc[e] \in Working => d = e
               /\ lock # Nobody => pc[lock] \in Working)
<1>1. RuntimeInv => /\ \A d, e \in Exec : pc[d] \in Working /\ pc[e] \in Working => d = e
                    /\ lock # Nobody => pc[lock] \in Working
  BY DEF RuntimeInv, LockInv, TypeOK
<1> QED  BY <1>1, RuntimeSafety, PTL

(* Until another program changes the file a call finds it as it left it.   *)
QuietCall(s, c, j, f, w, e) ==
    /\ s \in {"validate", "retry"} => j.expected = f
    /\ s = "retry" => ~Fits(j, f)
    /\ s \in Entering => c.state = "mutating"
    /\ s \in {"readback", "verify"} => w = e
    /\ s \notin {"check", "restore"}
QuietInv == edits = 0 => \A e \in Exec : QuietCall(pc[e], ctx[e], job[e], file, writer, e)

(* A call's own step leaves it with the file as it left it.                *)
LEMMA QuietStep ==
    ASSUME RuntimeInv, NEW e \in Exec, Went(e), Did(e),
           QuietCall(pc[e], ctx[e], job[e], file, writer, e)
    PROVE  QuietCall(pc'[e], ctx'[e], job'[e], file', writer', e)
<1> DEFINE s == pc[e]
           u == pc'[e]
           c == ctx[e]
           d == ctx'[e]
<1>1. /\ c \in Contexts /\ Phase(s, c, job[e]) /\ s # "restore"
      /\ Phase(u, d, job'[e])
  BY CallTypes DEF Did, Own, CallOk, QuietCall
<1>2. Course(e) /\ Keeps(e) /\ Found(e)
  BY DEF Went
<1>3. UNCHANGED <<file, writer>> \/ u = "readback"
  BY <1>1, <1>2 DEF Found
<1>4. CASE u = "validate"
  BY <1>2, <1>3, <1>4 DEF QuietCall, Found, Entering
<1>5. CASE u = "retry"
  <2>1. s = "validate"
    BY <1>2, <1>5 DEF Course, Edge
  <2>2. job'[e].expected = job[e].expected /\ job[e].expected = file
    BY <1>2, <1>5, <2>1 DEF Keeps, Deciding, QuietCall
  <2>3. ~Fits(job'[e], file)
    BY <1>2, <1>5 DEF Found
  <2> QED  BY <1>3, <1>5, <2>2, <2>3 DEF QuietCall, Entering
<1>6. CASE u \in Entering
  <2>1. d.state = "mutating"
    <3>1. CASE s = "validate"
      <4>1. d = Advance(c, "mutating")
        BY <1>2, <1>6, <3>1 DEF Course, Edge, Entering
      <4>2. d.state \in {"mutating", "failed"}
        BY <1>1, <4>1, AdvanceFields DEF States, Landing
      <4>3. d.state \in {"mutating", "authorizing"}
        BY <1>1, <1>6 DEF Phase
      <4> QED  BY <4>2, <4>3
    <3>2. CASE s = "retry"
      BY <1>2, <1>6, <3>2 DEF Course, Edge, Entering, Found, QuietCall
    <3>3. CASE s \in Entering
      BY <1>2, <1>6, <3>3 DEF Course, Edge, Entering, QuietCall
    <3>4. s \in {"validate", "retry"} \cup Entering
      BY <1>2, <1>6 DEF Course, Edge, Entering
    <3> QED  BY <3>1, <3>2, <3>3, <3>4
  <2> QED  BY <1>6, <2>1 DEF QuietCall, Entering
<1>7. CASE u = "readback"
  BY <1>2, <1>7 DEF QuietCall, Found, Entering
<1>8. CASE u = "verify"
  <2>1. s = "readback"
    BY <1>2, <1>8 DEF Course, Edge
  <2> QED  BY <1>3, <1>8, <2>1 DEF QuietCall, Entering
<1>9. u # "check"
  <2> SUFFICES ASSUME u = "check" PROVE FALSE
    OBVIOUS
  <2>1. s = "readback" /\ file # job[e].content
    BY <1>2 DEF Course, Edge, Found
  <2>2. writer = e
    BY <2>1 DEF QuietCall
  <2> QED  BY <2>1, <2>2 DEF RuntimeInv, OwnWriteStands
<1>10. u # "restore"
  BY <1>2 DEF Course, Edge, QuietCall
<1> QED
  BY <1>4, <1>5, <1>6, <1>7, <1>8, <1>9, <1>10 DEF QuietCall, Entering

(* The lock keeps the other executions from disturbing it.                 *)
LEMMA QuietOther ==
    ASSUME RuntimeInv, NEW e \in Exec, NEW d \in Exec \ {e}, Went(d), Did(d),
           QuietCall(pc[e], ctx[e], job[e], file, writer, e)
    PROVE  QuietCall(pc'[e], ctx'[e], job'[e], file', writer', e)
<1>1. pc'[e] = pc[e] /\ ctx'[e] = ctx[e] /\ job'[e] = job[e]
  BY OthersStay
<1>2. CASE UNCHANGED <<file, writer>>
  BY <1>1, <1>2
<1>3. CASE pc[e] \notin Working
  BY <1>1, <1>3 DEF QuietCall, Working, Entering
<1>4. UNCHANGED <<file, writer>> \/ pc[d] \in Working
  BY DEF Did, FileUse
<1>5. pc[d] \in Working => pc[e] \notin Working
  BY DEF RuntimeInv, LockInv
<1> QED  BY <1>2, <1>3, <1>4, <1>5

(* At the start no call is in the file.                                    *)
LEMMA QuietInit == Init => QuietInv
BY DEF Init, QuietInv, QuietCall, Entering

(* Every step keeps this until the first edit by another program.          *)
LEMMA QuietNext == ASSUME RuntimeInv, QuietInv, [Next]_vars PROVE QuietInv'
<1> SUFFICES ASSUME edits' = 0, NEW e \in Exec
             PROVE  QuietCall(pc'[e], ctx'[e], job'[e], file', writer', e)
  BY DEF QuietInv
<1>1. CASE UNCHANGED vars
  BY <1>1 DEF QuietInv, vars
<1>2. ASSUME NEW d \in Exec, Begin(d) \/ Step(d)
      PROVE  QuietCall(pc'[e], ctx'[e], job'[e], file', writer', e)
  <2>1. Went(d) /\ Did(d)
    BY <1>2, StepWent, StepDid
  <2>2. edits = 0
    BY <2>1 DEF Did, FileUse
  <2>3. QuietCall(pc[e], ctx[e], job[e], file, writer, e)
    BY <2>2 DEF QuietInv
  <2> QED  BY <2>1, <2>3, QuietStep, QuietOther
<1>3. CASE Edit
  <2>1. edits \in Nat /\ edits' = edits + 1
    BY <1>3, GovernedRuntimeConstants DEF Edit, RuntimeInv, TypeOK
  <2> QED  BY <2>1
<1>4. CASE Crash
  BY <1>4 DEF Crash, QuietCall, Working, Entering
<1> QED  BY <1>1, <1>2, <1>3, <1>4 DEF Next

(* So it holds in every behaviour.                                         *)
LEMMA QuietSafety == Spec => [](RuntimeInv /\ QuietInv)
BY RuntimeInit, RuntimeStep, QuietInit, QuietNext, PTL DEF Spec

(* What runtime.py:511 says of every write is true as long as nobody else  *)
(* has changed the file, however many executions share the workspace: the  *)
(* approval is missing (WritesApproved) only for a proposal that another   *)
(* program made invalid and then valid again.                              *)
THEOREM UndisturbedWritesApproved ==
    Spec => [][edits = 0 => \A e \in Exec :
                  job'[e].writes # job[e].writes => ctx[e].state = "mutating"]_vars
<1>1. ASSUME RuntimeInv, QuietInv, [Next]_vars
      PROVE  [edits = 0 => \A e \in Exec :
                  job'[e].writes # job[e].writes => ctx[e].state = "mutating"]_vars
  <2> SUFFICES ASSUME Next, edits = 0, NEW e \in Exec, job'[e].writes # job[e].writes
               PROVE  ctx[e].state = "mutating"
    BY <1>1
  <2>1. CASE Begin(e) \/ Step(e)
    <3>1. pc[e] = "replace"
      BY <1>1, <2>1, StepWent DEF Went, Keeps
    <3> QED  BY <1>1, <3>1 DEF QuietInv, QuietCall, Entering
  <2>2. ASSUME NEW d \in Exec \ {e}, Begin(d) \/ Step(d) PROVE FALSE
    BY <1>1, <2>2, StepDid, OthersStay
  <2>3. CASE Edit
    BY <2>3 DEF Edit
  <2>4. CASE Crash
    <3>1. job'[e] = job[e] \/ job'[e] = Closed(job[e])
      BY <2>4 DEF Crash
    <3> QED  BY <1>1, <3>1, CallTypes, ClosedType
  <2> QED  BY <2>1, <2>2, <2>3, <2>4 DEF Next
<1> QED  BY <1>1, QuietSafety, PTL DEF Spec

(* And what mutation/runtime.py:234 says of a restore has no exception     *)
(* then: there is nothing to restore, for the file still is what the call  *)
(* wrote when it reads it back and when it verifies it (see                *)
(* RestoresOwnWrite).                                                      *)
THEOREM UndisturbedNeverRestores ==
    Spec => [](edits = 0 => \A e \in Exec :
                  /\ pc[e] \notin {"check", "restore"}
                  /\ pc[e] \in {"readback", "verify"} => file = job[e].content)
<1>1. RuntimeInv /\ QuietInv =>
          (edits = 0 => \A e \in Exec :
              /\ pc[e] \notin {"check", "restore"}
              /\ pc[e] \in {"readback", "verify"} => file = job[e].content)
  BY DEF RuntimeInv, QuietInv, QuietCall, OwnWriteStands
<1> QED  BY <1>1, QuietSafety, PTL
=============================================================================
