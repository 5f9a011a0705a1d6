------------------------- MODULE ApprovalLifecycle -------------------------
(***************************************************************************)
(* Command execution under human approval: the command policy, the         *)
(* approval manager over its in-memory store, and CommandExecutor, called  *)
(* by several threads of one process.  The store takes its lock for one    *)
(* operation at a time, so a manager operation is a get() followed by a    *)
(* save() or a transition(), and other threads run in between.  Two of the *)
(* operations compare the status again when they write (reserve, consume,  *)
(* release); approve, reject and every expiry write what they computed     *)
(* from the earlier read.                                                  *)
(***************************************************************************)
EXTENDS Naturals, Sequences

CONSTANTS
    Command,      \* command requests, compared as whole values
    Approval,     \* approval ids
    Executor,     \* threads that call CommandExecutor.execute()
    Decider,      \* threads that call approve(), reject() and expire()
    Client,       \* other threads that call consume() or release() directly
    Rules,        \* the classifier's rules in order: [matches, outcome]
    MaxTakeBacks  \* bound on the reservations a Client may give back

VARIABLES
    store,      \* the approval requests, by id
    due,        \* whether the expiry time of a request has passed
    pc, call,   \* each thread's step, and what its current call works with
    verdict,    \* history: the decisions that were saved, per approval
    runs,       \* history: commands started under an approval
    takenBack,  \* history: reservations given back by a thread that held none
    overruled,  \* history: decisions saved on a read that was no longer true
    abandoned   \* history: approvals whose holder raised without settling

vars == <<store, due, pc, call, verdict, runs, takenBack, overruled, abandoned>>
history == <<verdict, runs, takenBack, overruled, abandoned>>

Outcome == {"allow", "require_approval", "deny"}
NoId == "no_approval"

ASSUME ApprovalConstants ==
    /\ Rules \in Seq([matches : SUBSET Command, outcome : Outcome])
    /\ NoId \notin Approval
    /\ MaxTakeBacks \in Nat

Thread == Executor \cup Decider \cup Client
Active == {"pending", "approved"}
Status == Active \cup {"reserved", "rejected", "consumed", "expired"}
Request == [command : Command, status : Status, decided : BOOLEAN]

Absent == [status |-> "absent"]
NoCall == [op |-> "none"]
Call == [op : {"execute", "approve", "reject", "expire", "consume", "release"},
         id : Approval \cup {NoId}, command : Command,
         read : Request \cup {Absent}, late : BOOLEAN]
Steps == {"idle", "decide", "fetch", "reserve", "prepare", "run", "settle", "consume",
          "giveback", "release"}

Init ==
    /\ store = [a \in Approval |-> Absent]
    /\ due = [a \in Approval |-> FALSE]
    /\ pc = [t \in Thread |-> "idle"]
    /\ call = [t \in Thread |-> NoCall]
    /\ verdict = [a \in Approval |-> {}]
    /\ runs = [a \in Approval |-> 0]
    /\ takenBack = [a \in Approval |-> 0]
    /\ overruled = [a \in Approval |-> 0]
    /\ abandoned = [a \in Approval |-> FALSE]

-----------------------------------------------------------------------------
(* The policy: the first rule that matches decides, and a command no rule  *)
(* knows needs approval.                                                   *)
Hits(c) == {i \in DOMAIN Rules : c \in Rules[i].matches}
Classify(c) ==
    IF Hits(c) = {} THEN "require_approval"
    ELSE Rules[CHOOSE i \in Hits(c) : \A j \in Hits(c) : i <= j].outcome

Mine(t) == store[call[t].id]
Goto(t, step) ==
    /\ pc' = [pc EXCEPT ![t] = step]
    /\ call' = [call EXCEPT ![t].read = Absent, ![t].late = FALSE]
Leave(t) == pc' = [pc EXCEPT ![t] = "idle"] /\ call' = [call EXCEPT ![t] = NoCall]

(* get() at the head of a manager operation; the clock is read later.      *)
Begin(t, op, a, c, step) ==
    /\ call' = [call EXCEPT ![t] = [op |-> op, id |-> a, command |-> c,
                                    read |-> IF a = NoId THEN Absent ELSE store[a],
                                    late |-> a # NoId /\ due[a]]]
    /\ pc' = [pc EXCEPT ![t] = step]
Reread(t, step) ==
    /\ call' = [call EXCEPT ![t].read = Mine(t), ![t].late = due[call[t].id]]
    /\ pc' = [pc EXCEPT ![t] = step]

(* The clock is read at some moment between the get() and the write.       *)
Lateness(t) == {call[t].late, due[call[t].id]}
Lapsed(t, late) == call[t].read.status \in Active /\ late

(* save(): whatever the store holds now is replaced by the request read    *)
(* earlier, with the new status.                                           *)
Save(t, status) ==
    store' = [store EXCEPT ![call[t].id] = [call[t].read EXCEPT !.status = status]]

(* transition(): the same, only while the stored status is the expected.   *)
Swap(t, expected, status) ==
    IF Mine(t).status = expected THEN Save(t, status) ELSE UNCHANGED store

-----------------------------------------------------------------------------
(* coordinate(): a request for what the policy wants approved.             *)
NewRequest(c) == [command |-> c, status |-> "pending", decided |-> FALSE]
Create(a, c) == store[a] = Absent /\ store' = [store EXCEPT ![a] = NewRequest(c)]
Coordinate(a, c) ==
    /\ Classify(c) = "require_approval"
    /\ Create(a, c)
    /\ UNCHANGED <<due, pc, call, history>>

(* The expiry time of a request passes.                                    *)
TimePasses(a) ==
    /\ store[a] # Absent /\ ~due[a]
    /\ due' = [due EXCEPT ![a] = TRUE]
    /\ UNCHANGED <<store, pc, call, history>>

(* approve(), reject(), expire(): the read.                                *)
BeginDecision(t) ==
    /\ pc[t] = "idle"
    /\ \E a \in Approval, op \in {"approve", "reject", "expire"} :
          store[a] # Absent /\ Begin(t, op, a, store[a].command, "decide")
    /\ UNCHANGED <<store, due, history>>

(* approve() and reject(): the decision, saved without looking at the      *)
(* store again.                                                            *)
Decision(t, op, status) ==
    /\ pc[t] = "decide" /\ call[t].op = op
    /\ \E late \in Lateness(t) :
          IF Lapsed(t, late) THEN Save(t, "expired") /\ UNCHANGED <<verdict, overruled>>
          ELSE IF call[t].read.status # "pending" THEN UNCHANGED <<store, verdict, overruled>>
          ELSE /\ store' = [store EXCEPT ![call[t].id] =
                               [call[t].read EXCEPT !.status = status, !.decided = TRUE]]
               /\ verdict' = [verdict EXCEPT ![call[t].id] = @ \cup {op}]
               /\ overruled' = [overruled EXCEPT ![call[t].id] =
                                   IF Mine(t) = call[t].read THEN @ ELSE @ + 1]
    /\ Leave(t)
    /\ UNCHANGED <<due, runs, takenBack, abandoned>>
Approve(t) == Decision(t, "approve", "approved")
Reject(t) == Decision(t, "reject", "rejected")

(* expire(): only what is still to be decided or used, and only when due.  *)
Expire(t) ==
    /\ pc[t] = "decide" /\ call[t].op = "expire"
    /\ \E late \in Lateness(t) :
          IF Lapsed(t, late) THEN Save(t, "expired") ELSE UNCHANGED store
    /\ Leave(t)
    /\ UNCHANGED <<due, history>>

-----------------------------------------------------------------------------
(* execute(): what the policy says, and the status of the approval before  *)
(* it is reserved.  A refusal changes nothing.                             *)
Refusing == {"pending", "rejected", "consumed", "reserved"}
Execute_AnyStatus(t) ==                 \* faulty form: no look at the status first
    /\ pc[t] = "idle"
    /\ \E c \in Command : \E a \in Approval :
          /\ Classify(c) = "require_approval" /\ store[a] # Absent
          /\ Begin(t, "execute", a, c, "fetch")
    /\ UNCHANGED <<store, due, history>>
Execute(t) ==
    /\ pc[t] = "idle"
    /\ \E c \in Command :
          \/ Classify(c) = "allow" /\ Begin(t, "execute", NoId, c, "prepare")
          \/ /\ Classify(c) = "require_approval"
             /\ \E a \in Approval :
                   /\ store[a] # Absent /\ store[a].status \notin Refusing
                   /\ Begin(t, "execute", a, c, "fetch")
    /\ UNCHANGED <<store, due, history>>

(* reserve(): its own get() ...                                            *)
Fetch(t) ==
    /\ pc[t] = "fetch"
    /\ Reread(t, "reserve")
    /\ UNCHANGED <<store, due, history>>

(* ... the expiry check, the exact command, and the compare-and-set.       *)
Matches(t) == call[t].read.command = call[t].command
Reserve_Saved(t) ==                     \* faulty form: saved, not compared and set
    /\ pc[t] = "reserve"
    /\ IF call[t].read.status = "approved" /\ Matches(t)
       THEN Save(t, "reserved") /\ Goto(t, "prepare")
       ELSE UNCHANGED store /\ Leave(t)
    /\ UNCHANGED <<due, history>>
Reserve_AnyCommand(t) ==                \* faulty form: whatever the command
    /\ pc[t] = "reserve"
    /\ IF call[t].read.status # "expired" /\ Mine(t).status = "approved"
       THEN Save(t, "reserved") /\ Goto(t, "prepare")
       ELSE UNCHANGED store /\ Leave(t)
    /\ UNCHANGED <<due, history>>
Reserve(t) ==
    /\ pc[t] = "reserve"
    /\ \E late \in Lateness(t) :
          IF Lapsed(t, late) THEN Save(t, "expired") /\ Leave(t)
          ELSE IF call[t].read.status # "expired" /\ Matches(t) /\ Mine(t).status = "approved"
               THEN Swap(t, "approved", "reserved") /\ Goto(t, "prepare")
               ELSE UNCHANGED store /\ Leave(t)
    /\ UNCHANGED <<due, history>>

(* The working directory is resolved again and a subscriber is told: either *)
(* can raise, and the reservation stays as it is.                          *)
Prepare(t) ==
    /\ pc[t] = "prepare"
    /\ \/ Goto(t, "run") /\ UNCHANGED abandoned
       \/ /\ Leave(t)
          /\ abandoned' = [a \in Approval |-> abandoned[a] \/ a = call[t].id]
    /\ UNCHANGED <<store, due, verdict, runs, takenBack, overruled>>

(* subprocess.run(): the command ran (to its end or to its timeout), or it *)
(* could not be started.                                                   *)
Run_SettlesAll(t) ==                    \* faulty form: settles where nothing was reserved
    /\ pc[t] = "run" /\ Goto(t, "settle")
    /\ UNCHANGED <<store, due, history>>
Run_KeepsReservation(t) ==              \* faulty form: no release on a failed start
    /\ pc[t] = "run"
    /\ \/ /\ runs' = [a \in Approval |-> IF a = call[t].id THEN runs[a] + 1 ELSE runs[a]]
          /\ IF call[t].id = NoId THEN Leave(t) ELSE Goto(t, "settle")
       \/ Leave(t) /\ UNCHANGED runs
    /\ UNCHANGED <<store, due, verdict, takenBack, overruled, abandoned>>
Run(t) ==
    /\ pc[t] = "run"
    /\ \/ /\ runs' = [a \in Approval |-> IF a = call[t].id THEN runs[a] + 1 ELSE runs[a]]
          /\ IF call[t].id = NoId THEN Leave(t) ELSE Goto(t, "settle")
       \/ /\ UNCHANGED runs
          /\ IF call[t].id = NoId THEN Leave(t) ELSE Goto(t, "giveback")
    /\ UNCHANGED <<store, due, verdict, takenBack, overruled, abandoned>>

(* consume(): its get() ...                                                *)
Settle(t) ==
    /\ pc[t] = "settle"
    /\ Reread(t, "consume")
    /\ UNCHANGED <<store, due, history>>

(* ... and the rest.  A command that does not match gives the reservation  *)
(* back, whoever holds it.                                                 *)
Consume(t) ==
    /\ pc[t] = "consume"
    /\ \E late \in Lateness(t) :
          IF Lapsed(t, late) THEN Save(t, "expired") /\ Leave(t)
          ELSE IF call[t].read.status # "reserved" THEN UNCHANGED store /\ Leave(t)
          ELSE IF ~Matches(t) THEN UNCHANGED store /\ Goto(t, "giveback")
          ELSE Swap(t, "reserved", "consumed") /\ Leave(t)
    /\ UNCHANGED <<due, history>>

(* release(): its get() and its compare-and-set, which ignores who asks.   *)
GiveBack(t) ==
    /\ pc[t] = "giveback"
    /\ Reread(t, "release")
    /\ UNCHANGED <<store, due, history>>
Release(t) ==
    /\ pc[t] = "release"
    /\ Swap(t, "reserved", "approved")
    /\ takenBack' = [a \in Approval |->
                       IF call[t].op # "execute" /\ a = call[t].id /\ Mine(t).status = "reserved"
                       THEN takenBack[a] + 1 ELSE takenBack[a]]
    /\ Leave(t)
    /\ UNCHANGED <<due, verdict, runs, overruled, abandoned>>

(* consume() and release() are public: a thread that reserved nothing may  *)
(* call them, with any command.                                            *)
CallDirectly(t) ==
    /\ pc[t] = "idle"
    /\ \E a \in Approval :
          /\ store[a] # Absent /\ takenBack[a] < MaxTakeBacks
          /\ \/ \E c \in Command : Begin(t, "consume", a, c, "settle")
             \/ Begin(t, "release", a, store[a].command, "giveback")
    /\ UNCHANGED <<store, due, history>>

Next ==
    \/ \E a \in Approval, c \in Command : Coordinate(a, c)
    \/ \E a \in Approval : TimePasses(a)
    \/ \E t \in Decider : BeginDecision(t)
    \/ \E t \in Executor : Execute(t)
    \/ \E t \in Client : CallDirectly(t)
    \/ \E t \in Thread :
          Approve(t) \/ Reject(t) \/ Expire(t) \/ Fetch(t) \/ Reserve(t) \/ Prepare(t)
          \/ Run(t) \/ Settle(t) \/ Consume(t) \/ GiveBack(t) \/ Release(t)

Spec == Init /\ [][Next]_vars

-----------------------------------------------------------------------------
(* The types of the store and of what the threads work with.               *)
TypeOK ==
    /\ store \in [Approval -> Request \cup {Absent}]
    /\ due \in [Approval -> BOOLEAN]
    /\ pc \in [Thread -> Steps]
    /\ call \in [Thread -> Call \cup {NoCall}]
    /\ \A t \in Thread : pc[t] # "idle" => call[t] \in Call
    /\ \A t \in Thread : pc[t] \notin {"idle", "prepare", "run"} => call[t].id \in Approval
    /\ verdict \in [Approval -> SUBSET {"approve", "reject"}]
    /\ runs \in [Approval -> Nat] /\ takenBack \in [Approval -> Nat]
    /\ overruled \in [Approval -> Nat] /\ abandoned \in [Approval -> BOOLEAN]

Holds(t, a) ==
    call[t].op = "execute" /\ call[t].id = a
    /\ pc[t] \in {"prepare", "run", "settle", "consume", "giveback", "release"}

(* One approval starts one command, however many executors present it at   *)
(* the same time and whatever expires meanwhile.  A consumed approval is    *)
(* single-use (is_terminal, and the tests' words), but for one more run    *)
(* each time a caller gave back a reservation it did not hold, and each    *)
(* time a decider who had read the request while it was pending saved over *)
(* what had been made of it since.                                         *)
RunsAccounted ==
    \A a \in Approval : runs[a] <= 1 + takenBack[a] + overruled[a]

(* From the reservation to the end of the run, a command under approval is *)
(* exactly the command that was put to the decider, who approved it and,   *)
(* but for a second decider's stale read, never rejected it; the checks    *)
(* were four separate store operations ago.                                *)
RunIsApproved ==
    \A t \in Thread, a \in Approval :
        Holds(t, a) /\ pc[t] \in {"prepare", "run"}
          => /\ store[a].command = call[t].command /\ "approve" \in verdict[a]
             /\ verdict[a] = {"approve"} \/ overruled[a] > 0

(* The decision (its time and its reason) survives in the record of a      *)
(* reserved or consumed request: the record written by the compare-and-set *)
(* was built from an earlier read, and only execute()'s look at the status *)
(* before reserve() makes that read recent enough.  A release() by another *)
(* thread has no such look, and can lose it, and so can a decider who is   *)
(* late.                                                                   *)
DecisionKept ==
    \A a \in Approval :
        /\ store[a].status \in {"reserved", "consumed"}
        /\ takenBack[a] = 0 /\ overruled[a] = 0
        => store[a].decided

(* A reservation has a thread that will consume it or give it back, or its *)
(* holder raised between reserve() and the start of the command.           *)
ReservedHasHolder ==
    \A a \in Approval :
        store[a].status = "reserved" => abandoned[a] \/ \E t \in Executor : Holds(t, a)
=============================================================================
