----------------------------- MODULE ClaimStore -----------------------------
(***************************************************************************)
(* The file-backed durable claim store: FileDurableSessionReplayLedger and *)
(* the five stores that repeat its algorithm.  Several processes share one *)
(* control root.  A call validates the root, opens and locks the lock file *)
(* with flock, reads the record of its key and, when claim() finds none,   *)
(* creates it exclusively, writes, flushes and synchronises it.  Every     *)
(* step can fail with OSError, a process can be killed between any two     *)
(* steps (the kernel then drops its lock), and the machine can lose power. *)
(*                                                                         *)
(* One step of a process is one system call that another process, a crash  *)
(* or a failure can separate from the next.                                *)
(***************************************************************************)
EXTENDS Naturals, Sequences

CONSTANTS Proc,          \* processes that use the control root
          Key,           \* (entry_kind, identity_key) pairs
          Record,        \* binding digests
          NoProc,        \* nobody holds the lock
          NoCall,        \* the process is not in the store
          Absent, Torn,  \* a record file that is missing, or empty or torn
          NamesDurable   \* does fsync of a new file also persist its name?

Call == [op : {"claim", "read"}, key : Key, rec : Record]

ASSUME ClaimStoreConstants ==
    /\ NoProc \notin Proc
    /\ NoCall \notin Call
    /\ Absent \notin Record /\ Torn \notin Record /\ Absent # Torn
    /\ NamesDurable \in BOOLEAN

VARIABLES file,     \* [content, synced] of each key's record file
          lock,     \* holder of flock(LOCK_EX) on the lock file
          pc,       \* the next step of each process
          call,     \* the call each process is in
          answer,   \* what the call has decided to return
          granted   \* history: the records claim() answered CLAIMED for, per key

vars == <<file, lock, pc, call, answer, granted>>

Holding == {"read", "create", "write", "sync", "unlock"}
Steps == {"idle", "open", "flock", "raise"} \cup Holding
Answers == {"none", "claimed", "already_claimed", "conflict", "corrupt",
            "unavailable", "absent", "found"}
File == [content : Record \cup {Absent, Torn}, synced : BOOLEAN]

NoFile == [content |-> Absent, synced |-> FALSE]

Init ==
    /\ file = [k \in Key |-> NoFile]
    /\ lock = NoProc
    /\ pc = [p \in Proc |-> "idle"]
    /\ call = [p \in Proc |-> NoCall]
    /\ answer = [p \in Proc |-> "none"]
    /\ granted = [k \in Key |-> <<>>]

-----------------------------------------------------------------------------
(* Control flow shared by the steps. *)

Goto(p, step) == pc' = [pc EXCEPT ![p] = step]

(* Leave the `with self._locked_root()` block with answer a.               *)
Decide(p, a) ==
    /\ Goto(p, "unlock")
    /\ answer' = [answer EXCEPT ![p] = a]

Leave(p) ==
    /\ Goto(p, "idle")
    /\ call' = [call EXCEPT ![p] = NoCall]
    /\ answer' = [answer EXCEPT ![p] = "none"]

Content(p) == file[call[p].key].content
Write(p, c, s) ==
    file' = [file EXCEPT ![call[p].key] = [content |-> c, synced |-> s]]

-----------------------------------------------------------------------------
(* A caller enters claim(record) or read(entry_kind, identity_key).        *)
Enter(p) ==
    /\ pc[p] = "idle"
    /\ \E c \in Call : call' = [call EXCEPT ![p] = c]
    /\ Goto(p, "open")
    /\ UNCHANGED <<file, lock, answer, granted>>

(* _validate_root() accepts the root and the lock file is opened.          *)
OpenLock(p) ==
    /\ pc[p] = "open"
    /\ Goto(p, "flock")
    /\ UNCHANGED <<file, lock, call, answer, granted>>

(* The root is missing or unsafe, the lock file cannot be opened, or flock *)
(* fails: UNAVAILABLE without having looked at a record.                   *)
LockUnavailable(p) ==
    /\ pc[p] \in {"open", "flock"}
    /\ Goto(p, "raise")
    /\ answer' = [answer EXCEPT ![p] = "unavailable"]
    /\ UNCHANGED <<file, lock, call, granted>>

AcquireLock_Shared(p) ==       \* faulty form: LOCK_SH for LOCK_EX
    /\ pc[p] = "flock"
    /\ lock' = p
    /\ Goto(p, "read")
    /\ UNCHANGED <<file, call, answer, granted>>

AcquireLock(p) ==
    /\ pc[p] = "flock"
    /\ lock = NoProc
    /\ lock' = p
    /\ Goto(p, "read")
    /\ UNCHANGED <<file, call, answer, granted>>

Disposition_Raw(c, found) ==   \* faulty form: a torn file is handed out as it is
    IF found = Absent THEN "absent"
    ELSE IF c.op = "read" THEN found
    ELSE IF found = c.rec THEN "already_claimed"
    ELSE "conflict"

(* What the call returns for a record file with this content; an absent    *)
(* record is an answer for read() only.                                    *)
Disposition(c, found) ==
    IF found = Absent THEN "absent"
    ELSE IF found = Torn THEN "corrupt"
    ELSE IF c.op = "read" THEN "found"
    ELSE IF found = c.rec THEN "already_claimed"
    ELSE "conflict"

ReadRecord_Replace(p) ==       \* faulty form: a claim replaces another record
    /\ pc[p] = "read"
    /\ IF call[p].op = "claim" /\ Content(p) # call[p].rec
         THEN /\ Goto(p, IF Content(p) = Absent THEN "create" ELSE "write")
              /\ UNCHANGED answer
         ELSE Decide(p, Disposition(call[p], Content(p)))
    /\ UNCHANGED <<file, lock, call, granted>>

(* _read_unlocked(), and the comparison claim() makes with what it finds.  *)
ReadRecord(p) ==
    /\ pc[p] = "read"
    /\ IF call[p].op = "claim" /\ Content(p) = Absent
         THEN Goto(p, "create") /\ UNCHANGED answer
         ELSE Decide(p, Disposition(call[p], Content(p)))
    /\ UNCHANGED <<file, lock, call, granted>>

(* os.open(O_CREAT | O_EXCL): the file exists, and is empty.               *)
CreateRecord(p) ==
    /\ pc[p] = "create"
    /\ Content(p) = Absent
    /\ Write(p, Torn, FALSE)
    /\ Goto(p, "write")
    /\ UNCHANGED <<lock, call, answer, granted>>

(* stream.write() and flush(): the whole record is in the page cache.      *)
WriteRecord(p) ==
    /\ pc[p] = "write"
    /\ Write(p, call[p].rec, FALSE)
    /\ Goto(p, "sync")
    /\ UNCHANGED <<lock, call, answer, granted>>

SyncRecord_NoFsync(p) ==       \* faulty form: the claim is granted after flush()
    /\ pc[p] = "sync"
    /\ Decide(p, "claimed")
    /\ granted' = [granted EXCEPT ![call[p].key] = Append(@, call[p].rec)]
    /\ UNCHANGED <<file, lock, call>>

(* os.fsync() and close() succeed: the claim is granted.                   *)
SyncRecord(p) ==
    /\ pc[p] = "sync"
    /\ Write(p, call[p].rec, TRUE)
    /\ Decide(p, "claimed")
    /\ granted' = [granted EXCEPT ![call[p].key] = Append(@, call[p].rec)]
    /\ UNCHANGED <<lock, call>>

RecordUnavailable_Unlink(p) == \* faulty form: a failed write removes its file
    /\ pc[p] \in {"read", "create", "write"}
    /\ Decide(p, "unavailable")
    /\ Write(p, Absent, FALSE)
    /\ UNCHANGED <<lock, call, granted>>

(* OSError from read_text(), the exclusive open or write(): UNAVAILABLE,   *)
(* and nothing removes a file that was already created.                    *)
RecordUnavailable(p) ==
    /\ pc[p] \in {"read", "create", "write"}
    /\ Decide(p, "unavailable")
    /\ UNCHANGED <<file, lock, call, granted>>

(* OSError from fsync() or close(): UNAVAILABLE over a complete record,    *)
(* which the device may or may not have.                                   *)
SyncUnavailable(p) ==
    /\ pc[p] = "sync"
    /\ \E onDisk \in BOOLEAN : Write(p, call[p].rec, onDisk)
    /\ Decide(p, "unavailable")
    /\ UNCHANGED <<lock, call, granted>>

Return_Leak(p) ==              \* faulty form: unlocks only when nothing was raised
    /\ pc[p] \in {"raise", "unlock"}
    /\ lock' = IF pc[p] = "unlock" /\ answer[p] # "unavailable" THEN NoProc ELSE lock
    /\ Leave(p)
    /\ UNCHANGED <<file, granted>>

(* The `finally` of _locked_root() unlocks and closes, on every path, and  *)
(* the caller gets the disposition, the record or the error.               *)
Return(p) ==
    /\ pc[p] \in {"raise", "unlock"}
    /\ lock' = IF pc[p] = "unlock" THEN NoProc ELSE lock
    /\ Leave(p)
    /\ UNCHANGED <<file, granted>>

-----------------------------------------------------------------------------
(* The environment. *)

(* A process is killed: the kernel closes its descriptors and so drops its *)
(* lock; the files stay as they are.                                       *)
Crash(p) ==
    /\ pc[p] # "idle"
    /\ lock' = IF lock = p THEN NoProc ELSE lock
    /\ Leave(p)
    /\ UNCHANGED <<file, granted>>

(* What is left of a record file after a power loss.  The store never      *)
(* synchronises the control root itself, so whether a synchronised file    *)
(* keeps its name is up to the file system.                                *)
LeftOnDisk(f) ==
    CASE f.synced /\ NamesDurable  -> {f}
      [] f.synced /\ ~NamesDurable -> {f, NoFile}
      [] OTHER -> {f, NoFile} \cup
                    (IF f.content = Absent THEN {}
                     ELSE {[content |-> Torn, synced |-> FALSE]})

PowerLoss ==
    /\ file' \in [Key -> File]
    /\ \A k \in Key : file'[k] \in LeftOnDisk(file[k])
    /\ lock' = NoProc
    /\ pc' = [p \in Proc |-> "idle"]
    /\ call' = [p \in Proc |-> NoCall]
    /\ answer' = [p \in Proc |-> "none"]
    /\ UNCHANGED granted

-----------------------------------------------------------------------------
Step(p) ==
    \/ OpenLock(p) \/ LockUnavailable(p) \/ AcquireLock(p)
    \/ ReadRecord(p) \/ CreateRecord(p) \/ WriteRecord(p) \/ SyncRecord(p)
    \/ RecordUnavailable(p) \/ SyncUnavailable(p) \/ Return(p)

Next ==
    \/ \E p \in Proc : Enter(p) \/ Step(p) \/ Crash(p)
    \/ PowerLoss

(* A process that is scheduled does not stop inside the store for ever: it *)
(* runs synchronous file operations that return or fail.                   *)
Fairness == \A p \in Proc : WF_vars(Step(p))

Spec == Init /\ [][Next]_vars
FairSpec == Spec /\ Fairness

-----------------------------------------------------------------------------
(* Properties. *)

TypeOK ==
    /\ file \in [Key -> File]
    /\ lock \in Proc \cup {NoProc}
    /\ pc \in [Proc -> Steps]
    /\ call \in [Proc -> Call \cup {NoCall}]
    /\ answer \in [Proc -> Answers]
    /\ granted \in [Key -> Seq(Record)]

(* A key is granted at most once, to one record, whatever the interleaving *)
(* of the callers, the failures, the crashes and the power losses: the     *)
(* exactly-once claim every gate builds on (claim(), ledger.py:154).       *)
OneGrant == \A k \in Key : Len(granted[k]) <= 1

(* ... and the granted record stays readable in its file for ever.         *)
GrantKept ==
    \A k \in Key : granted[k] # <<>> =>
        file[k] = [content |-> granted[k][1], synced |-> TRUE]

(* What a call is about to return still describes the file: no other       *)
(* process can make a disposition stale between the read or write it rests *)
(* on and the release of the lock (ledger.py:158-184).                     *)
AnswerFits(a, r, c) ==
    /\ a = "claimed"         => c = r
    /\ a = "already_claimed" => c = r
    /\ a = "conflict"        => c \in Record \ {r}
    /\ a = "found"           => c \in Record
    /\ a = "absent"          => c = Absent
    /\ a = "corrupt"         => c = Torn

AnswersCurrent ==
    \A p \in Proc : pc[p] = "unlock" =>
        AnswerFits(answer[p], call[p].rec, Content(p))

(* No overwrite, reset or deletion (DurableSessionReplayLedger.claim,      *)
(* ledger.py:129): a complete record is never changed and a torn one never *)
(* repaired by anybody but the writer that is still holding the lock; only *)
(* a power loss, which stops every process, takes unsynchronised bytes.    *)
NoOverwrite ==
    [][\A k \in Key :
          \/ file[k].content = Absent
          \/ file'[k].content = file[k].content
          \/ \E p \in Proc : pc[p] = "write" /\ call[p].key = k /\ file[k].content = Torn
          \/ ~file[k].synced /\ \A p \in Proc : pc'[p] = "idle"]_vars

(* Every path out of the locked block, the failing ones and the death of   *)
(* the holder included, gives the lock back.                               *)
LockReleased == \A p \in Proc : (lock = p) ~> (lock # p)

-----------------------------------------------------------------------------
(* The store implements the atomic registry.  While a writer is between    *)
(* its exclusive open and its fsync the key still counts as free: the      *)
(* claim takes effect when it succeeds, fails or dies.                     *)
BeingWritten(k) ==
    \E p \in Proc : pc[p] \in {"write", "sync"} /\ call[p].key = k

EntryOf(k) ==
    LET f == file[k] IN
    IF f.content = Absent \/ BeingWritten(k)
      THEN [state |-> "free", rec |-> Absent]
    ELSE IF f.content = Torn THEN [state |-> "spoiled", rec |-> Absent]
    ELSE [state |-> IF f.synced THEN "firm" ELSE "shaky", rec |-> f.content]
Registered == [k \in Key |-> EntryOf(k)]

Registry == INSTANCE ClaimRegistry WITH NoRecord <- Absent, reg <- Registered

(* Concurrent, failing and dying calls of claim() and read() look like     *)
(* calls that take effect one at a time (linearizability).                 *)
ImplementsRegistry == Registry!Spec
=============================================================================
