-------------------------- MODULE ClaimStoreProofs --------------------------
(***************************************************************************)
(* What holds of ClaimStore for every set of processes, keys and records.  *)
(*                                                                         *)
(* OneGrant is not inductive: it needs GrantKept (the granted record is    *)
(* complete and synchronised, so no later claim finds the key free), which *)
(* needs what the writer knows of the file while it is inside the lock     *)
(* (WriterInv), which needs the lock to exclude the others (LockInv).      *)
(***************************************************************************)
EXTENDS ClaimStore, SequenceTheorems, TLAPS

(* flock excludes: the processes inside the locked block are the holder.   *)
LockInv == \A p \in Proc : pc[p] \in Holding <=> lock = p

(* A process that is inside the store has a call.                          *)
CallInv == \A p \in Proc : pc[p] # "idle" => call[p] \in Call

(* What a writer knows about its file between the read and the fsync.      *)
WriterInv ==
    \A p \in Proc :
        /\ pc[p] \in {"create", "write", "sync"} => call[p].op = "claim"
        /\ pc[p] = "create" => Content(p) = Absent
        /\ pc[p] = "write"  => Content(p) = Torn
        /\ pc[p] = "sync"   =>
              file[call[p].key] = [content |-> call[p].rec, synced |-> FALSE]

LockedInv == TypeOK /\ LockInv /\ CallInv /\ WriterInv /\ AnswersCurrent

-----------------------------------------------------------------------------
(* The locked block is inductive on its own, whatever a power loss does to *)
(* names: type correctness, mutual exclusion of flock holders, the state   *)
(* of the file a writer works on, and dispositions that are never stale.   *)
LEMMA LockedInit == Init => LockedInv
  BY ClaimStoreConstants
     DEF Init, LockedInv, TypeOK, LockInv, CallInv, WriterInv, AnswersCurrent,
         File, NoFile, Steps, Holding, Answers

(* Every system call of every process, a kill and a power loss keep it:  *)
(* only the holder of the flock moves through the locked block.          *)
LEMMA LockedStep == LockedInv /\ [Next]_vars => LockedInv'
<1> SUFFICES ASSUME LockedInv, [Next]_vars PROVE LockedInv'
    OBVIOUS
<1> USE ClaimStoreConstants
    DEF LockedInv, TypeOK, LockInv, CallInv, WriterInv, AnswersCurrent, AnswerFits,
        File, NoFile, Steps, Holding, Answers, Call, Content, Goto, Decide, Leave, Write
<1>1. ASSUME NEW p \in Proc, Enter(p) PROVE LockedInv'
    BY <1>1 DEF Enter
<1>2. ASSUME NEW p \in Proc, OpenLock(p) PROVE LockedInv'
    BY <1>2 DEF OpenLock
<1>3. ASSUME NEW p \in Proc, LockUnavailable(p) PROVE LockedInv'
    BY <1>3 DEF LockUnavailable
<1>4. ASSUME NEW p \in Proc, AcquireLock(p) PROVE LockedInv'
    BY <1>4 DEF AcquireLock
<1>5. ASSUME NEW p \in Proc, ReadRecord(p) PROVE LockedInv'
  <2>1. TypeOK' /\ LockInv' /\ CallInv'
    <3>1. Disposition(call[p], Content(p)) \in Answers
        BY DEF Disposition
    <3>2. UNCHANGED <<file, lock, call, granted>>
        BY <1>5 DEF ReadRecord
    <3>3. pc' \in [Proc -> Steps] /\ answer' \in [Proc -> Answers]
      <4>1. PICK a \in Answers, c \in {"create", "unlock"} :
               /\ pc' = [pc EXCEPT ![p] = c]
               /\ answer' = answer \/ answer' = [answer EXCEPT ![p] = a]
          BY <1>5, <3>1 DEF ReadRecord
      <4>2. pc \in [Proc -> Steps] /\ answer \in [Proc -> Answers]
          OBVIOUS
      <4> HIDE DEF LockedInv, TypeOK
      <4> QED
          BY <4>1, <4>2
    <3>4. pc[p] \in Holding /\ pc'[p] \in Holding /\ pc[p] # "idle"
          /\ \A q \in Proc \ {p} : pc'[q] = pc[q]
        BY <1>5 DEF ReadRecord
    <3>5. TypeOK'
        BY <3>2, <3>3
    <3>6. LockInv' /\ CallInv'
        BY <3>2, <3>4
    <3> QED
        BY <3>5, <3>6
  <2>2. CASE call[p].op = "claim" /\ Content(p) = Absent
      BY <1>5, <2>1, <2>2 DEF ReadRecord
  <2>3. CASE ~(call[p].op = "claim" /\ Content(p) = Absent)
    <3>1. pc' = [pc EXCEPT ![p] = "unlock"]
          /\ answer' = [answer EXCEPT ![p] = Disposition(call[p], Content(p))]
          /\ UNCHANGED <<file, call>>
        BY <1>5, <2>3 DEF ReadRecord
    <3>2. WriterInv'
        BY <3>1
    <3>3. Content(p) \in Record \cup {Absent, Torn}
        BY <1>5 DEF ReadRecord
    <3>4. AnswerFits(Disposition(call[p], Content(p)), call[p].rec, Content(p))
        BY <3>3 DEF Disposition
    <3>5. AnswersCurrent'
        BY <3>1, <3>4
    <3> QED
        BY <2>1, <3>2, <3>5
  <2> QED
      BY <2>2, <2>3
<1>6. ASSUME NEW p \in Proc, CreateRecord(p) PROVE LockedInv'
    BY <1>6 DEF CreateRecord
<1>7. ASSUME NEW p \in Proc, WriteRecord(p) PROVE LockedInv'
  <2>1. TypeOK' /\ LockInv' /\ CallInv'
      BY <1>7 DEF WriteRecord
  <2>2. \A q \in Proc \ {p} : pc[q] \notin Holding /\ pc'[q] = pc[q]
      BY <1>7 DEF WriteRecord
  <2>3. WriterInv'
    <3>1. call[p].key \in Key /\ call[p].op = "claim" /\ call' = call /\ pc' = [pc EXCEPT ![p] = "sync"]
        BY <1>7 DEF WriteRecord
    <3>2. file' = [file EXCEPT ![call[p].key] = [content |-> call[p].rec, synced |-> FALSE]]
        BY <1>7 DEF WriteRecord
    <3>3. \A q \in Proc \ {p} : pc'[q] \notin {"create", "write", "sync"}
        BY <2>2
    <3>4. file'[call[p].key] = [content |-> call[p].rec, synced |-> FALSE]
        BY <3>1, <3>2
    <3>5. pc'[p] = "sync"
        BY <3>1
    <3> QED
        BY <3>1, <3>3, <3>4, <3>5
  <2>4. AnswersCurrent'
      BY <1>7, <2>2 DEF WriteRecord
  <2> QED
      BY <2>1, <2>3, <2>4
<1>8. ASSUME NEW p \in Proc, SyncRecord(p) PROVE LockedInv'
    BY <1>8 DEF SyncRecord
<1>9. ASSUME NEW p \in Proc, RecordUnavailable(p) PROVE LockedInv'
    BY <1>9 DEF RecordUnavailable
<1>10. ASSUME NEW p \in Proc, SyncUnavailable(p) PROVE LockedInv'
    BY <1>10 DEF SyncUnavailable
<1>11. ASSUME NEW p \in Proc, Return(p) PROVE LockedInv'
    BY <1>11 DEF Return
<1>12. ASSUME NEW p \in Proc, Crash(p) PROVE LockedInv'
    BY <1>12 DEF Crash
<1>13. CASE PowerLoss
    BY <1>13 DEF PowerLoss
<1>14. CASE UNCHANGED vars
    BY <1>14 DEF vars
<1>15. QED
    BY <1>1, <1>2, <1>3, <1>4, <1>5, <1>6, <1>7, <1>8, <1>9, <1>10, <1>11, <1>12,
       <1>13, <1>14 DEF Next, Step

(* Type correctness and never-stale dispositions, as theorems of Spec.     *)
THEOREM LockedSafety == Spec => []LockedInv
  BY LockedInit, LockedStep, PTL DEF Spec

(* The state of claim() and read() is well typed in every behaviour.     *)
THEOREM TypeCorrect == Spec => []TypeOK
  BY LockedSafety, PTL DEF LockedInv

(* The disposition a process is about to return describes the record file  *)
(* at that moment, for every number of processes, keys and records.        *)
THEOREM DispositionsCurrent == Spec => []AnswersCurrent
  BY LockedSafety, PTL DEF LockedInv

-----------------------------------------------------------------------------
(* Granting.  A writer only ever works on a key nobody was granted: its    *)
(* file is absent, torn or unsynchronised, and a granted key's is not.     *)
GrantInv == GrantKept /\ OneGrant

(* A process that found no record and is creating one works on a key that*)
(* was never granted: a granted record would still be in its file.       *)
LEMMA WriterUngranted ==
    LockedInv /\ GrantInv =>
        \A p \in Proc : pc[p] \in {"create", "write", "sync"} =>
            granted[call[p].key] = <<>>
<1> SUFFICES ASSUME LockedInv, GrantInv, NEW p \in Proc,
                    pc[p] \in {"create", "write", "sync"},
                    granted[call[p].key] # <<>>
             PROVE  FALSE
    OBVIOUS
<1> DEFINE k == call[p].key
<1>1. call[p] \in Call /\ k \in Key
    BY DEF LockedInv, CallInv, Call
<1>2. file[k] = [content |-> granted[k][1], synced |-> TRUE]
    BY <1>1 DEF GrantInv, GrantKept
<1>3. granted[k] \in Seq(Record) /\ Len(granted[k]) \in Nat \ {0}
    BY <1>1, EmptySeq DEF LockedInv, TypeOK
<1>4. granted[k][1] \in Record
    BY <1>3, ElementOfSeq
<1>5. file[k].content \notin {Absent, Torn} /\ file[k].synced = TRUE
    BY <1>2, <1>4, ClaimStoreConstants
<1>6. \/ file[k].content \in {Absent, Torn}
      \/ file[k] = [content |-> call[p].rec, synced |-> FALSE]
    BY DEF LockedInv, WriterInv, Content
<1> QED
    BY <1>5, <1>6

(* Each step keeps at most one grant per key, with its record in the file.*)
LEMMA GrantStep ==
    ASSUME NamesDurable, LockedInv, GrantInv, [Next]_vars
    PROVE  GrantInv'
<1> DEFINE ForeignFiles(p) == \A k \in Key : k # call[p].key => file'[k] = file[k]
<1> USE DEF GrantInv, GrantKept, OneGrant
<1>1. ASSUME NEW p \in Proc,
             CreateRecord(p) \/ WriteRecord(p) \/ SyncUnavailable(p)
      PROVE  GrantInv'
  <2>1. granted[call[p].key] = <<>>
      BY <1>1, WriterUngranted DEF CreateRecord, WriteRecord, SyncUnavailable
  <2>2. ForeignFiles(p) /\ UNCHANGED granted
      BY <1>1 DEF CreateRecord, WriteRecord, SyncUnavailable, Write, LockedInv, TypeOK
  <2> QED
      BY <2>1, <2>2
<1>2. ASSUME NEW p \in Proc, SyncRecord(p) PROVE GrantInv'
  <2> DEFINE k == call[p].key
             r == call[p].rec
  <2>1. granted[k] = <<>> /\ k \in Key /\ r \in Record
      BY <1>2, WriterUngranted DEF SyncRecord, LockedInv, CallInv, Call
  <2>2. /\ granted' = [granted EXCEPT ![k] = <<r>>]
        /\ file' = [file EXCEPT ![k] = [content |-> r, synced |-> TRUE]]
      BY <1>2, <2>1 DEF SyncRecord, Write, LockedInv, TypeOK
  <2>3. granted'[k] = <<r>> /\ file'[k] = [content |-> r, synced |-> TRUE]
      BY <2>1, <2>2 DEF LockedInv, TypeOK
  <2>4. \A j \in Key \ {k} : granted'[j] = granted[j] /\ file'[j] = file[j]
      BY <2>1, <2>2 DEF LockedInv, TypeOK
  <2>5. Len(<<r>>) = 1 /\ <<r>>[1] = r
      OBVIOUS
  <2>6. OneGrant'
    <3> SUFFICES ASSUME NEW j \in Key PROVE Len(granted'[j]) <= 1
        OBVIOUS
    <3>1. CASE j = k
        BY <3>1, <2>3, <2>5
    <3>2. CASE j # k
      <4>1. granted'[j] = granted[j] /\ Len(granted[j]) <= 1
          BY <3>2, <2>4
      <4> QED
          BY <4>1
    <3> QED
        BY <3>1, <3>2
  <2>7. GrantKept'
      BY <2>3, <2>4, <2>5
  <2> QED
      BY <2>6, <2>7
<1>3. ASSUME NEW p \in Proc,
             \/ Enter(p) \/ OpenLock(p) \/ LockUnavailable(p) \/ AcquireLock(p)
             \/ ReadRecord(p) \/ RecordUnavailable(p) \/ Return(p) \/ Crash(p)
      PROVE  GrantInv'
  <2>1. UNCHANGED <<file, granted>>
      BY <1>3 DEF Enter, OpenLock, LockUnavailable, AcquireLock, ReadRecord,
                  RecordUnavailable, Return, Crash
  <2> QED
      BY <2>1
<1>4. CASE PowerLoss
  <2>1. UNCHANGED granted /\ \A k \in Key : file'[k] \in LeftOnDisk(file[k])
      BY <1>4 DEF PowerLoss
  <2>2. ASSUME NEW k \in Key, granted[k] # <<>> PROVE file'[k] = file[k]
    <3>1. file[k] = [content |-> granted[k][1], synced |-> TRUE]
        BY <2>2
    <3>2. LeftOnDisk(file[k]) = {file[k]}
      <4>1. file[k].synced = TRUE
          BY <3>1
      <4> QED
          BY <4>1 DEF LeftOnDisk
    <3> QED
        BY <2>1, <3>2
  <2> QED
      BY <2>1, <2>2
<1>5. CASE UNCHANGED vars
    BY <1>5 DEF vars
<1> QED
    BY <1>1, <1>2, <1>3, <1>4, <1>5 DEF Next, Step

(* On a file system that persists the name of a synchronised new file, a   *)
(* key is granted at most once and its granted record is never lost.       *)
THEOREM GrantsOnce ==
    ASSUME NamesDurable PROVE Spec => [](OneGrant /\ GrantKept)
<1>1. Init => GrantInv
    BY DEF Init, GrantInv, GrantKept, OneGrant
<1>2. LockedInv /\ GrantInv /\ [Next]_vars => GrantInv'
    BY GrantStep
<1>3. GrantInv => OneGrant /\ GrantKept
    BY DEF GrantInv
<1> QED
    BY <1>1, <1>2, <1>3, LockedSafety, PTL DEF Spec

-----------------------------------------------------------------------------
(* No overwrite: only the writer that created a torn file under the lock   *)
(* completes it, and only a power loss takes unsynchronised bytes.         *)
THEOREM RecordsNotOverwritten ==
    ASSUME NamesDurable PROVE Spec => NoOverwrite
<1> DEFINE Kept(k) ==
        \/ file[k].content = Absent
        \/ file'[k].content = file[k].content
        \/ \E p \in Proc : pc[p] = "write" /\ call[p].key = k /\ file[k].content = Torn
        \/ ~file[k].synced /\ \A p \in Proc : pc'[p] = "idle"
<1>1. ASSUME LockedInv, Next, NEW k \in Key PROVE Kept(k)
  <2> USE DEF LockedInv, TypeOK, CallInv, WriterInv, Content, Write, Call, File
  <2>1. ASSUME NEW p \in Proc, CreateRecord(p) PROVE Kept(k)
      BY <1>1, <2>1 DEF CreateRecord
  <2>2. ASSUME NEW p \in Proc, WriteRecord(p) PROVE Kept(k)
    <3>1. CASE call[p].key = k
        BY <1>1, <2>2, <3>1 DEF WriteRecord
    <3>2. CASE call[p].key # k
      <4>1. file'[k] = file[k]
          BY <1>1, <2>2, <3>2 DEF WriteRecord
      <4> QED
          BY <4>1
    <3> QED
        BY <3>1, <3>2
  <2>3. ASSUME NEW p \in Proc, SyncRecord(p) \/ SyncUnavailable(p) PROVE Kept(k)
    <3>1. CASE call[p].key = k
      <4>1. pc[p] = "sync"
          BY <2>3 DEF SyncRecord, SyncUnavailable
      <4>2. file[k] = [content |-> call[p].rec, synced |-> FALSE]
          BY <1>1, <3>1, <4>1
      <4>3. file[k].content = call[p].rec
          BY <4>2
      <4>4. file'[k].content = call[p].rec
          BY <1>1, <2>3, <3>1 DEF SyncRecord, SyncUnavailable
      <4> QED
          BY <4>3, <4>4
    <3>2. CASE call[p].key # k
      <4>1. file'[k] = file[k]
          BY <1>1, <2>3, <3>2 DEF SyncRecord, SyncUnavailable
      <4> QED
          BY <4>1
    <3> QED
        BY <3>1, <3>2
  <2>4. ASSUME NEW p \in Proc,
               \/ Enter(p) \/ OpenLock(p) \/ LockUnavailable(p) \/ AcquireLock(p)
               \/ ReadRecord(p) \/ RecordUnavailable(p) \/ Return(p) \/ Crash(p)
        PROVE  Kept(k)
    <3>1. UNCHANGED file
        BY <1>1, <2>4 DEF Enter, OpenLock, LockUnavailable, AcquireLock, ReadRecord,
                    RecordUnavailable, Return, Crash
    <3> QED
        BY <3>1
  <2>5. CASE PowerLoss
      BY <1>1, <2>5 DEF PowerLoss, LeftOnDisk
  <2> QED
      BY <1>1, <2>1, <2>2, <2>3, <2>4, <2>5 DEF Next, Step
<1>2. LockedInv /\ [Next]_vars => [\A k \in Key : Kept(k)]_vars
    BY <1>1
<1> QED
    BY <1>2, LockedSafety, PTL DEF Spec, NoOverwrite

-----------------------------------------------------------------------------
(* Refinement.  ClaimStore implements ClaimRegistry for any processes, keys *)
(* and records: a call of the store takes effect in one of its steps.      *)

(* What a process outside the store, and one inside it, look like from     *)
(* outside: an answer is there from the moment the call took effect.       *)
CallerInv ==
    \A p \in Proc :
        /\ pc[p] = "idle" => call[p] = NoCall
        /\ answer[p] # "none" <=> pc[p] \in {"raise", "unlock"}
RefInv == LockedInv /\ CallerInv

(* No disposition is the absence of an answer.                             *)
LEMMA DispositionAnswers ==
    ASSUME NEW c, NEW found PROVE Disposition(c, found) # "none"
BY DEF Disposition

(* Every step keeps the callers' view in line with the steps.              *)
LEMMA RefStep == ASSUME RefInv, [Next]_vars PROVE RefInv'
<1> USE DEF RefInv
<1>1. LockedInv'
  BY LockedStep
<1>2. pc \in [Proc -> Steps] /\ call \in [Proc -> Call \cup {NoCall}] /\ answer \in [Proc -> Answers]
  BY DEF LockedInv, TypeOK
<1>3. ASSUME NEW p \in Proc, NEW s, NEW a,
             pc' = [pc EXCEPT ![p] = s], answer' = [answer EXCEPT ![p] = a],
             \A q \in Proc \ {p} : call'[q] = call[q],
             s = "idle" => call'[p] = NoCall,
             a # "none" <=> s \in {"raise", "unlock"}
      PROVE  CallerInv'
  <2>1. pc'[p] = s /\ answer'[p] = a
    BY <1>2, <1>3
  <2>2. \A q \in Proc \ {p} : pc'[q] = pc[q] /\ answer'[q] = answer[q]
    BY <1>2, <1>3
  <2> QED  BY <1>3, <2>1, <2>2 DEF CallerInv
<1>4. ASSUME NEW p \in Proc, NEW s, s # "idle", s \notin {"raise", "unlock"},
             pc' = [pc EXCEPT ![p] = s], UNCHANGED answer, answer[p] = "none",
             \A q \in Proc \ {p} : call'[q] = call[q]
      PROVE  CallerInv'
  <2>1. answer' = [answer EXCEPT ![p] = "none"]
    BY <1>2, <1>4
  <2> QED  BY <1>3, <1>4, <2>1
<1>5. ASSUME NEW p \in Proc, Enter(p) PROVE CallerInv'
  <2>1. pc[p] = "idle" /\ pc' = [pc EXCEPT ![p] = "open"] /\ UNCHANGED answer
        /\ \A q \in Proc \ {p} : call'[q] = call[q]
    BY <1>2, <1>5 DEF Enter, Goto
  <2>2. answer[p] = "none"
    BY <2>1 DEF CallerInv
  <2> QED  BY <1>4, <2>1, <2>2
<1>6. ASSUME NEW p \in Proc, OpenLock(p) \/ AcquireLock(p) \/ CreateRecord(p) \/ WriteRecord(p)
      PROVE  CallerInv'
  <2>1. /\ \E s \in {"flock", "read", "write", "sync"} : pc' = [pc EXCEPT ![p] = s]
        /\ pc[p] \in {"open", "flock", "create", "write"} /\ UNCHANGED <<call, answer>>
    BY <1>6 DEF OpenLock, AcquireLock, CreateRecord, WriteRecord, Goto
  <2>2. answer[p] = "none"
    BY <2>1 DEF CallerInv
  <2> QED  BY <1>4, <2>1, <2>2
<1>7. ASSUME NEW p \in Proc,
             LockUnavailable(p) \/ SyncRecord(p) \/ RecordUnavailable(p) \/ SyncUnavailable(p)
      PROVE  CallerInv'
  <2>1. /\ \E s \in {"raise", "unlock"} : pc' = [pc EXCEPT ![p] = s]
        /\ \E a \in {"claimed", "unavailable"} : answer' = [answer EXCEPT ![p] = a]
        /\ UNCHANGED call
    BY <1>7 DEF LockUnavailable, SyncRecord, RecordUnavailable, SyncUnavailable, Goto, Decide
  <2> QED  BY <1>3, <2>1
<1>8. ASSUME NEW p \in Proc, ReadRecord(p) PROVE CallerInv'
  <2>1. pc[p] = "read" /\ UNCHANGED call
    BY <1>8 DEF ReadRecord
  <2>2. answer[p] = "none"
    BY <2>1 DEF CallerInv
  <2>3. CASE Goto(p, "create") /\ UNCHANGED answer
    BY <1>4, <2>1, <2>2, <2>3 DEF Goto
  <2>4. CASE Decide(p, Disposition(call[p], Content(p)))
    BY <1>3, <2>1, <2>4, DispositionAnswers DEF Decide, Goto
  <2> QED  BY <1>8, <2>3, <2>4 DEF ReadRecord
<1>9. ASSUME NEW p \in Proc, Return(p) \/ Crash(p) PROVE CallerInv'
  <2>1. Leave(p)
    BY <1>9 DEF Return, Crash
  <2>2. call'[p] = NoCall /\ \A q \in Proc \ {p} : call'[q] = call[q]
    BY <1>2, <2>1 DEF Leave
  <2> QED  BY <1>3, <2>1, <2>2 DEF Leave, Goto
<1>10. CASE PowerLoss
  BY <1>1, <1>10 DEF PowerLoss, CallerInv
<1>11. CASE UNCHANGED vars
  BY <1>1, <1>11 DEF vars, CallerInv
<1> QED
  BY <1>1, <1>5, <1>6, <1>7, <1>8, <1>9, <1>10, <1>11 DEF Next, Step

(* Nobody is in the store at the start.                                    *)
LEMMA RefInit == Init => RefInv
<1>1. Init => CallerInv
  BY DEF Init, CallerInv
<1> QED  BY <1>1, LockedInit DEF RefInv

-----------------------------------------------------------------------------
(* The registry's entries. *)

Writing == {"write", "sync"}

(* The holder of the lock is the only process that can be writing.         *)
LEMMA OneWriter ==
    ASSUME LockedInv, NEW p \in Proc, pc[p] \in Holding
    PROVE  /\ \A q \in Proc \ {p} : pc[q] \notin Holding
           /\ \A k \in Key : BeingWritten(k) <=> pc[p] \in Writing /\ call[p].key = k
<1>1. \A q \in Proc \ {p} : pc[q] \notin Holding
  BY DEF LockedInv, LockInv
<1> QED  BY <1>1 DEF BeingWritten, Writing, Holding

(* A step of p keeps the entries when it keeps the files and starts or     *)
(* ends no writing.                                                        *)
LEMMA EntriesKept ==
    ASSUME LockedInv, NEW p \in Proc, UNCHANGED file,
           \A q \in Proc \ {p} : pc'[q] = pc[q] /\ call'[q] = call[q],
           pc[p] \notin Writing, pc'[p] \notin Writing
    PROVE  UNCHANGED Registered
<1>1. \A k \in Key : BeingWritten(k)' <=> BeingWritten(k)
  BY DEF BeingWritten, Writing
<1>2. \A k \in Key : EntryOf(k)' = EntryOf(k)
  BY <1>1 DEF EntryOf
<1> QED  BY <1>2 DEF Registered

(* A function that differs from another at one point is an update of it.   *)
LEMMA Updated ==
    ASSUME NEW S, NEW f, NEW g, f = [x \in S |-> f[x]], g = [x \in S |-> g[x]],
           NEW k \in S, \A x \in S \ {k} : g[x] = f[x]
    PROVE  g = [f EXCEPT ![k] = g[k]]
OBVIOUS

(* A step of the holder changes at most the entry of its own key.          *)
LEMMA EntryChanged ==
    ASSUME LockedInv, NEW p \in Proc, pc[p] \in Holding, NEW k \in Key, call[p].key = k,
           \A q \in Proc \ {p} : pc'[q] = pc[q] /\ call'[q] = call[q],
           \A j \in Key \ {k} : file'[j] = file[j],
           pc'[p] \in Writing => call'[p] = call[p]
    PROVE  /\ Registered' = [Registered EXCEPT ![k] = EntryOf(k)']
           /\ BeingWritten(k)' <=> pc'[p] \in Writing
<1>1. \A q \in Proc \ {p} : pc[q] \notin Holding
  BY OneWriter
<1>2. \A j \in Key : BeingWritten(j)' <=> pc'[p] \in Writing /\ call'[p].key = j
  BY <1>1 DEF BeingWritten, Writing, Holding
<1>3. \A j \in Key \ {k} : ~BeingWritten(j) /\ ~BeingWritten(j)'
  BY <1>2, OneWriter
<1>4. \A j \in Key \ {k} : EntryOf(j)' = EntryOf(j)
  BY <1>3 DEF EntryOf
<1>5. /\ \A j \in Key : Registered[j] = EntryOf(j) /\ Registered'[j] = EntryOf(j)'
      /\ Registered = [j \in Key |-> Registered[j]] /\ Registered' = [j \in Key |-> Registered'[j]]
  BY DEF Registered
<1>6. \A j \in Key \ {k} : Registered'[j] = Registered[j]
  BY <1>4, <1>5
<1>7. Registered' = [Registered EXCEPT ![k] = Registered'[k]]
  BY <1>5, <1>6, Updated
<1> QED  BY <1>2, <1>5, <1>7

-----------------------------------------------------------------------------
(* Taking effect. *)

USE DEF Registry!Outcome, Registry!FreeEntry, Registry!SpoiledEntry, Registry!ShakyEntry,
        Registry!FirmEntry

(* A step that answers a with entry e takes effect if the registry may     *)
(* answer so.                                                              *)
LEMMA Takes ==
    ASSUME RefInv, NEW p \in Proc, call[p] \in Call, answer[p] = "none", UNCHANGED call,
           NEW a, NEW e, answer' = [answer EXCEPT ![p] = a],
           Registered' = [Registered EXCEPT ![call[p].key] = e],
           Registry!Outcome(a, e) \in
              IF call[p].op = "claim" THEN Registry!ClaimOutcomes(EntryOf(call[p].key), call[p].rec)
              ELSE Registry!ReadOutcomes(EntryOf(call[p].key))
    PROVE  Registry!TakeEffect(p)
<1>1. call[p] # NoCall /\ call[p].key \in Key
  BY ClaimStoreConstants DEF Call
<1>2. Registered[call[p].key] = EntryOf(call[p].key)
  BY <1>1 DEF Registered
<1>3. Registry!Outcome(a, e) \in Registry!Outcomes(call[p])
  BY <1>2 DEF Registry!Outcomes
<1>4. Registry!Outcome(a, e).entry = e /\ Registry!Outcome(a, e).answer = a
  OBVIOUS
<1> HIDE DEF Registry!Outcome
<1> QED  BY <1>1, <1>3, <1>4 DEF Registry!TakeEffect

(* The entry of a key nobody is writing.                                   *)
LEMMA RestingEntry ==
    ASSUME NEW k \in Key, ~BeingWritten(k)
    PROVE  EntryOf(k) = IF file[k].content = Absent THEN Registry!FreeEntry
                        ELSE IF file[k].content = Torn THEN Registry!SpoiledEntry
                        ELSE IF file[k].synced THEN Registry!FirmEntry(file[k].content)
                        ELSE Registry!ShakyEntry(file[k].content)
BY DEF EntryOf

(* A failure is possible at any time, and leaves the entry as it was.      *)
LEMMA Unavailable ==
    ASSUME NEW c, NEW e
    PROVE  Registry!Outcome("unavailable", e) \in
              IF c.op = "claim" THEN Registry!ClaimOutcomes(e, c.rec)
              ELSE Registry!ReadOutcomes(e)
BY DEF Registry!ClaimOutcomes, Registry!ReadOutcomes, Registry!HalfWritten

(* What the holder decides from a record it has read.                      *)
LEMMA ReadDecides ==
    ASSUME RefInv, NEW p \in Proc, pc[p] = "read",
           Decide(p, Disposition(call[p], Content(p))),
           ~(call[p].op = "claim" /\ Content(p) = Absent),
           UNCHANGED <<file, lock, call, granted>>
    PROVE  Registry!TakeEffect(p)
<1> DEFINE k == call[p].key
           a == Disposition(call[p], Content(p))
<1>1. call[p] \in Call /\ k \in Key /\ answer[p] = "none" /\ call[p].op \in {"claim", "read"}
      /\ file[k].content \in Record \cup {Absent, Torn}
  BY DEF RefInv, CallerInv, LockedInv, CallInv, Call, TypeOK, File
<1>2. /\ pc' = [pc EXCEPT ![p] = "unlock"] /\ answer' = [answer EXCEPT ![p] = a]
  BY DEF Decide, Goto
<1>3. UNCHANGED Registered
  BY <1>2, EntriesKept DEF RefInv, LockedInv, TypeOK, Writing
<1>4. ~BeingWritten(k)
  BY <1>1, OneWriter DEF RefInv, Holding, Writing
<1>5. Registered' = [Registered EXCEPT ![k] = EntryOf(k)]
  BY <1>1, <1>3 DEF Registered
<1>6. Registry!Outcome(a, EntryOf(k)) \in
         IF call[p].op = "claim" THEN Registry!ClaimOutcomes(EntryOf(k), call[p].rec)
         ELSE Registry!ReadOutcomes(EntryOf(k))
  <2>1. CASE file[k].content = Absent
    <3>1. EntryOf(k) = Registry!FreeEntry /\ a = "absent" /\ call[p].op # "claim"
      BY <1>1, <1>4, <2>1, RestingEntry DEF Disposition, Content
    <3> QED  BY <3>1 DEF Registry!ReadOutcomes
  <2>2. CASE file[k].content = Torn
    <3>1. EntryOf(k) = Registry!SpoiledEntry /\ a = "corrupt"
      BY <1>1, <1>4, <2>2, RestingEntry, ClaimStoreConstants DEF Disposition, Content
    <3> QED  BY <3>1 DEF Registry!ReadOutcomes, Registry!ClaimOutcomes
  <2>3. CASE file[k].content \in Record
    <3>1. /\ EntryOf(k).state \notin {"free", "spoiled"} /\ EntryOf(k).rec = file[k].content
          /\ file[k].content \notin {Absent, Torn}
      BY <1>1, <1>4, <2>3, RestingEntry, ClaimStoreConstants
    <3>2. a = IF call[p].op = "read" THEN "found"
              ELSE IF file[k].content = call[p].rec THEN "already_claimed" ELSE "conflict"
      BY <1>1, <2>3, <3>1 DEF Disposition, Content
    <3> QED  BY <1>1, <3>1, <3>2 DEF Registry!ReadOutcomes, Registry!ClaimOutcomes
  <2> QED  BY <1>1, <2>1, <2>2, <2>3
<1> HIDE DEF a, k
<1>7. call[p].key = k
  BY DEF k
<1> QED  BY <1>1, <1>2, <1>5, <1>6, <1>7, Takes

(* A writer that ends, well or badly, takes effect with what it left.      *)
LEMMA WriterDecides ==
    ASSUME RefInv, LockedInv', NEW p \in Proc, pc[p] \in {"write", "sync"},
           NEW a, Decide(p, a), UNCHANGED <<lock, call>>,
           \A j \in Key \ {call[p].key} : file'[j] = file[j],
           \/ a = "claimed" /\ file'[call[p].key] = [content |-> call[p].rec, synced |-> TRUE]
           \/ /\ a = "unavailable"
              /\ \/ file'[call[p].key].content = Torn
                 \/ file'[call[p].key].content = call[p].rec
    PROVE  Registry!TakeEffect(p)
<1>1. PICK k \in Key : k = call[p].key
  BY DEF RefInv, LockedInv, CallInv, Call
<1>2. /\ call[p] \in Call /\ answer[p] = "none" /\ call[p].op = "claim"
      /\ call[p].rec \in Record
  BY DEF RefInv, CallerInv, LockedInv, CallInv, WriterInv, Call
<1>3. /\ pc' = [pc EXCEPT ![p] = "unlock"] /\ answer' = [answer EXCEPT ![p] = a]
      /\ pc'[p] = "unlock" /\ \A q \in Proc \ {p} : pc'[q] = pc[q] /\ call'[q] = call[q]
  BY DEF Decide, Goto, RefInv, LockedInv, TypeOK
<1>4. /\ Registered' = [Registered EXCEPT ![k] = EntryOf(k)'] /\ ~BeingWritten(k)'
  BY <1>1, <1>3, EntryChanged DEF RefInv, Holding, Writing
<1>5. EntryOf(k) = Registry!FreeEntry
  BY <1>1, <1>2, OneWriter DEF RefInv, Holding, Writing, EntryOf
<1>6. EntryOf(k)' = IF file'[k].content = Absent THEN Registry!FreeEntry
                    ELSE IF file'[k].content = Torn THEN Registry!SpoiledEntry
                    ELSE IF file'[k].synced THEN Registry!FirmEntry(file'[k].content)
                    ELSE Registry!ShakyEntry(file'[k].content)
  BY <1>4 DEF EntryOf
<1>7. \/ a = "claimed" /\ EntryOf(k)' = Registry!FirmEntry(call[p].rec)
      \/ a = "unavailable" /\ EntryOf(k)' \in {Registry!SpoiledEntry,
                Registry!FirmEntry(call[p].rec), Registry!ShakyEntry(call[p].rec)}
  BY <1>1, <1>2, <1>6, ClaimStoreConstants
<1>8. Registry!Outcome(a, EntryOf(k)') \in Registry!ClaimOutcomes(EntryOf(k), call[p].rec)
  BY <1>5, <1>7 DEF Registry!ClaimOutcomes, Registry!HalfWritten
<1>9. PICK e : e = EntryOf(k)'
  OBVIOUS
<1> QED  BY <1>1, <1>2, <1>3, <1>4, <1>8, <1>9, Takes

(* A failure outside a write decides without touching the file.            *)
LEMMA FailureDecides ==
    ASSUME RefInv, NEW p \in Proc, pc[p] \in {"open", "flock", "read", "create"},
           NEW s \in {"raise", "unlock"}, pc' = [pc EXCEPT ![p] = s],
           answer' = [answer EXCEPT ![p] = "unavailable"], UNCHANGED <<file, call>>
    PROVE  Registry!TakeEffect(p)
<1>1. PICK k \in Key : k = call[p].key
  BY DEF RefInv, LockedInv, CallInv, Call
<1>2. call[p] \in Call /\ answer[p] = "none"
  BY DEF RefInv, CallerInv, LockedInv, CallInv
<1>3. UNCHANGED Registered
  BY EntriesKept DEF RefInv, LockedInv, TypeOK, Writing
<1>4. Registered' = [Registered EXCEPT ![k] = EntryOf(k)]
  BY <1>3 DEF Registered
<1>5. Registry!Outcome("unavailable", EntryOf(k)) \in
         IF call[p].op = "claim" THEN Registry!ClaimOutcomes(EntryOf(k), call[p].rec)
         ELSE Registry!ReadOutcomes(EntryOf(k))
  BY Unavailable
<1> QED  BY <1>1, <1>2, <1>4, <1>5, Takes

-----------------------------------------------------------------------------
(* Dying. *)

(* A process that is killed abandons its call: what it was writing is left *)
(* torn or whole and unsynchronised.                                       *)
LEMMA CrashAbandons ==
    ASSUME RefInv, LockedInv', NEW p \in Proc, Crash(p) PROVE Registry!Abandon(p)
<1>1. /\ pc[p] # "idle" /\ pc' = [pc EXCEPT ![p] = "idle"] /\ UNCHANGED file
      /\ call' = [call EXCEPT ![p] = NoCall] /\ answer' = [answer EXCEPT ![p] = "none"]
  BY DEF Crash, Leave, Goto
<1>2. PICK k \in Key : k = call[p].key
  BY <1>1 DEF RefInv, LockedInv, CallInv, Call
<1>3. call[p] \in Call /\ call[p] # NoCall
  BY <1>1, ClaimStoreConstants DEF RefInv, LockedInv, CallInv
<1>4. pc'[p] = "idle" /\ \A q \in Proc \ {p} : pc'[q] = pc[q] /\ call'[q] = call[q]
  BY <1>1 DEF RefInv, LockedInv, TypeOK
<1>5. CASE pc[p] \notin Writing
  <2>1. UNCHANGED Registered
    BY <1>1, <1>4, <1>5, EntriesKept DEF RefInv, Writing
  <2> QED  BY <1>1, <1>3, <2>1 DEF Registry!Abandon
<1>6. CASE pc[p] \in Writing
  <2>1. answer[p] = "none" /\ call[p].op = "claim" /\ call[p].rec \in Record
    BY <1>3, <1>6 DEF RefInv, CallerInv, LockedInv, WriterInv, Writing, Call
  <2>2. Registered' = [Registered EXCEPT ![k] = EntryOf(k)'] /\ ~BeingWritten(k)'
    BY <1>1, <1>2, <1>4, <1>6, EntryChanged DEF RefInv, Holding, Writing
  <2>3. EntryOf(k) = Registry!FreeEntry /\ Registered[k] = EntryOf(k)
    BY <1>2, <1>6, OneWriter DEF RefInv, Holding, Writing, EntryOf, Registered
  <2>4. file[k].content = Torn \/ file[k] = [content |-> call[p].rec, synced |-> FALSE]
    BY <1>2, <1>6 DEF RefInv, LockedInv, WriterInv, Content, Writing
  <2>5. EntryOf(k)' = IF file'[k].content = Absent THEN Registry!FreeEntry
                      ELSE IF file'[k].content = Torn THEN Registry!SpoiledEntry
                      ELSE IF file'[k].synced THEN Registry!FirmEntry(file'[k].content)
                      ELSE Registry!ShakyEntry(file'[k].content)
    BY <2>2 DEF EntryOf
  <2>6. EntryOf(k)' \in Registry!HalfWritten(Registered[k], call[p].rec)
    BY <1>1, <2>1, <2>3, <2>4, <2>5, ClaimStoreConstants DEF Registry!HalfWritten
  <2>7. PICK e : e = EntryOf(k)'
    OBVIOUS
  <2> QED  BY <1>1, <1>2, <1>3, <2>1, <2>2, <2>6, <2>7 DEF Registry!Abandon
<1> QED  BY <1>5, <1>6

(* A power loss leaves every key as the registry's may: a record that was  *)
(* synchronised with its name, or a trace of what was being written.       *)
LEMMA PowerLossLeaves ==
    ASSUME NamesDurable, RefInv, LockedInv', PowerLoss PROVE Registry!PowerLoss
<1>1. /\ call' = [p \in Proc |-> NoCall] /\ answer' = [p \in Proc |-> "none"]
      /\ pc' = [p \in Proc |-> "idle"] /\ file' \in [Key -> File]
      /\ \A k \in Key : file'[k] \in LeftOnDisk(file[k])
  BY DEF PowerLoss
<1>2. \A k \in Key : ~BeingWritten(k)'
  BY <1>1 DEF BeingWritten
<1>3. ASSUME NEW k \in Key
      PROVE  /\ EntryOf(k)' \in Registry!Entries(Record)
             /\ EntryOf(k)' \in Registry!LeftBy(k)
  <2>1. EntryOf(k)' = IF file'[k].content = Absent THEN Registry!FreeEntry
                      ELSE IF file'[k].content = Torn THEN Registry!SpoiledEntry
                      ELSE IF file'[k].synced THEN Registry!FirmEntry(file'[k].content)
                      ELSE Registry!ShakyEntry(file'[k].content)
    BY <1>2 DEF EntryOf
  <2>2. file'[k] \in File /\ file[k] \in File
    BY <1>1 DEF RefInv, LockedInv, TypeOK
  <2>3. EntryOf(k)' \in Registry!Entries(Record)
    BY <2>1, <2>2 DEF File, Registry!Entries
  <2>4. /\ file[k].synced => file'[k] = file[k]
        /\ ~file[k].synced => \/ file'[k] = file[k] \/ file'[k] = NoFile
                              \/ /\ file[k].content # Absent
                                 /\ file'[k] = [content |-> Torn, synced |-> FALSE]
    BY <1>1, <2>2 DEF LeftOnDisk
  <2>5. Registered[k] = EntryOf(k)
    BY DEF Registered
  <2>6. CASE BeingWritten(k)
    <3>1. PICK p \in Proc : pc[p] \in Writing /\ call[p].key = k
      BY <2>6 DEF BeingWritten, Writing
    <3>2. /\ call[p] \in Call /\ call[p] # NoCall /\ answer[p] = "none" /\ call[p].op = "claim"
          /\ call[p].rec \in Record
      BY <3>1, ClaimStoreConstants
         DEF RefInv, CallerInv, LockedInv, CallInv, WriterInv, Writing, Call
    <3>3. file[k].content = Torn \/ file[k] = [content |-> call[p].rec, synced |-> FALSE]
      BY <3>1 DEF RefInv, LockedInv, WriterInv, Content, Writing
    <3>4. Registered[k] = Registry!FreeEntry
      BY <2>5, <2>6 DEF EntryOf
    <3>5. EntryOf(k)' \in {Registry!FreeEntry, Registry!SpoiledEntry,
                           Registry!ShakyEntry(call[p].rec)}
      BY <2>1, <2>4, <3>2, <3>3, ClaimStoreConstants DEF NoFile
    <3>6. EntryOf(k)' \in Registry!HalfWritten(Registered[k], call[p].rec)
      BY <3>4, <3>5 DEF Registry!HalfWritten
    <3> QED  BY <2>3, <3>1, <3>2, <3>6 DEF Registry!LeftBy
  <2>7. CASE ~BeingWritten(k)
    <3>1. EntryOf(k) = IF file[k].content = Absent THEN Registry!FreeEntry
                       ELSE IF file[k].content = Torn THEN Registry!SpoiledEntry
                       ELSE IF file[k].synced THEN Registry!FirmEntry(file[k].content)
                       ELSE Registry!ShakyEntry(file[k].content)
      BY <2>7, RestingEntry
    <3>2. EntryOf(k)' \in Registry!AfterPowerLoss(EntryOf(k))
      BY <2>1, <2>2, <2>4, <3>1, ClaimStoreConstants DEF Registry!AfterPowerLoss, NoFile, File
    <3> QED  BY <2>3, <2>5, <3>2 DEF Registry!LeftBy
  <2> QED  BY <2>6, <2>7
<1>4. Registered' = [k \in Key |-> EntryOf(k)']
  BY DEF Registered
<1>5. /\ Registered' \in [Key -> Registry!Entries(Record)]
      /\ \A k \in Key : Registered'[k] \in Registry!LeftBy(k)
  BY <1>3, <1>4
<1> QED  BY <1>1, <1>5 DEF Registry!PowerLoss

-----------------------------------------------------------------------------
(* Every step of the store is a step of the registry, or invisible to it.  *)
LEMMA StepMaps ==
    ASSUME NamesDurable, RefInv, LockedInv', [Next]_vars
    PROVE  [Registry!Next]_(Registry!rvars)
<1> DEFINE Mapped == Registry!Next \/ UNCHANGED <<Registered, call, answer>>
<1> SUFFICES Mapped
  BY DEF Registry!rvars
<1>1. ASSUME NEW p \in Proc, Enter(p) PROVE Mapped
  <2>1. /\ pc[p] = "idle" /\ UNCHANGED <<file, answer>> /\ call[p] = NoCall
        /\ \E c \in Call : call' = [call EXCEPT ![p] = c]
        /\ pc'[p] = "open" /\ \A q \in Proc \ {p} : pc'[q] = pc[q] /\ call'[q] = call[q]
    BY <1>1 DEF Enter, Goto, RefInv, CallerInv, LockedInv, TypeOK
  <2>2. UNCHANGED Registered
    BY <2>1, EntriesKept DEF RefInv, Writing
  <2>3. Registry!Invoke(p)
    BY <2>1, <2>2 DEF Registry!Invoke, Registry!Call, Call
  <2> QED  BY <2>3 DEF Registry!Next
<1>2. ASSUME NEW p \in Proc, OpenLock(p) \/ AcquireLock(p) PROVE Mapped
  <2>1. /\ pc[p] \notin Writing /\ pc'[p] \notin Writing /\ UNCHANGED <<file, call, answer>>
        /\ \A q \in Proc \ {p} : pc'[q] = pc[q]
    BY <1>2 DEF OpenLock, AcquireLock, Goto, Writing, RefInv, LockedInv, TypeOK
  <2>2. UNCHANGED Registered
    BY <2>1, EntriesKept DEF RefInv
  <2> QED  BY <2>1, <2>2
<1>3. ASSUME NEW p \in Proc, LockUnavailable(p) PROVE Mapped
  <2>1. Registry!TakeEffect(p)
    BY <1>3, FailureDecides DEF LockUnavailable, Goto
  <2> QED  BY <2>1 DEF Registry!Next
<1>4. ASSUME NEW p \in Proc, ReadRecord(p) PROVE Mapped
  <2>1. pc[p] = "read" /\ UNCHANGED <<file, lock, call, granted>>
    BY <1>4 DEF ReadRecord
  <2>2. CASE call[p].op = "claim" /\ Content(p) = Absent
    <3>1. pc' = [pc EXCEPT ![p] = "create"] /\ UNCHANGED answer
      BY <1>4, <2>2 DEF ReadRecord, Goto
    <3>2. UNCHANGED Registered
      BY <2>1, <3>1, EntriesKept DEF RefInv, LockedInv, TypeOK, Writing
    <3> QED  BY <2>1, <3>1, <3>2
  <2>3. CASE ~(call[p].op = "claim" /\ Content(p) = Absent)
    <3>1. Decide(p, Disposition(call[p], Content(p)))
      BY <1>4, <2>3 DEF ReadRecord
    <3>2. Registry!TakeEffect(p)
      BY <2>1, <2>3, <3>1, ReadDecides
    <3> QED  BY <3>2 DEF Registry!Next
  <2> QED  BY <2>2, <2>3
<1>5. ASSUME NEW p \in Proc, CreateRecord(p) \/ WriteRecord(p) PROVE Mapped
  <2>1. PICK k \in Key : k = call[p].key
    BY <1>5 DEF CreateRecord, WriteRecord, RefInv, LockedInv, CallInv, Call
  <2>2. /\ pc[p] \in Holding /\ pc'[p] \in Writing /\ UNCHANGED <<call, answer>>
        /\ \A q \in Proc \ {p} : pc'[q] = pc[q]
        /\ \A j \in Key \ {k} : file'[j] = file[j]
    BY <1>5, <2>1 DEF CreateRecord, WriteRecord, Goto, Write, Holding, Writing, RefInv,
                      LockedInv, TypeOK
  <2>3. Registered' = [Registered EXCEPT ![k] = EntryOf(k)'] /\ BeingWritten(k)'
    BY <2>1, <2>2, EntryChanged DEF RefInv
  <2>4. EntryOf(k)' = Registry!FreeEntry
    BY <2>3 DEF EntryOf
  <2>5. EntryOf(k) = Registry!FreeEntry
    <3>1. CASE CreateRecord(p)
      BY <2>1, <3>1 DEF CreateRecord, Content, EntryOf
    <3>2. CASE WriteRecord(p)
      BY <2>1, <3>2 DEF WriteRecord, BeingWritten, EntryOf
    <3> QED  BY <1>5, <3>1, <3>2
  <2>6. UNCHANGED Registered
    BY <2>3, <2>4, <2>5 DEF Registered
  <2> QED  BY <2>2, <2>6
<1>6. ASSUME NEW p \in Proc, SyncRecord(p) \/ SyncUnavailable(p) PROVE Mapped
  <2>1. call[p] \in Call /\ call[p].key \in Key /\ call[p].rec \in Record
    BY <1>6 DEF SyncRecord, SyncUnavailable, RefInv, LockedInv, CallInv, Call
  <2>2. PICK a \in {"claimed", "unavailable"}, s \in BOOLEAN :
           /\ pc[p] = "sync" /\ Decide(p, a) /\ UNCHANGED <<lock, call>>
           /\ file' = [file EXCEPT ![call[p].key] = [content |-> call[p].rec, synced |-> s]]
           /\ a = "claimed" => s = TRUE
    BY <1>6 DEF SyncRecord, SyncUnavailable, Write
  <2>3. /\ file'[call[p].key] = [content |-> call[p].rec, synced |-> s]
        /\ \A j \in Key \ {call[p].key} : file'[j] = file[j]
    BY <2>1, <2>2 DEF RefInv, LockedInv, TypeOK
  <2>4. pc[p] \in {"write", "sync"} /\ Decide(p, a) /\ UNCHANGED <<lock, call>>
    BY <2>2
  <2>5. ASSUME a = "claimed" PROVE Registry!TakeEffect(p)
    <3>1. file'[call[p].key] = [content |-> call[p].rec, synced |-> TRUE]
      BY <2>2, <2>3, <2>5
    <3> QED  BY <2>3, <2>4, <2>5, <3>1, WriterDecides
  <2>6. ASSUME a = "unavailable" PROVE Registry!TakeEffect(p)
    <3>1. file'[call[p].key].content = call[p].rec
      BY <2>3
    <3> QED  BY <2>3, <2>4, <2>6, <3>1, WriterDecides
  <2>7. Registry!TakeEffect(p)
    BY <2>2, <2>5, <2>6
  <2> QED  BY <2>7 DEF Registry!Next
<1>7. ASSUME NEW p \in Proc, RecordUnavailable(p) PROVE Mapped
  <2>1. /\ pc[p] \in {"read", "create", "write"} /\ Decide(p, "unavailable")
        /\ UNCHANGED <<file, lock, call, granted>>
    BY <1>7 DEF RecordUnavailable
  <2>2. CASE pc[p] \in {"read", "create"}
    <3>1. Registry!TakeEffect(p)
      BY <2>1, <2>2, FailureDecides DEF Decide, Goto
    <3> QED  BY <3>1 DEF Registry!Next
  <2>3. CASE pc[p] = "write"
    <3>1. file[call[p].key].content = Torn
      BY <2>3 DEF RefInv, LockedInv, WriterInv, Content
    <3>2. Registry!TakeEffect(p)
      BY <2>1, <2>3, <3>1, WriterDecides
    <3> QED  BY <3>2 DEF Registry!Next
  <2> QED  BY <2>1, <2>2, <2>3
<1>8. ASSUME NEW p \in Proc, Return(p) PROVE Mapped
  <2>1. /\ pc[p] \in {"raise", "unlock"} /\ pc' = [pc EXCEPT ![p] = "idle"] /\ UNCHANGED file
        /\ call' = [call EXCEPT ![p] = NoCall] /\ answer' = [answer EXCEPT ![p] = "none"]
    BY <1>8 DEF Return, Leave, Goto
  <2>2. call[p] # NoCall /\ answer[p] # "none"
    BY <2>1, ClaimStoreConstants DEF RefInv, CallerInv, LockedInv, CallInv
  <2>3. UNCHANGED Registered
    BY <2>1, EntriesKept DEF RefInv, LockedInv, TypeOK, Writing
  <2>4. Registry!Return(p)
    BY <2>1, <2>2, <2>3 DEF Registry!Return
  <2> QED  BY <2>4 DEF Registry!Next
<1>9. ASSUME NEW p \in Proc, Crash(p) PROVE Mapped
  BY <1>9, CrashAbandons DEF Registry!Next
<1>10. CASE PowerLoss
  BY <1>10, PowerLossLeaves DEF Registry!Next
<1>11. CASE UNCHANGED vars
  <2>1. UNCHANGED Registered
    BY <1>11 DEF vars, Registered, EntryOf, BeingWritten
  <2> QED  BY <1>11, <2>1 DEF vars
<1> HIDE DEF Mapped
<1> QED
  BY <1>1, <1>2, <1>3, <1>4, <1>5, <1>6, <1>7, <1>8, <1>9, <1>10, <1>11 DEF Next, Step

(* An empty control root is an empty registry.                             *)
LEMMA InitMaps == Init => Registry!Init
<1> SUFFICES ASSUME Init PROVE Registry!Init
  OBVIOUS
<1>1. Registered = [k \in Key |-> Registry!FreeEntry]
  BY DEF Init, NoFile, Registered, EntryOf
<1> QED  BY <1>1 DEF Init, Registry!Init

(* Concurrent, failing and dying calls of claim() and read() look like     *)
(* calls that take effect one at a time, for any numbers of processes,     *)
(* keys and records, where fsync of a new file persists its name.          *)
THEOREM StoreImplementsRegistry ==
    ASSUME NamesDurable PROVE Spec => ImplementsRegistry
<1>1. RefInv /\ RefInv' /\ [Next]_vars => [Registry!Next]_(Registry!rvars)
  BY StepMaps DEF RefInv
<1> QED
  BY <1>1, RefInit, RefStep, InitMaps, PTL DEF Spec, ImplementsRegistry, Registry!Spec

-----------------------------------------------------------------------------
(* Where fsync of a new file need not persist its name, a grant stands as  *)
(* long as its record is in its file.                                      *)
Grants(k) == granted[k] # <<>>
Stands(k) ==
    Grants(k) /\ file[k] = [content |-> granted[k][Len(granted[k])], synced |-> TRUE]
GrantStands(k) ==
    /\ Stands(k) => granted'[k] = granted[k] /\ (PowerLoss \/ file'[k] = file[k])
    /\ granted'[k] # granted[k] => ~Stands(k) /\ Stands(k)'

(* A writer works on an unsynchronised file, so its key's grant, if there  *)
(* was one, no longer stands.                                              *)
LEMMA WriterFindsNoGrant ==
    ASSUME LockedInv, NEW p \in Proc, pc[p] \in {"create", "write", "sync"}
    PROVE  /\ call[p].key \in Key /\ call[p].rec \in Record
           /\ ~Stands(call[p].key)
<1> DEFINE k == call[p].key
<1>1. call[p] \in Call
  BY DEF LockedInv, CallInv
<1>2. k \in Key /\ call[p].rec \in Record
  BY <1>1 DEF Call
<1> SUFFICES ASSUME Stands(k) PROVE FALSE
  BY <1>2
<1>3. granted[k] \in Seq(Record) /\ Len(granted[k]) \in Nat \ {0}
  BY <1>2, EmptySeq DEF LockedInv, TypeOK, Stands, Grants
<1>4. granted[k][Len(granted[k])] \in Record
  BY <1>3, ElementOfSeq
<1>5. file[k].content \notin {Absent, Torn} /\ file[k].synced = TRUE
  BY <1>4, ClaimStoreConstants DEF Stands
<1>6. \/ file[k].content \in {Absent, Torn}
      \/ file[k] = [content |-> call[p].rec, synced |-> FALSE]
  BY DEF LockedInv, WriterInv, Content
<1> QED  BY <1>5, <1>6

(* A successful fsync makes the one grant of its key that stands.          *)
LEMMA SyncGrants ==
    ASSUME LockedInv, NEW p \in Proc, SyncRecord(p), NEW k \in Key
    PROVE  GrantStands(k)
<1> DEFINE r == call[p].rec
<1>1. pc[p] = "sync"
  BY DEF SyncRecord
<1>2. call[p].key \in Key /\ r \in Record /\ ~Stands(call[p].key)
  BY <1>1, WriterFindsNoGrant
<1>3. CASE k = call[p].key
  <2>1. granted[k] \in Seq(Record)
    BY DEF LockedInv, TypeOK
  <2>2. /\ granted'[k] = Append(granted[k], r)
        /\ file'[k] = [content |-> r, synced |-> TRUE]
    BY <1>2, <1>3 DEF SyncRecord, Write, LockedInv, TypeOK
  <2>3. Len(granted'[k]) = Len(granted[k]) + 1 /\ granted'[k][Len(granted[k]) + 1] = r
        /\ granted'[k] # <<>>
    BY <1>2, <2>1, <2>2
  <2>4. Stands(k)'
    BY <2>2, <2>3 DEF Stands, Grants
  <2> QED  BY <1>2, <1>3, <2>4 DEF GrantStands
<1>4. CASE k # call[p].key
  <2>1. granted'[k] = granted[k] /\ file'[k] = file[k]
    BY <1>4 DEF SyncRecord, Write, LockedInv, TypeOK
  <2> QED  BY <2>1 DEF GrantStands
<1> QED  BY <1>3, <1>4

(* Whether or not names are durable: a granted record that is still in its *)
(* file is there until a power loss, and while it is, no claim of its key  *)
(* is granted.  So it takes a power loss that drops a name the control     *)
(* root never synchronised (ledger.py:260) for a key to be granted again,  *)
(* and no kill, failing system call or race of callers.                    *)
THEOREM GrantsLostToPowerOnly == Spec => [][\A k \in Key : GrantStands(k)]_vars
<1>1. ASSUME LockedInv, Next, NEW k \in Key PROVE GrantStands(k)
  <2>1. ASSUME NEW p \in Proc, CreateRecord(p) \/ WriteRecord(p) \/ SyncUnavailable(p)
        PROVE  GrantStands(k)
    <3>1. pc[p] \in {"create", "write", "sync"} /\ UNCHANGED granted
      BY <2>1 DEF CreateRecord, WriteRecord, SyncUnavailable
    <3>2. call[p].key \in Key /\ ~Stands(call[p].key)
      BY <1>1, <3>1, WriterFindsNoGrant
    <3>3. k # call[p].key => file'[k] = file[k]
      BY <1>1, <2>1 DEF CreateRecord, WriteRecord, SyncUnavailable, Write, LockedInv, TypeOK
    <3> QED  BY <3>1, <3>2, <3>3 DEF GrantStands
  <2>2. ASSUME NEW p \in Proc, SyncRecord(p) PROVE GrantStands(k)
    BY <1>1, <2>2, SyncGrants
  <2>3. ASSUME NEW p \in Proc,
               \/ Enter(p) \/ OpenLock(p) \/ LockUnavailable(p) \/ AcquireLock(p)
               \/ ReadRecord(p) \/ RecordUnavailable(p) \/ Return(p) \/ Crash(p)
        PROVE  GrantStands(k)
    <3>1. UNCHANGED <<file, granted>>
      BY <2>3 DEF Enter, OpenLock, LockUnavailable, AcquireLock, ReadRecord,
                  RecordUnavailable, Return, Crash
    <3> QED  BY <3>1 DEF GrantStands
  <2>4. CASE PowerLoss
    BY <2>4 DEF PowerLoss, GrantStands
  <2> QED  BY <1>1, <2>1, <2>2, <2>3, <2>4 DEF Next, Step
<1>2. LockedInv /\ [Next]_vars => [\A k \in Key : GrantStands(k)]_vars
  BY <1>1
<1> QED  BY <1>2, LockedSafety, PTL DEF Spec

-----------------------------------------------------------------------------
(* How many system calls the holder of the lock still makes before it      *)
(* gives the lock back.                                                    *)
Left(step) ==
    CASE step = "read"   -> 4
      [] step = "create" -> 3
      [] step = "write"  -> 2
      [] step = "sync"   -> 1
      [] OTHER           -> 0

(* Each of its own steps releases the lock or leaves it fewer; a step of   *)
(* anybody else leaves it where it is, if it survives.                     *)
NearsRelease(p) ==
    lock = p => \/ lock' # p
                \/ Left(pc'[p]) < Left(pc[p])
                \/ ~Step(p) /\ pc'[p] = pc[p]

(* A step of another process neither takes the lock from its holder nor    *)
(* moves it.                                                               *)
LEMMA HolderUndisturbed ==
    ASSUME LockedInv, NEW p \in Proc, lock = p, NEW q \in Proc \ {p},
           Enter(q) \/ Step(q) \/ Crash(q)
    PROVE  pc'[p] = pc[p]
<1>1. pc \in [Proc -> Steps] /\ p # q
  BY DEF LockedInv, TypeOK
<1>2. CASE ReadRecord(q)
  <2>1. PICK s \in {"create", "unlock"} : pc' = [pc EXCEPT ![q] = s]
    BY <1>2 DEF ReadRecord, Goto, Decide
  <2> QED  BY <1>1, <2>1
<1>3. CASE Enter(q) \/ OpenLock(q) \/ LockUnavailable(q) \/ AcquireLock(q)
  BY <1>1, <1>3 DEF Enter, OpenLock, LockUnavailable, AcquireLock, Goto
<1>4. CASE CreateRecord(q) \/ WriteRecord(q)
  BY <1>1, <1>4 DEF CreateRecord, WriteRecord, Goto
<1>5. CASE SyncRecord(q) \/ RecordUnavailable(q) \/ SyncUnavailable(q)
  BY <1>1, <1>5 DEF SyncRecord, RecordUnavailable, SyncUnavailable, Decide, Goto
<1>6. CASE Return(q) \/ Crash(q)
  BY <1>1, <1>6 DEF Return, Crash, Leave, Goto
<1> QED  BY <1>2, <1>3, <1>4, <1>5, <1>6 DEF Step

(* Every step of the holder itself is one system call less, or the unlock. *)
LEMMA HolderMoves ==
    ASSUME LockedInv, NEW p \in Proc, lock = p, Step(p)
    PROVE  lock' # p \/ Left(pc'[p]) < Left(pc[p])
<1>1. pc[p] \in Holding /\ p # NoProc /\ pc \in [Proc -> Steps]
  BY ClaimStoreConstants DEF LockedInv, LockInv, TypeOK
<1>2. CASE ReadRecord(p)
  <2>1. pc[p] = "read" /\ pc'[p] \in {"create", "unlock"}
    BY <1>1, <1>2 DEF ReadRecord, Goto, Decide
  <2> QED  BY <2>1 DEF Left
<1>3. CASE CreateRecord(p) \/ WriteRecord(p)
  <2>1. \/ pc[p] = "create" /\ pc'[p] = "write"
        \/ pc[p] = "write" /\ pc'[p] = "sync"
    BY <1>1, <1>3 DEF CreateRecord, WriteRecord, Goto
  <2> QED  BY <2>1 DEF Left
<1>4. CASE SyncRecord(p) \/ RecordUnavailable(p) \/ SyncUnavailable(p)
  <2>1. pc[p] \in {"read", "create", "write", "sync"} /\ pc'[p] = "unlock"
    BY <1>1, <1>4 DEF SyncRecord, RecordUnavailable, SyncUnavailable, Decide, Goto
  <2> QED  BY <2>1 DEF Left
<1>5. CASE Return(p)
  BY <1>1, <1>5 DEF Return, Holding
<1>6. ~OpenLock(p) /\ ~LockUnavailable(p) /\ ~AcquireLock(p)
  BY <1>1 DEF OpenLock, LockUnavailable, AcquireLock, Holding
<1> QED  BY <1>2, <1>3, <1>4, <1>5, <1>6 DEF Step

(* What LockReleased rests on: the holder of the lock has at most four     *)
(* system calls before the one that releases it, whether they succeed or   *)
(* fail (_locked_root, ledger.py:187), and no other process, waiting,      *)
(* calling or dying, adds to them.                                         *)
THEOREM HolderNearsRelease == Spec => [][\A p \in Proc : NearsRelease(p)]_vars
<1>1. ASSUME LockedInv, Next, NEW p \in Proc, lock = p PROVE NearsRelease(p)
  <2>1. CASE Step(p)
    BY <1>1, <2>1, HolderMoves DEF NearsRelease
  <2>2. CASE Crash(p) \/ PowerLoss
    BY <1>1, <2>2, ClaimStoreConstants DEF Crash, PowerLoss, NearsRelease
  <2>3. CASE ~Step(p) /\ \E q \in Proc \ {p} : Enter(q) \/ Step(q) \/ Crash(q)
    BY <1>1, <2>3, HolderUndisturbed DEF NearsRelease
  <2>4. ~Enter(p)
    BY <1>1 DEF Enter, LockedInv, LockInv, Holding
  <2> QED  BY <1>1, <2>1, <2>2, <2>3, <2>4 DEF Next
<1>2. LockedInv /\ [Next]_vars => [\A p \in Proc : NearsRelease(p)]_vars
  BY <1>1 DEF NearsRelease
<1> QED  BY <1>2, LockedSafety, PTL DEF Spec
=============================================================================
