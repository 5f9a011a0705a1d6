--------------------------- MODULE ClaimRegistry ----------------------------
(***************************************************************************)
(* The abstract specification of a durable evidence store: every call      *)
(* takes effect in one step between its invocation and its answer, with    *)
(* one of the outcomes ClaimOps lists.  ClaimStore implements it.          *)
(***************************************************************************)
EXTENDS ClaimOps

CONSTANTS Proc,     \* processes (or threads) that share the control root
          Key,      \* deterministic identity keys
          Record,   \* records (binding digests) a key can be claimed with
          NoCall    \* the call of a process that is not in the store:
                    \* neither a record nor a call, as NoRecord is no record

VARIABLES reg,      \* the entry of each key
          call,     \* the call each process has in progress
          answer    \* its answer, once the call has taken effect

rvars == <<reg, call, answer>>

Call == [op : {"claim", "read"}, key : Key, rec : Record]

Init ==
    /\ reg = [k \in Key |-> FreeEntry]
    /\ call = [p \in Proc |-> NoCall]
    /\ answer = [p \in Proc |-> "none"]

Invoke(p) ==
    /\ call[p] = NoCall
    /\ \E c \in Call : call' = [call EXCEPT ![p] = c]
    /\ UNCHANGED <<reg, answer>>

Outcomes(c) ==
    IF c.op = "claim" THEN ClaimOutcomes(reg[c.key], c.rec)
                      ELSE ReadOutcomes(reg[c.key])

TakeEffect(p) ==
    /\ call[p] # NoCall /\ answer[p] = "none"
    /\ \E o \in Outcomes(call[p]) :
          /\ reg' = [reg EXCEPT ![call[p].key] = o.entry]
          /\ answer' = [answer EXCEPT ![p] = o.answer]
    /\ UNCHANGED call

Return(p) ==
    /\ call[p] # NoCall /\ answer[p] # "none"
    /\ call' = [call EXCEPT ![p] = NoCall]
    /\ answer' = [answer EXCEPT ![p] = "none"]
    /\ UNCHANGED reg

(* A process dies inside its call; a claim may be left half written.       *)
Abandon(p) ==
    /\ call[p] # NoCall
    /\ call' = [call EXCEPT ![p] = NoCall]
    /\ answer' = [answer EXCEPT ![p] = "none"]
    /\ \/ UNCHANGED reg
       \/ /\ call[p].op = "claim" /\ answer[p] = "none"
          /\ \E e \in HalfWritten(reg[call[p].key], call[p].rec) :
                reg' = [reg EXCEPT ![call[p].key] = e]

(* Every process dies, and what was not on disk may be gone.               *)
LeftBy(k) ==
    AfterPowerLoss(reg[k])
        \cup UNION {HalfWritten(reg[k], call[p].rec) :
                        p \in {q \in Proc : /\ call[q] # NoCall
                                            /\ answer[q] = "none"
                                            /\ call[q].op = "claim"
                                            /\ call[q].key = k}}

PowerLoss ==
    /\ call' = [p \in Proc |-> NoCall]
    /\ answer' = [p \in Proc |-> "none"]
    /\ reg' \in [Key -> Entries(Record)]
    /\ \A k \in Key : reg'[k] \in LeftBy(k)

Next ==
    \/ \E p \in Proc : Invoke(p) \/ TakeEffect(p) \/ Return(p) \/ Abandon(p)
    \/ PowerLoss

Spec == Init /\ [][Next]_rvars
=============================================================================
