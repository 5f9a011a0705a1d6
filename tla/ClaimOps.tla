------------------------------ MODULE ClaimOps ------------------------------
(***************************************************************************)
(* What one durable evidence store promises to a caller of claim() and     *)
(* read(), as constant operators on the entry the store holds for one key. *)
(*                                                                         *)
(* The session replay ledger, the approval store, the workspace custody    *)
(* store, the runtime composition store, the transition authorization      *)
(* store and the transition control ledger are six copies of one           *)
(* algorithm; ClaimStore models it file operation by file operation and is *)
(* checked to implement ClaimRegistry, which is built from these           *)
(* operators.  The gates that use a store are modelled on top of them.     *)
(*                                                                         *)
(* An entry is in one of four states:                                      *)
(*   free     no record file exists for the key                            *)
(*   firm     a complete record whose claim() synchronised it; no power    *)
(*            loss takes it away.  That is so under ClaimStore's hypothesis  *)
(*            NamesDurable: the stores synchronise the record file and leave *)
(*            its name in the control root to the file system                *)
(*   shaky    a complete record whose writer failed or died before it knew *)
(*            the record to be on disk: readable, but a power loss may     *)
(*            still take it away                                           *)
(*   spoiled  a record file that is empty or torn: no operation repairs or *)
(*            removes it                                                   *)
(***************************************************************************)
CONSTANT NoRecord   \* the content of an entry that holds no record

FreeEntry == [state |-> "free", rec |-> NoRecord]
SpoiledEntry == [state |-> "spoiled", rec |-> NoRecord]
ShakyEntry(r) == [state |-> "shaky", rec |-> r]
FirmEntry(r) == [state |-> "firm", rec |-> r]

Entries(R) ==
    {FreeEntry, SpoiledEntry}
        \cup {ShakyEntry(r) : r \in R} \cup {FirmEntry(r) : r \in R}

IsRecorded(e) == e.state \in {"shaky", "firm"}

(* The entries a writer of r may leave when it fails or dies part-way.     *)
HalfWritten(e, r) ==
    IF e.state = "free"
    THEN {e, SpoiledEntry, ShakyEntry(r), FirmEntry(r)}
    ELSE {e}

Outcome(a, e) == [answer |-> a, entry |-> e]

(* claim(r): CLAIMED only for a key without a record; the record that is   *)
(* there decides between ALREADY_CLAIMED and CONFLICT; every I/O failure   *)
(* is UNAVAILABLE, whatever it left behind.                                *)
ClaimOutcomes(e, r) ==
    {Outcome("unavailable", f) : f \in HalfWritten(e, r)}
        \cup (IF e.state = "free" THEN {Outcome("claimed", FirmEntry(r))}
              ELSE IF e.state = "spoiled" THEN {Outcome("corrupt", e)}
              ELSE IF e.rec = r THEN {Outcome("already_claimed", e)}
              ELSE {Outcome("conflict", e)})

(* read(): never changes the entry; "found" comes with e.rec.              *)
ReadOutcomes(e) ==
    {Outcome("unavailable", e)}
        \cup (IF e.state = "free" THEN {Outcome("absent", e)}
              ELSE IF e.state = "spoiled" THEN {Outcome("corrupt", e)}
              ELSE {Outcome("found", e)})

(* What a power loss may do to an entry no writer is working on, where     *)
(* names are durable.  Where they are not, a firm entry may become free as *)
(* well, which is the run claim_store_names.                               *)
AfterPowerLoss(e) ==
    CASE e.state = "firm"    -> {e}
      [] e.state = "shaky"   -> {e, SpoiledEntry, FreeEntry}
      [] e.state = "spoiled" -> {e, FreeEntry}
      [] OTHER               -> {e}
=============================================================================
