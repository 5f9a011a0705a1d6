-------------------------- MODULE MCEvidenceChain --------------------------
EXTENDS EvidenceChain, TLC

CONSTANTS f1, f2, f3

(* Two artifacts of one snapshot, of which one has all its validations,    *)
(* and an artifact of another snapshot.                                    *)
MCSnapshotOf == [f \in {f1, f2, f3} |-> IF f = f3 THEN f3 ELSE f1]
MCValidations ==
    { [class |-> "build", fp |-> f1, passed |-> TRUE],
      [class |-> "tests", fp |-> f1, passed |-> TRUE],
      [class |-> "build", fp |-> f2, passed |-> TRUE],
      [class |-> "tests", fp |-> f2, passed |-> FALSE] }

MCSymmetry ==
    Permutations(Supported) \cup Permutations(AuthId) \cup Permutations(Terms)
        \cup Permutations(IdemKey)
=============================================================================
