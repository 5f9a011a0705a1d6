---------------------------- MODULE MCClaimStore ----------------------------
(* Small instances of ClaimStore for TLC.                                  *)
EXTENDS ClaimStore, TLC

Interchangeable == Permutations(Proc) \cup Permutations(Record)
=============================================================================
