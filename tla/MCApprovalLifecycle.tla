------------------------ MODULE MCApprovalLifecycle ------------------------
EXTENDS ApprovalLifecycle, TLC

CONSTANTS push, commit, status

MCSymmetry == Permutations({push, commit})

(* git status is allowed by the first rule that knows it; no rule knows    *)
(* the other two commands, so they need approval.                          *)
MCRules == << [matches |-> {status}, outcome |-> "allow"],
              [matches |-> {status}, outcome |-> "deny"] >>
=============================================================================
