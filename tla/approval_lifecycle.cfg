CONSTANTS
    push = push
    commit = commit
    status = status
    Command = {push, commit, status}
    Approval = {a1}
    Executor = {t1, t2}
    Decider = {t2, t3}
    Client = {t3}
    Rules <- MCRules
    MaxTakeBacks = 1
SPECIFICATION Spec
INVARIANTS TypeOK RunsAccounted RunIsApproved DecisionKept ReservedHasHolder
SYMMETRY MCSymmetry
CHECK_DEADLOCK FALSE
