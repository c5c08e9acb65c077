SPECIFICATION SerialSpec
CONSTANTS
    p1 = p1
    k1 = k1
    k2 = k2
    d1 = d1
    u1 = u1
    Proposal <- OneProposal
    Key <- TwoKeys
    Deployer <- OneDeployer
    Undoer <- OneUndoer
    RollbackId <- TwoRows
    NewFile <- OneProposal
    FromDraft <- OneProposal
    Budget = 1
    LastDay = 1
    CanPublish = TRUE
INVARIANT ReceiptsMatchGitHub
PROPERTIES RollbacksHold RevertIsNoticed
CHECK_DEADLOCK FALSE
