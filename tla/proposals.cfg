SPECIFICATION PartsSpec
CONSTANTS
    ann = ann
    bob = bob
    cid = cid
    r1 = r1
    r2 = r2
    u1 = u1
    u2 = u2
    p1 = p1
    p2 = p2
    Person <- People
    Author <- ann
    Request <- TwoSlots
    InitialRole <- RoleOf
    GrantedRole <- Granted
    Submitted <- Inputs
    DeployKey <- OneProposal
    Proposal <- OneProposal
    Key <- OneProposal
    Deployer <- TwoSlots
    Undoer <- TwoUndoers
    Budget = 1
    LastDay = 0
    RollbackId <- TwoRows
    NewFile <- OneProposal
    FromDraft <- NoProposal
    CanPublish = FALSE
    Change <- TwoProposals
    BatchKey <- OneProposal
    Batcher <- TwoSlots
    DayBudget = 2
INVARIANTS TypesHold QuorumBehindApproval SeparationOfDuties DeploymentsAreHeld BatchStandsTogether
PROPERTY OnlyTheseRevive
SYMMETRY Alike
CHECK_DEADLOCK FALSE
