CONSTANTS
    MaxMessages = 4
    MaxRuns = 4
    MaxProposals = 2
    MaxClicks = 2
SPECIFICATION Spec
CHECK_DEADLOCK FALSE
INVARIANTS ConfirmedBeforeExecuted SpinnerIsReal OneAtATime LiveIsNewest ReplyOwnsProposal
