SPECIFICATION FairSpec
CONSTANTS
    MaxRuns = 2
    StepLimit = 2
INVARIANTS
    StrikesChild
    PromptTrue
PROPERTY
    InterruptReturns
