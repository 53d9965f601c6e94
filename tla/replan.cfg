CONSTANTS
    Scheds = {a, b}
    MaxWip = 1
    Gap = 2
    Keep = 3
    JobLife = 1
    MaxTries = 2
SPECIFICATION FairSpec
INVARIANT TypeOK
PROPERTIES OneDraft FailedPlanRetried
