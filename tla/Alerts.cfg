SPECIFICATION FairSpec
CONSTANTS
    Instances = {i1}
    NumRules = 2
    Generational = {2}
    Flaky = {1}
    Entities = {e1}
    Channels = {c1}
    MaxBreaks = 2
    MaxFaults = 1
    MaxEdits = 2
INVARIANTS
    SentOncePerProcess
    SuppressedWasTold
    SeedingKeepsChoices
PROPERTY
    BrokenIsTold
CHECK_DEADLOCK FALSE
