CONSTANTS
    c1 = c1
    c2 = c2
    f1 = f1
    f2 = f2
    Lcores <- MCLcores
    MainLcore = c1
    Flows <- MCFlows
    Owner <- MCOwner
    Size = 2
    BucketOf <- MCBucketOf
    Ages <- MCAges
    AgeThread = TRUE
    MaxEntries = 3
    MaxRemovals = 2
    Step = 2
    MaxTime = 3
SPECIFICATION Spec
CONSTRAINT AfterUse
INVARIANTS LocksHeld ListsIntact OneEntryPerFlow CleanExit
CHECK_DEADLOCK FALSE
