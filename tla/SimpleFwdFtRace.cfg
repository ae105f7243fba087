CONSTANTS
    c1 = c1
    c2 = c2
    f1 = f1
    f2 = f2
    Lcores <- MCLcores
    MainLcore = c1
    Flows <- MCFlows
    Owner <- MCOwner
    Size = 2
    BucketOf <- MCBucketOf
    Ages <- MCAges
    AgeThread = FALSE
    MaxEntries = 2
    MaxRemovals = 2
    Step = 1
    MaxTime = 1
SPECIFICATION Spec
INVARIANTS NoUseAfterFree
CHECK_DEADLOCK FALSE
