\* Files of none to four messages over a client's device that takes three,
\* servers whose device takes one or three, and an older file that is
\* shorter or longer than the new one.
CONSTANTS
    Sizes = {0, 1, 2, 3, 4}
    OldSizes = {0, 1, 3}
    MaxSize = 3
    Caps = {1, 3}
    Queue = 2
SPECIFICATION FairSpec
INVARIANTS VerifiedFile GoodFileStored
PROPERTIES FinalWhenTold Completes
CHECK_DEADLOCK FALSE
