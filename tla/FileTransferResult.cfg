\* A file of one message that may be compressed to two, over a server whose
\* device takes one, or may be written by others while it is sent.
CONSTANTS
    Sizes = {1}
    OldSizes = {0}
    MaxSize = 2
    Caps = {1}
    Queue = 2
SPECIFICATION FairSpec
INVARIANT ServerSuccess
CHECK_DEADLOCK FALSE
