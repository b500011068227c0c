\* Is the flush id written for a job always one read from LATEST_FLUSH?
SPECIFICATION FairSpec
CONSTANTS
    Recordings <- Chosen
    Shapes = {"mnist"}
    Words = {"w0", "w1"}
    NumIter = 1
    MaxLoops = 4
    CheckpointModes = {FALSE}
    Prompt = TRUE
    Cleanable <- CleanableChains
INVARIANT FlushIdFromLatestFlush
