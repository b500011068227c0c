\* Two runs of each recording, with and without checkpoints, on a GPU that
\* answers before a wait loop gives up.
SPECIFICATION FairSpec
CONSTANTS
    Recordings <- Chosen
    Shapes = {"boot", "two"}
    Words = {"w0", "w1"}
    NumIter = 2
    MaxLoops = 4
    CheckpointModes = {TRUE, FALSE}
    Prompt = TRUE
    Cleanable <- CleanableChains
INVARIANTS JobSync EventMeansDone FreshJob CheckpointConsistent
PROPERTIES ReplayCompletes JobsInOrder
