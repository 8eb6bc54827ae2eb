\* One shell or git command that writes two chunks, through channels of one.
CONSTANTS
    MaxOutput <- MCMaxOutput
    OutCap = 1
    ChunkCap = 1
SPECIFICATION Spec
INVARIANTS OutputComplete KilledForCause
PROPERTIES Answered
CHECK_DEADLOCK FALSE
