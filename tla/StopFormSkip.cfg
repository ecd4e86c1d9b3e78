SPECIFICATION FormSpec
CONSTANTS
    Task = {"washed_can", "emptied_trash"}
    NoDraft = noDraft
PROPERTY
    SkipWasConfirmed
CHECK_DEADLOCK FALSE
