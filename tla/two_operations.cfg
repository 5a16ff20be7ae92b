\* Three backups or restores, and no requests beside them.
SPECIFICATION Spec
CONSTANTS
    Books = {}
    MaxOperations = 3
    Foreign <- MCForeign
    Elsewhere = b3
    MayCrash = FALSE
    None = None
INVARIANT OneAtATime
CHECK_DEADLOCK FALSE
