\* One book, three backups or restores in any order, one kill.  Not followed past two
\* operations that were at the lock together, where the properties say nothing more.
SPECIFICATION Spec
CONSTANTS
    Books = {b1}
    MaxOperations = 3
    Foreign <- MCForeign
    Elsewhere = b3
    MayCrash = TRUE
    None = None
CONSTRAINT OneAtTheLock
INVARIANTS
    TypeOK
    ArchiveWhole
    AckedSurvives
    SomeCopyComplete
    OneOperation
PROPERTY
    LockFreed
CHECK_DEADLOCK FALSE
