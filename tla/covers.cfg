\* Two coroutines, deletions and the cleaner on two books that may share a file.
SPECIFICATION Spec
CONSTANTS
    Files = {f1}
    Books = {b1, b2}
    Requests = {r1, r2}
    None = None
INVARIANTS
    TypeOK
    DownloadedCoverStays
PROPERTIES
    OrphansGo
