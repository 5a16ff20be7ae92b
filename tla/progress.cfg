\* The progress log beside every request on a book and its sessions.
SPECIFICATION Spec
CONSTANTS
    MaxSession = 2
    MaxDate = 1
    Payloads <- MCPayloads
    Transitions <- MCTransitions
    AutoSettings <- MCAutoSettings
    Owners <- MCOwners
    Absent = Absent
INVARIANTS
    NothingOutlivesBook
    ProgressHasSession
