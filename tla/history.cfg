\* A PATCH of an unrelated field rewrites a finished read.
SPECIFICATION Spec
CONSTANTS
    MaxSession = 2
    MaxDate = 2
    Payloads <- MCPayloads
    Transitions <- MCTransitions
    AutoSettings <- MCAutoSettings
    Owners <- NoOwners
    Absent = Absent
PROPERTY UnrelatedEditKeepsHistory
