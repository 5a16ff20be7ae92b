\* Every request on a book and its reading sessions, three sessions.
SPECIFICATION Spec
CONSTANTS
    MaxSession = 3
    MaxDate = 1
    Payloads <- MCPayloads
    Transitions <- MCTransitions
    AutoSettings <- MCAutoSettings
    Owners <- NoOwners
    Absent = Absent
INVARIANTS
    TypeOK
    AtMostOneCurrent
    CurrentIsOpen
    ReadingShowsItsSession
    StartedHasSession
PROPERTIES
    FinishedStaysClosed
    OpenHiddenOnlyByDelete
