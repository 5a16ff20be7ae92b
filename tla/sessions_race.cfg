\* A PATCH that waits for a cover and a new book without its session, beside
\* every other request.
SPECIFICATION RaceSpec
CONSTANTS
    MaxSession = 2
    MaxDate = 1
    Payloads <- MCPayloads
    Transitions <- MCTransitions
    AutoSettings <- MCAutoSettings
    Owners <- NoOwners
    Absent = Absent
INVARIANTS
    AtMostOneCurrent
    CurrentIsOpen
PROPERTY
    FinishedStaysClosed
