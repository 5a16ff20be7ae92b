\* A PATCH that waited for its cover closes the session of a re-read.
SPECIFICATION RaceSpec
CONSTANTS
    MaxSession = 2
    MaxDate = 1
    Payloads <- MCPayloads
    Transitions <- MCTransitions
    AutoSettings <- MCAutoSettings
    Owners <- NoOwners
    Absent = Absent
PROPERTY ReadingKeepsCurrent
