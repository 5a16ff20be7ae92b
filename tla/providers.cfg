\* One search of six sources, or two lookups that share one permit of each kind.
SPECIFICATION Spec
CONSTANTS
    RawIsbns = {"dune", "emma", "dune-10", "smudge"}
    Isbns = {"dune", "emma"}
    NoIsbn = "none"
    Shape <- MCShape
    Normal <- MCNormal
    MaxHits = 2
    Registry <- MCRegistry
    Queries <- MCQueries
    Replies <- MCReplies
    Hits <- MCHits
    MaxRetries = 3
    Lookups = {l1, l2}
    Settings <- MCSettings
    ProbeLimit = 1
    ThaliaLimit = 1
INVARIANTS
    TypeOK
    ToldTruly
    ClientClosedLast
    IsbnsLookUp
    BestOfBnf
    CoverIsFirst
    FormsAgree
PROPERTIES
    AllEnds
CHECK_DEADLOCK FALSE
