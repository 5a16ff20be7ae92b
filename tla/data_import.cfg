\* Two of these: two imports and two further requests; and one stop of the process.
SPECIFICATION FairSpec
CONSTANTS
    Imports = {i1, i2}
    Requests = {r1, r2}
    Names = {"fantasy", "herbert"}
    Isbns = {"none", "dune"}
    Texts = {"none", "dune", "smudge"}
    WellFormed = {"dune"}
    MaxRows = 2
    KindOf <- MCKindOf
    Libraries <- MCLibraries
    Labelings <- MCLabelings
    Files <- MCFiles
    MaxBegun = 2
    MayStop = TRUE
    First = i1
    None = None
INVARIANTS
    TypeOK
    RefusalsForetold
    CatalogSound
    IsbnOnce
PROPERTIES
    KeepsPromise
    EveryoneAnswered
CHECK_DEADLOCK FALSE
