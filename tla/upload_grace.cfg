\* An upload whose file is already there as an old orphan, and the cleaner.
SPECIFICATION UploadSpec
CONSTANTS
    Files = {f1}
    Books = {b1}
    Requests = {r1}
    None = None
PROPERTIES
    UploadsAreSpared
