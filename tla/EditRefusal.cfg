SPECIFICATION BookFilesSpec
CONSTANTS
    Books = {b1}
    NoBook = NoBook
    SoftLimit = 2
    MaxWrites = 2
    MaxIncidents = 2
    Writers = {w1}
    Readers = {r1}
    MaxEditions = 3
INVARIANT OnlyStaleNumberingRefused
CHECK_DEADLOCK FALSE
