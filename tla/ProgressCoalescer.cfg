SPECIFICATION FairSpec
CONSTANTS
    Books = {b1, b2}
    NoBook = NoBook
    SoftLimit = 2
    MaxWrites = 2
    MaxIncidents = 3
INVARIANTS StopDrains
PROPERTIES ImplementsRegister EventuallySettled
CHECK_DEADLOCK FALSE
