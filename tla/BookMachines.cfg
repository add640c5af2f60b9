SPECIFICATION BookMachinesSpec
CONSTANTS
    Books = {b1}
    NoBook = NoBook
    SoftLimit = 2
    MaxWrites = 1
    MaxIncidents = 2
    Writers = {w1}
    Readers = {r1}
    MaxEditions = 3
    Keys = {"ana@home", "ben@home", "ana@away"}
    Clients = {"home", "away"}
    ClientOf <- TwoClients
    Logins = {l1, l2}
    MaxFailures = 2
    MaxEntries = 2
    MaxPerClient = 1
    Window = 3
    Lockout = 2
    MaxTime = 4
    SpineCallers = {c1, c2}
    MaxSpineEditions = 3
    MaxGen = 3
    Paths = {p1, p2}
    Requests = {t1, t2, t3}
    Handles = {h1, h2}
    NoHandle = NoHandle
    Capacity = 1
    MaxFileEditions = 2
    Hrefs = {a, b, c}
    NoCFI = NoCFI
    Full = 2
    MaxChapters = 3
    EPUBPaths = {x1, x2}
    Contents = {k1, k2}
    NoFile = NoFile
    Uploads = {u1, u2}
    ScanWorkers = {s1, s2}
    MaxScans = 2
    MaxActs = 3
INVARIANTS FilesAgree ReadersSeeOneFile PositionsFollowFile GuessesLimited SpineFollowsBook StoreServesInstalled ShelfShowsRows FolderIsTheLibrary
PROPERTIES FollowsDocument
CHECK_DEADLOCK FALSE
