SPECIFICATION Spec
CONSTANTS
    Names = {a, b}
    NoName = NoName
    Tokens = {k1, k2}
    NoToken = NoToken
    Threads = {t1, t2}
    MaxBorn = 2
SYMMETRY AuthSymmetry
INVARIANTS ServedFromOwnLibrary EndedStaysEnded RecordsMatchDirs
