SPECIFICATION FairSpec
CONSTANTS
    Names = {n1, n2}
    Threads = {t1, t2}
    Main = Main
    Deps = {d1, d2}
    NoDep = NoDep
INVARIANTS NoLostWakeup
PROPERTIES DirChangesUnopened ImplementsAccess ShutdownEnds
