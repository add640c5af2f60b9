SPECIFICATION ReaderMachinesSpec
CONSTANTS
    LastChapter = 1
    MaxCached = 1
    MaxQueued = 2
    MaxNavs = 2
    MaxUpsets = 1
    MaxMarks = 1
    MaxMounts = 2
    MaxReplaces = 1
    MaxOther = 1
    MaxClock = 2
    MaxAir = 2
    Spots = {1, 2}
    MaxIds = 3
    MaxPresses = 3
    MaxMarkChanges = 1
    MaxReads = 1
    Lines = 5
    Widths = {1, 2}
    PerPages = {1, 2}
    MaxTurns = 2
    MaxLayouts = 2
    TouchThreshold = 1
    WheelThreshold = 2
    Reach = 1
    Shapes <- SomeShapes
    Texts <- SomeTexts
    Queries <- SomeQueries
    Words = {"sea", "seas"}
    Pages = 2
    MaxInputs = 3
    MaxFlights = 4
INVARIANTS NothingStrays LatestLoadWins RowOfThisFile BookmarksAgree OnePage PullsEnd MarksKeepText SearchIsHonest
PROPERTIES NoRewind
CHECK_DEADLOCK FALSE
