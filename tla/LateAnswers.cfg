SPECIFICATION SessionSpec
CONSTANTS
    MaxLogins = 2
    MaxCalls = 2
    Name <- TwoNames
PROPERTY LateAnswersSignNobodyOut
CHECK_DEADLOCK FALSE
