SPECIFICATION SettingsSpec
CONSTANTS
    Users = {"ana", "ben"}
    SettingFields = {"theme", "size"}
    FieldValues = {0, 1, 2}
    Refused = {2}
    MaxUserActs = 3
INVARIANT RetrySavesParkedEdit
CHECK_DEADLOCK FALSE
