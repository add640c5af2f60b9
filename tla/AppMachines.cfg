SPECIFICATION AppMachinesSpec
CONSTANTS
    MaxLogins = 2
    Name <- TwoNames
    MaxCalls = 2
    Users = {"ana", "ben"}
    SettingFields = {"theme", "size"}
    FieldValues = {0, 1, 2}
    Refused = {2}
    MaxUserActs = 4
    Owners = {"ana", "ben"}
    MaxThemes = 2
    MaxEdition = 2
    MaxWrites = 2
    MaxActivations = 2
    LoadAttempts = 2
    Readers = {"ana", "ben"}
    Volumes = {"v"}
    Flairs = {"plain", "x"}
    MaxBegun = 3
    Dialogs = {d1, d2, d3}
    Offsets = {0, 1}
    MaxPosted = 1
    Files = {"a", "b"}
    MaxBoots = 2
    MaxDisk = 1
    MaxScans = 1
    MaxErrors = 1
    Tabs = {t1, t2}
    AlarmNames = {"tea"}
    CardSizes = {1}
    Day = 2
    MaxHours = 3
    MaxChoices = 4
    Customs = {"c", "d"}
    MaxLook = 2
    MaxRepaints = 6
    People = {"ana", "ben"}
    MaxPresses = 4
INVARIANTS SavesOwnSettings SavedOrTold ShelfHeals FontsInOrder DialogsOwnThePage DeviceRemembers SignsInAsShown
PROPERTIES NoLiveLoginDropped BootResolves LiveThemeKept LeavesFromThePage ChromeFollows
CHECK_DEADLOCK FALSE
