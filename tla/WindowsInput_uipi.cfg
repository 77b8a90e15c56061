SPECIFICATION WindowsSpec
CONSTANTS
    Keys = {"CTRL_L", "ALT_R", "DELETE", "NUM_LOCK"}
    WinEventsMayFail = TRUE
    MaxWinEvents = 3
INVARIANTS
    WindowsTypeOK
    ResyncIsDue
PROPERTIES
    MaskShowsInput
