SPECIFICATION DarwinSpec
CONSTANTS
    Keys = {"SHIFT_L"}
    Buttons = {1, 2}
    TapMayTimeOut = TRUE
    MultiClickTime = 0
    ClickLimit = 2
    MaxTime = 1
INVARIANTS
    DarwinTypeOK CapsLockFollows
    ClicksCountTheRun
PROPERTIES
    MaskShowsInput
    ClickedWithoutDrag
