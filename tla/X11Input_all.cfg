SPECIFICATION InputSpec
CONSTANTS
    Keys = {"SHIFT_L", "CAPS_LOCK"}
    Buttons = {1, 3, 4}
    ButtonsAtStart = {1, 3}
    MappingChanges = TRUE
    QueriesMayFail = TRUE
    MultiClickTime = 1
    ClickLimit = 2
    MaxTime = 2
    MaxPending = 2
INVARIANTS
    InputTypeOK LocksFollowLeds ClicksCountTheRun
PROPERTIES
    MaskShowsInput ClickedWithoutDrag
CONSTRAINT
    KeysOrClicks
