SPECIFICATION DarwinSpec
CONSTANTS
    Keys = {}
    Buttons = {1, 3}
    TapMayTimeOut = FALSE
    MultiClickTime = 1
    ClickLimit = 2
    MaxTime = 0
PROPERTIES
    ReleasesAreReported
