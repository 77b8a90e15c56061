SPECIFICATION TapSpec
CONSTANTS
    Platforms = {"x11", "darwin", "windows"}
    Keys = {"SHIFT_L", "SHIFT_R", "UNKNOWN"}
    Buttons = {0, 1, 3}
    PostsMayFail = TRUE
    MaxModifiers = 2
    NapiCheckBlind = TRUE
INVARIANTS
    PostTypeOK TapsAreReleased
PROPERTIES
    FlagsShowPosted DragsHaveAButton
