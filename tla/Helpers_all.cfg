SPECIFICATION PartSpec
CONSTANTS
    Platforms = {"x11", "darwin", "windows"}
    Latin1 = 1
    Direct = 6
    CharRange = 4
    MaxRows = 4
    MaxKeysym = 11
    k1 = k1
    k2 = k2
    k3 = k3
    Layouts = {k1, k2, k3}
    Broken = {k3}
    NoLayout = NoLayout
    WHEEL_DELTA = 3
    Deltas = {1, 2, 3, 4}
    MaxTurned = 7
INVARIANTS
    NothingLeft 
    AnswersStandForInput
    KeysUseTheFocus DeadKeyStaysHome WheelAddsUp
PROPERTIES
    SearchEnds
CHECK_DEADLOCK FALSE
