SPECIFICATION LiveSpec
CONSTANTS
    Platform = "x11"
    HookMayFail = TRUE
    HookMayDie = FALSE
    SpuriousWakeups = FALSE
    NapiCheckBlind = FALSE
PROPERTIES StartReturns
CHECK_DEADLOCK FALSE
