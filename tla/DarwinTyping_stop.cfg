SPECIFICATION TypingSpec
CONSTANTS
    Platform = "darwin"
    HookMayFail = FALSE
    HookMayDie = FALSE
    SpuriousWakeups = FALSE
    NapiCheckBlind = FALSE
PROPERTIES StopReturnsWhileTyping
CHECK_DEADLOCK FALSE
