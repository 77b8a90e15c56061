SPECIFICATION TypingSpec
CONSTANTS
    Platform = "darwin"
    HookMayFail = TRUE
    HookMayDie = FALSE
    SpuriousWakeups = TRUE
    NapiCheckBlind = TRUE
INVARIANTS OneMoreDeadlock
PROPERTIES ImplementsSession StopWaitsForLookupsOnly
CHECK_DEADLOCK FALSE
