SPECIFICATION DeliveryLiveSpec
CONSTANTS
    Platform = "x11"
    HookMayFail = FALSE
    HookMayDie = FALSE
    SpuriousWakeups = FALSE
    NapiCheckBlind = FALSE
    QueueSize = 1
    MaxInputs = 2
    ClientMayExit = TRUE
PROPERTIES OwnersUnlock CallsReturn CopiesAreFreed ImplementsLiveSession
