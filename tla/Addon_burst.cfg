SPECIFICATION DeliveryLiveSpec
CONSTANTS
    Platform = "x11"
    HookMayFail = FALSE
    HookMayDie = FALSE
    SpuriousWakeups = FALSE
    NapiCheckBlind = FALSE
    QueueSize = 2
    MaxInputs = 3
    ClientMayExit = FALSE
INVARIANTS SurvivesBursts
