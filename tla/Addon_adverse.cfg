SPECIFICATION DeliverySpec
CONSTANTS
    Platform = "windows"
    HookMayFail = TRUE
    HookMayDie = TRUE
    SpuriousWakeups = TRUE
    NapiCheckBlind = TRUE
    QueueSize = 2
    MaxInputs = 4
    ClientMayExit = TRUE
INVARIANTS StoppedLeavesNothing ThreadsafeFnUnshared StopAfterSetup
           DeliveryTypeOK EveryCopyOwnedOnce NothingLostWhileRunning
PROPERTIES DestroyedByTheLast OnlyTheCurrentSession ImplementsChannel
CHECK_DEADLOCK FALSE
