SPECIFICATION PoolSpec
CONSTANTS
    Keys = {"menu", "email"}
    Voices = {"voice"}
    VoiceOf <- MCVoiceOf
    Activators = {"calls", "pin"}
    MaxActivations = 3
CHECK_DEADLOCK FALSE
INVARIANTS
    PoolTypeOK
    LeasesHonoured
    IdleHandled
