SPECIFICATION FairSpec
CONSTANTS
    Validated <- MCValidated
    Cameras <- MCCameras
    MaxAnimations = 2
INVARIANTS
    PlatformTypeOK
    NoTimerOutlivesPlatform
    ChimeEnabledWithoutAnimation
    SessionsClosedBeforeDevices
PROPERTIES
    StartCompletes
    AnimationReenablesChime
