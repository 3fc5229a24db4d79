CONSTANTS
    Calls <- MCCalls
    Clips <- MCClips
    Lines = 2
    Other = 9
    NoClip = NoClip
SPECIFICATION Spec
INVARIANTS
    PageAgrees
    VoicesTakeTurns
PROPERTIES
    AcceptedAfterTheCall
    EveryCallEnds
CHECK_DEADLOCK FALSE
