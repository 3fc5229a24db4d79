CONSTANTS
    Clips <- MCClips
    NoClip = NoClip
    MaxRecognitions = 1
SPECIFICATION Spec
INVARIANT
    OneVoice
CHECK_DEADLOCK FALSE
