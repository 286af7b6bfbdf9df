SPECIFICATION Spec
CONSTANTS
    Track = {a, b, dj}
    Clip = {dj}
    Silence = silence
    Nothing = Nothing
    SegmentTime = 4
    MarkCap = 4
    MaxClock = 16
    MaxStarts = 2
    Fade = 4
    Window = 1
    EndsCap = 3
    MaxSessions = 2
    MaxRetries = 1
INVARIANTS TypeOK HeardIsExact FadeHoldsTheLastSong
PROPERTY LostOnlyByDoubleStart
SYMMETRY Songs
CHECK_DEADLOCK FALSE
