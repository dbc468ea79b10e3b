\* A network with an outage and a loss of power; the debounced save with fewer
\* failures than make the code give up; BOOT on a clock of 12; one open of the
\* codec that fails.
SPECIFICATION MCSpec
CONSTANTS
    None = None
    Networks = {n1, n2}
    Seed = None
    MAX_RETRY = 1
    MaxVisits = 2
    MaxOutages = 1
    MaxPowerLosses = 1
    MaxHolds = 1
    HISTORY_MAX_TURNS = 2
    HISTORY_BYTES = 3
    LongTurns = {2}
    HISTORY_REPLAY_MAX_TURNS = 1
    HISTORY_REPLAY_BYTES = 1
    HISTORY_SAVE_ATTEMPTS = 2
    Debounce = 1
    MaxDefer = 2
    MaxTurns = 2
    MaxSessions = 1
    MaxBadSaves = 1
    MaxLosses = 0
    Nothing = Nothing
    BtnWrap = 12
    SWALLOW = 4
    WINDOW = 2
    HOLD = 5
    MaxChunks = 1
    MaxBadOpens = 1
INVARIANTS
    SavedIsWhole
    TakenPressIsSpent
PROPERTIES
    SpeakerClosesAlone
    BootRecovers
    EventuallySaved
CHECK_DEADLOCK FALSE
