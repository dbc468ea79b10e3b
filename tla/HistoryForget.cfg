\* Forgetting against saves that fail and the power going.
SPECIFICATION Spec
CONSTANTS
    HISTORY_MAX_TURNS = 2
    HISTORY_BYTES = 3
    LongTurns = {2}
    HISTORY_REPLAY_MAX_TURNS = 1
    HISTORY_REPLAY_BYTES = 1
    HISTORY_SAVE_ATTEMPTS = 1
    Debounce = 1
    MaxDefer = 1
    MaxTurns = 3
    MaxSessions = 2
    MaxBadSaves = 1
    MaxLosses = 1
    Nothing = Nothing
INVARIANTS
    ForgottenStaysForgotten
