\* Alarms against reboots, a clock that comes late and a change of zone; presses
\* against the passes of a ring; Echo's rounds and callouts; choices,
\* levels and samples, each against the tasks that handle them.
SPECIFICATION MCSpec
CONSTANTS
    None = None
    Ids = {i1, i2}
    ALARM_MAX = 2
    MISS_WINDOW = 0
    Day = 2
    Lengths = {1}
    Zones = {0, 1}
    MaxNow = 3
    MaxReboots = 1
    MaxPresses = 0
    ECHO_MAX = 3
    ECHO_SPEAK_WAIT_MS = 2
    MaxNudges = 0
    MaxOthers = 0
    MaxSpeech = 2
    MaxDrops = 0
    NoChoice = NoChoice
    TimeZones = {z0, z1}
    DefaultZone = z0
    Formats = {f12, f24}
    MaxChoices = 3
    MaxPowerCuts = 1
    Top = 3
    Grid = 2
    MaxChanges = 3
    MaxBadWrites = 1
    RING = 5
    CHUNK = 2
    TurnBytes = 4
    MaxTurns = 2
    MaxTaps = 2
INVARIANTS
    ToneIsHeld
    EndedMeansSaid
    SavedOrMarked
    TurnIsEarned
    CalloutsAreNotConversation
    ChoiceLands
    LevelIsSaved
    Aligned
    FlushedIsSilent
PROPERTIES
    RungInTime
    FallsSilent
CHECK_DEADLOCK FALSE
