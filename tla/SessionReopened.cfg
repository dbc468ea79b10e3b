\* A reload posted while a stop is under way.
SPECIFICATION Spec
CONSTANTS
    Gestures = {"TOGGLE"}
    Deferred = {}
    Chores = {}
    ClientEvents = {"reload"}
    Duties = {}
    MaxPosters = 1
    LongCooldown = FALSE
INVARIANTS
    ReloadNeverReopens
