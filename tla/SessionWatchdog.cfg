\* The main loop against a worker whose stop may hang, and what was asked of
\* the worker meanwhile.
SPECIFICATION FairSpec
CONSTANTS
    Gestures = {"STOP"}
    Deferred = {"START_SOON"}
    Chores = {}
    ClientEvents = {"reload"}
    Duties = {"radio", "watchdog"}
    MaxPosters = 1
    LongCooldown = TRUE
PROPERTIES
    NoFalseReboot
    BusyEnds
    StartIsNotLost
