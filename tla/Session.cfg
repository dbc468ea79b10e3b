\* Taps, a deferred reload and a save against a client that keeps talking, and
\* a notice that lapses.
SPECIFICATION Spec
CONSTANTS
    Gestures = {"TOGGLE"}
    Deferred = {"RELOAD_SOON"}
    Chores = {"settings"}
    ClientEvents = {"audio", "state"}
    Duties = {"notice"}
    MaxPosters = 1
    LongCooldown = FALSE
INVARIANTS
    TransitionIsVisible
    NothingForgotten
    NeverOpensUnasked
    RestIsWhole
PROPERTIES
    GestureIsKept
    CarryHasOneOwner
