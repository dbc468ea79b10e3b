\* A ring of three sectors whose calls fail or are cut off; two alarms and a
\* callout against refusals, stops, drops and a reconnect.
SPECIFICATION MCSpec
CONSTANTS
    Slots = 3
    SeqWrap = 16
    SeqPieces = {1, 4}
    Payloads = {"a", "b", "empty"}
    Empty = "empty"
    MaxSaves = 5
    MaxErrors = 1
    MaxLosses = 2
    MaxUnseen = 1
    Announcements = {a1, a2}
    Nudges = {n1}
    INJECT_RETRIES = 1
    MaxSessions = 2
    MaxWire = 2
INVARIANTS
    SaidOnce
    PokeIsNotLost
PROPERTIES
    Implements
SYMMETRY Alike
CHECK_DEADLOCK FALSE
