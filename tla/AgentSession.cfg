\* Messages, stops, drops and backstops against each other.
SPECIFICATION Spec
CONSTANTS
    Languages = {"en", "ja"}
    NovaOnly = {"ja"}
    Senders = {"uplink"}
    INPLACE_CHANGES_MAX = 1
    MaxOwed = 2
INVARIANTS
    StopFindsSendersIdle
    NoOldReload
    VoiceWillSettle
