\* Taps against replies, disconnects, stops and the backstop over a wrap; and
\* offers, confirmations and everything that takes an offer down.  Beside them
\* the panel's way into deep idle and out of it, with one finger and one change
\* of the battery.
SPECIFICATION MCSpec
CONSTANTS
    Wrap = 12
    Step = 2
    MUTE_MAX = 2
    INTERRUPT_GRACE = 2
    FORGET_CONFIRM = 2
    STATUS_NOTICE = 2
    COOLDOWN = 2
    Presses = {"tap"}
    AgentDoes = {"audio", "speaking", "gone"}
    MaxTouches = 1
    MaxBatteries = 1
INVARIANTS
    ForgottenIsRetired
    AwakeIsWhole
PROPERTIES
    InterruptNeverHangsUp
    ForgetIsConfirmed
    MuteEnds
    UseLightsPanel
