\* Two presses or calls of any kind against frames, loop, worker and clocks;
\* and a call by the agent for the game, with two presses after it.
SPECIFICATION MCSpec
CONSTANTS
    TEST_STEPS = 1
    Calls = {"stopwatch", "echo", "test", "ring", "boot", "drop", "battery"}
    MaxEvents = 2
PROPERTIES
    TouchStaysOnItsScreen
    MicrophoneComesBack
CHECK_DEADLOCK FALSE
