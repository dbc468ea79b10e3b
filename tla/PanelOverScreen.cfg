\* The touch panel pulled down over the stopwatch, and a press on it.
SPECIFICATION ScreensSpec
CONSTANTS
    TEST_STEPS = 1
    Calls = {"stopwatch"}
    MaxEvents = 3
INVARIANTS
    PanelPressIsItsOwn
