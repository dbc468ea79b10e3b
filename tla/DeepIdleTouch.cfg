\* One finger, on the way into deep idle.
SPECIFICATION DeepSpec
CONSTANTS
    MaxTouches = 1
    MaxBatteries = 0
PROPERTIES
    TouchWakes
