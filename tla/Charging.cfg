\* The values the comments behind BATTERY_STAT give for a charging battery.
SPECIFICATION Spec
CONSTANTS
    Levels = {15, 136, 129}
    MaxMishaps = 0
    MaxChanges = 2
    MaxLine = 2
PROPERTIES ChargingBlinks
