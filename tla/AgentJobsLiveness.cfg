SPECIFICATION FairSpec
CONSTANTS
    Tick = {t1}
    Op = {k1}
    Scheduled = {k1}
    OneRow = {}
    None = None
    Stray = Stray
    Tries = 1
    Stretch = 2
    MaxVer = 4
PROPERTIES JobsEnd
CHECK_DEADLOCK FALSE
