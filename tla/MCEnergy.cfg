SPECIFICATION Spec
CONSTANTS
    Gaps = {0, 1, 4}
    Windows <- ThreeWindows
    MaxPoints = 2
    MaxPolls = 4
    MaxReports = 3
    MaxTime = 5
INVARIANTS BarsMatchMeter 
