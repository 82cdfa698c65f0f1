SPECIFICATION CalendarSpec
CONSTANTS
    Impl = "go"
    SR201Enabled = TRUE
    GlamoxEnabled = TRUE
    MillEnabled = TRUE
    DryRun = FALSE
    Watchdog = TRUE
    CanFail = {"calendar", "sr201", "glamox"}
PROPERTIES DecisionsFromCalendar MillConverges MillExactlyOnce CyclesEnd
