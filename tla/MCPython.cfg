SPECIFICATION RepairedSpec
CONSTANTS
    Impl = "python"
    SR201Enabled = TRUE
    GlamoxEnabled = TRUE
    MillEnabled = TRUE
    DryRun = FALSE
    Watchdog = TRUE
    CanFail = {"sr201", "mill", "host"}
INVARIANTS TypeOK MillFollowsZoneState GlamoxFollowsSwitch
PROPERTIES RelayMovedForCause RelayConverges ZoneStateConverges
