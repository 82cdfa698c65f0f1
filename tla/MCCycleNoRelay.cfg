SPECIFICATION Spec
CONSTANTS
    Impl = "python"
    SR201Enabled = FALSE
    GlamoxEnabled = TRUE
    MillEnabled = TRUE
    DryRun = FALSE
    Watchdog = FALSE
    CanFail = {"db", "glamox", "host"}
PROPERTIES MillAtMostOnce GlamoxAtMostOnce
