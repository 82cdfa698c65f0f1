SPECIFICATION RepairedSpec
CONSTANTS
    Impl = "python"
    SR201Enabled = TRUE
    GlamoxEnabled = FALSE
    MillEnabled = TRUE
    DryRun = FALSE
    Watchdog = TRUE
    CanFail = {"mill"}
PROPERTY MillConverges
