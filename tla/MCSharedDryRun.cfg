SPECIFICATION Spec
CONSTANTS
    Impl = "go"
    CompanionImpl = "rust"
    CompanionDryRun = TRUE
    SR201Enabled = TRUE
    GlamoxEnabled = FALSE
    MillEnabled = FALSE
    Watchdog = FALSE
    CanFail = {"db"}
    MaxTools = 1
PROPERTIES RelayMovedByMain RelayConverges
