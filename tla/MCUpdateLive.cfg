SPECIFICATION Spec
CONSTANTS
    AssetList <- TwoAssets
    Unchanged <- OneUnchanged
    Services <- OneService
    OtherArch = "bedehus-linux-amd64"
    CanFail = {"api", "early", "open", "checksum", "corrupt", "restart", "beside"}
    MaxTag = 2
PROPERTIES UpdateArrives ServicesRunInstalled
