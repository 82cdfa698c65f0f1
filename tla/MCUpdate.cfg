SPECIFICATION Spec
CONSTANTS
    AssetList <- TwoAssets
    Unchanged <- OneUnchanged
    Services <- OneService
    OtherArch = "bedehus-linux-amd64"
    CanFail = {"api", "early", "open", "checksum", "download", "corrupt", "kill", "cut", "beside"}
    MaxTag = 2
INVARIANTS TypeOK NothingCorrupt BackupDiffers VersionIsInstalled
PROPERTIES ReplacedIsKept RolledBackStaysOut
