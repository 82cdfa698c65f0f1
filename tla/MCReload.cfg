SPECIFICATION Spec
CONSTANTS
    Impls = {"python", "rust"}
    Kinds = {"good", "bad", "odd"}
    LoadsFail = TRUE
    MaxVersion = 4
INVARIANTS TypeOK UnloadedEditShows MixedRuntimeShows StopsInOneCycle
PROPERTIES SighupServed VisibleEditLoaded Stops
