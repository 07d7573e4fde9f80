CONSTANTS
    None = None
    Uris = {"p", "y", "q", "s", "c"}
    Contents = {"empty", "anchor", "frag", "frag2", "other"}
    Empty = "empty"
    DirOf <- MCDirOf
    Shape <- MCShape
    PathOrder <- MCOrder
    WalkOrder <- MCOrder
    Folders <- ProdFolder
    SidecarUris = {"c"}
    SIBLING_SCAN_LIMIT = 1
    Lang <- MCLang
    SettingsSet <- SettingsYaml
    DefaultSettings <- Base
    SidecarsOf <- ProdSidecar
    TextsOf <- OutsideTexts
    FirstFiles <- Outside
    FirstSidecars <- NoSidecars
    MaxEdits = 4
    MaxRuns = 1
SPECIFICATION QuietSpec
INVARIANTS CachedModelsHoldBuffers CachedModelsExplained SettledSetsAreCurrent
PROPERTIES EventuallyDiagnosed
CHECK_DEADLOCK FALSE
