CONSTANTS
    None = None
    Uris = {"f", "p"}
    Contents = {"empty", "anchor", "frag", "ottl"}
    Empty = "empty"
    DirOf <- MCDirOf
    Shape <- MCShape
    PathOrder <- MCOrder
    WalkOrder <- MCOrder
    Folders <- ProdFolder
    SidecarUris = {}
    SIBLING_SCAN_LIMIT = 50
    Lang <- MCLang
    SettingsSet <- SettingsForward
    DefaultSettings <- Base
    SidecarsOf <- NoSidecarEdits
    TextsOf <- ForwardTexts
    FirstFiles <- OneSet
    FirstSidecars <- NoSidecars
    MaxEdits = 6
    MaxRuns = 3
SPECIFICATION QuietSpec
INVARIANTS SettledDiagnosticsAreCurrent
CHECK_DEADLOCK FALSE
