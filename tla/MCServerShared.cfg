CONSTANTS
    None = None
    Uris = {"f", "p", "e"}
    Contents = {"empty", "anchor", "frag", "frag2"}
    Empty = "empty"
    DirOf <- MCDirOf
    Shape <- MCShape
    PathOrder <- MCOrder
    WalkOrder <- MCOrder
    Folders <- ProdFolder
    SidecarUris = {}
    SIBLING_SCAN_LIMIT = 50
    Lang <- MCLang
    SettingsSet <- SettingsPlain
    DefaultSettings <- Base
    SidecarsOf <- NoSidecarEdits
    TextsOf <- TwoAnchorTexts
    FirstFiles <- TwoAnchors
    FirstSidecars <- NoSidecars
    MaxEdits = 4
    MaxRuns = 1
SPECIFICATION Spec
INVARIANTS EverySetMemberPublished
CHECK_DEADLOCK FALSE
