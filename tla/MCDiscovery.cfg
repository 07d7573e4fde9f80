CONSTANTS
    None = None
    Uris = {"a1", "a2", "b1", "b2", "c1"}
    Contents = {"empty", "anchor", "full", "frag", "listing"}
    Empty = "empty"
    DirOf <- MCDirOf
    Shape <- MCShape
    PathOrder <- MCOrder
    WalkOrder <- MCOrder
    FirstFiles <- MCFiles
    FirstSidecars <- NoSidecars
    RootsSet <- MCRoots
    OptionsSet <- MCOptions
    TextsOf <- FewTexts
    SidecarsOf <- MCSidecars
    MaxWrites = 1
SPECIFICATION Spec
INVARIANTS TypeOK MapsAgree IndependentSets NearestAnchorAnswers FragmentsAnswered
