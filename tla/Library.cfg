SPECIFICATION Spec
CONSTANTS
    p1 = p1
    p2 = p2
    s1 = s1
    s2 = s2
    s3 = s3
    k1 = k1
    Pics = {p1, p2}
    Ids = {s1, s2, s3}
    Paths <- MCPaths
    ShareTag <- MCShareTag
    Initial <- MCInitial
    Creatable <- MCCreatable
    Patches <- MCPatches
    Configs <- MCConfigs
    Edits <- MCEdits
    Renames <- MCRenames
    ChunkSize = 1
    MaxEvents = 2
    Rows = {1, 2, 3}
    Traits <- MCTraits
    Keys = {k1}
    UserTags <- MCUserTags
    Held <- MCHeld
    MaxGroupChanges = 3
    MaxRestarts = 1
INVARIANTS
    LibraryTypeOK
    EvaluatedTruth
PROPERTIES
    PruneKeepsManual
    EveryPictureSettles
    RunSettles
    EveryGroupSettles
CHECK_DEADLOCK FALSE
