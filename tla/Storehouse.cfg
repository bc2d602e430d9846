INIT Init
NEXT Next
CONSTANTS
    UploadIds = {1, 2, 3}
    Slots = {1, 2}
    Sizes = {1, 2}
    Quota = 3
    Owned <- MCOwned
    MaxCalls = 3
    MaxExpiries = 1
    MaxCrashes = 1
    MaxDepth = 8
    Absent = Absent
    TreeOf <- ResolveTree
    DirAt <- FindDir
    DirsTo <- DirsAlong
    TrailsOf <- Trails
    Lists <- Listed
    ListsBelow <- ListedBelow
    Config <- MCConfig
    Library <- MCLibrary
    Empty = "empty"
    Scratch <- MCScratch
    Junk <- MCJunk
    Menus <- MCMenus
    Lanes = {1, 2}
    MaxRequests = 3
    MaxDeaths = 1
    Holders = {1, 2}
    Neighbours = {1}
    Shots = {0, 1}
    Albums <- MCAlbums
    Desks = {1, 2}
    MaxAsks = 4
    MaxLost = 1
    Names = {"ann"}
    Servers = {1, 2}
    Policies <- MCPolicies
    Invitations <- MCInvitations
    Clerks = {1, 2}
    MaxErrands = 4
    MaxCuts = 1
    Exchanges <- MCExchanges
    Registrars = {1, 2}
    MaxEditions = 3
    MaxChanges = 3
    Peers = {1}
    Backends = {1, 2}
    Domain = 9
    Callers = {1, 2}
    MaxShakes = 2
    MaxSends = 2
    MaxMishaps = 1
INVARIANTS
    StorehouseTypeOK
    FileBehindEveryRow
    QuotaHolds
    ContentKept
    PlaceKept
    AnswersAgree
    AlbumEndsClean
    DirectoryHolds
    LayersResolve
    PeersReached
CHECK_DEADLOCK FALSE
