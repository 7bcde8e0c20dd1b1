CONSTANTS
    a = a
    b = b
    c = c
    d = d
    e = e
    Newest <- FiveByAge
    Graphs <- FiveGraphs
    Requests <- CutWalks
    FetchLimit = 2
    PageSize = 1
    MaxScan = 3
    Listed <- FiveListed
    Fresh = {new1, new2, new3}
    Liked = {p5, p2, p1, new1}
    Offset = 1
    Limit = 3
    BatchSize = 2
    MaxUpstream = 7
    Library = {a, b, c, d, e}
    Searchers = {one, two}
    Source <- FromA
    Target <- ToE
    Kinds <- Directions
    MaxDepth = 2
    ListLimit = 2
    Literatures <- BridgeGraphs
    new1 = new1
    new2 = new2
    new3 = new3
    p1 = p1
    p2 = p2
    p3 = p3
    p4 = p4
    p5 = p5
    one = one
    two = two
    cc1 = cc1
    iso1 = iso1
    NoIso = NoIso
    pp1 = pp1
    pp2 = pp2
    Frameworks <- PublishedTwice
    Profiles = {pp1, pp2}
    MayArchive = {pp1}
    MaySpoil = {pp2}
    MaxVersion = 2
    server = server
    cli = cli
    Procs = {server, cli}
    NoProc = NoProc
SPECIFICATION ToolsSpec
CHECK_DEADLOCK FALSE
INVARIANTS
    WalkIsSound
    UnmarkedIsComplete
    ShortPageIsTheEnd
    
    CriteriaSyncIsTrue
    RepairsAreSafe
PROPERTY BridgesEnd
