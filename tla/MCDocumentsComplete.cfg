CONSTANTS
    first = first
    second = second
    u1 = u1
    u2 = u2
    u3 = u3
    paper = paper
    placed = placed
    patent = patent
    Callers = {first, second}
    Urls = {u1, u2, u3}
    Paths = {paper, placed, patent}
    Nothing = Nothing
    MaxPolls = 2
    Cap = 3
    Totals = {0, 1, 2, 3, 4, 5, 6, 7}
    Offsets <- MCOffsets
    Sizes <- MCSizes
    All = All
    Clients = {first, second}
    Identifiers <- Standard
    Phrases <- Unresolved
    Fetcher <- FetcherOf
    LocalId <- LocalForm
    Hits <- Matching
    Synced <- SyncedOnly
    ListPages <- TwoPages
    Queries <- StandardQueries
    NoRecord = NoRecord
    Stub = Stub
    Readers = {first, second}
    MaxVersion = 2
    rfc = rfc
    sp = sp
    css = css
    svg = svg
    en = en
    part = part
    gone = gone
    cc = cc
    iso = iso
    broad = broad
    access = access
    fuzzy = fuzzy
    Wishes <- MCWishes
    Stem <- MCStem
    Bibliographies <- AllBibliographies
    MaxPapers = 4
    Symbols <- Texts
    Letters <- TwoLetters
    Numeral <- Decimal
SPECIFICATION WorldSpec
CHECK_DEADLOCK FALSE
INVARIANT CachedIsComplete
