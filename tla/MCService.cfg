CONSTANTS
    direct = direct
    other = other
    body1 = body1
    body2 = body2
    tool = tool
    NoContext = NoContext
    Callers = {direct, body1, body2}
    TryOnce = {direct}
    Contexts = {tool}
    ContextOf <- MixedContextOf
    Delay = 1
    BaseDelay = 1
    MaxBackoff = 2
    MaxRetries = 1
    Window = 2
    CallLimit = 1
    RecordTTL = 4
    SoftDeadline = 3
    DegradedAfter = 2
    MaxStarts = 2
    asker1 = asker1
    asker2 = asker2
    asker3 = asker3
    isbn1 = isbn1
    isbn2 = isbn2
    Readers = {asker1, asker2, asker3}
    Isbns = {isbn1, isbn2}
    FirstEdition = isbn1
    BookPlans <- BookCalls
    Batches <- ThreeOfAll
    rich = rich
    poor = poor
    Records = {rich, poor}
    Given <- RecordPairs
    Concurrency = 2
    Askers = {asker1, asker2}
    PaperPlans <- TwoPaperCalls
    Listed = 3
    Unlisted = 1
    Limits = {1, 2}
SPECIFICATION WorldSpec
INVARIANTS
    BoundedWorkBeatsRecord
    RefusalsAreEarned
    WorkIsOwned
    AnswerReachesCaller
    ConnectionsAreSound
    LogMatchesStatus
    BooksAreAnswered
    BatchIsAnswered
    EnrichmentIsContained
    AuthorPagesTile
PROPERTIES
    EveryWaitEnds
    StartsPaced
    KeepsPromise
    EveryCallIsAnswered
    ThrottleIsExplained
    RefusedKeyIsReported
    KnownAuthorsAreKept
    MergedStaysGone
