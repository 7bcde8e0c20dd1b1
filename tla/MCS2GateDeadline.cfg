CONSTANTS
    direct = direct
    other = other
    body1 = body1
    body2 = body2
    tool = tool
    NoContext = NoContext
    Callers = {direct, other, body1}
    TryOnce = {}
    Contexts = {tool}
    ContextOf <- PairContextOf
    Delay = 1
    BaseDelay = 1
    MaxBackoff = 1
    MaxRetries = 1
    Window = 5
    CallLimit = 1
    RecordTTL = 7
SPECIFICATION Spec
INVARIANTS
    ThrottledWorkBeatsRecord
