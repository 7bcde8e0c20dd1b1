CONSTANTS
    first = first
    second = second
    u1 = u1
    u2 = u2
    u3 = u3
    paper = paper
    placed = placed
    patent = patent
    Callers = {first, second}
    Urls = {u1, u2, u3}
    Paths = {paper, placed, patent}
    Nothing = Nothing
    MaxPolls = 2
    Wishes <- TwiceThePaper
    Stem <- MCStem
SPECIFICATION Spec
CHECK_DEADLOCK FALSE
PROPERTY SourceIsTrue
