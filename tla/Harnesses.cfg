SPECIFICATION HarnessesSpec
CONSTANTS
    N = 3
    a = a
    b = b
    UNKNOWN = UNKNOWN
    MaxCases = 3
    Fixtures = {a, b}
    Sessions <- SomeSessions
INVARIANTS
    CompleteReport
    MessageIsOwn
    XmlShowsVerdict
    OwnResult
    VerdictIsSound
PROPERTIES
    HarnessEnds
    BrokenNotRerun
