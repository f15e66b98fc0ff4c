SPECIFICATION BridgeSpec
CONSTANTS
    a = a
    b = b
    UNKNOWN = UNKNOWN
    MaxCases = 2
    Fixtures = {a, b}
    Sessions <- SomeSessions
PROPERTY FailingNotRerun
