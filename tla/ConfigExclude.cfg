\* One file with one test.
SPECIFICATION Spec
CONSTANTS
    NONE = NONE
    Targets = {This, Other}
    This = This
    Other = Other
    BIN = BIN
    Files <- OneFile
INVARIANT
    ExcludedIsLeftOut
