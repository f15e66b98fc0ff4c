SPECIFICATION Spec
CONSTANTS
    NONE = NONE
    Targets = {This, Other}
    This = This
    Other = Other
    BIN = BIN
    Files <- AllFiles
INVARIANTS
    ExperimentalIsExplicit
    TakenAsMeant
    AsIfAlone
