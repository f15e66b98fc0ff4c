SPECIFICATION ProgramSpec
CONSTANTS
    Iterations = 3
    Parallel = 2
    Watchdog = 2
    MaxWaitErrors = 1
    Count = 5
    Room = 3
    FdEvery = 2
    PipeEvery = 2
    MaxFaults = 1
    UPW_NB_INFLIGHT = 2
    MaxBytes = 4
    MaxPipeFaults = 1
INVARIANTS
    SlotIsFree
    TallyAddsUp
    SuccessIsTrue
    PassIsEarned
    FaultlessPasses
    FreedIsUnused
    CountersProve
    PipePassIsEarned
PROPERTIES
    StormEnds
    CaseEnds
