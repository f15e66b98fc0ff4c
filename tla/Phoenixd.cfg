\* Three uses of one handler: applications and two directories of files.
SPECIFICATION Spec
CONSTANT
    MaxRuns = 3
INVARIANTS
    DispatcherIsCurrent
    ReaderReads
    NoOrphan
    NotStartedIsCaught
PROPERTIES
    CloseEnds
    ReadersEnd
