\* Two tests with sub-results, and the options that matter.
CONSTANTS
    Targets <- AllTargets
    Options <- ReportOptions
    NTests = 2
    SubSets <- SomeSubs
SPECIFICATION Spec
PROPERTIES
    ReportsFaithfully
    Terminates
    EveryTestEnds
