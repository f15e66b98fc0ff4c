CONSTANTS
    Targets <- AllTargets
    Options <- RebootOptions
    NTests = 3
    SubSets <- NoSubs
SPECIFICATION Spec
INVARIANTS
    CleanStart
    SpoiltMeansFailed
    KlogRestored
    PromptWithoutReboot
    LoaderIsThere
