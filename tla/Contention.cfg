SPECIFICATION nb_Spec
CONSTANTS
    UPW_NB_INFLIGHT = 2
    MaxBytes = 4
    MaxPipeFaults = 1
INVARIANT FaultlessPipePasses
