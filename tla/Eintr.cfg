CONSTANT Tests <- Eintr
 NTHREADS = 3
 NITERS = 2
 NW = 3
 PSEM_THREADS = 3
 PSEM_ITEMS = 2
 BARRIER_THREADS = 3
 BARRIER_ROUNDS = 2
 ITERS = 2
SPECIFICATION Spec
INVARIANT Detects
