SPECIFICATION FairSpec
CONSTANTS PoolSize = 3
          JobSize = 3
INVARIANTS TypeOK MutualExclusion JobInOnePlace NoIdleWorker
PROPERTIES EveryJobRuns ImplementsJobPool
