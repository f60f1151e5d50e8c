SPECIFICATION FairAll
CONSTANTS Threads = {t1, t2, t3}
          Others = {o1, o2}
          NoOwner = NoOwner
          X86 = {t1, t2}
          MaxPermits = 3
          Capacity = 2
INVARIANTS MutualExclusion NoLostWakeup NobodyStranded RwLockIInv
PROPERTIES RefinesLock WaitersServed
CHECK_DEADLOCK FALSE
