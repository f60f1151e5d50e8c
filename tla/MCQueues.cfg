SPECIFICATION FairAll
CONSTANTS Producers = {p1, p2}
          Consumers = {c1, c2}
          Nodes = {n1, n2, n3}
          Null = Null
          MaxRun = 2
          MaxList = 2
          Signals = {1, 2}
          Capacity = 2
          IndexMod = 4
          Tasks = {t1, t2, t3}
          Owner = Owner
          NoOwner = NoOwner
INVARIANTS NoUseAfterFree NoWriteAfterReturn EmptyOnlyBehindAPush ChainsExact
PROPERTIES RefinesFifo Delivered
CHECK_DEADLOCK FALSE
