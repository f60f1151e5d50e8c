SPECIFICATION FairSpec
CONSTANTS Workers = {w1, w2}
          Schedulers = {s1}
          Tasks = {a, b}
          Capacity = 1
          SpareModes = {TRUE, FALSE}
          Limits = {}
          WarmTo = 0
          MayRefuse = FALSE
          MayDrop = TRUE
          Owner = Owner
          None = None
INVARIANTS SpareThreadKept
PROPERTIES TasksRun DropReturns
CHECK_DEADLOCK FALSE
