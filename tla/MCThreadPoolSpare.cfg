SPECIFICATION Spec
CONSTANTS Workers = {w1, w2, w3, w4}
          Schedulers = {s1}
          Tasks = {a, b, c, d}
          Capacity = 1
          SpareModes = {FALSE}
          Limits = {}
          WarmTo = 3
          MayRefuse = FALSE
          MayDrop = FALSE
          Owner = Owner
          None = None
SYMMETRY Alike
CONSTRAINT OneAtATime
INVARIANTS WaitingTaskGetsThread
CHECK_DEADLOCK FALSE
