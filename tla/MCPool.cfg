SPECIFICATION SpecBoth
CONSTANTS Workers = {w1, w2}
          Schedulers = {s1}
          Tasks = {a, b}
          Capacity = 1
          SpareModes = {TRUE, FALSE}
          Limits = {1, 2}
          WarmTo = 1
          MayRefuse = TRUE
          MayDrop = TRUE
          Owner = Owner
          None = None
          Owners = {r1, r2}
          Nodes = {n1, n2, n3}
          RingCapacity = 2
          IndexMod = 16
          Start = 14
          MaxLap = 3
          MaxList = 3
SYMMETRY Symmetry
INVARIANTS CountsExact OneWaking NoStrandedTask EveryNodeOnce
PROPERTIES NoneMeansEmpty
CHECK_DEADLOCK FALSE
