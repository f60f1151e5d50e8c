SPECIFICATION Spec
CONSTANTS K = 2
          N = 3
          Heavy = {1, 2, 3}
          Heaviest = {1}
          Slow = {1}
          Bail = 0
          None = None
          IdleDeaths = TRUE
INVARIANTS NeverSpins
CHECK_DEADLOCK FALSE
