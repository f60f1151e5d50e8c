SPECIFICATION Spec
CONSTANTS Plain = {p}
          Alone = {n}
          Units = {u}
          Options = {{"offline", "pipelining", "reconnect", "tls"}}
          MaxRetries = 1
          MaxDrops = 2
          UnitBreaks = TRUE
INVARIANTS OnePlanPerUnit
CHECK_DEADLOCK FALSE
