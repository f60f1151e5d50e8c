SPECIFICATION FairAll
CONSTANTS Holders = {h1, h2}
          Weak = {v1}
          Sources = {f, g}
          K = 2
          N = 3
          Heavy = {1, 2}
          Heaviest = {1}
          Slow = {1}
          Bail = 2
          None = None
          IdleDeaths = FALSE
          Plain = {p}
          Alone = {n}
          Units = {u}
          Options = {{"offline", "pipelining", "reconnect", "database", "idle"}, {"offline", "reconnect", "tls"}, {"pipelining"}}
          MaxRetries = 1
          MaxDrops = 2
          UnitBreaks = FALSE
INVARIANTS TeardownIInv NoSleepThroughReturn HandOffSafe OrphanHasTask FilesExact CommandsExact
PROPERTIES TeardownEnds EventsRun PanicStops RunEnds CommandsSettle
CHECK_DEADLOCK FALSE
