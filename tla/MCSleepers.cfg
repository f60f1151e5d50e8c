SPECIFICATION FairBoth
CONSTANTS Waiters = {w1, w2}
          Notifiers = {n1}
          Pushers = {p1}
          MaxEpoch = 1
          NoOwner = NoOwner
          MaxWakes = 2
INVARIANTS IInv IdleTaskAnnounced WordExact NoLostSignal
PROPERTIES NotificationTaken ShutdownReleases RefinesToken SignalsDelivered RefinesCondVar
