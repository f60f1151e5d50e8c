SPECIFICATION Spec
CONSTANTS Users = {u1, u2, u3}
          NoOwner = NoOwner
          Generations = 2
          CountMod = 8
PROPERTIES InitialisedWhileUnused
