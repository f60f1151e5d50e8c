SPECIFICATION Spec
CONSTANTS Sources = {f, g}
          None = None
INVARIANTS SubmittedFilesRun
CHECK_DEADLOCK FALSE
