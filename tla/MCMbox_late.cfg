SPECIFICATION MboxSpec
CONSTANTS
    Imports <- MCImports
    WriteEveryN = 2
    MaxUpsets = 1
INVARIANT CompleteMeansAll
CHECK_DEADLOCK FALSE
