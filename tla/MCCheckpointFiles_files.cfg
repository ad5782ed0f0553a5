SPECIFICATION FilesSpec
CONSTANTS
    MaxNumber = 4
    KeepNum = 2
    MaxVersion = 4
    MaxFailures = 1
INVARIANTS
    ProgressKept
    WriterUndisturbed
PROPERTIES
    NoRegress
