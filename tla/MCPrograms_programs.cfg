CONSTANTS
    Programs <- ProgramNumbers
    Text <- TextOf
    InThread <- ThreadPrograms
    StackLength = 1024
    MaxRaises <- RaisesOf
SPECIFICATION Spec
INVARIANTS
    RightAnswer
    NothingLeft
    FormsKept
PROPERTIES
    FormEnds
    PowersKept
    MachineSpec
CHECK_DEADLOCK FALSE
