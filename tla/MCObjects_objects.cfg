SPECIFICATION MCSpec
CONSTANTS
    Objects = {o1, o2, o3}
    Root = o1
    Null = Null
    Users = {Null, o2}
    Names = {n1, n2}
    NumChains = 1
    ChainOf <- MCChainOf
    Values = {v1, v2}
    FlagChoices <- MCFlagChoices
    Groups = {{o2}}
    MaxParents = 2
INVARIANTS
    ContentsAgree
    LookupsAgree
PROPERTIES
    SlotWrites
CHECK_DEADLOCK FALSE
