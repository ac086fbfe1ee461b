SPECIFICATION Spec
CONSTANTS
    Word = 32
    Width = 5
    SafeMag = 64
    MulLimit = 4
    CodeCaps <- MCCodeCaps
    TighterCaps <- MCTighterCaps
    argX = argX
    varI = varI
    varJ = varJ
    Param = {argX}
    Declared = {varI, varJ}
    NoLocal = NoLocal
    Programs <- MCPrograms
    Arguments <- MCArguments
INVARIANTS
    TypeOK
    RangesHold
    StaysExact
    WideningSettles
PROPERTY SameResults
CHECK_DEADLOCK FALSE
