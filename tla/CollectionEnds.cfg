SPECIFICATION LiveSpec
CONSTANTS
    SpanLimit = 2
    SpanSize = 1
    Small = {small}
    LargeSizes = {2}
    Reg = {r}
    Nil = Nil
    Unassigned = Unassigned
    Large = Large
    LargeMid = LargeMid
    GrayCap = 1
    MarkLimit = 1
PROPERTY CollectionEnds
