SPECIFICATION MCSpec
CONSTANTS
    Obj = {unit}
    NoObj = NoObj
    FirstDynamic = 10
    Transient = 12
    Var = {v1, v2}
    Period = {60}
    Build = {b1, b2, b3}
    OnTick = {b2}
    NoHook = {b1}
    TellsFresh = {b2}
    TellsAdopted = {b3}
    Hook <- MCHook
    Asks <- MCAsks
    MigrateTraps = FALSE
    MaxDepth = 2
    ScratchSize = 2
    MaxCalls = 5
INVARIANT TypeOK PayloadsIntact NothingLeftBehind HandlesKept OneBufferPerLevel
          RegistrationsMatch SaveIsWhole ToldFirst
PROPERTY FlushComes
CHECK_DEADLOCK FALSE
