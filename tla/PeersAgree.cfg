SPECIFICATION Spec
CONSTANTS
    Obj = {unit}
    NoObj = NoObj
    FirstDynamic = 10
    Transient = 14
    Peer = {server, joiner}
    Server = server
    Var = {v1, v2, v3}
INVARIANT PeersAgree
CHECK_DEADLOCK FALSE
