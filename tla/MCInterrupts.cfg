CONSTANTS
    Bits = {used, config}
    Workers = {w1}
    Vcpu = vcpu
    NoBit = none
    DeferLimit = 1
    DelayLimit = 1
    Vectors = {0, 1}
    Messages = {0, 1, 2}
    MayFail = TRUE
    MayRestore = TRUE
SPECIFICATION PartsSpec
INVARIANTS LineSound
PROPERTIES MsixSound SignalArrives
