CONSTANTS
    Ports = {1}
    NoPort = 0
    MaxHostPort = 2
    MaySleep = TRUE
    MayDie = TRUE
    MayFail = TRUE
SPECIFICATION PartsSpec
CHECK_DEADLOCK FALSE
INVARIANTS PortsSound FlowSound FramesDecoded
PROPERTIES VsockProgress
