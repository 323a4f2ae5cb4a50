SPECIFICATION FairSpec
CONSTANTS
    TcpTypes = {"DYT_PROTOCOL", "YUNZHUO_C12"}
    UdpTypes = {"SIYI_ZR10", "TUOPU"}
    DytTypes = {"DYT_PROTOCOL"}
    MaxChanges = 3
    MaxCommands = 2
CHECK_DEADLOCK FALSE
INVARIANTS Inv OwnProtocol
PROPERTIES UdpLinkKept TypeIsFollowed
