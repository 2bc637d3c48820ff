SPECIFICATION MsgSpec
CONSTANTS
    Reqs = {r1, r2}
    NoReq = NoReq
    MaxConn = 2
    SockCap = 1
    MaxInd = 2
INVARIANTS
    ReceiveQueueWatched
    TransmitQueueWatched
    
    
CHECK_DEADLOCK FALSE
