SPECIFICATION CtrlSpec
CONSTANTS
    Clients = {c1, c2}
    MaxCount = 2
PROPERTY FailedStaysFailed
