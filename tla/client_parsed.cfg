SPECIFICATION Spec
CONSTANTS
    c1 = c1
    c2 = c2
    NoConn = NoConn
    Clients = {c1}
    MaxCalls <- CallTwice
    MaxConf = 1
INVARIANT ParsedIsReceived
