SPECIFICATION Spec
CONSTANTS
    c1 = c1
    c2 = c2
    NoConn = NoConn
    Clients = {c1, c2}
    MaxCalls <- CallOnce
    MaxConf = 2
INVARIANTS
    TypeOK
    TableHasHeld
    WholeRequestsAreSafe
