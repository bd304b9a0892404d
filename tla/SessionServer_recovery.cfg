SPECIFICATION FairSpec
CONSTANTS
    a = a
    b = b
    c1 = c1
    c2 = c2
    Ids = {a}
    NoId = none
    Conns = {c1, c2}
    NoConn = noconn
    ClientOf <- Reconnect
    RoleOf <- WithViewer
    Policy = "first_come"
    Strict = TRUE
    Lease = 1
    MaxAge = 1
    MaxViolations = 1
    LeaseThread = lt
    Senders = {s1}
PROPERTIES
    GoneClientsUnregistered
    SilentControllerExpires
