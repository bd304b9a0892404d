SPECIFICATION Spec
CONSTANTS
    a = a
    b = b
    c1 = c1
    c2 = c2
    Ids = {a, b}
    NoId = none
    Conns = {c1, c2}
    NoConn = noconn
    ClientOf <- OneEach
    RoleOf <- Controllers
    Policy = "first_come"
    Strict = TRUE
    Lease = 1
    MaxAge = 1
    MaxViolations = 1
    LeaseThread = lt
    Senders = {}
PROPERTIES
    InputsOnlyFromController
