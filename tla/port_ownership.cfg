SPECIFICATION Spec
CONSTANTS
    c1 = c1  c2 = c2
    s1 = s1  s2 = s2
    r1 = r1  r2 = r2
    m1 = m1  m2 = m2
    p1 = p1
    None = None
    Clients = {c1, c2}
    Conns = {s1, s2}
    Requests = {r1, r2}
    Mappings = {m1, m2}
    Ports = {p1}
    Owner <- TwoOwners
    PortOf <- SharedPort
    MaxClients = 2
ACTION_CONSTRAINT SecondRequestShort
SYMMETRY OwnerSymmetry
INVARIANTS TypeOK SessionEntryBacked VisitorsReachOwner HandleReachable GuardedEnable
PROPERTIES TableSpec
CHECK_DEADLOCK FALSE
