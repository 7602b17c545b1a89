SPECIFICATION Spec
CONSTANTS
    c1 = c1  c2 = c2
    s1 = s1  s2 = s2
    r1 = r1  r2 = r2
    m1 = m1  m2 = m2
    p1 = p1
    None = None
    Clients = {c1}
    Conns = {s1, s2}
    Requests = {r1}
    Mappings = {m1}
    Ports = {p1}
    Owner <- OneOwner
    PortOf <- SharedPort
    MaxClients = 2
INVARIANTS ReconnectedClientServed
CHECK_DEADLOCK FALSE
