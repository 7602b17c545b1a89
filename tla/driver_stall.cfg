SPECIFICATION Spec
CONSTANTS
    v1 = v1  v2 = v2  v3 = v3  v4 = v4
    web = web  ssh = ssh
    Visitors = {v1, v2, v4}
    Loops = {web, ssh}
    PortOf <- TwoPorts
    Capacity = 1
    MaxConns = 1
    MaxStreams = 2
    MaxUnacked = 1
PROPERTIES DriverResumes
CHECK_DEADLOCK FALSE
