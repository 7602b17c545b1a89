SPECIFICATION Spec
CONSTANTS
    first = first  second = second
    None = None
    Runs = {first, second}
    MaxAttempts = 3
    TopLevel = 2
INVARIANTS TypeOK BadgeFollows ReconnectsCounted OneLiveTunnel WaitsEarned
PROPERTIES StopEndsTunnel
CHECK_DEADLOCK FALSE
