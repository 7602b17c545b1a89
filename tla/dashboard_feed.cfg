SPECIFICATION FairSpec
CONSTANTS
    d1 = d1  d2 = d2
    Dashboards = {d1, d2}
    IdleTicks = 5
    MaxChanges = 3
    MaxInbox = 2
INVARIANTS TypeOK NoticedInTime
PROPERTIES ViewsAdvance DashboardsCatchUp
CHECK_DEADLOCK FALSE
