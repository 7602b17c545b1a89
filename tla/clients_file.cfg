SPECIFICATION Spec
CONSTANTS
    x = x  y = y  z = z
    i1 = i1  i2 = i2  i3 = i3  i4 = i4
    None = None
    Changes = {x, y, z}
    Inodes = {i1, i2, i3, i4}
    GuardHeld = TRUE
SYMMETRY Symmetry
INVARIANTS TypeOK DiskWhole AcknowledgedSurvives
PROPERTIES DurableSpec
CHECK_DEADLOCK FALSE
