SPECIFICATION Spec
CONSTANTS
    x = x  y = y  z = z
    i1 = i1  i2 = i2  i3 = i3  i4 = i4
    None = None
    Changes = {x, y}
    Inodes = {i1, i2, i3, i4}
    GuardHeld = FALSE
SYMMETRY Symmetry
INVARIANTS PasswordPersisted
CHECK_DEADLOCK FALSE
