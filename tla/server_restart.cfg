SPECIFICATION Spec
CONSTANTS
    t1 = t1  t2 = t2
    None = None
    Tasks = {t1, t2}
    Cap = 2
    MaxLines = 1
    MaxEntries = 3
    MaxStarts = 3
SYMMETRY Symmetry
INVARIANTS TypeOK RotationKeepsNewest TokensStayValid CaMatchesCert PinsStayValid StartsUnlessCut
CHECK_DEADLOCK FALSE
