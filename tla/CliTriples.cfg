SPECIFICATION Spec
CHECK_DEADLOCK FALSE
CONSTANTS
    None = None
    Runs = {r1, r2, r3}
    Ids = {e1, e2}
    Digests = {d1, d2}
SYMMETRY Interchangeable
INVARIANTS TypeOK RefusedTouchesNothing ExitZeroTrue StderrTrue ReadsBack
