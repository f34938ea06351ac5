CONSTANTS
    Threads = {t1, t2, t3}
    Blocks = {b1, b2}
    Refs = {r1, r2, r3, r4}
    Free = Free
    None = None
SPECIFICATION Spec
INVARIANTS
    CountersCount
