SPECIFICATION Spec
CONSTANTS
    p1 = p1
    p2 = p2
    p3 = p3
    f1 = f1
    f2 = f2
    f3 = f3
    Pid <- Processes
    Inode <- Files
    None = None
SYMMETRY Sym
INVARIANTS
    Exclusive
    Found
    LockInvariant
