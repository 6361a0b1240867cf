SPECIFICATION Spec
CONSTANTS
    Threads = {t1, t2, t3}
    Sessions = {v1, v2}
    None = None
    Inodes = {i1, i2, i3, i4}
SYMMETRY Symmetry
INVARIANTS
    TypeOK
PROPERTIES
    SaveIsAtomic
