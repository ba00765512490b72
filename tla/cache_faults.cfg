SPECIFICATION FairSpec
CONSTANTS
    p = p
    q = q
    Procs = {p, q}
    j = j
    Keys = {j}
    small = small
    large = large
    odd = odd
    huge = huge
    Bodies = {small, large}
    Size <- TwoSizes
    MaxBytes = 2
    EntryDisk = 2
    EntryMem = 1
    Inline = 1
    HasDisk = TRUE
    Faults = TRUE
    Nil = Nil
INVARIANTS TypeOK HitsAreWhole
PROPERTY OpsReturn
