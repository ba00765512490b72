SPECIFICATION Spec
CONSTANTS
    p = p
    i = i
    j = j
    k = k
    Procs = {p}
    Keys = {i, j, k}
    small = small
    large = large
    odd = odd
    huge = huge
    Bodies = {small, large, huge}
    Size <- WithHuge
    MaxBytes = 3
    EntryDisk = 2
    EntryMem = 1
    Inline = 1
    HasDisk = TRUE
    Faults = FALSE
    Nil = Nil
SYMMETRY Symmetry
INVARIANTS CounterCovers BudgetAfterPut
PROPERTY SweepsOldest
