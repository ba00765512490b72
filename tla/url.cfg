\* Two loads of one subclass, two chunks each, and one permit.
SPECIFICATION FairSpec
CONSTANTS
    Loads = {l1, l2}
    N = 2
    Cap = 1
INVARIANTS TypeOK LoadsWithinCap FinishMeansWhole
PROPERTY PermitsComeBack
