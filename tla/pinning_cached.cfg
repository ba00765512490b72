\* What the cached backend makes of a handshake that was refused.
SPECIFICATION Spec
CONSTANTS
    k1 = k1
    k2 = k2
    k3 = k3
    Bad = Bad
    Never = Never
    Configs <- FewConfigs
    Starts <- FewStarts
    PerDay = 2
    Ticks = 6
    Chains <- FewChains
    Names <- FewNames
INVARIANT CachedTellsRefusals
CHECK_DEADLOCK FALSE
