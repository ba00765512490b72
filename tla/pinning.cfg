\* Three days from each start, so that the clock meets the midnights at which the
\* entries expire, from both sides.
SPECIFICATION Spec
CONSTANTS
    k1 = k1
    k2 = k2
    k3 = k3
    Bad = Bad
    Never = Never
    Configs <- FewConfigs
    Starts <- FewStarts
    PerDay = 2
    Ticks = 6
    Chains <- FewChains
    Names <- FewNames
INVARIANTS TypeOK ConfigChecked PinsHold CausesAreTold
PROPERTY PinsLapseForGood
CHECK_DEADLOCK FALSE
