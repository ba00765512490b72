\* Three callers over two hosts, at most two permits in all and one per host, in
\* all four configurations of the two limits (the variable gates): both gates are
\* full with calls parked behind each, one of them keeping a global permit.
\* No symmetry: one property is temporal.
SPECIFICATION FairSpec
CONSTANTS
    Calls = {c1, c2, c3}
    Hosts = {h1, h2}
    BadUrl = BadUrl
    NoHost = NoHost
    Total = Total
    TotalCap = 2
    HostCap = 1
INVARIANTS TypeOK PermitsConserved HoldsWhatItPassed QueuesAreWaiters
PROPERTIES CapsHold QueuedIsAdmitted
