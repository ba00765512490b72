SPECIFICATION Spec
CONSTANTS
    Loads = {l1}
    N = 1
    Cap = 1
INVARIANT StopFreesNow
