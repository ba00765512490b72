\* Two readers, so that one queues behind the owner of the mutex, two
\* cancellers, as stopLoading and the end of the body both cancel, two chunks.
SPECIFICATION FairSpec
CONSTANTS
    Readers = {r1, r2}
    Cancellers = {k1, k2}
    NoOne = NoOne
    N = 2
INVARIANTS TypeOK InOrder AtMostOneLate CancelReleases
PROPERTY ReadsReturn
