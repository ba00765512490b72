SPECIFICATION FairHitSpec
CONSTANTS
    Upstreams <- Bodies
    Depth = 2
    EntryDisk = 6
    EntryMem = 3
    Chunk = 2
INVARIANTS HitTypeOK WholeOrNothing Backpressure TooLongNotKept DeliveredWhole
PROPERTIES PromiseKept ReaderHearsEnd
