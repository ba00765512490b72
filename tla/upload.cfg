SPECIFICATION FairSpec
CONSTANTS
    N = 4
    Pipe = 2
    Chunk = 2
    Reply = 2
INVARIANTS UploadTypeOK EndMeansWhole NothingLost ReadsOpenStream EndOfSourceIsTrue
PROPERTIES DropFreesAll CloseLeavesNothing
