SPECIFICATION Spec
CHECK_DEADLOCK FALSE
CONSTANTS
    SeqNums <- MCSeqNums
    Lens <- MCLens
    MaxChunks = 4
INVARIANTS
    NoByteTwice
    AllCapturedBytes
    GapIffHole
    GapIsFinal
    FoldAgrees
    IInv
PROPERTIES
    ImplementsDirection
