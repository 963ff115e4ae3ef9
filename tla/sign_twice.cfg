SPECIFICATION Spec
CONSTANTS
    ReservedAlloc = 9
    Files <- GoodFiles
    Keys <- MCKeys
    KeyType <- MCKeyType
    SigLen <- MCSigLen
    SignaturesPerParse = 2
INVARIANT SignedFileVerifies
