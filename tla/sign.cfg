SPECIFICATION Spec
CONSTANTS
    ReservedAlloc = 9
    Files <- AllFiles
    Keys <- MCKeys
    KeyType <- MCKeyType
    SigLen <- MCSigLen
    SignaturesPerParse = 1
INVARIANTS RoundTrips WriteGoesThrough SignedFileVerifies
PROPERTY OnlySignaturesChange
