SPECIFICATION Spec
CONSTANTS
    BitsPerElement = 3
    MaxOffset = 6
    MaxLen = 7
    MaxWrites = 3
INVARIANTS DataIsWhatWasWritten SetIsExact
