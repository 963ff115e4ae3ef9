SPECIFICATION Spec
CONSTANTS
    Inputs <- AllInputs
    Chunk = 4
    LeadLen = 2
    IntroLen = 1
    EntryLen = 1
    Alignment = 4
    Word = 16
INVARIANTS OutcomeDependsOnBytesOnly StopsAtPayload ShortReadsHarmOnlyValidation
PROPERTY ParsingEnds
