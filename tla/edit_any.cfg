SPECIFICATION Spec
CONSTANTS
    ReservedAlloc = 9
    Files <- AllFiles
    SetTags <- SignatureTags
    DeleteTags <- DeletedTagsAndReserve
    Lens = {2, 3, 5}
    NewContents = {"a"}
    Contents = {"old", "a", "zeroes"}
INVARIANTS TypeOK IndexTableOK DataStoreOK DeclaredSizeIsWritten NoEmptyEntry RecursionEnds
