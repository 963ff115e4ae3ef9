SPECIFICATION Spec
CONSTANTS
    ReservedAlloc = 9
    Files <- FilesWithReservedSpace
    SetTags <- SignatureTags
    DeleteTags <- DeletedTags
    Lens = {2, 5}
    NewContents = {"a"}
    Contents = {"old", "a", "zeroes"}
PROPERTY ImplementsMap
