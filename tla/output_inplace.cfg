SPECIFICATION Spec
CONSTANTS
    Clients = {c1}
    CommandLines <- OverwritingCommandLines
    Urls <- PackageUrls
    InputSigned = TRUE
    InPlace = TRUE
    HeaderLen = 2
    PayloadLen = 2
    Growth = 0
    DiskSize = 7
INVARIANT SuccessIsComplete
