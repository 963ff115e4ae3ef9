SPECIFICATION Spec
CONSTANTS
    Clients = {c1, c2}
    CommandLines <- AllCommandLines
    Urls <- PackageUrls
    InputSigned = TRUE
    InPlace = FALSE
    HeaderLen = 2
    PayloadLen = 2
    Growth = 1
    DiskSize = 7
INVARIANT NoClobber
