SPECIFICATION Spec
CONSTANTS
    Requests = {r1, r2}
    Loads <- PairLoads
    Launches <- SomeLaunches
    ConfigFiles <- Configs
    Files <- KeysAndBinaries
    KnownTags <- Known
    MaxKey = 2
INVARIANTS GracefulStop TokenRequired SignsWithCurrentKey LogShowsStatusSent
PROPERTIES AbortNeedsNewTag StopsAfterSignal EveryRequestEnds
