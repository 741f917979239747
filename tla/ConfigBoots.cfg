SPECIFICATION Spec
CONSTANTS
    MiB <- SmallMiB
    Names <- AllNames
    Requests <- Boots
    Releases <- AllReleases
INVARIANT NoLateSurprise AcceptedIsConsistent
