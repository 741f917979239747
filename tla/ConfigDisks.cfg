SPECIFICATION Spec
CONSTANTS
    MiB <- SmallMiB
    Names <- AllNames
    Requests <- DiskRequests
    Releases <- AllReleases
INVARIANT BootFitsDisk
