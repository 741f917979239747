SPECIFICATION Spec
CONSTANT
    Environments <- AllEnvironments
INVARIANT QuiescentImage SuccessLeavesNothing FailureInv
INVARIANT FailureReleases BindMountsUndone LeakHasLostHandle OthersDevicesKept
PROPERTY NoAcquireAfterFailure Terminates ImplementsContract
