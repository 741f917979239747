SPECIFICATION Spec
CONSTANT
    Environments <- InterruptOnly
INVARIANT HostTreesSafe
