SPECIFICATION Spec
CONSTANT
    Runs <- AnyRun
INVARIANT HInv DialsRescue GrownWhole ServerCollected SuccessMeansBooted RawCollected
PROPERTY Terminates ImplementsContract
