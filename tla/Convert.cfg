SPECIFICATION Spec
CONSTANTS
    a = a
    b = b
    Old = old
    Proc <- Two
    Scenarios <- AloneOrPair
INVARIANT CInv SuccessMeansOwnImage TmpCollected VMImageCollected SuccessLeavesAFile
PROPERTY OldOutputOutlivesBuild OldOutputKept SequentialRunsSafe Terminates
