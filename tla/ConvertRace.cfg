SPECIFICATION Spec
CONSTANTS
    a = a
    b = b
    Old = old
    Proc <- Two
    Scenarios <- SmoothPair
PROPERTY NoOverwriteWithoutForce
