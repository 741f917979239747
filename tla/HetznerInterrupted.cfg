SPECIFICATION Spec
CONSTANT
    Runs <- InterruptOnly
INVARIANT NoServerForgotten
