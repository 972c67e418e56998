SPECIFICATION FairSpec
CONSTANTS
    NumCPU = 4
INVARIANTS
    OneListenerQuits
PROPERTY
    FailureEndsServer
