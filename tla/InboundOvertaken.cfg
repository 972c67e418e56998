SPECIFICATION Spec
CONSTANTS
    Listener = {l1, l2}
    Networks = {TRUE}
    PrudpVersion = 1
    PeerKinds = {"Data"}
    Sizes = {1}
    MaxMessages = 2
    MaxReads = 2
INVARIANT
    NothingRefused
