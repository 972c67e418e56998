SPECIFICATION FairSpec
CONSTANTS
    Listener = {l1}
    Networks = {TRUE, FALSE}
    PrudpVersion = 1
    PeerKinds = {"Syn", "Data", "MultiAck"}
    Sizes = {0, 1}
    MaxMessages = 3
    MaxReads = 4
INVARIANTS
    TypeOK
    InOrderOnce
    AckedIsHandedOver
    NothingRefused
PROPERTY
    AllDelivered
    AckedIsDelivered
