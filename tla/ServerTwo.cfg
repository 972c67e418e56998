SPECIFICATION FairSpec
CONSTANTS
    a1 = a1
    a2 = a2
    Addr = {a1, a2}
    Listener = {l1, l2}
    Datagram <- Racing
    MaxDatagrams = 2
    PrudpVersion = 0
    FriendsServer = FALSE
    Handled = {"Connect"}
    AppCalls = {"Kick", "Acknowledge"}
    NoSig = NoSig
INVARIANTS
    TypeOK
    AnswersGoToTheSource
    SessionIsolation
PROPERTIES
    OwedAckIsSent
    AcksImplementLedger
    OnlyOwnKick
