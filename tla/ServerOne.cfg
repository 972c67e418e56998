SPECIFICATION Spec
CONSTANTS
    a1 = a1
    a2 = a2
    Addr = {a1, a2}
    Listener = {l1}
    Datagram <- AllDatagrams
    MaxDatagrams = 3
    PrudpVersion = 1
    FriendsServer = FALSE
    Handled = {"Connect"}
    AppCalls = {"Acknowledge"}
    NoSig = NoSig
INVARIANTS
    AnswersGoToTheSource
    AcknowledgedOnce
    SessionIsolation
    SignatureIsTold
    SenderIsStored
PROPERTIES
    TableStable
    AcksImplementLedger
