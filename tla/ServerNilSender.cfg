SPECIFICATION Spec
CONSTANTS
    a1 = a1
    a2 = a2
    Addr = {a1, a2}
    Listener = {l1, l2}
    Datagram <- OnePeer
    MaxDatagrams = 3
    PrudpVersion = 1
    FriendsServer = FALSE
    Handled = {}
    AppCalls = {}
    NoSig = NoSig
INVARIANT
    PacketHasSender
