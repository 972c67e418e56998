SPECIFICATION Spec
CONSTANTS
    Settings <- MCSettings
    PeerPackets <- MCPeerPackets
    Calls <- MCCalls
    Methods = {259}
    Results <- MCResults
    ErrorCodes = {65537}
    Base = 8
    NexVersions = {2, 3}
    Fields <- MCFields
    MaxFields = 2
    x = x
    y = y
    Values <- MCValues
    MaxSets = 3
    Nil = Nil
    Times <- MCTimes
    Lengths = {1, 2}
    MaxMessages = 5
    Emitters = {l1, l2}
    MaxHandlers = 3
    MaxPackets = 2
INVARIANTS
    PacketReadsBack
    DecodeInBounds
    WholeOrRefused
    AckNamesPacket
    CallIsAnswered
    StreamReadsBack
    StationReadsBack
    KerberosInStep
    HandlersRunOnce
PROPERTY
    NowIsOrdered
