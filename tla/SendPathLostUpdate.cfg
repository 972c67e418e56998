SPECIFICATION Spec
CONSTANTS
    FragmentSize = 2
    Senders = {g1, g2}
    Resetters = {}
    PayloadSizes = {1}
    SeqModulus = 8
    MaxPackets = 4
    MaxResets = 0
INVARIANT
    IncrementReturnsNew
