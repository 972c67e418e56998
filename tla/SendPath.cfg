SPECIFICATION Spec
CONSTANTS
    FragmentSize = 2
    Senders = {g1, g2}
    Resetters = {g2}
    PayloadSizes = {3}
    SeqModulus = 3
    MaxPackets = 4
    MaxResets = 1
INVARIANTS
    TypeOK
    NumbersInOrder
    KeystreamInOrder
    CounterNotAhead
