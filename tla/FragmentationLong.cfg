SPECIFICATION Spec
CONSTANTS
    FragmentSize = 1300
    Lengths <- LongLengths
INVARIANT
    SendWritesData
