SPECIFICATION Spec
CONSTANTS
    FragmentSize = 1300
    Lengths <- EdgeLengths
INVARIANTS
    TypeOK
    SendWritesAll
    FragmentsFit
    NothingTwice
