CONSTANTS
    Text <- MCText
    Chunk <- MCChunks
    Size = {3, 4}
    MaxReads = 3
SPECIFICATION Spec
INVARIANTS
    TypeOK
    TextsExact
    TextsWereSent
    CaptureFits
PROPERTIES
    ReadReturns
