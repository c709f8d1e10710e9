CONSTANTS
    Text <- MCText
    Chunk <- MCChunks
    Size = {3}
    MaxReads = 3
SPECIFICATION Spec
INVARIANTS
    TextsIntact
