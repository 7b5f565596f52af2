SPECIFICATION Spec
CONSTANTS
    CHUNK_SIZE = 16
    MaxAddr = 252
    Sizes = {0, 1, 9}
INVARIANTS TypeOK HeapIsTiled HeldBlocksAreSafe FreeBlocksAreMerged NothingLeaks
