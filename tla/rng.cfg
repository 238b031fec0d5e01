SPECIFICATION Spec
CONSTANTS
    Rate = 5
    BufLen = 4
    Words = {2, 4}
    Pieces = {0, 1, 5, 7}
    Reads = {0, 1, 3, 6, 11}
    MaxBytes = 14
INVARIANTS StreamInOrder CountersExact RngInv
