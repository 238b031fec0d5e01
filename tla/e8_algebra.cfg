SPECIFICATION SpecAll
CONSTANTS
    LogN = 3
    LogMax = 3
    WordBits = 12
    Primes <- MCPrimes
    Window = 2
    WLimit = 500
    Int16Max = 2
    LimQ00Head = 100
    LimQ00 = 60
    LimQ01 = 100
    LimQ11Head = 200
    LimQ11 = 100
    Bases <- MCBases
    Challenges <- MCChallenges
    Steps <- MCSteps
    Changes <- MCChanges
    Forgeries <- MCForgeries
    VrfyPrimes = 3
    Bound = 128
    Q = 97
    Q0I = 23647
    RootQ = 8
    HalfBits = 8
    HiRows = 2
    LoRows = 4
    Lanes = 2
    LaneBits = 8
    BaseBits = 2
    MaxXNorm = 420
    S1Lim = 12
    TinyLen = 3
    TailMax = 4
    WordMax = 63
    Laws <- MCLaws
    TotalUnit <- MCTotalUnit
    RefHiBits = 1
    RefLoBits = 7
    Cosets <- MCCosets
    Seeds <- MCSeeds
    WordOf <- MCWordOf
INVARIANTS VerdictExact SamplesSign SignatureExact BlockExact NtruExact
CHECK_DEADLOCK FALSE
