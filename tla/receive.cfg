SPECIFICATION FairReceiveSpec
CONSTANTS
    ByteBits = 2
    Len00 = 2
    Low00 = 1
    Hi00 = 4
    Extra = 1
    Len01 = 2
    Low01 = 1
    Hi01 = 2
    PubSize = 8
    LenSig = 12
    LowSig = 1
    HiSig = 2
    SaltSize = 1
    SigSize = 20
    GroupSize = 3
    WordSize = 4
    small = small
    hawkOnly = hawkOnly
    wideHead = wideHead
    wide = wide
    long = long
    full = full
    Seeds <- MCSeeds
    Form <- MCForm
    Lim00 = 8
    Lim01 = 4
    E8Within = {small, full, wide}
    E8Within11 = {small, full, wide, hawkOnly}
    E8Invertible = {small, wide, hawkOnly}
    Junk = Junk
    Keys <- MCKeys
    Signatures <- MCSignatures
    Salts <- MCSalts
    Vectors <- MCVectors
    N = 4
    SaltLen = 2
    HpubLen = 1
    Round = 4
    Sizes <- MCSizes
    Skews = {0, 3}
    MaxFlaws = 1
    Pairs <- MCPairs
    Degrees = {8, 9, 10}
INVARIANTS KeysConsistent Canonical SentArrives VerdictExact
PROPERTIES KeygenReturns
