SPECIFICATION Spec
CONSTANTS
    Messages = {m1, m2}
    Rand = {r1, r2}
    Norms = {3, 4, 9}
    NormBound = 3
    Int64Max = 8
    MaxAttempts = 3
    CounterMod = 6
INVARIANTS SignatureVerifies SaltOfLastAttempt HashesDistinct SignInv
SYMMETRY Symmetry
