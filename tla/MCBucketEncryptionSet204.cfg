CONSTANTS
    Callers = {c1, c2, c3}
    Buckets = {b1, badB}
    ValidBuckets = {b1}
    Configs = {empty, aes, kms}
    EmptyConfig = empty
    Nil = Nil
    Truncated = Truncated
    SetOkCodes = {200, 204}
    RemoveOkCodes = {200, 204}
    MaxCalls = 1
SYMMETRY CallerSymmetry
SPECIFICATION Spec
INVARIANT EncryptionOutcomeExact
