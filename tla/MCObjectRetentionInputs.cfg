CONSTANTS
    Nil = Nil
    Empty = ""
    Instants = {"ZeroT", "T1", "FarT"}
    ZeroTime = "ZeroT"
    FarTime = "FarT"
    Callers = {c1}
    Buckets = {b1, badB}
    ValidBuckets = {b1}
    Objects = {o1, badO}
    ValidObjects = {o1}
    Versions = {v1, v2}
    CurrentVersion = v2
    ModeInputs = {"GOVERNANCE", "COMPLIANCE", "BOGUS"}
    DateInputs <- MCAllDateInputs
    PutOkCodes = {200, 204}
    MaxCalls = 2
    Truncated = Truncated
SYMMETRY CallerSymmetry
SPECIFICATION Spec
INVARIANT TypeOK
INVARIANT PutBodyRoundTrip
