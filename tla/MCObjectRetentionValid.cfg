CONSTANTS
    Nil = Nil
    Empty = ""
    Instants = {"ZeroT", "T1", "FarT"}
    ZeroTime = "ZeroT"
    FarTime = "FarT"
    Callers = {c1, c2}
    Buckets = {b1}
    ValidBuckets = {b1}
    Objects = {o1}
    ValidObjects = {o1}
    Versions = {v1, v2}
    CurrentVersion = v2
    ModeInputs = {"GOVERNANCE", "COMPLIANCE"}
    DateInputs <- MCValidDateInputs
    PutOkCodes = {200, 204}
    MaxCalls = 3
    Truncated = Truncated
SYMMETRY CallerSymmetry
SPECIFICATION Spec
INVARIANTS PutOutcomeExact ComplianceLockVisible
