SPECIFICATION Spec
CONSTANTS
 q1 = q1
 k1 = k1
 Queue = {q1}
 Key = {k1}
 NoRow = NoRow
 NoJob = NoJob
 NoLease = NoLease
 NoKey = NoKey
 NoTime = NoTime
 Job = {j1, j2}
 Lease = {l1, l2, l3}
 RetryUnit = 1
 RetryCap = 1
 SubmitInputs <- Inputs
 Duration = {1}
 MaxTime = 2
 MaxEvents = 4
SYMMETRY Symmetric
INVARIANTS
 TypeOK
 LiveLeaseIsCurrent
 HistoryReplays
 AttemptsAreClaims
PROPERTIES
 ImplementsContract
