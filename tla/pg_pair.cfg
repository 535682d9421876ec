SPECIFICATION Spec
CONSTANTS
 q1 = q1
 q2 = q2
 k1 = k1
 k2 = k2
 Queue = {q1, q2}
 Key = {k1, k2}
 NoRow = NoRow
 NoJob = NoJob
 NoLease = NoLease
 NoKey = NoKey
 NoTime = NoTime
 NoSession = NoSession
 NoQueue = NoQueue
 Job = {j1, j2}
 Lease = {l1, l2}
 Session = {s1, s2}
 RetryUnit = 1
 RetryCap = 1
 SubmitInputs <- PairInputs
 Duration = {1}
 MaxSkew = 0
 MaxTime = 2
 Operation = {"submit", "claim", "cancel"}
SYMMETRY Symmetric
INVARIANTS
 LiveLeaseIsCurrent
 OneJobPerKey
 HeldJobsAreLeased
PROPERTIES
 EventsTellTheChange
 ImplementsContract
