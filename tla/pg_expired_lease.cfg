SPECIFICATION Spec
CONSTANTS
 q1 = q1
 q2 = q2
 k1 = k1
 k2 = k2
 Queue = {q1}
 Key = {k1, k2}
 NoRow = NoRow
 NoJob = NoJob
 NoLease = NoLease
 NoKey = NoKey
 NoTime = NoTime
 NoSession = NoSession
 NoQueue = NoQueue
 Job = {j1}
 Lease = {l1, l2}
 Session = {s1, s2}
 RetryUnit = 1
 RetryCap = 1
 SubmitInputs <- LoneInputs
 Duration = {1, 2}
 MaxSkew = 0
 MaxTime = 3
 Operation = {"submit", "claim", "heartbeat", "complete", "fail", "cancel", "retry"}
PROPERTY
 OnlyUnexpiredLeasesAct
