SPECIFICATION FairSpec
CONSTANTS
 q1 = q1
 k1 = k1
 j1 = j1
 l1 = l1
 Queue = {q1}
 Key = {k1}
 NoRow = NoRow
 NoJob = NoJob
 NoLease = NoLease
 NoKey = NoKey
 NoTime = NoTime
 NoCall = NoCall
 Job = {j1}
 Lease = {l1}
 Client = {c1}
 RetryUnit = 1
 RetryCap = 1
 Call <- Calls
 SubmitInputs <- Inputs
 Visibility = 1
 MaxTime = 1
 MaxOrphans = 1
PROPERTIES
 GracefulShutdown
