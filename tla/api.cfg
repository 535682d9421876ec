SPECIFICATION InTurnSpec
CONSTANTS
 q1 = q1
 k1 = k1
 j1 = j1
 l1 = l1
 Queue = {q1}
 Key = {k1}
 NoRow = NoRow
 NoJob = NoJob
 NoLease = NoLease
 NoKey = NoKey
 NoTime = NoTime
 NoCall = NoCall
 Job = {j1, j2}
 Lease = {l1, l2}
 Client = {c1, c2}
 RetryUnit = 1
 RetryCap = 1
 Call <- Calls
 SubmitInputs <- Inputs
 Visibility = 1
 MaxTime = 1
 MaxOrphans = 1
INVARIANTS
 TypeOK
 PoolOutlivesRequests
 CompletionIsTerminal
 KeyedSubmitsAgree
PROPERTIES
 ShutdownEnds
