SPECIFICATION FairSpec
CONSTANTS
 q1 = q1
 q2 = q2
 Queue = {q1, q2}
 Key = {}
 NoRow = NoRow
 NoJob = NoJob
 NoLease = NoLease
 NoKey = NoKey
 NoTime = NoTime
 Job = {j1, j2}
 Lease = {l1}
 TickId = {t1, t2}
 RetryUnit = 1
 RetryCap = 1
 SubmitInputs <- Inputs
 Visibility = 1
 MaxTime = 1
 MaxLeaked = 1
INVARIANTS
 TypeOK
 OneTickAtATime
 NeverWedged
 ActiveJobIsHeld
PROPERTIES
 KeepsPolling
 StopsInTheEnd
