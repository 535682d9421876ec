SPECIFICATION FairSpec
CONSTANTS
 j1 = j1
 j2 = j2
 Job = {j1, j2}
 NoJob = NoJob
 Slot = {s1, s2}
 NoRequest = NoRequest
 NotRead = NotRead
 NoList = NoList
 MaxChanges <- Limits
INVARIANTS
 TypeOK
PROPERTIES
 PageCatchesUp
 InspectorCatchesUp
