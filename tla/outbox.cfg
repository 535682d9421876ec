SPECIFICATION FairSpec
CONSTANTS
 Job = {j1, j2}
 Writer = {w1, w2}
 Relay = {r1, r2}
 Client = {c1}
 NoWriter = NoWriter
 NoJob = NoJob
 BatchLimit = 2
 MaxEvents = 2
INVARIANTS
 TypeOK
 OutboxIsHonest
PROPERTIES
 PerJobOrder
 EveryEventIsSent
