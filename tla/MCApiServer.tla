------------------------------ MODULE MCApiServer ------------------------------
(* ApiServer for TLC: the calls whose repetition and loss matter, for one      *)
(* submit whose key two jobs could come to carry.                              *)
EXTENDS ApiServer, TLC

CONSTANTS q1, k1, j1, l1

Input == [queue |-> q1, key |-> k1, priority |-> 0, maxRetries |-> 1,
          scheduleAt |-> NoTime, delayMs |-> 0]
Inputs == {Input}

\* Two workers can hold the job one after the other: either completes it, the
\* first may also report a failure, early or late.
Calls == {[op |-> "submit", input |-> Input], [op |-> "claim", queue |-> q1]}
         \cup [op: {"complete"}, job: {j1}, lease: Lease]
         \cup [op: {"fail"}, job: {j1}, lease: {l1}]
         \cup [op: {"invalid", "stream", "start"}]

\* FairSpec in which l1 is the lease of the first worker.
InTurn == issued[l1] = Store!NotIssued =>
            \A l \in Lease \ {l1} : issued'[l] = Store!NotIssued

InTurnSpec == Init /\ [][Next /\ InTurn]_vars /\ Fairness
===============================================================================
