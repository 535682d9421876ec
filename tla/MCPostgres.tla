------------------------------ MODULE MCPostgres ------------------------------
(* PostgresJobStore for TLC: the submit calls of the instances.                *)
EXTENDS PostgresJobStore, TLC

CONSTANTS q1, q2, k1, k2

Call(key, priority, maxRetries, scheduleAt, delayMs) ==
  [queue |-> q1, key |-> key, priority |-> priority, maxRetries |-> maxRetries,
   scheduleAt |-> scheduleAt, delayMs |-> delayMs]

\* One job at a time, that may fail once or never before it is dead-lettered,
\* wanted now or at an absolute time.
LoneInputs == {Call(NoKey, 0, 0, 2, 0), Call(NoKey, 0, 1, NoTime, 0)}

\* Two jobs: a keyed one that clients may submit twice, and a delayed one.  A call
\* with the same key for another queue does not wait for the first in its queue.
PairInputs == {Call(k1, 0, 1, NoTime, 0), Call(NoKey, 1, 1, NoTime, 1),
               [Call(k1, 0, 1, NoTime, 0) EXCEPT !.queue = q2]}

\* Two keyed jobs, so that a submit always has an answer.
KeyedInputs == {Call(k1, 0, 1, NoTime, 0), Call(k2, 0, 1, NoTime, 0)}

Symmetric == Permutations(Job) \cup Permutations(Lease) \cup Permutations(Session)

\* Liveness cannot be checked under symmetry.  Its run uses leases, jobs and keys
\* that nothing tells apart as long as they are free, so that taking them in a
\* fixed order leaves out no behaviour but for their names.
InOrder(free, left) == \A x \in free \ left : x = CHOOSE y \in free : TRUE

FreeJob == {j \in Job : draft[j] = NoRow}
FreeKey == Key \ {draft[j].key : j \in Job \ FreeJob}

InTurn == /\ InOrder(FreshLease, FreshLease')
          /\ InOrder(FreeJob, FreeJob')
          /\ InOrder(FreeKey, FreeKey')

\* PollingSpec in which free values are taken in turn.
InTurnSpec == Init /\ [][Next /\ InTurn]_vars /\ Progress /\ Polling
===============================================================================
