------------------------------- MODULE MCMemory -------------------------------
(* InMemoryJobStore for TLC.                                                   *)
EXTENDS InMemoryJobStore, TLC

CONSTANTS q1, k1

Call(key, priority, maxRetries, scheduleAt, delayMs) ==
  [queue |-> q1, key |-> key, priority |-> priority, maxRetries |-> maxRetries,
   scheduleAt |-> scheduleAt, delayMs |-> delayMs]

\* A keyed job that may fail once, and a more urgent one that is wanted later.
Inputs == {Call(k1, 0, 1, NoTime, 0), Call(NoKey, 1, 0, NoTime, 1)}

Symmetric == Permutations(Job) \cup Permutations(Lease)
===============================================================================
