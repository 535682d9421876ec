----------------------------- MODULE MCDemoWorker -----------------------------
(* DemoWorker for TLC.                                                         *)
EXTENDS DemoWorker, TLC

CONSTANTS q1, q2

\* A job that may fail once and a job of a second queue.
Call(queue, maxRetries) ==
  [queue |-> queue, key |-> NoKey, priority |-> 0, maxRetries |-> maxRetries,
   scheduleAt |-> NoTime, delayMs |-> 0]
Inputs == {Call(q1, 1), Call(q2, 0)}

OneInput == {Call(q1, 1)}

Symmetric == Permutations(Job) \cup Permutations(Lease) \cup Permutations(TickId)
===============================================================================
