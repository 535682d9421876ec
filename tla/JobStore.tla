------------------------------- MODULE JobStore -------------------------------
(* What a JobStore promises its callers (application/job-store.ts): every     *)
(* operation takes effect at one instant.  Both stores are checked against    *)
(* this module.  It leaves open which of the ready jobs a claim takes.  Lag   *)
(* says how old the time may be that an operation has read by the instant it  *)
(* takes effect: with {0} it is that instant, so that an expired lease can    *)
(* do nothing.                                                                *)
EXTENDS JobRecord

CONSTANTS SubmitInputs,  \* the submit calls of this instance
          Duration,      \* visibility timeouts and heartbeat extensions, in ms
          MaxSkew,       \* how far a caller's clock may be from the store's
          Lag            \* ages of the times that operations may have read, in ms

VARIABLES jobs,    \* the stored row of each job, or NoRow
          issued,  \* for each lease, the job and the expiry its holder was told
          clock    \* the store's clock, in ms

vars == <<jobs, issued, clock>>

Issue == [job: Job \cup {NoJob}, until: Nat]
NotIssued == [job |-> NoJob, until |-> 0]

Stored == {j \in Job : jobs[j] # NoRow}
Fresh == {l \in Lease : issued[l].job = NoJob}
TimeRead == {t \in 0..clock : clock - t \in Lag}
CallerTimeRead == {n \in 0..(clock + MaxSkew) :
                     \E t \in TimeRead : n - t \in (-MaxSkew)..MaxSkew}

Init == /\ jobs = [j \in Job |-> NoRow]
        /\ issued = [l \in Lease |-> NotIssued]
        /\ clock = 0

KeyTaken(key) == key # NoKey /\ \E j \in Stored : jobs[j].key = key

Submit(j, input) ==
  /\ j \notin Stored
  /\ ~KeyTaken(input.key)
  /\ \E t \in TimeRead, n \in CallerTimeRead :
       jobs' = [jobs EXCEPT ![j] = NewRow(input, t, n)]
  /\ UNCHANGED <<issued, clock>>

\* The rows after the leases of R are taken back at time t.
AfterReap(R, t) == [j \in Job |-> IF j \in R THEN Reaped(jobs[j], t) ELSE jobs[j]]

ClaimNothing(R, t) ==
  /\ \A j \in R : Expired(jobs[j], t)
  /\ jobs' = AfterReap(R, t)
  /\ UNCHANGED <<issued, clock>>

Claim(R, t, j, l, v) ==
  /\ \A i \in R : Expired(jobs[i], t)
  /\ l \in Fresh
  /\ j \in Stored
  /\ Ready(AfterReap(R, t)[j], jobs[j].queue, t)
  /\ jobs' = [AfterReap(R, t) EXCEPT ![j] = Leased(@, l, t + v)]
  /\ issued' = [issued EXCEPT ![l] = [job |-> j, until |-> t + v]]
  /\ UNCHANGED clock

Heartbeat(j, l, t, v) ==
  /\ Renewable(jobs[j], l, t)
  /\ jobs' = [jobs EXCEPT ![j] = Renewed(@, t + v)]
  /\ issued' = [issued EXCEPT ![l].until = t + v]
  /\ UNCHANGED clock

\* Mutant: complete and fail do not ask who holds the job.
AcknowledgeUnchecked(j, l, row) ==
  /\ jobs' = [jobs EXCEPT ![j] = row]
  /\ issued' = [issued EXCEPT ![l].until = 0]
  /\ UNCHANGED clock

\* complete or fail: only the holder of the current, unexpired lease, who gives
\* it up.
Acknowledge(j, l, row) ==
  /\ \E n \in CallerTimeRead : Owned(jobs[j], l, n)
  /\ jobs' = [jobs EXCEPT ![j] = row]
  /\ issued' = [issued EXCEPT ![l].until = 0]
  /\ UNCHANGED clock

Complete(j, l) == Acknowledge(j, l, Completed(jobs[j]))
Fail(j, l, t) == Acknowledge(j, l, Failed(jobs[j], t))

Cancel(j) ==
  /\ jobs[j].status \notin Uncancellable
  /\ jobs' = [jobs EXCEPT ![j] = IF @.status = "cancelled" THEN @ ELSE Cancelled(@)]
  /\ UNCHANGED <<issued, clock>>

Retry(j, t) ==
  /\ jobs[j].status = "dead_letter"
  /\ jobs' = [jobs EXCEPT ![j] = Retried(@, t)]
  /\ UNCHANGED <<issued, clock>>

Tick == clock' = clock + 1 /\ UNCHANGED <<jobs, issued>>

Reap == \E R \in SUBSET Stored, t \in TimeRead : ClaimNothing(R, t)
ClaimAny == \E R \in SUBSET Stored, t \in TimeRead, j \in Stored, l \in Lease,
               v \in Duration : Claim(R, t, j, l, v)
HeartbeatAny == \E j \in Stored, l \in Lease, t \in TimeRead, v \in Duration :
                  Heartbeat(j, l, t, v)
FailAny == \E j \in Stored, l \in Lease, t \in TimeRead : Fail(j, l, t)

Next == \/ \E j \in Job, input \in SubmitInputs : Submit(j, input)
        \/ Reap
        \/ ClaimAny
        \/ HeartbeatAny
        \/ \E j \in Stored, l \in Lease : Complete(j, l)
        \/ FailAny
        \/ \E j \in Stored : Cancel(j)
        \/ \E j \in Stored, t \in TimeRead : Retry(j, t)
        \/ Tick

Spec == Init /\ [][Next]_vars
===============================================================================
