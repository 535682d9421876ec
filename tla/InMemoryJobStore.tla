--------------------------- MODULE InMemoryJobStore ---------------------------
(* InMemoryJobStore: every method runs from its call to its return without    *)
(* an await, so an operation is one step at one reading of the clock.  A call *)
(* that throws changes nothing (Refused); reads are left out.                 *)
EXTENDS JobRecord, Sequences, FiniteSets, Functions

CONSTANTS SubmitInputs, Duration,
          MaxTime,    \* bound on the clock
          MaxEvents   \* bound on the history a heartbeat may still extend

ASSUME MemoryAssumption == /\ SubmitInputs \subseteq SubmitInput
                           /\ Duration \subseteq Nat
                           /\ MaxTime \in Nat /\ MaxEvents \in Nat

VARIABLES jobs,             \* the Map of jobs; a job does not store its key
          idempotencyKeys,  \* the Map from keys to job ids
          events,           \* the append-only history
          issued,           \* what the holder of each lease was told
          clock

vars == <<jobs, idempotencyKeys, events, issued, clock>>

Stored == {j \in Job : jobs[j] # NoRow}
FreshLease == {l \in Lease : issued[l].job = NoJob}

JobEventType == {"submitted", "claimed", "heartbeat", "completed", "failed",
                 "retry_scheduled", "dead_lettered", "cancel_requested", "cancelled",
                 "manual_retry", "lease_expired"}
JobEvent == [type: JobEventType, job: Job, from: Status \cup {"none"}, to: Status]
Event(type, job, from, to) == [type |-> type, job |-> job, from |-> from, to |-> to]
Record(es) == events' = events \o es

Init == /\ jobs = [j \in Job |-> NoRow]
        /\ idempotencyKeys = [k \in Key |-> NoJob]
        /\ events = <<>>
        /\ issued = [l \in Lease |-> [job |-> NoJob, until |-> 0]]
        /\ clock = 0

Known(key) == key # NoKey /\ idempotencyKeys[key] # NoJob

Submit(j, input) ==
  LET row == NewRow([input EXCEPT !.key = NoKey], clock, clock) IN
  /\ j \notin Stored /\ ~Known(input.key)
  /\ jobs' = [jobs EXCEPT ![j] = row]
  /\ idempotencyKeys' = [k \in Key |-> IF k = input.key THEN j ELSE idempotencyKeys[k]]
  /\ Record(<<Event("submitted", j, "none", row.status)>>)
  /\ UNCHANGED <<issued, clock>>

SubmitAgain(input) == Known(input.key) /\ UNCHANGED vars

\* The places in a history of the events about a job.
About(es, j) == {n \in DOMAIN es : es[n].job = j}

\* A Map iterates in insertion order, the order of the submitted events.
Older(i, j) == \E m \in About(events, i) : \A n \in About(events, j) : m < n

ExpiredJobs == {j \in Stored : Expired(jobs[j], clock)}
AfterReap == [j \in Job |-> IF j \in ExpiredJobs THEN Reaped(jobs[j], clock) ELSE jobs[j]]

\* Mutant: every expired job is taken for a processing one.
ReapEventProcessing(j) == Event("lease_expired", j, "processing", AfterReap[j].status)

ReapEvent(j) ==
  Event(IF jobs[j].status = "cancel_requested" THEN "cancelled" ELSE "lease_expired",
        j, jobs[j].status, AfterReap[j].status)
Oldest == {order \in Bijection(1..Cardinality(ExpiredJobs), ExpiredJobs) :
             \A m, n \in DOMAIN order : m < n => Older(order[m], order[n])}
ReapEvents == {[n \in DOMAIN order |-> ReapEvent(order[n])] : order \in Oldest}

ReadyJobs(q) == {j \in Stored : Ready(AfterReap[j], q, clock)}

\* The sort is stable: equal priority and creation time leave insertion order.
First(S) == {j \in S : \A i \in S \ {j} : /\ NotAfter(jobs[j], jobs[i])
                                         /\ NotAfter(jobs[i], jobs[j]) => Older(j, i)}

ClaimJob(q, l, v) ==
  /\ l \in FreshLease
  /\ \E j \in First(ReadyJobs(q)) :
       /\ jobs' = [AfterReap EXCEPT ![j] = Leased(@, l, clock + v)]
       /\ issued' = [issued EXCEPT ![l] = [job |-> j, until |-> clock + v]]
       /\ \E es \in ReapEvents :
            Record(Append(es, Event("claimed", j, AfterReap[j].status, "processing")))
  /\ UNCHANGED <<idempotencyKeys, clock>>

ClaimNothing(q) ==
  /\ ReadyJobs(q) = {}
  /\ jobs' = AfterReap
  /\ \E es \in ReapEvents : Record(es)
  /\ UNCHANGED <<idempotencyKeys, issued, clock>>

Heartbeat(j, l, v) ==
  /\ Len(events) < MaxEvents
  /\ Renewable(jobs[j], l, clock)
  /\ jobs' = [jobs EXCEPT ![j] = Renewed(@, clock + v)]
  /\ issued' = [issued EXCEPT ![l].until = clock + v]
  /\ Record(<<Event("heartbeat", j, "processing", "processing")>>)
  /\ UNCHANGED <<idempotencyKeys, clock>>

\* Mutant: complete and fail accept a lease that has run out.
AcknowledgeExpired(j, l, row, es) ==
  /\ jobs[j].status \in Held /\ jobs[j].lease = l
  /\ jobs' = [jobs EXCEPT ![j] = row]
  /\ issued' = [issued EXCEPT ![l].until = 0]
  /\ Record(es)
  /\ UNCHANGED <<idempotencyKeys, clock>>

Acknowledge(j, l, row, es) ==
  /\ Owned(jobs[j], l, clock)
  /\ jobs' = [jobs EXCEPT ![j] = row]
  /\ issued' = [issued EXCEPT ![l].until = 0]
  /\ Record(es)
  /\ UNCHANGED <<idempotencyKeys, clock>>

Complete(j, l) ==
  LET row == Completed(jobs[j])
  IN  Acknowledge(j, l, row, <<Event(row.status, j, jobs[j].status, row.status)>>)

\* The failed event is recorded before the status changes.
Fail(j, l) ==
  LET row == Failed(jobs[j], clock) IN
  Acknowledge(j, l, row,
    IF row.status = "cancelled"
    THEN <<Event("cancelled", j, "cancel_requested", "cancelled")>>
    ELSE <<Event("failed", j, "processing", "processing"),
           Event(IF row.status = "retrying" THEN "retry_scheduled" ELSE "dead_lettered",
                 j, "processing", row.status)>>)

Cancel(j) ==
  LET row == Cancelled(jobs[j]) IN
  /\ jobs[j].status \notin Uncancellable \cup {"cancelled"}
  /\ jobs' = [jobs EXCEPT ![j] = row]
  /\ Record(<<Event(row.status, j, jobs[j].status, row.status)>>)
  /\ UNCHANGED <<idempotencyKeys, issued, clock>>

Retry(j) ==
  /\ jobs[j].status = "dead_letter"
  /\ jobs' = [jobs EXCEPT ![j] = Retried(@, clock)]
  /\ Record(<<Event("manual_retry", j, "dead_letter", "queued")>>)
  /\ UNCHANGED <<idempotencyKeys, issued, clock>>

\* requiredJob and ownedJob throw, cancel of a cancelled job returns it.
Refused ==
  /\ \/ \E j \in Job : j \notin Stored
     \/ \E j \in Stored : \/ jobs[j].status \in Uncancellable \cup {"cancelled"}
                          \/ jobs[j].status # "dead_letter"
                          \/ \E l \in Lease : ~Owned(jobs[j], l, clock)
  /\ UNCHANGED vars

Tick == clock < MaxTime /\ clock' = clock + 1
        /\ UNCHANGED <<jobs, idempotencyKeys, events, issued>>

Next == \/ \E j \in Job, input \in SubmitInputs : Submit(j, input)
        \/ \E input \in SubmitInputs : SubmitAgain(input)
        \/ \E q \in Queue, l \in Lease, v \in Duration : ClaimJob(q, l, v)
        \/ \E q \in Queue : ClaimNothing(q)
        \/ \E j \in Stored, l \in Lease, v \in Duration : Heartbeat(j, l, v)
        \/ \E j \in Stored, l \in Lease : Complete(j, l)
        \/ \E j \in Stored, l \in Lease : Fail(j, l)
        \/ \E j \in Stored : Cancel(j)
        \/ \E j \in Stored : Retry(j)
        \/ Refused
        \/ Tick

Spec == Init /\ [][Next]_vars

-------------------------------------------------------------------------------
TypeOK == /\ jobs \in [Job -> Row \cup {NoRow}]
          /\ idempotencyKeys \in [Key -> Job \cup {NoJob}]
          /\ events \in Seq(JobEvent)
          /\ issued \in [Lease -> [job: Job \cup {NoJob}, until: Nat]]
          /\ clock \in 0..MaxTime

\* While the expiry the holder of a lease was told lies ahead, the row of its job
\* carries that lease and that expiry, whatever later claims reap and take on the
\* way: no two workers hold unexpired leases on one job (README.md:186-187).
LiveLeaseIsCurrent ==
  \A l \in Lease :
    issued[l].until > clock =>
      LET row == jobs[issued[l].job] IN row.lease = l /\ row.until = issued[l].until

\* The history of a job explains its status: it starts with the submission, each
\* event leaves the status the one before it arrived at, and the last arrives at
\* the job's status, across reaping, retries and cancellation (PLAN.md:175).
Explains(es, j, status) ==
  LET mine == About(es, j) IN
  \E first, last \in mine :
    /\ \A n \in mine : first <= n /\ n <= last
    /\ es[first].type = "submitted" /\ es[first].from = "none"
    /\ es[last].to = status
    /\ \A m, n \in mine :
         m < n /\ (\A k \in mine : k <= m \/ n <= k) => es[n].from = es[m].to

HistoryReplays == \A j \in Stored : Explains(events, j, jobs[j].status)

\* attempts counts the claims since the last manual retry (PLAN.md:171).
Claims(es, j) ==
  LET mine == About(es, j)
  IN  {n \in mine : /\ es[n].type = "claimed"
                    /\ \A r \in mine : es[r].type = "manual_retry" => r < n}

AttemptsAreClaims == \A j \in Stored : jobs[j].attempts = Cardinality(Claims(events, j))

\* The store implements the contract without any delay: what an operation decides
\* by is the time at which it takes effect, so an expired lease is never renewed
\* or acknowledged (PLAN.md:167).  There, a row carries its key.
KeyOf(keys, j) == IF \E k \in Key : keys[k] = j THEN CHOOSE k \in Key : keys[k] = j
                  ELSE NoKey
Keyed(row, key) == IF row = NoRow THEN NoRow ELSE [row EXCEPT !.key = key]
KeyedJobs == [j \in Job |-> Keyed(jobs[j], KeyOf(idempotencyKeys, j))]
Contract == INSTANCE JobStore WITH jobs <- KeyedJobs, MaxSkew <- 0, Lag <- {0}
ImplementsContract == Contract!Spec

===============================================================================
