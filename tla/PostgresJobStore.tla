--------------------------- MODULE PostgresJobStore ---------------------------
(* PostgresJobStore, one step per SQL statement.  A session is one pooled     *)
(* connection inside one operation; the sessions are those of every API and   *)
(* worker process.  The database runs READ COMMITTED: a statement sees what   *)
(* is committed when it starts, a row that another transaction has written or *)
(* selected FOR UPDATE is waited for and looked at again, now() is the time   *)
(* of BEGIN.  Arguments that a caller chooses are bound at the statement that *)
(* first reads them, and two statements of a transaction are one step when    *)
(* the second touches only the row the first has locked.                      *)
EXTENDS JobRecord, Sequences

CONSTANTS Session, NoSession, NoQueue,
          SubmitInputs, Duration, MaxSkew,
          Operation,   \* the operations clients call in this instance
          MaxTime      \* bound on the clock

ASSUME SessionAssumption == NoSession \notin Session /\ NoQueue \notin Queue
ASSUME PgAssumption == /\ SubmitInputs \subseteq SubmitInput
                       /\ Duration \subseteq Nat
                       /\ MaxSkew \in Nat /\ MaxTime \in Nat
                       /\ Operation \subseteq {"submit", "claim", "heartbeat",
                              "complete", "fail", "cancel", "retry"}

VARIABLES jobs,    \* committed version of each row of table jobs
          draft,   \* newest version, equal to the committed one unless locked
          lock,    \* the transaction that holds the row, or NoSession
          queues,  \* committed rows of table queues
          txn,     \* the transaction each session is in
          issued,  \* what the holder of each lease was told: its job and expiry
          clock    \* the database's clock, in ms

vars == <<jobs, draft, lock, queues, txn, issued, clock>>

\* What a call will tell its caller about a lease when it commits; an expiry of
\* 0 is the end of the lease by its holder's own acknowledgement.
Silent == [lease |-> NoLease, job |-> NoJob, until |-> 0]
Tell(l, j, until) == [lease |-> l, job |-> j, until |-> until]

Idle == [op |-> "idle", pc |-> "idle", start |-> 0, queue |-> NoQueue,
         todo |-> {}, events |-> <<>>, told |-> Silent]
NotIssued == [job |-> NoJob, until |-> 0]

Stored == {j \in Job : jobs[j] # NoRow}
HeldBy(s) == {j \in Job : lock[j] = s}
Unlocked(j) == lock[j] = NoSession

\* Date.now() on the node that runs the operation.
CallerNow == {n \in 0..(clock + MaxSkew) : n + MaxSkew >= clock}

Event(type, job, from, to) == [type |-> type, job |-> job, from |-> from, to |-> to]

-------------------------------------------------------------------------------
At(s, op, pc) == txn[s].op = op /\ txn[s].pc = pc

Goto(s, pc) == txn' = [txn EXCEPT ![s].pc = pc]

\* Mutant: a write drops the events recorded earlier in the transaction.
WriteForgetsEvents(s, j, row, events, told) ==
  /\ lock' = [lock EXCEPT ![j] = s]
  /\ draft' = [draft EXCEPT ![j] = row]
  /\ txn' = [txn EXCEPT ![s].pc = "ready", ![s].events = events, ![s].told = told]

\* Lock row j and write its new version with the events that record the write;
\* only COMMIT is left.
Write(s, j, row, events, told) ==
  /\ lock' = [lock EXCEPT ![j] = s]
  /\ draft' = [draft EXCEPT ![j] = row]
  /\ txn' = [txn EXCEPT ![s].pc = "ready", ![s].events = @ \o events,
                        ![s].told = told]

\* Lock row j and look at it without writing.
LockOnly(s, j, pc) ==
  /\ lock' = [lock EXCEPT ![j] = s]
  /\ Goto(s, pc)
  /\ UNCHANGED draft

Committed == UNCHANGED <<jobs, queues, issued, clock>>

Init == /\ jobs = [j \in Job |-> NoRow]
        /\ draft = jobs
        /\ lock = [j \in Job |-> NoSession]
        /\ queues = {}
        /\ txn = [s \in Session |-> Idle]
        /\ issued = [l \in Lease |-> NotIssued]
        /\ clock = 0

Begin(s, op) ==
  /\ txn[s] = Idle
  /\ txn' = [txn EXCEPT ![s] = [Idle EXCEPT !.op = op, !.pc = "begun",
                                             !.start = clock]]
  /\ Committed /\ UNCHANGED <<draft, lock>>

-------------------------------------------------------------------------------
(* submit: the queue row, then the job row.  An INSERT that meets the same    *)
(* unique value in a transaction still open waits for it to end.              *)
Inserting(s) == {j \in HeldBy(s) : jobs[j] = NoRow}
Others(s) == Session \ {s}

QueueFree(s, q) == q \in queues \/ \A o \in Others(s) : txn[o].queue # q

\* Mutant: no unique index, the key is looked up among the committed rows only.
KeyAlwaysFree(s, k) == TRUE

KeyFree(s, k) ==
  k = NoKey \/ \A o \in Others(s) : \A j \in Inserting(o) : draft[j].key # k

\* Mutant: the early return for a known key leaves the transaction open.
SubmitDuplicateLeftOpen(s, input) ==
  /\ input.key # NoKey /\ \E j \in Stored : jobs[j].key = input.key
  /\ txn' = [txn EXCEPT ![s].pc = "returned", ![s].queue = input.queue]
  /\ UNCHANGED <<draft, lock>>

\* ON CONFLICT DO NOTHING returned no row: answer with the job that has the key.
SubmitDuplicate(s, input) ==
  /\ input.key # NoKey /\ \E j \in Stored : jobs[j].key = input.key
  /\ txn' = [txn EXCEPT ![s].pc = "ready", ![s].queue = input.queue]
  /\ UNCHANGED <<draft, lock>>

SubmitInsert(s, input) ==
  /\ ~(input.key # NoKey /\ \E j \in Stored : jobs[j].key = input.key)
  /\ \E j \in Job, n \in CallerNow :
       LET row == NewRow(input, txn[s].start, n) IN
       /\ draft[j] = NoRow
       /\ lock' = [lock EXCEPT ![j] = s]
       /\ draft' = [draft EXCEPT ![j] = row]
       /\ txn' = [txn EXCEPT ![s].pc = "ready", ![s].queue = input.queue,
                    ![s].events = <<Event("submitted", j, "none", row.status)>>]

Submit(s) ==
  /\ At(s, "submit", "begun")
  /\ \E input \in SubmitInputs :
       /\ QueueFree(s, input.queue) /\ KeyFree(s, input.key)
       /\ SubmitDuplicate(s, input) \/ SubmitInsert(s, input)
  /\ Committed

-------------------------------------------------------------------------------
(* claim: one UPDATE takes back every expired lease it sees, row by row, then *)
(* SELECT ... FOR UPDATE SKIP LOCKED takes the best row nobody holds.         *)

\* Mutant: the expiry is compared the wrong way round.
ReapScanUnexpired(s) ==
  /\ At(s, "claim", "begun")
  /\ txn' = [txn EXCEPT ![s].pc = "reaping",
               ![s].todo = {j \in Stored : /\ jobs[j].status \in Held
                                           /\ jobs[j].until > txn[s].start}]
  /\ Committed /\ UNCHANGED <<draft, lock>>

ReapScan(s) ==
  /\ At(s, "claim", "begun")
  /\ txn' = [txn EXCEPT ![s].pc = "reaping",
               ![s].todo = {j \in Stored : Expired(jobs[j], txn[s].start)}]
  /\ Committed /\ UNCHANGED <<draft, lock>>

ReapEvent(j, status) ==
  IF status = "cancelled" THEN Event("cancelled", j, "cancel_requested", status)
  ELSE Event("lease_expired", j, "processing", status)

\* Mutant: the row is not looked at again after the wait for it.
ExpiredWhenScanned(s, j) == TRUE

\* A row that changed while it was waited for stays locked but is not written.
StillExpired(s, j) == Expired(jobs[j], txn[s].start)

ReapRow(s, j) ==
  /\ At(s, "claim", "reaping")
  /\ j \in txn[s].todo /\ Unlocked(j)
  /\ lock' = [lock EXCEPT ![j] = s]
  /\ IF StillExpired(s, j)
     THEN LET row == Reaped(jobs[j], txn[s].start) IN
          /\ draft' = [draft EXCEPT ![j] = row]
          /\ txn' = [txn EXCEPT ![s].todo = @ \ {j},
                                ![s].events = Append(@, ReapEvent(j, row.status))]
     ELSE /\ UNCHANGED draft
          /\ txn' = [txn EXCEPT ![s].todo = @ \ {j}]
  /\ Committed

\* Mutant: the SELECT does not heed the locks of other claims.
CandidatesLockedToo(s, q) ==
  LET seen(j) == IF lock[j] = s THEN draft[j] ELSE jobs[j] IN
  {j \in Job : seen(j) # NoRow /\ q \in queues /\ Ready(seen(j), q, txn[s].start)}

Candidates(s, q) ==
  {j \in Job : /\ lock[j] \in {NoSession, s}
               /\ draft[j] # NoRow
               /\ q \in queues
               /\ Ready(draft[j], q, txn[s].start)}

Best(s, q) ==
  {j \in Candidates(s, q) : \A i \in Candidates(s, q) : NotAfter(draft[j], draft[i])}

\* Mutant: a lease id is used again once its job has lost it.
RecycledLease == {l \in Lease : \A j \in Job : draft[j] = NoRow \/ draft[j].lease # l}

\* randomUUID: an id that no committed or open claim has used.
FreshLease == {l \in Lease : /\ issued[l].job = NoJob
                             /\ \A j \in Job : draft[j] = NoRow \/ draft[j].lease # l}

ReapDone(s) == At(s, "claim", "reaping") /\ txn[s].todo = {}

ClaimLease(s) ==
  /\ ReapDone(s)
  /\ \E q \in Queue, l \in FreshLease, v \in Duration : \E j \in Best(s, q) :
       Write(s, j, Leased(draft[j], l, txn[s].start + v),
             <<Event("claimed", j, draft[j].status, "processing")>>,
             Tell(l, j, txn[s].start + v))
  /\ Committed

ClaimNothing(s) ==
  /\ ReapDone(s)
  /\ \E q \in Queue : Candidates(s, q) = {}
  /\ Goto(s, "ready")
  /\ Committed /\ UNCHANGED <<draft, lock>>

-------------------------------------------------------------------------------
(* The calls about one job.  A caller names any job and any lease: the one it  *)
(* holds, an old one, another job's, one never issued.  A refusal keeps its    *)
(* locks until the ROLLBACK that follows.                                      *)
NotFound(s) ==
  /\ txn[s].pc = "begun" /\ txn[s].op \notin {"submit", "claim"}
  /\ \E j \in Job : jobs[j] = NoRow
  /\ Goto(s, "failing")
  /\ Committed /\ UNCHANGED <<draft, lock>>

HeartbeatUpdate(s) ==
  /\ At(s, "heartbeat", "begun")
  /\ \E l \in Lease, j \in Stored, v \in Duration :
       /\ Renewable(jobs[j], l, txn[s].start) /\ Unlocked(j)
       /\ Write(s, j, Renewed(jobs[j], txn[s].start + v),
                <<Event("heartbeat", j, "processing", "processing")>>,
                Tell(l, j, txn[s].start + v))
  /\ Committed

\* The UPDATE's condition fails on the committed row: at once, or after a wait
\* for the row, which then stays locked.
Refuse(s, j) ==
  \/ Unlocked(j) /\ LockOnly(s, j, "failing")
  \/ Goto(s, "failing") /\ UNCHANGED <<draft, lock>>

HeartbeatRefused(s) ==
  /\ At(s, "heartbeat", "begun")
  /\ \E l \in Lease, j \in Stored :
       ~Renewable(jobs[j], l, txn[s].start) /\ Refuse(s, j)
  /\ Committed

\* Mutant: complete records a completion although the job was to be cancelled.
AckEventsByCall(op, j, old, new) ==
  IF op = "complete" THEN <<Event("completed", j, old.status, "completed")>>
  ELSE <<Event("failed", j, "processing", new.status),
         Event(IF new.status = "retrying" THEN "retry_scheduled" ELSE "dead_lettered",
               j, "processing", new.status)>>

AckEvents(op, j, old, new) ==
  IF new.status = "cancelled" THEN <<Event("cancelled", j, old.status, new.status)>>
  ELSE IF op = "complete" THEN <<Event("completed", j, old.status, new.status)>>
  ELSE <<Event("failed", j, "processing", new.status),
         Event(IF new.status = "retrying" THEN "retry_scheduled" ELSE "dead_lettered",
               j, "processing", new.status)>>

Acknowledged(op, row, start) ==
  IF op = "complete" THEN Completed(row) ELSE Failed(row, start)

\* complete and fail: SELECT ... FOR UPDATE, assertOwned, UPDATE.
Acknowledge(s) ==
  /\ txn[s].op \in {"complete", "fail"} /\ txn[s].pc = "begun"
  /\ \E l \in Lease, j \in Stored, n \in CallerNow :
       /\ Unlocked(j)
       /\ IF Owned(jobs[j], l, n)
          THEN LET row == Acknowledged(txn[s].op, jobs[j], txn[s].start) IN
               Write(s, j, row, AckEvents(txn[s].op, j, jobs[j], row), Tell(l, j, 0))
          ELSE LockOnly(s, j, "failing")
  /\ Committed

Cancel(s) ==
  /\ At(s, "cancel", "begun")
  /\ \E j \in Stored :
       /\ Unlocked(j)
       /\ CASE jobs[j].status = "cancelled" -> LockOnly(s, j, "ready")
            [] jobs[j].status \in Uncancellable -> LockOnly(s, j, "failing")
            [] OTHER ->
                 LET row == Cancelled(jobs[j]) IN
                 Write(s, j, row,
                       <<Event(row.status, j, jobs[j].status, row.status)>>, Silent)
  /\ Committed

RetryUpdate(s) ==
  /\ At(s, "retry", "begun")
  /\ \E j \in Stored :
       /\ jobs[j].status = "dead_letter" /\ Unlocked(j)
       /\ Write(s, j, Retried(jobs[j], txn[s].start),
                <<Event("manual_retry", j, "dead_letter", "queued")>>, Silent)
  /\ Committed

RetryRefused(s) ==
  /\ At(s, "retry", "begun")
  /\ \E j \in Stored : jobs[j].status # "dead_letter" /\ Refuse(s, j)
  /\ Committed

-------------------------------------------------------------------------------
Unlock(s) == lock' = [j \in Job |-> IF lock[j] = s THEN NoSession ELSE lock[j]]

Commit(s) ==
  /\ txn[s].pc = "ready"
  /\ jobs' = [j \in Job |-> IF lock[j] = s THEN draft[j] ELSE jobs[j]]
  /\ Unlock(s)
  /\ queues' = queues \cup ({txn[s].queue} \ {NoQueue})
  /\ issued' = [l \in Lease |->
                  IF txn[s].told.lease = l
                  THEN [job |-> txn[s].told.job, until |-> txn[s].told.until]
                  ELSE issued[l]]
  /\ txn' = [txn EXCEPT ![s] = Idle]
  /\ UNCHANGED <<draft, clock>>

Undo(s) ==
  /\ draft' = [j \in Job |-> IF lock[j] = s THEN jobs[j] ELSE draft[j]]
  /\ Unlock(s)
  /\ txn' = [txn EXCEPT ![s] = Idle]
  /\ Committed

Rollback(s) == txn[s].pc = "failing" /\ Undo(s)

\* The process or its connection is lost before COMMIT, or a statement fails.
Abort(s) == txn[s] # Idle /\ txn[s].pc # "failing" /\ Undo(s)

Tick == clock < MaxTime /\ clock' = clock + 1
        /\ UNCHANGED <<jobs, draft, lock, queues, txn, issued>>

Step(s) == \/ Submit(s)
           \/ ReapScan(s)
           \/ \E j \in Job : ReapRow(s, j)
           \/ ClaimLease(s)
           \/ ClaimNothing(s)
           \/ HeartbeatUpdate(s)
           \/ HeartbeatRefused(s)
           \/ Acknowledge(s)
           \/ Cancel(s)
           \/ RetryUpdate(s)
           \/ RetryRefused(s)
           \/ NotFound(s)
           \/ Commit(s)
           \/ Rollback(s)

Next == \/ \E s \in Session, op \in Operation : Begin(s, op)
        \/ \E s \in Session : Step(s)
        \/ \E s \in Session : Abort(s)
        \/ Tick

Spec == Init /\ [][Next]_vars

(* Fairness.  A process gets to its next statement, and a transaction that    *)
(* waits for a row is served in the order of arrival, which strong fairness   *)
(* of the step stands for.  Claims that wait for one another in a circle are  *)
(* found by the database after deadlock_timeout and one of them is aborted.   *)
Deadlocked(s) ==
  \E C \in SUBSET Session :
    /\ s \in C
    /\ \A c \in C : /\ At(c, "claim", "reaping") /\ txn[c].todo # {}
                    /\ \A j \in txn[c].todo : lock[j] \in C

DeadlockVictim(s) == Deadlocked(s) /\ Abort(s)

Progress == \A s \in Session : SF_vars(Step(s)) /\ WF_vars(DeadlockVictim(s))

\* Workers keep polling.
Polling == \A s \in Session : SF_vars(Begin(s, "claim"))

PollingSpec == Spec /\ Progress /\ Polling

-------------------------------------------------------------------------------
EventTypes == {"submitted", "claimed", "heartbeat", "lease_expired", "completed",
               "failed", "retry_scheduled", "dead_lettered", "cancel_requested",
               "cancelled", "manual_retry"}
EventRecord == [type: EventTypes, job: Job, from: Status \cup {"none"}, to: Status]

Txn == [op: Operation \cup {"idle"},
        pc: {"idle", "begun", "reaping", "ready", "failing"},
        start: Nat, queue: Queue \cup {NoQueue}, todo: SUBSET Job,
        events: Seq(EventRecord),
        told: [lease: Lease \cup {NoLease}, job: Job \cup {NoJob}, until: Nat]]

\* The variables hold rows, locks, transactions and issued leases.
TypeOK == /\ jobs \in [Job -> Row \cup {NoRow}]
          /\ draft \in [Job -> Row \cup {NoRow}]
          /\ lock \in [Job -> Session \cup {NoSession}]
          /\ queues \subseteq Queue
          /\ txn \in [Session -> Txn]
          /\ issued \in [Lease -> [job: Job \cup {NoJob}, until: Nat]]
          /\ clock \in Nat

\* While the expiry a lease holder was told lies ahead, the store agrees that it
\* holds the job: whatever other workers claim, reap, renew, acknowledge or
\* cancel meanwhile, its row carries that lease and that expiry.  So no two
\* workers hold unexpired leases on one job (README.md:186-187).
LiveLeaseIsCurrent ==
  \A l \in Lease :
    issued[l].until > clock =>
      LET row == jobs[issued[l].job] IN row.lease = l /\ row.until = issued[l].until

\* Concurrent submits with one idempotency key store one job (PLAN.md:170).
OneJobPerKey ==
  \A i, j \in Stored : jobs[i].key # NoKey /\ jobs[i].key = jobs[j].key => i = j

\* A job in a worker's hands has a lease that was issued for it and for no other
\* job, so it can be acknowledged or reaped; a job that can be claimed, has
\* completed or is dead-lettered has none left over from an earlier attempt.
HeldJobsAreLeased ==
  \A j \in Stored :
    /\ jobs[j].status \in Held => jobs[j].lease # NoLease
    /\ jobs[j].lease # NoLease =>
         /\ jobs[j].status \in Held \cup {"cancelled"}
         /\ issued[jobs[j].lease] = [job |-> j, until |-> jobs[j].until]

\* A failed job is scheduled again exactly while it has retries left, counting
\* the attempts that lease expiry and concurrent claims have added.
RetryBudgetDecides ==
  \A j \in Stored :
    /\ jobs[j].status = "retrying" => jobs[j].attempts <= jobs[j].maxRetries
    /\ jobs[j].status = "dead_letter" => jobs[j].attempts > jobs[j].maxRetries

\* No late acknowledgement, reap, cancel or claim moves a completed or cancelled
\* job again, and a dead-lettered one leaves only by a manual retry.
FinalJobsStay ==
  [][\A j \in Stored :
       /\ jobs[j].status \in {"completed", "cancelled"} => jobs'[j] = jobs[j]
       /\ jobs[j].status = "dead_letter" /\ jobs'[j] # jobs[j] =>
            jobs'[j].status = "queued" /\ jobs'[j].attempts = 0]_vars

\* A lease that has left its job's row, by reaping or acknowledgement, never
\* comes back: a stale worker's write cannot resurrect it.
LeaseNeverReturns ==
  [][\A l \in Lease :
       issued[l].job # NoJob /\ (\A j \in Stored : jobs[j].lease # l) =>
         \A j \in Job : jobs'[j] # NoRow => jobs'[j].lease # l]_vars

\* Where the events about job j stand among those of a transaction.
About(es, j) == {n \in DOMAIN es : es[n].job = j}
StatusOf(row) == IF row = NoRow THEN "none" ELSE row.status

\* A row changes only together with the events of the transaction that changes
\* it: the first starts from the status the row had when the change took
\* effect, the last arrives at the status it has now (README.md:191).
EventsTellTheChange ==
  [][\A j \in Job : jobs'[j] # jobs[j] =>
       \E s \in Session : LET es == txn[s].events IN
         /\ lock[j] = s
         /\ \E first, last \in About(es, j) :
              /\ \A n \in About(es, j) : first <= n /\ n <= last
              /\ es[first].from = StatusOf(jobs[j])
              /\ es[last].to = jobs'[j].status]_vars

\* A lease is renewed or given up by its holder only while it is on the job's row,
\* and only if it had not yet run out when the holder's call began, give or take
\* the skew of its clock: however long the call then waits for the row, a lease
\* that was over before, or that another worker has taken, is refused.
ActsOnLiveLease ==
  [][\A l \in Lease : issued[l].job # NoJob /\ issued'[l] # issued[l] =>
       LET row == jobs[issued[l].job] IN
       /\ row.lease = l
       /\ \E s \in Session : /\ lock[issued[l].job] = s
                             /\ row.until + MaxSkew > txn[s].start]_vars

\* The statements of concurrent transactions add up to operations that each
\* take effect at one instant, by a time their transaction has read before: now()
\* is the time of BEGIN, and a transaction may take any time.
Contract == INSTANCE JobStore WITH Lag <- Nat
ImplementsContract == Contract!Spec

\* No call hangs: whatever it waits for, a row, an idempotency key, another claim
\* that waits for it, the transaction ends.
EveryCallEnds == \A s \in Session : []<>(txn[s] = Idle)

\* A job whose worker vanished does not stay in its hands: once the lease has
\* run out, later claims take it back, although nothing but a claim ever does.
\* Crashes and deadlocks may abort claims, but not for ever (to abort and to
\* commit a claim that wrote nothing are the same step).
AbortsCease == <>[][\A s \in Session : Abort(s) => Commit(s)]_vars
ExpiredLeaseIsRecovered ==
  AbortsCease =>
    \A j \in Job : []<>~(j \in Stored /\ Expired(jobs[j], clock))

-------------------------------------------------------------------------------
(* Claims that the documents make and the code does not keep.                 *)

\* Cancellation is "cooperative during processing" (PLAN.md:174): a worker with
\* an unexpired lease is the one that ends its cancel_requested job.
CancelIsCooperative ==
  [][\A j \in Stored :
       jobs[j].status = "cancel_requested" /\ jobs[j].until > clock
       /\ jobs'[j].status # "cancel_requested" => jobs'[j].lease = NoLease]_vars

\* "Only the current, unexpired lease can heartbeat, complete, or fail a job"
\* (PLAN.md:167, docs/EXPLAIN.md:119): when a call writes the row on the strength of
\* a lease, that lease has not run out.
OnlyUnexpiredLeasesAct ==
  [][\A s \in Session, j \in Stored :
       /\ txn[s].op \in {"heartbeat", "complete", "fail"}
       /\ draft'[j] # draft[j] /\ lock'[j] = s
       => jobs[j].until > clock]_vars
===============================================================================
