------------------------------ MODULE JobRecord ------------------------------
(* The job row that both stores keep (interface Job, table jobs), reduced to  *)
(* the columns some decision reads, and the row transformers behind the store *)
(* operations: what each UPDATE of PostgresJobStore, and each block of        *)
(* assignments of InMemoryJobStore, makes of one row.  Payloads, results and  *)
(* the audit timestamps are carried along unread by the code and left out.    *)
EXTENDS Integers

CONSTANTS Job,        \* job identifiers (randomUUID at submit)
          Lease,      \* lease identifiers (randomUUID at claim)
          Queue,      \* queue names
          Key,        \* idempotency keys
          NoRow, NoJob, NoLease, NoKey, NoTime,   \* SQL NULL / undefined
          RetryUnit,  \* first retry delay, 1_000 ms in the code
          RetryCap    \* largest retry delay, 30_000 ms in the code

ASSUME NullAssumption == /\ NoLease \notin Lease
                         /\ NoJob \notin Job
                         /\ NoKey \notin Key
                         /\ NoTime \notin Int
ASSUME RetryAssumption == RetryUnit \in Nat /\ RetryCap \in Nat

Status == {"delayed", "queued", "processing", "retrying", "cancel_requested",
           "completed", "cancelled", "dead_letter"}
Claimable == {"queued", "delayed", "retrying"}
Held == {"processing", "cancel_requested"}
Uncancellable == {"completed", "dead_letter"}

Row == [queue: Queue, key: Key \cup {NoKey}, priority: Int, created: Nat,
        status: Status, attempts: Nat, maxRetries: Nat, available: Nat,
        lease: Lease \cup {NoLease}, until: Nat]

ASSUME RowAssumption == NoRow \notin Row

\* A submit call: an absolute scheduleAt wins over a relative delayMs.
SubmitInput == [queue: Queue, key: Key \cup {NoKey}, priority: Int,
                maxRetries: Nat, scheduleAt: Nat \cup {NoTime}, delayMs: Int]

ResolveAvailableAt(input, now) ==
  IF input.scheduleAt # NoTime THEN input.scheduleAt
  ELSE IF input.delayMs > 0 THEN now + input.delayMs ELSE now

\* created_at is the database's clock, the status is decided on the caller's.
NewRow(input, created, now) ==
  [queue |-> input.queue, key |-> input.key, priority |-> input.priority,
   created |-> created,
   status |-> IF ResolveAvailableAt(input, now) > now THEN "delayed" ELSE "queued",
   attempts |-> 0, maxRetries |-> input.maxRetries,
   available |-> ResolveAvailableAt(input, now),
   lease |-> NoLease, until |-> 0]

Released(row, status) ==
  [row EXCEPT !.status = status, !.lease = NoLease, !.until = 0]

\* Mutant: reaping does not look at the expiry.
ExpiredAtOnce(row, now) == row.status \in Held

Expired(row, now) == row.status \in Held /\ row.until <= now

\* Mutant: reaping forgets to clear the lease columns.
ReapedStillLeased(row, now) ==
  [row EXCEPT !.status = IF @ = "cancel_requested" THEN "cancelled" ELSE "queued",
              !.available = now]

Reaped(row, now) ==
  [Released(row, IF row.status = "cancel_requested" THEN "cancelled" ELSE "queued")
     EXCEPT !.available = now]

Ready(row, queue, now) ==
  /\ row.queue = queue
  /\ row.status \in Claimable
  /\ row.available <= now

\* ORDER BY priority DESC, created_at ASC; equal rows come in either order.
NotAfter(a, b) ==
  \/ a.priority > b.priority
  \/ a.priority = b.priority /\ a.created <= b.created

Leased(row, lease, until) ==
  [row EXCEPT !.status = "processing", !.attempts = @ + 1,
              !.lease = lease, !.until = until]

\* Mutant: assertOwned compares the lease and its expiry only.
OwnedInAnyStatus(row, lease, now) == row.lease = lease /\ row.until > now

\* Mutant: assertOwned does not look at the expiry.
OwnedForEver(row, lease, now) == row.status \in Held /\ row.lease = lease

\* assertOwned with allowCancelRequested, the form complete and fail use.
Owned(row, lease, now) ==
  row.status \in Held /\ row.lease = lease /\ row.until > now

\* The WHERE clause of heartbeat, which a cancel request already refuses.
Renewable(row, lease, now) ==
  row.status = "processing" /\ row.lease = lease /\ row.until > now

Renewed(row, until) == [row EXCEPT !.until = until]

\* Mutant: an acknowledgement forgets to clear the lease columns.
CompletedStillLeased(row) ==
  [row EXCEPT !.status = IF @ = "cancel_requested" THEN "cancelled" ELSE "completed"]

Completed(row) ==
  Released(row, IF row.status = "cancel_requested" THEN "cancelled" ELSE "completed")

\* min(RetryUnit * 2^max(attempts - 1, 0), RetryCap)
RetryDelay(attempts) ==
  LET exponent == IF attempts > 1 THEN attempts - 1 ELSE 0
      delay == RetryUnit * 2^exponent
  IN  IF delay \in 0..RetryCap THEN delay ELSE RetryCap

\* Mutant: the retry budget is one short.
FailedOneShort(row, now) ==
  IF row.status = "cancel_requested" THEN Released(row, "cancelled")
  ELSE IF row.attempts < row.maxRetries
  THEN [Released(row, "retrying") EXCEPT !.available = now + RetryDelay(row.attempts)]
  ELSE Released(row, "dead_letter")

\* Mutant: the name of the event is stored as the status.
FailedAsTheEvent(row, now) ==
  IF row.attempts <= row.maxRetries
  THEN [Released(row, "retrying") EXCEPT !.available = now + RetryDelay(row.attempts)]
  ELSE Released(row, "failed")

Failed(row, now) ==
  IF row.status = "cancel_requested" THEN Released(row, "cancelled")
  ELSE IF row.attempts <= row.maxRetries
  THEN [Released(row, "retrying") EXCEPT !.available = now + RetryDelay(row.attempts)]
  ELSE Released(row, "dead_letter")

\* Neither branch touches the lease columns.
Cancelled(row) ==
  [row EXCEPT !.status = IF row.status = "processing"
                         THEN "cancel_requested" ELSE "cancelled"]

\* Mutant: a manual retry keeps the attempts that were used up.
RetriedKeepsAttempts(row, now) == [row EXCEPT !.status = "queued", !.available = now]

Retried(row, now) ==
  [row EXCEPT !.status = "queued", !.attempts = 0, !.available = now]
==============================================================================
