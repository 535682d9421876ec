--------------------------- MODULE InMemoryProofs ---------------------------
(* InMemoryJobStore implements the contract, for any number of jobs, leases    *)
(* and keys: every method is an operation of JobStore, or changes nothing its  *)
(* callers can see.  The store keeps the idempotency keys beside the jobs and  *)
(* the contract in the rows; that the two agree is the invariant.              *)
EXTENDS InMemoryJobStore, JobRecordProofs, FiniteSetTheorems, SequenceTheorems

Types == /\ jobs \in [Job -> Row \cup {NoRow}]
         /\ idempotencyKeys \in [Key -> Job \cup {NoJob}]
         /\ issued \in [Lease -> [job: Job \cup {NoJob}, until: Nat]]
         /\ clock \in Nat

\* A key names a stored job, and no two keys name the same one.
KeysName == /\ \A k \in Key : idempotencyKeys[k] # NoJob => idempotencyKeys[k] \in Stored
            /\ \A k, m \in Key : idempotencyKeys[k] # NoJob
                                 /\ idempotencyKeys[k] = idempotencyKeys[m] => k = m

MemInv == Types /\ KeysName

LEMMA KeyOfType ==
  ASSUME NEW keys, NEW j
  PROVE  KeyOf(keys, j) \in Key \cup {NoKey}
  BY DEF KeyOf

LEMMA KeyOfIs ==
  ASSUME NEW keys, NEW j, NEW k \in Key, keys[k] = j,
         \A m \in Key : keys[m] = j => m = k
  PROVE  KeyOf(keys, j) = k
  BY DEF KeyOf

LEMMA KeyOfNone ==
  ASSUME NEW keys, NEW j, \A m \in Key : keys[m] # j
  PROVE  KeyOf(keys, j) = NoKey
  BY DEF KeyOf

-------------------------------------------------------------------------------
(* The row transformers do not look at the key                                 *)

LEMMA KeyedType ==
  ASSUME NEW row \in Row, NEW key \in Key \cup {NoKey}
  PROVE  /\ Keyed(row, key) \in Row /\ Keyed(row, key) = [row EXCEPT !.key = key]
         /\ row # NoRow /\ Keyed(row, key) # NoRow
  BY RowAssumption DEF Keyed, Row

LEMMA ReleasedKeyed ==
  ASSUME NEW row \in Row, NEW key \in Key \cup {NoKey}, NEW status \in Status \ Held
  PROVE  Released([row EXCEPT !.key = key], status) = [Released(row, status) EXCEPT !.key = key]
  BY DEF Released, Row

LEMMA ReapedKeyed ==
  ASSUME NEW row \in Row, NEW key \in Key \cup {NoKey}, NEW now \in Nat
  PROVE  Reaped(Keyed(row, key), now) = Keyed(Reaped(row, now), key)
<1> DEFINE status == IF row.status = "cancel_requested" THEN "cancelled" ELSE "queued"
           keyed == [row EXCEPT !.key = key]
<1>1. status \in Status \ Held
  BY DEF Status, Held
<1>2. keyed.status = row.status
  BY DEF Row
<1>3. Reaped(row, now) = [Released(row, status) EXCEPT !.available = now]
  BY DEF Reaped
<1>4. Reaped(keyed, now) = [Released(keyed, status) EXCEPT !.available = now]
  BY <1>2 DEF Reaped
<1> HIDE DEF status
<1>5. Released(keyed, status) = [Released(row, status) EXCEPT !.key = key]
  BY <1>1, ReleasedKeyed
<1>6. Released(row, status) \in Row
  BY <1>1, ReleasedType
<1>7. Keyed(row, key) = keyed
  BY KeyedType
<1>8. Keyed(Reaped(row, now), key) = [Reaped(row, now) EXCEPT !.key = key]
  BY ReapedType, KeyedType
<1> HIDE DEF keyed
<1> DEFINE released == Released(row, status)
<1>9. [[released EXCEPT !.key = key] EXCEPT !.available = now]
        = [[released EXCEPT !.available = now] EXCEPT !.key = key]
  BY <1>6 DEF Row
<1>10. QED
  BY <1>3, <1>4, <1>5, <1>7, <1>8, <1>9

LEMMA FailedKeyed ==
  ASSUME NEW row \in Row, NEW key \in Key \cup {NoKey}, NEW now \in Nat
  PROVE  Failed(Keyed(row, key), now) = Keyed(Failed(row, now), key)
<1> DEFINE keyed == [row EXCEPT !.key = key]
<1>1. /\ keyed.status = row.status /\ keyed.attempts = row.attempts
      /\ keyed.maxRetries = row.maxRetries
  BY DEF Row
<1>2. Keyed(row, key) = keyed
  BY KeyedType
<1>3. Keyed(Failed(row, now), key) = [Failed(row, now) EXCEPT !.key = key]
  BY FailedType, KeyedType
<1>4. {"cancelled", "retrying", "dead_letter"} \subseteq Status \ Held
  BY DEF Status, Held
<1>5. \A status \in {"cancelled", "retrying", "dead_letter"} :
        /\ Released(keyed, status) = [Released(row, status) EXCEPT !.key = key]
        /\ Released(row, status) \in Row
  BY <1>4, ReleasedKeyed, ReleasedType
<1> DEFINE when == now + RetryDelay(row.attempts)
<1>6. /\ Failed(row, now) = IF row.status = "cancel_requested" THEN Released(row, "cancelled")
                            ELSE IF row.attempts <= row.maxRetries
                            THEN [Released(row, "retrying") EXCEPT !.available = when]
                            ELSE Released(row, "dead_letter")
      /\ Failed(keyed, now) = IF row.status = "cancel_requested" THEN Released(keyed, "cancelled")
                              ELSE IF row.attempts <= row.maxRetries
                              THEN [Released(keyed, "retrying") EXCEPT !.available = when]
                              ELSE Released(keyed, "dead_letter")
  BY <1>1 DEF Failed
<1> HIDE DEF keyed, when
<1>7. [Released(keyed, "retrying") EXCEPT !.available = when]
        = [[Released(row, "retrying") EXCEPT !.available = when] EXCEPT !.key = key]
  BY <1>5 DEF Row
<1>8. Failed(keyed, now) = [Failed(row, now) EXCEPT !.key = key]
  BY <1>5, <1>6, <1>7
<1>9. QED
  BY <1>2, <1>3, <1>8

LEMMA CompletedKeyed ==
  ASSUME NEW row \in Row, NEW key \in Key \cup {NoKey}
  PROVE  Completed(Keyed(row, key)) = Keyed(Completed(row), key)
<1> DEFINE keyed == [row EXCEPT !.key = key]
           status == IF row.status = "cancel_requested" THEN "cancelled" ELSE "completed"
<1>1. status \in Status \ Held /\ keyed.status = row.status
  BY DEF Status, Held, Row
<1>2. Completed(row) = Released(row, status) /\ Completed(keyed) = Released(keyed, status)
  BY <1>1 DEF Completed
<1> HIDE DEF status
<1>3. Released(keyed, status) = [Released(row, status) EXCEPT !.key = key]
  BY <1>1, ReleasedKeyed
<1> HIDE DEF keyed
<1>4. QED
  BY <1>2, <1>3, CompletedType, KeyedType DEF keyed

LEMMA OthersKeyed ==
  ASSUME NEW row \in Row, NEW key \in Key \cup {NoKey}, NEW now \in Nat, NEW l \in Lease,
         NEW keyed, keyed = [row EXCEPT !.key = key]
  PROVE  /\ Leased(keyed, l, now) = [Leased(row, l, now) EXCEPT !.key = key]
         /\ Renewed(keyed, now) = [Renewed(row, now) EXCEPT !.key = key]
         /\ Cancelled(keyed) = [Cancelled(row) EXCEPT !.key = key]
         /\ Retried(keyed, now) = [Retried(row, now) EXCEPT !.key = key]
<1>1. Leased(keyed, l, now) = [Leased(row, l, now) EXCEPT !.key = key]
  BY DEF Leased, Row
<1>2. Renewed(keyed, now) = [Renewed(row, now) EXCEPT !.key = key]
  BY DEF Renewed, Row
<1>3. Cancelled(keyed) = [Cancelled(row) EXCEPT !.key = key]
  BY DEF Cancelled, Row
<1>4. Retried(keyed, now) = [Retried(row, now) EXCEPT !.key = key]
  BY DEF Retried, Row
<1>5. QED
  BY <1>1, <1>2, <1>3, <1>4

-------------------------------------------------------------------------------
(* The contract is instantiated, so its operators have names of their own; they *)
(* are the same ones.                                                          *)

LEMMA SameOperators ==
  /\ \A row, now : /\ Contract!Expired(row, now) = Expired(row, now)
                   /\ Contract!Reaped(row, now) = Reaped(row, now)
                   /\ Contract!Renewed(row, now) = Renewed(row, now)
                   /\ Contract!Failed(row, now) = Failed(row, now)
                   /\ Contract!Retried(row, now) = Retried(row, now)
  /\ \A row : /\ Contract!Completed(row) = Completed(row)
              /\ Contract!Cancelled(row) = Cancelled(row)
  /\ \A row, x, now : /\ Contract!Ready(row, x, now) = Ready(row, x, now)
                      /\ Contract!Leased(row, x, now) = Leased(row, x, now)
                      /\ Contract!Renewable(row, x, now) = Renewable(row, x, now)
  /\ \A input, created, now :
       Contract!NewRow(input, created, now) = NewRow(input, created, now)
<1>1. \A row, status : Contract!Released(row, status) = Released(row, status)
  BY DEF Contract!Released, Released
<1>2. \A row, now : /\ Contract!Expired(row, now) = Expired(row, now)
                   /\ Contract!Reaped(row, now) = Reaped(row, now)
                   /\ Contract!Renewed(row, now) = Renewed(row, now)
                   /\ Contract!Retried(row, now) = Retried(row, now)
  BY <1>1 DEF Contract!Expired, Expired, Contract!Held, Held, Contract!Reaped, Reaped,
              Contract!Renewed, Renewed, Contract!Retried, Retried
<1>3. \A n : Contract!RetryDelay(n) = RetryDelay(n)
  BY DEF Contract!RetryDelay, RetryDelay
<1>4. \A row, now : Contract!Failed(row, now) = Failed(row, now)
  BY <1>1, <1>3 DEF Contract!Failed, Failed
<1>5. \A row : /\ Contract!Completed(row) = Completed(row)
              /\ Contract!Cancelled(row) = Cancelled(row)
  BY <1>1 DEF Contract!Completed, Completed, Contract!Cancelled, Cancelled
<1>6. \A row, x, now : /\ Contract!Ready(row, x, now) = Ready(row, x, now)
                      /\ Contract!Leased(row, x, now) = Leased(row, x, now)
                      /\ Contract!Renewable(row, x, now) = Renewable(row, x, now)
  BY DEF Contract!Ready, Ready, Contract!Claimable, Claimable, Contract!Leased, Leased,
         Contract!Renewable, Renewable
<1>7. \A input, created, now :
        Contract!NewRow(input, created, now) = NewRow(input, created, now)
  BY DEF Contract!NewRow, NewRow, Contract!ResolveAvailableAt, ResolveAvailableAt
<1>8. QED
  BY <1>2, <1>4, <1>5, <1>6, <1>7

-------------------------------------------------------------------------------
(* The invariant, and what a step does to the rows as the contract sees them    *)

Terms == [Lease -> [job: Job \cup {NoJob}, until: Nat]]

\* Rows as the contract sees them, under the keys of this state.
KeyedRows(rows) == [j \in Job |-> Keyed(rows[j], KeyOf(idempotencyKeys, j))]

LEMMA MemInit == Init => MemInv
<1> SUFFICES ASSUME Init PROVE MemInv
  OBVIOUS
<1>1. Types
  BY DEF Init, Types
<1>2. \A k \in Key : idempotencyKeys[k] = NoJob
  BY DEF Init
<1>3. QED
  BY <1>1, <1>2 DEF MemInv, KeysName

LEMMA SameStored ==
  ASSUME Types
  PROVE  Contract!Stored = Stored
<1>1. \A j \in Job : KeyedJobs[j] # NoRow <=> jobs[j] # NoRow
  <2> TAKE j \in Job
  <2>1. KeyedJobs[j] = Keyed(jobs[j], KeyOf(idempotencyKeys, j))
    BY DEF KeyedJobs
  <2>2. jobs[j] = NoRow => KeyedJobs[j] = NoRow
    BY <2>1 DEF Keyed
  <2>3. jobs[j] # NoRow => jobs[j] \in Row
    BY DEF Types
  <2>4. jobs[j] \in Row => KeyedJobs[j] # NoRow
    BY <2>1, KeyOfType, KeyedType
  <2>5. QED
    BY <2>2, <2>3, <2>4
<1>2. QED
  BY <1>1 DEF Contract!Stored, Stored

\* A step that rewrites stored rows only keeps the invariant.
LEMMA RowsKeep ==
  ASSUME MemInv, NEW rows \in [Job -> Row \cup {NoRow}],
         \A j \in Stored : rows[j] # NoRow,
         jobs' = rows, issued' \in Terms, UNCHANGED <<idempotencyKeys, clock>>
  PROVE  MemInv' /\ KeyedJobs' = KeyedRows(rows)
<1>1. Types'
  BY DEF MemInv, Types, Terms
<1>2. \A j \in Stored : j \in Stored'
  BY DEF Stored
<1>3. KeysName'
  BY <1>2 DEF MemInv, KeysName
<1>4. KeyedJobs' = KeyedRows(rows)
  BY DEF KeyedJobs, KeyedRows
<1>5. QED
  BY <1>1, <1>3, <1>4 DEF MemInv

LEMMA OneRow ==
  ASSUME MemInv, NEW j \in Stored, NEW row \in Row,
         jobs' = [jobs EXCEPT ![j] = row], issued' \in Terms,
         UNCHANGED <<idempotencyKeys, clock>>
  PROVE  /\ MemInv'
         /\ KeyedJobs' = [KeyedJobs EXCEPT ![j] = Keyed(row, KeyOf(idempotencyKeys, j))]
<1> DEFINE rows == [jobs EXCEPT ![j] = row]
<1>1. rows \in [Job -> Row \cup {NoRow}] /\ \A i \in Stored : rows[i] # NoRow
  BY RowAssumption DEF MemInv, Types, Stored
<1>2. KeyedRows(rows) = [KeyedJobs EXCEPT ![j] = Keyed(row, KeyOf(idempotencyKeys, j))]
  BY DEF KeyedRows, KeyedJobs, MemInv, Types, Stored
<1> HIDE DEF rows
<1>3. jobs' = rows
  BY DEF rows
<1>4. QED
  BY <1>1, <1>2, <1>3, RowsKeep

\* A stored row, and the same row under its key.
LEMMA StoredRow ==
  ASSUME MemInv, NEW j \in Stored
  PROVE  /\ j \in Job /\ jobs[j] \in Row /\ j \in Contract!Stored
         /\ KeyOf(idempotencyKeys, j) \in Key \cup {NoKey}
         /\ KeyedJobs[j] = Keyed(jobs[j], KeyOf(idempotencyKeys, j))
         /\ KeyedJobs[j] = [jobs[j] EXCEPT !.key = KeyOf(idempotencyKeys, j)]
<1>1. j \in Job /\ jobs[j] \in Row
  BY DEF MemInv, Types, Stored
<1>2. j \in Contract!Stored
  BY SameStored DEF MemInv
<1>3. KeyOf(idempotencyKeys, j) \in Key \cup {NoKey}
  BY KeyOfType
<1>4. KeyedJobs[j] = Keyed(jobs[j], KeyOf(idempotencyKeys, j))
  BY <1>1 DEF KeyedJobs
<1>5. QED
  BY <1>1, <1>2, <1>3, <1>4, KeyedType

-------------------------------------------------------------------------------
(* Each method is an operation of the contract                                  *)

\* A method reads the clock when it takes effect.
LEMMA TimeIsRead ==
  ASSUME clock \in Nat
  PROVE  clock \in Contract!TimeRead /\ clock \in Contract!CallerTimeRead
<1>1. clock \in 0..clock /\ clock - clock = 0 /\ 0 \in (-0)..0 /\ clock + 0 = clock
  OBVIOUS
<1>2. clock \in Contract!TimeRead
  BY <1>1 DEF Contract!TimeRead
<1>3. QED
  BY <1>1, <1>2 DEF Contract!CallerTimeRead

LEMMA HeartbeatStep ==
  ASSUME MemInv, NEW j \in Stored, NEW l \in Lease, NEW v \in Duration, Heartbeat(j, l, v)
  PROVE  MemInv' /\ Contract!Next
<1> DEFINE key == KeyOf(idempotencyKeys, j)
           t == clock + v
           row == Renewed(jobs[j], t)
<1>1. jobs[j] \in Row /\ j \in Contract!Stored /\ key \in Key \cup {NoKey}
      /\ KeyedJobs[j] = [jobs[j] EXCEPT !.key = key] /\ j \in Job
  BY StoredRow
<1>2. clock \in Nat /\ v \in Nat /\ t \in Nat /\ clock \in Contract!TimeRead
  BY MemoryAssumption DEF MemInv, Types, Contract!TimeRead
<1>3. row \in Row
  BY <1>1, <1>2 DEF Renewed, Row
<1>4. Renewed(KeyedJobs[j], t) = [row EXCEPT !.key = key]
  BY <1>1, <1>2, OthersKeyed
<1>5. Keyed(row, key) = [row EXCEPT !.key = key]
  BY <1>1, <1>3, KeyedType
<1>6. Renewable(KeyedJobs[j], l, clock)
  BY <1>1 DEF Heartbeat, Renewable, Row
<1>7. /\ jobs' = [jobs EXCEPT ![j] = row] /\ issued' = [issued EXCEPT ![l].until = t]
      /\ UNCHANGED <<idempotencyKeys, clock>>
  BY <1>1 DEF Heartbeat, MemInv, Types
<1>8. issued' \in Terms
  BY <1>2, <1>7 DEF Terms, MemInv, Types
<1>9. MemInv' /\ KeyedJobs' = [KeyedJobs EXCEPT ![j] = Keyed(row, key)]
  BY <1>3, <1>7, <1>8, OneRow
<1> HIDE DEF row, key, t
<1>10. KeyedJobs' = [KeyedJobs EXCEPT ![j] = Renewed(KeyedJobs[j], t)]
  BY <1>4, <1>5, <1>9
<1>11. Contract!Heartbeat(j, l, clock, v)
  BY <1>6, <1>7, <1>10, SameOperators DEF Contract!Heartbeat, KeyedJobs, t
<1>12. QED
  BY <1>1, <1>2, <1>9, <1>11 DEF Contract!Next, Contract!HeartbeatAny

LEMMA AcknowledgeStep ==
  ASSUME MemInv, NEW j \in Stored, NEW l \in Lease, NEW row \in Row, NEW es,
         Acknowledge(j, l, row, es), NEW keyed,
         keyed = Keyed(row, KeyOf(idempotencyKeys, j))
  PROVE  MemInv' /\ Contract!Acknowledge(j, l, keyed)
<1> DEFINE key == KeyOf(idempotencyKeys, j)
<1>1. jobs[j] \in Row /\ j \in Contract!Stored /\ key \in Key \cup {NoKey}
      /\ KeyedJobs[j] = [jobs[j] EXCEPT !.key = key] /\ j \in Job
  BY StoredRow
<1>2. /\ jobs' = [jobs EXCEPT ![j] = row] /\ issued' = [issued EXCEPT ![l].until = 0]
      /\ UNCHANGED <<idempotencyKeys, clock>>
  BY DEF Acknowledge
<1>3. issued' \in Terms
  BY <1>2 DEF Terms, MemInv, Types
<1>4. MemInv' /\ KeyedJobs' = [KeyedJobs EXCEPT ![j] = keyed]
  BY <1>2, <1>3, OneRow
<1>5. Contract!Owned(KeyedJobs[j], l, clock)
  BY <1>1 DEF Acknowledge, Owned, Row, Held, Contract!Owned, Contract!Held
<1>6. clock \in Contract!CallerTimeRead
  BY TimeIsRead DEF MemInv, Types
<1>7. QED
  BY <1>2, <1>4, <1>5, <1>6 DEF Contract!Acknowledge

LEMMA CompleteStep ==
  ASSUME MemInv, NEW j \in Stored, NEW l \in Lease, Complete(j, l)
  PROVE  MemInv' /\ Contract!Next
<1> DEFINE key == KeyOf(idempotencyKeys, j)
           row == Completed(jobs[j])
<1>1. jobs[j] \in Row /\ j \in Contract!Stored /\ key \in Key \cup {NoKey}
      /\ KeyedJobs[j] = Keyed(jobs[j], key)
  BY StoredRow
<1>2. row \in Row
  BY <1>1, CompletedType
<1>3. Completed(KeyedJobs[j]) = Keyed(row, key)
  BY <1>1, CompletedKeyed
<1>4. PICK es : Acknowledge(j, l, row, es)
  BY DEF Complete
<1> HIDE DEF row
<1>5. MemInv' /\ Contract!Acknowledge(j, l, Keyed(row, key))
  BY <1>2, <1>4, AcknowledgeStep
<1>6. Contract!Complete(j, l)
  BY <1>3, <1>5, SameOperators DEF Contract!Complete
<1>7. QED
  BY <1>1, <1>5, <1>6 DEF Contract!Next

LEMMA FailStep ==
  ASSUME MemInv, NEW j \in Stored, NEW l \in Lease, Fail(j, l)
  PROVE  MemInv' /\ Contract!Next
<1> DEFINE key == KeyOf(idempotencyKeys, j)
           row == Failed(jobs[j], clock)
<1>1. jobs[j] \in Row /\ j \in Contract!Stored /\ key \in Key \cup {NoKey}
      /\ KeyedJobs[j] = Keyed(jobs[j], key)
  BY StoredRow
<1>2. clock \in Nat /\ clock \in Contract!TimeRead
  BY DEF MemInv, Types, Contract!TimeRead
<1>3. row \in Row
  BY <1>1, <1>2, FailedType
<1>4. Failed(KeyedJobs[j], clock) = Keyed(row, key)
  BY <1>1, <1>2, FailedKeyed
<1>5. PICK es : Acknowledge(j, l, row, es)
  BY DEF Fail
<1> HIDE DEF row
<1>6. MemInv' /\ Contract!Acknowledge(j, l, Keyed(row, key))
  BY <1>3, <1>5, AcknowledgeStep
<1>7. Contract!Fail(j, l, clock)
  BY <1>4, <1>6, SameOperators DEF Contract!Fail
<1>8. QED
  BY <1>1, <1>2, <1>6, <1>7 DEF Contract!Next, Contract!FailAny

LEMMA CancelStep ==
  ASSUME MemInv, NEW j \in Stored, Cancel(j)
  PROVE  MemInv' /\ Contract!Next
<1> DEFINE key == KeyOf(idempotencyKeys, j)
           row == Cancelled(jobs[j])
<1>1. jobs[j] \in Row /\ j \in Contract!Stored /\ key \in Key \cup {NoKey}
      /\ KeyedJobs[j] = [jobs[j] EXCEPT !.key = key] /\ j \in Job
  BY StoredRow
<1>2. row \in Row
  BY <1>1 DEF Cancelled, Row, Status
<1>3. Cancelled(KeyedJobs[j]) = [row EXCEPT !.key = key]
  BY <1>1 DEF Cancelled, Row
<1>4. Keyed(row, key) = [row EXCEPT !.key = key]
  BY <1>1, <1>2, KeyedType
<1>5. KeyedJobs[j].status \notin Contract!Uncancellable /\ KeyedJobs[j].status # "cancelled"
  BY <1>1 DEF Cancel, Row, Uncancellable, Contract!Uncancellable
<1>6. jobs' = [jobs EXCEPT ![j] = row] /\ UNCHANGED <<idempotencyKeys, clock, issued>>
  BY DEF Cancel
<1>7. issued' \in Terms
  BY <1>6 DEF Terms, MemInv, Types
<1>8. MemInv' /\ KeyedJobs' = [KeyedJobs EXCEPT ![j] = Keyed(row, key)]
  BY <1>2, <1>6, <1>7, OneRow
<1> HIDE DEF row, key
<1>9. KeyedJobs' = [KeyedJobs EXCEPT ![j] = Cancelled(KeyedJobs[j])]
  BY <1>3, <1>4, <1>8
<1>10. Contract!Cancel(j)
  BY <1>5, <1>6, <1>9, SameOperators DEF Contract!Cancel, KeyedJobs
<1>11. QED
  BY <1>1, <1>8, <1>10 DEF Contract!Next

LEMMA RetryStep ==
  ASSUME MemInv, NEW j \in Stored, Retry(j)
  PROVE  MemInv' /\ Contract!Next
<1> DEFINE key == KeyOf(idempotencyKeys, j)
           row == Retried(jobs[j], clock)
<1>1. jobs[j] \in Row /\ j \in Contract!Stored /\ key \in Key \cup {NoKey}
      /\ KeyedJobs[j] = [jobs[j] EXCEPT !.key = key] /\ j \in Job
  BY StoredRow
<1>2. clock \in Nat /\ clock \in Contract!TimeRead
  BY DEF MemInv, Types, Contract!TimeRead
<1>3. row \in Row
  BY <1>1, <1>2 DEF Retried, Row, Status
<1>4. Retried(KeyedJobs[j], clock) = [row EXCEPT !.key = key]
  BY <1>1 DEF Retried, Row
<1>5. Keyed(row, key) = [row EXCEPT !.key = key]
  BY <1>1, <1>3, KeyedType
<1>6. KeyedJobs[j].status = "dead_letter"
  BY <1>1 DEF Retry, Row
<1>7. jobs' = [jobs EXCEPT ![j] = row] /\ UNCHANGED <<idempotencyKeys, clock, issued>>
  BY DEF Retry
<1>8. issued' \in Terms
  BY <1>7 DEF Terms, MemInv, Types
<1>9. MemInv' /\ KeyedJobs' = [KeyedJobs EXCEPT ![j] = Keyed(row, key)]
  BY <1>3, <1>7, <1>8, OneRow
<1> HIDE DEF row, key
<1>10. KeyedJobs' = [KeyedJobs EXCEPT ![j] = Retried(KeyedJobs[j], clock)]
  BY <1>4, <1>5, <1>9
<1>11. Contract!Retry(j, clock)
  BY <1>6, <1>7, <1>10, SameOperators DEF Contract!Retry
<1>12. QED
  BY <1>1, <1>2, <1>9, <1>11 DEF Contract!Next

\* Reaping every expired job now is one of the contract's choices.
LEMMA ReapKeyed ==
  ASSUME MemInv
  PROVE  /\ AfterReap \in [Job -> Row \cup {NoRow}]
         /\ \A j \in Stored : AfterReap[j] \in Row
         /\ KeyedRows(AfterReap) = Contract!AfterReap(ExpiredJobs, clock)
         /\ ExpiredJobs \subseteq Contract!Stored /\ clock \in Contract!TimeRead
         /\ \A j \in ExpiredJobs : Contract!Expired(KeyedJobs[j], clock)
<1>1. clock \in Nat /\ clock \in Contract!TimeRead
  BY DEF MemInv, Types, Contract!TimeRead
<1>2. /\ ExpiredJobs \subseteq Stored
      /\ \A j \in Stored : jobs[j] \in Row /\ Reaped(jobs[j], clock) \in Row
  BY <1>1, StoredRow, ReapedType DEF ExpiredJobs
<1>3. AfterReap \in [Job -> Row \cup {NoRow}] /\ \A j \in Stored : AfterReap[j] \in Row
  BY <1>2 DEF AfterReap, MemInv, Types, Stored
<1>4. ExpiredJobs \subseteq Contract!Stored
  BY <1>2, StoredRow
<1>5. \A j \in ExpiredJobs : Contract!Expired(KeyedJobs[j], clock)
  <2> TAKE j \in ExpiredJobs
  <2>1. jobs[j] \in Row /\ KeyedJobs[j] = [jobs[j] EXCEPT !.key = KeyOf(idempotencyKeys, j)]
    BY <1>2, StoredRow
  <2>2. Expired(KeyedJobs[j], clock)
    BY <2>1 DEF ExpiredJobs, Expired, Row
  <2>3. QED
    BY <2>2, SameOperators
<1>6. \A j \in Job : Keyed(AfterReap[j], KeyOf(idempotencyKeys, j))
                     = IF j \in ExpiredJobs THEN Contract!Reaped(KeyedJobs[j], clock)
                       ELSE KeyedJobs[j]
  <2> TAKE j \in Job
  <2> DEFINE key == KeyOf(idempotencyKeys, j)
  <2>1. KeyedJobs[j] = Keyed(jobs[j], key)
    BY DEF KeyedJobs
  <2>2. CASE j \in ExpiredJobs
    <3>1. AfterReap[j] = Reaped(jobs[j], clock) /\ jobs[j] \in Row
      BY <1>2, <2>2 DEF AfterReap
    <3>2. key \in Key \cup {NoKey}
      BY KeyOfType
    <3> HIDE DEF key
    <3>3. Reaped(KeyedJobs[j], clock) = Keyed(AfterReap[j], key)
      BY <1>1, <2>1, <3>1, <3>2, ReapedKeyed
    <3>4. QED
      BY <2>2, <3>3, SameOperators DEF key
  <2>3. CASE j \notin ExpiredJobs
    BY <2>1, <2>3 DEF AfterReap
  <2>4. QED
    BY <2>2, <2>3
<1>7. KeyedRows(AfterReap) = Contract!AfterReap(ExpiredJobs, clock)
  BY <1>6 DEF KeyedRows, Contract!AfterReap
<1>8. QED
  BY <1>1, <1>3, <1>4, <1>5, <1>7

LEMMA ClaimNothingStep ==
  ASSUME MemInv, NEW q \in Queue, ClaimNothing(q)
  PROVE  MemInv' /\ Contract!Next
<1>1. issued' \in Terms /\ jobs' = AfterReap
      /\ UNCHANGED <<idempotencyKeys, clock, issued>>
  BY DEF ClaimNothing, Terms, MemInv, Types
<1>2. \A j \in Stored : AfterReap[j] # NoRow
  BY ReapKeyed, RowAssumption
<1>3. MemInv' /\ KeyedJobs' = KeyedRows(AfterReap)
  BY <1>1, <1>2, ReapKeyed, RowsKeep
<1>4. Contract!ClaimNothing(ExpiredJobs, clock)
  BY <1>1, <1>3, ReapKeyed DEF Contract!ClaimNothing
<1>5. QED
  BY <1>3, <1>4, ReapKeyed DEF Contract!Next, Contract!Reap

LEMMA ClaimJobStep ==
  ASSUME MemInv, NEW q \in Queue, NEW l \in Lease, NEW v \in Duration, ClaimJob(q, l, v)
  PROVE  MemInv' /\ Contract!Next
<1>1. PICK j \in First(ReadyJobs(q)) :
        /\ jobs' = [AfterReap EXCEPT ![j] = Leased(@, l, clock + v)]
        /\ issued' = [issued EXCEPT ![l] = [job |-> j, until |-> clock + v]]
  BY DEF ClaimJob
<1>2. j \in Stored /\ Ready(AfterReap[j], q, clock) /\ l \in FreshLease
      /\ UNCHANGED <<idempotencyKeys, clock>>
  BY DEF First, ReadyJobs, ClaimJob
<1> DEFINE key == KeyOf(idempotencyKeys, j)
           t == clock + v
           row == Leased(AfterReap[j], l, t)
           rows == [AfterReap EXCEPT ![j] = row]
           reaped == Contract!AfterReap(ExpiredJobs, clock)
<1>3. j \in Job /\ j \in Contract!Stored /\ key \in Key \cup {NoKey}
  BY <1>2, StoredRow
<1>4. v \in Nat /\ clock \in Nat /\ t \in Nat
  BY MemoryAssumption DEF MemInv, Types
<1>5. AfterReap[j] \in Row
  BY <1>2, ReapKeyed
<1> HIDE DEF t, key
<1>6. row \in Row
  BY <1>4, <1>5, LeasedType
<1>7. reaped[j] = Keyed(AfterReap[j], key) /\ reaped \in [Job -> Row \cup {NoRow}]
  <2>1. reaped = KeyedRows(AfterReap)
    BY ReapKeyed
  <2>2. \A i \in Job : Keyed(AfterReap[i], KeyOf(idempotencyKeys, i)) \in Row \cup {NoRow}
    <3> TAKE i \in Job
    <3>1. AfterReap[i] \in Row \cup {NoRow}
      BY ReapKeyed
    <3>2. AfterReap[i] \in Row => Keyed(AfterReap[i], KeyOf(idempotencyKeys, i)) \in Row
      BY KeyOfType, KeyedType
    <3>3. AfterReap[i] = NoRow => Keyed(AfterReap[i], KeyOf(idempotencyKeys, i)) = NoRow
      BY DEF Keyed
    <3>4. QED
      BY <3>1, <3>2, <3>3
  <2> HIDE DEF reaped
  <2>3. QED
    BY <1>3, <2>1, <2>2 DEF KeyedRows, key
<1>8. reaped[j] = [AfterReap[j] EXCEPT !.key = key]
  BY <1>3, <1>5, <1>7, KeyedType
<1>9. Leased(reaped[j], l, t) = Keyed(row, key)
  <2>1. Leased(reaped[j], l, t) = [row EXCEPT !.key = key]
    BY <1>3, <1>4, <1>5, <1>8, OthersKeyed
  <2>2. QED
    BY <1>3, <1>6, <2>1, KeyedType
<1>10. Contract!Ready(reaped[j], KeyedJobs[j].queue, clock)
  <2>1. KeyedJobs[j].queue = jobs[j].queue /\ jobs[j] \in Row
    BY <1>2, StoredRow DEF Row
  <2>2. AfterReap[j].queue = jobs[j].queue
    BY <1>3, <2>1 DEF AfterReap, Reaped, Released, Row
  <2>3. /\ reaped[j].queue = AfterReap[j].queue /\ reaped[j].status = AfterReap[j].status
        /\ reaped[j].available = AfterReap[j].available
    BY <1>5, <1>8 DEF Row
  <2> HIDE DEF reaped
  <2>4. Ready(reaped[j], KeyedJobs[j].queue, clock)
    BY <1>2, <2>1, <2>2, <2>3 DEF Ready
  <2>5. QED
    BY <2>4, SameOperators
<1>11. rows \in [Job -> Row \cup {NoRow}] /\ \A i \in Stored : rows[i] # NoRow
  <2> HIDE DEF row
  <2>1. \A i \in Stored : i \in Job /\ AfterReap[i] # NoRow
    BY ReapKeyed, RowAssumption DEF Stored
  <2>2. QED
    BY <1>3, <1>6, <2>1, ReapKeyed, RowAssumption
<1>12. KeyedRows(rows) = [reaped EXCEPT ![j] = Keyed(row, key)]
  <2> HIDE DEF row
  <2>1. reaped = KeyedRows(AfterReap)
    BY ReapKeyed
  <2>2. KeyedRows(rows) = [KeyedRows(AfterReap) EXCEPT ![j] = Keyed(row, key)]
    BY <1>3, ReapKeyed DEF KeyedRows, key
  <2>3. QED
    BY <2>1, <2>2
<1>13. issued' \in Terms
  BY <1>1, <1>3, <1>4 DEF Terms, MemInv, Types, t
<1>14. jobs' = rows
  BY <1>1, <1>3, ReapKeyed DEF t
<1> HIDE DEF rows, row
<1>15. MemInv' /\ KeyedJobs' = KeyedRows(rows)
  BY <1>2, <1>11, <1>13, <1>14, RowsKeep
<1>16. l \in Contract!Fresh
  BY <1>2 DEF FreshLease, Contract!Fresh
<1>17. KeyedJobs' = [reaped EXCEPT ![j] = Leased(reaped[j], l, t)]
  BY <1>9, <1>12, <1>15
<1>18. \A i \in ExpiredJobs : Contract!Expired(KeyedJobs[i], clock)
  BY ReapKeyed
<1>19. Contract!Claim(ExpiredJobs, clock, j, l, v)
  <2> HIDE DEF reaped
  <2>1. KeyedJobs' = [reaped EXCEPT ![j] = Contract!Leased(@, l, t)]
    BY <1>3, <1>7, <1>17, SameOperators
  <2>2. issued' = [issued EXCEPT ![l] = [job |-> j, until |-> t]]
    BY <1>1 DEF t
  <2>3. QED
    BY <1>2, <1>3, <1>10, <1>16, <1>18, <2>1, <2>2 DEF Contract!Claim, reaped, t
<1>20. QED
  BY <1>3, <1>15, <1>19, ReapKeyed DEF Contract!Next, Contract!ClaimAny

\* The new job goes under its key, and no other job changes its key.
LEMMA SubmitKeys ==
  ASSUME MemInv, NEW j \in Job, NEW input \in SubmitInputs, Submit(j, input)
  PROVE  /\ KeyOf(idempotencyKeys', j) = input.key
         /\ \A i \in Job \ {j} : KeyOf(idempotencyKeys', i) = KeyOf(idempotencyKeys, i)
         /\ KeysName' /\ idempotencyKeys' \in [Key -> Job \cup {NoJob}]
<1> DEFINE key == input.key
<1>1. key \in Key \cup {NoKey} /\ j \notin Stored /\ ~Known(key)
  BY MemoryAssumption DEF SubmitInput, Submit
<1>2. idempotencyKeys' = [k \in Key |-> IF k = key THEN j ELSE idempotencyKeys[k]]
  BY DEF Submit
<1> HIDE DEF key
<1>3. \A k \in Key : idempotencyKeys[k] # j
  BY <1>1, NullAssumption DEF MemInv, KeysName
<1>4. \A k \in Key : idempotencyKeys'[k] = IF k = key THEN j ELSE idempotencyKeys[k]
  BY <1>2
<1>5. \A k \in Key : k = key => idempotencyKeys[k] = NoJob
  BY <1>1, NullAssumption DEF Known
<1>6. KeyOf(idempotencyKeys', j) = key
  <2>1. CASE key \in Key
    <3>1. idempotencyKeys'[key] = j /\ \A m \in Key : idempotencyKeys'[m] = j => m = key
      BY <1>3, <1>4, <2>1
    <3>2. QED
      BY <2>1, <3>1 DEF KeyOf
  <2>2. CASE key = NoKey
    <3>1. \A m \in Key : idempotencyKeys'[m] # j
      BY <1>3, <1>4, <2>2, NullAssumption
    <3>2. QED
      BY <2>2, <3>1 DEF KeyOf
  <2>3. QED
    BY <1>1, <2>1, <2>2
<1>7. \A i \in Job \ {j} : KeyOf(idempotencyKeys', i) = KeyOf(idempotencyKeys, i)
  <2> TAKE i \in Job \ {j}
  <2>1. \A k \in Key : idempotencyKeys'[k] = i <=> idempotencyKeys[k] = i
    BY <1>4, <1>5, NullAssumption
  <2>2. CASE \E k \in Key : idempotencyKeys[k] = i
    <3>1. PICK k \in Key : idempotencyKeys[k] = i
      BY <2>2
    <3>2. \A m \in Key : idempotencyKeys[m] = i => m = k
      BY <3>1, NullAssumption DEF MemInv, KeysName
    <3>3. KeyOf(idempotencyKeys, i) = k
      BY <3>1, <3>2, KeyOfIs
    <3>4. KeyOf(idempotencyKeys', i) = k
      BY <2>1, <3>1, <3>2 DEF KeyOf
    <3>5. QED
      BY <3>3, <3>4
  <2>3. CASE ~\E k \in Key : idempotencyKeys[k] = i
    BY <2>1, <2>3 DEF KeyOf
  <2>4. QED
    BY <2>2, <2>3
<1>8. j \in Stored' /\ \A i \in Stored : i \in Stored'
  <2>1. NewRow([input EXCEPT !.key = NoKey], clock, clock) \in Row
    <3>1. [input EXCEPT !.key = NoKey] \in SubmitInput
      BY MemoryAssumption DEF SubmitInput
    <3>2. QED
      BY <3>1, NewRowType DEF MemInv, Types
  <2>2. QED
    BY <2>1, RowAssumption DEF Submit, Stored, MemInv, Types
<1>9. KeysName'
  <2>1. \A k \in Key : idempotencyKeys'[k] # NoJob => idempotencyKeys'[k] \in Stored'
    BY <1>4, <1>8 DEF MemInv, KeysName
  <2>2. \A k, m \in Key : idempotencyKeys'[k] # NoJob
                         /\ idempotencyKeys'[k] = idempotencyKeys'[m] => k = m
    BY <1>3, <1>4 DEF MemInv, KeysName
  <2>3. QED
    BY <2>1, <2>2 DEF KeysName
<1>10. idempotencyKeys' \in [Key -> Job \cup {NoJob}]
  BY <1>2 DEF MemInv, Types
<1>11. QED
  BY <1>6, <1>7, <1>9, <1>10 DEF key

LEMMA SubmitStep ==
  ASSUME MemInv, NEW j \in Job, NEW input \in SubmitInputs, Submit(j, input)
  PROVE  MemInv' /\ Contract!Next
<1> DEFINE bare == [input EXCEPT !.key = NoKey]
           row == NewRow(bare, clock, clock)
<1>1. input \in SubmitInput /\ bare \in SubmitInput /\ clock \in Nat
  BY MemoryAssumption DEF SubmitInput, MemInv, Types
<1>2. /\ j \notin Stored /\ ~Known(input.key) /\ jobs' = [jobs EXCEPT ![j] = row]
      /\ UNCHANGED <<issued, clock>>
  BY DEF Submit
<1>3. row \in Row
  BY <1>1, NewRowType
<1>4. Keyed(row, input.key) = NewRow(input, clock, clock)
  <2>1. ResolveAvailableAt(bare, clock) = ResolveAvailableAt(input, clock)
    BY <1>1 DEF ResolveAvailableAt, SubmitInput
  <2>2. Keyed(row, input.key) = [row EXCEPT !.key = input.key]
    BY <1>1, <1>3, KeyedType DEF SubmitInput
  <2>3. /\ bare.queue = input.queue /\ bare.priority = input.priority
        /\ bare.maxRetries = input.maxRetries
    BY <1>1 DEF SubmitInput
  <2>4. [row EXCEPT !.key = input.key] = NewRow(input, clock, clock)
    BY <2>1, <2>3 DEF NewRow
  <2>5. QED
    BY <2>2, <2>4
<1> HIDE DEF row, bare
<1>5. MemInv'
  <2>1. Types'
    BY <1>1, <1>2, <1>3, SubmitKeys DEF MemInv, Types
  <2>2. QED
    BY <2>1, SubmitKeys DEF MemInv
<1>6. KeyedJobs' = [KeyedJobs EXCEPT ![j] = NewRow(input, clock, clock)]
  <2>1. \A i \in Job : KeyedJobs'[i] = IF i = j THEN NewRow(input, clock, clock)
                                        ELSE KeyedJobs[i]
    <3> TAKE i \in Job
    <3>1. KeyedJobs'[i] = Keyed(jobs'[i], KeyOf(idempotencyKeys', i))
      BY DEF KeyedJobs
    <3>2. CASE i = j
      BY <1>2, <1>4, <3>1, <3>2, SubmitKeys DEF MemInv, Types
    <3>3. CASE i # j
      <4>1. jobs'[i] = jobs[i] /\ KeyOf(idempotencyKeys', i) = KeyOf(idempotencyKeys, i)
        BY <1>2, <3>3, SubmitKeys DEF MemInv, Types
      <4>2. QED
        BY <3>1, <3>3, <4>1 DEF KeyedJobs
    <3>4. QED
      BY <3>2, <3>3
  <2>2. QED
    BY <2>1 DEF KeyedJobs
<1>7. ~Contract!KeyTaken(input.key)
  <2> SUFFICES ASSUME input.key # NoKey,
                      NEW i \in Contract!Stored, KeyedJobs[i].key = input.key
               PROVE  FALSE
    BY DEF Contract!KeyTaken
  <2>1. i \in Stored
    BY SameStored DEF MemInv
  <2>2. input.key \in Key
    BY <1>1 DEF SubmitInput
  <2>3. KeyOf(idempotencyKeys, i) = input.key
    BY <2>1, StoredRow DEF Row
  <2>4. \E k \in Key : idempotencyKeys[k] = i
    BY <2>3 DEF KeyOf
  <2>5. idempotencyKeys[input.key] = i
    BY <2>3, <2>4 DEF KeyOf
  <2>6. QED
    BY <1>2, <2>1, <2>5, NullAssumption DEF Known, Stored
<1>8. j \notin Contract!Stored
  BY <1>2, SameStored DEF MemInv
<1>9. clock \in Contract!TimeRead /\ clock \in Contract!CallerTimeRead
  BY <1>1 DEF Contract!TimeRead, Contract!CallerTimeRead
<1>10. Contract!Submit(j, input)
  <2>1. KeyedJobs' = [KeyedJobs EXCEPT ![j] = Contract!NewRow(input, clock, clock)]
    BY <1>6, SameOperators
  <2>2. QED
    BY <1>2, <1>7, <1>8, <1>9, <2>1 DEF Contract!Submit
<1>11. QED
  BY <1>5, <1>10 DEF Contract!Next

\* A call that throws or finds its work done, and time passing.
LEMMA OtherSteps ==
  ASSUME MemInv
  PROVE  /\ UNCHANGED vars => MemInv' /\ UNCHANGED Contract!vars
         /\ Tick => MemInv' /\ Contract!Next
<1>1. ASSUME UNCHANGED <<jobs, idempotencyKeys>> PROVE KeyedJobs' = KeyedJobs /\ Stored' = Stored
  BY <1>1 DEF KeyedJobs, Stored
<1>2. ASSUME UNCHANGED vars PROVE MemInv' /\ UNCHANGED Contract!vars
  BY <1>1, <1>2 DEF vars, Contract!vars, MemInv, Types, KeysName
<1>3. ASSUME Tick PROVE MemInv' /\ Contract!Next
  <2>1. Types'
    BY <1>3 DEF Tick, MemInv, Types
  <2>2. KeysName'
    BY <1>1, <1>3 DEF Tick, MemInv, KeysName
  <2>3. Contract!Tick
    BY <1>1, <1>3 DEF Tick, Contract!Tick
  <2>4. QED
    BY <2>1, <2>2, <2>3 DEF MemInv, Contract!Next
<1>4. QED
  BY <1>2, <1>3

-------------------------------------------------------------------------------
LEMMA MemStep ==
  ASSUME MemInv, [Next]_vars
  PROVE  MemInv' /\ [Contract!Next]_(Contract!vars)
<1>1. CASE UNCHANGED vars
  BY <1>1, OtherSteps
<1>2. ASSUME NEW j \in Job, NEW input \in SubmitInputs, Submit(j, input)
      PROVE  MemInv' /\ Contract!Next
  BY <1>2, SubmitStep
<1>3. ASSUME NEW input \in SubmitInputs, SubmitAgain(input)
      PROVE  MemInv' /\ UNCHANGED Contract!vars
  BY <1>3, OtherSteps DEF SubmitAgain
<1>4. ASSUME NEW q \in Queue, NEW l \in Lease, NEW v \in Duration, ClaimJob(q, l, v)
      PROVE  MemInv' /\ Contract!Next
  BY <1>4, ClaimJobStep
<1>5. ASSUME NEW q \in Queue, ClaimNothing(q) PROVE MemInv' /\ Contract!Next
  BY <1>5, ClaimNothingStep
<1>6. ASSUME NEW j \in Stored, NEW l \in Lease, NEW v \in Duration, Heartbeat(j, l, v)
      PROVE  MemInv' /\ Contract!Next
  BY <1>6, HeartbeatStep
<1>7. ASSUME NEW j \in Stored, NEW l \in Lease, Complete(j, l)
      PROVE  MemInv' /\ Contract!Next
  BY <1>7, CompleteStep
<1>8. ASSUME NEW j \in Stored, NEW l \in Lease, Fail(j, l) PROVE MemInv' /\ Contract!Next
  BY <1>8, FailStep
<1>9. ASSUME NEW j \in Stored, Cancel(j) PROVE MemInv' /\ Contract!Next
  BY <1>9, CancelStep
<1>10. ASSUME NEW j \in Stored, Retry(j) PROVE MemInv' /\ Contract!Next
  BY <1>10, RetryStep
<1>11. ASSUME Refused PROVE MemInv' /\ UNCHANGED Contract!vars
  BY <1>11, OtherSteps DEF Refused
<1>12. ASSUME Tick PROVE MemInv' /\ Contract!Next
  BY <1>12, OtherSteps
<1>13. QED
  BY <1>1, <1>2, <1>3, <1>4, <1>5, <1>6, <1>7, <1>8, <1>9, <1>10, <1>11, <1>12 DEF Next

\* Every history of the store is a history the contract allows: what the routes and
\* the worker rely on when InMemoryJobStore stands in for PostgreSQL.
THEOREM Refinement == Spec => ImplementsContract
<1>1. Init => Contract!Init
  <2> SUFFICES ASSUME Init PROVE Contract!Init
    OBVIOUS
  <2>1. KeyedJobs = [j \in Job |-> NoRow]
    BY DEF Init, KeyedJobs, Keyed
  <2>2. QED
    BY <2>1 DEF Init, Contract!Init, Contract!NotIssued
<1>2. Init => MemInv
  BY MemInit
<1>3. MemInv /\ [Next]_vars => MemInv'
  BY MemStep
<1>4. MemInv /\ [Next]_vars => [Contract!Next]_(Contract!vars)
  BY MemStep
<1>5. QED
  BY <1>1, <1>2, <1>3, <1>4, PTL DEF Spec, ImplementsContract, Contract!Spec
-------------------------------------------------------------------------------
(* The history: what one more event does to the events about a job              *)

\* How the events about a job grow when some more events are recorded.
Extended(hist, es, more, j) ==
  /\ hist \in Seq(JobEvent)
  /\ \A n \in About(es, j) : n <= Len(es) /\ hist[n] = es[n]
  /\ \A m \in DOMAIN more : hist[Len(es) + m] = more[m]
  /\ About(hist, j) = About(es, j) \cup {Len(es) + m : m \in About(more, j)}

\* ... by one event, at place p.
ByOne(hist, es, j, p) ==
  /\ p \in Nat
  /\ \A n \in About(es, j) : n < p /\ hist[n] = es[n]
  /\ About(hist, j) = About(es, j) \cup {p}

\* The history of a job accounts for its row.
Accounts(es, j, row) == /\ Explains(es, j, row.status)
                        /\ row.attempts = Cardinality(Claims(es, j))

LEMMA AboutFinite ==
  ASSUME NEW es \in Seq(JobEvent), NEW j
  PROVE  /\ About(es, j) \subseteq Nat /\ IsFiniteSet(About(es, j))
         /\ Claims(es, j) \subseteq About(es, j)
         /\ IsFiniteSet(Claims(es, j)) /\ Cardinality(Claims(es, j)) \in Nat
<1>1. Len(es) \in Nat /\ About(es, j) \subseteq 1..Len(es)
  BY DEF About
<1>2. IsFiniteSet(1..Len(es))
  BY <1>1, FS_Interval
<1>3. IsFiniteSet(About(es, j))
  BY <1>1, <1>2, FS_Subset
<1>4. Claims(es, j) \subseteq About(es, j)
  BY DEF Claims
<1>5. IsFiniteSet(Claims(es, j))
  BY <1>3, <1>4, FS_Subset
<1>6. QED
  BY <1>1, <1>3, <1>4, <1>5, FS_CardinalityType

LEMMA AboutMore ==
  ASSUME NEW es \in Seq(JobEvent), NEW more \in Seq(JobEvent), NEW j,
         NEW hist, hist = es \o more
  PROVE  Extended(hist, es, more, j)
<1>1. /\ hist \in Seq(JobEvent) /\ Len(hist) = Len(es) + Len(more)
      /\ Len(es) \in Nat /\ Len(more) \in Nat
      /\ DOMAIN es = 1..Len(es) /\ DOMAIN more = 1..Len(more) /\ DOMAIN hist = 1..Len(hist)
  OBVIOUS
<1>2. \A n \in 1..Len(es) : hist[n] = es[n]
  OBVIOUS
<1>3. \A m \in 1..Len(more) : hist[Len(es) + m] = more[m]
  OBVIOUS
<1>4. \A n \in DOMAIN hist : n \in 1..Len(es) \/ \E m \in 1..Len(more) : n = Len(es) + m
  <2> TAKE n \in DOMAIN hist
  <2>1. n \in Nat /\ 1 <= n /\ n <= Len(es) + Len(more)
    BY <1>1
  <2>2. CASE n <= Len(es)
    BY <1>1, <2>1, <2>2
  <2>3. CASE n > Len(es)
    <3>1. n - Len(es) \in 1..Len(more) /\ n = Len(es) + (n - Len(es))
      BY <1>1, <2>1, <2>3
    <3>2. QED
      BY <3>1
  <2>4. QED
    BY <1>1, <2>1, <2>2, <2>3
<1>5. \A n \in 1..Len(es) : n \in DOMAIN hist
  BY <1>1
<1>6. \A m \in 1..Len(more) : Len(es) + m \in DOMAIN hist
  BY <1>1
<1>7. About(hist, j) = About(es, j) \cup {Len(es) + m : m \in About(more, j)}
  <2>1. \A n \in About(hist, j) : n \in About(es, j) \/ \E m \in About(more, j) : n = Len(es) + m
    <3> TAKE n \in About(hist, j)
    <3>1. n \in DOMAIN hist /\ hist[n].job = j
      BY DEF About
    <3>2. CASE n \in 1..Len(es)
      BY <1>1, <1>2, <3>1, <3>2 DEF About
    <3>3. ASSUME NEW m \in 1..Len(more), n = Len(es) + m
          PROVE  m \in About(more, j)
      <4>1. hist[n] = more[m]
        BY <1>3, <3>3
      <4>2. QED
        BY <1>1, <3>1, <3>3, <4>1 DEF About
    <3>4. QED
      BY <1>4, <3>1, <3>2, <3>3
  <2>2. \A n \in About(es, j) : n \in About(hist, j)
    BY <1>1, <1>2, <1>5 DEF About
  <2>3. \A m \in About(more, j) : Len(es) + m \in About(hist, j)
    BY <1>1, <1>3, <1>6 DEF About
  <2>4. QED
    BY <2>1, <2>2, <2>3
<1>8. QED
  BY <1>1, <1>2, <1>3, <1>7 DEF Extended, About

\* Events about other jobs leave the account of a job as it was.
LEMMA Unmentioned ==
  ASSUME NEW es \in Seq(JobEvent), NEW more \in Seq(JobEvent), NEW j, About(more, j) = {},
         NEW hist, Extended(hist, es, more, j)
  PROVE  /\ About(hist, j) = About(es, j)
         /\ \A row : Accounts(es, j, row) => Accounts(hist, j, row)
<1>1. About(hist, j) = About(es, j) /\ \A n \in About(es, j) : hist[n] = es[n]
  BY DEF Extended
<1>2. ASSUME NEW status, Explains(es, j, status) PROVE Explains(hist, j, status)
  BY <1>1, <1>2 DEF Explains
<1>3. Claims(hist, j) = Claims(es, j)
  BY <1>1 DEF Claims
<1>4. QED
  BY <1>1, <1>2, <1>3 DEF Accounts

LEMMA ExplainsMore ==
  ASSUME NEW es, NEW hist, NEW j, NEW p,
         About(es, j) \subseteq Nat, ByOne(hist, es, j, p),
         Explains(es, j, hist[p].from)
  PROVE  Explains(hist, j, hist[p].to)
<1> USE DEF ByOne
<1> DEFINE mine == About(es, j)
<1>1. PICK first \in mine, last \in mine :
        /\ \A n \in mine : first <= n /\ n <= last
        /\ es[first].type = "submitted" /\ es[first].from = "none"
        /\ es[last].to = hist[p].from
        /\ \A m, n \in mine :
             m < n /\ (\A k \in mine : k <= m \/ n <= k) => es[n].from = es[m].to
  BY DEF Explains
<1>2. \A n \in mine \cup {p} : first <= n /\ n <= p
  BY <1>1
<1>3. hist[first].type = "submitted" /\ hist[first].from = "none"
  BY <1>1
<1>4. ASSUME NEW m \in mine \cup {p}, NEW n \in mine \cup {p}, m < n,
             \A k \in mine \cup {p} : k <= m \/ n <= k
      PROVE  hist[n].from = hist[m].to
  <2>1. m \in mine
    BY <1>2, <1>4
  <2>2. CASE n \in mine
    BY <1>1, <1>4, <2>1, <2>2
  <2>3. CASE n = p
    <3>1. last <= m
      BY <1>1, <1>4, <2>3
    <3>2. m = last
      BY <1>1, <2>1, <3>1
    <3>3. QED
      BY <1>1, <2>3, <3>2
  <2>4. QED
    BY <2>2, <2>3
<1>5. About(hist, j) = mine \cup {p}
  OBVIOUS
<1> HIDE DEF mine
<1>6. QED
  BY <1>1, <1>2, <1>3, <1>4, <1>5 DEF Explains

\* What one more event does to the number of claims since the last manual retry.
Counted(type, n) == IF type = "claimed" THEN n + 1 ELSE IF type = "manual_retry" THEN 0 ELSE n

LEMMA ClaimsMore ==
  ASSUME NEW es \in Seq(JobEvent), NEW hist, NEW j, NEW p, ByOne(hist, es, j, p)
  PROVE  Cardinality(Claims(hist, j)) = Counted(hist[p].type, Cardinality(Claims(es, j)))
<1> USE DEF ByOne
<1>1. /\ About(es, j) \subseteq Nat /\ Claims(es, j) \subseteq About(es, j)
      /\ IsFiniteSet(Claims(es, j))
  BY AboutFinite
<1>2. p \notin Claims(es, j)
  BY <1>1
<1>3. CASE hist[p].type = "claimed"
  <2>1. Claims(hist, j) = Claims(es, j) \cup {p}
    BY <1>1, <1>3 DEF Claims
  <2>2. QED
    BY <1>1, <1>2, <1>3, <2>1, FS_AddElement DEF Counted
<1>4. CASE hist[p].type = "manual_retry"
  <2>1. Claims(hist, j) = {}
    <3>1. \A n \in About(hist, j) : ~(p < n)
      BY <1>1
    <3>2. QED
      BY <1>4, <3>1 DEF Claims
  <2>2. QED
    BY <1>4, <2>1, FS_EmptySet DEF Counted
<1>5. CASE hist[p].type \notin {"claimed", "manual_retry"}
  <2>1. Claims(hist, j) = Claims(es, j)
    BY <1>5 DEF Claims
  <2>2. QED
    BY <1>5, <2>1 DEF Counted
<1>6. QED
  BY <1>3, <1>4, <1>5

\* One event about a job moves the account from the row before it to the row after.
LEMMA OneEvent ==
  ASSUME NEW es \in Seq(JobEvent), NEW more \in Seq(JobEvent), NEW j, NEW m \in DOMAIN more,
         About(more, j) = {m},
         NEW row, NEW next, Accounts(es, j, row),
         more[m].from = row.status, more[m].to = next.status,
         next.attempts = Counted(more[m].type, row.attempts),
         NEW hist, Extended(hist, es, more, j)
  PROVE  Accounts(hist, j, next)
<1> DEFINE p == Len(es) + m
<1>1. m \in Nat /\ 1 <= m /\ Len(es) \in Nat
  OBVIOUS
<1>2. /\ \A n \in About(es, j) : n <= Len(es) /\ hist[n] = es[n]
      /\ hist[p] = more[m]
      /\ About(hist, j) = About(es, j) \cup {p}
  BY DEF Extended
<1>3. About(es, j) \subseteq Nat
  BY AboutFinite
<1>4. ByOne(hist, es, j, p)
  BY <1>1, <1>2, <1>3 DEF ByOne
<1> HIDE DEF p
<1>8. hist[p].from = row.status /\ Explains(es, j, row.status)
      /\ hist[p].to = next.status
      /\ row.attempts = Cardinality(Claims(es, j))
  BY <1>2 DEF Accounts
<1>5. Explains(hist, j, hist[p].to)
  BY <1>3, <1>4, <1>8, ExplainsMore
<1>6. Cardinality(Claims(hist, j)) = Counted(hist[p].type, Cardinality(Claims(es, j)))
  BY <1>4, ClaimsMore
<1>7. QED
  BY <1>2, <1>5, <1>6, <1>8 DEF Accounts

\* The event that submits a job begins its history.
LEMMA FirstEvent ==
  ASSUME NEW es \in Seq(JobEvent), NEW more \in Seq(JobEvent), NEW j, NEW m \in DOMAIN more,
         About(es, j) = {}, About(more, j) = {m},
         NEW row, row.attempts = 0,
         more[m].type = "submitted", more[m].from = "none", more[m].to = row.status,
         NEW hist, Extended(hist, es, more, j)
  PROVE  Accounts(hist, j, row)
<1> DEFINE p == Len(es) + m
<1>1. p \in Nat
  OBVIOUS
<1>2. About(hist, j) = {p} /\ hist[p] = more[m]
  BY DEF Extended
<1> HIDE DEF p
<1>3. Explains(hist, j, row.status)
  BY <1>1, <1>2 DEF Explains
<1>4. Claims(hist, j) = {}
  BY <1>2 DEF Claims
<1>5. QED
  BY <1>3, <1>4, FS_EmptySet DEF Accounts
-------------------------------------------------------------------------------
(* The history accounts for every stored row                                    *)

\* Only jobs that were submitted have a history, and it accounts for their rows.
HistoryInv == /\ events \in Seq(JobEvent)
              /\ IsFiniteSet(Stored)
              /\ \A j \in Stored : Accounts(events, j, jobs[j])
              /\ \A j \in Job \ Stored : About(events, j) = {}
              /\ clock <= MaxTime

LEMMA HistoryInit == Init => HistoryInv
<1> SUFFICES ASSUME Init PROVE HistoryInv
  OBVIOUS
<1>1. Stored = {}
  BY DEF Init, Stored
<1>2. events = <<>> /\ events \in Seq(JobEvent) /\ \A j \in Job : About(events, j) = {}
  BY DEF Init, About
<1>3. clock <= MaxTime
  BY MemoryAssumption DEF Init
<1>4. QED
  BY <1>1, <1>2, <1>3, FS_EmptySet DEF HistoryInv

LEMMA EventType ==
  ASSUME NEW type \in JobEventType, NEW j \in Job, NEW from \in Status \cup {"none"},
         NEW to \in Status
  PROVE  /\ Event(type, j, from, to) \in JobEvent
         /\ Event(type, j, from, to).type = type
         /\ Event(type, j, from, to).job = j
         /\ Event(type, j, from, to).from = from
         /\ Event(type, j, from, to).to = to
  BY DEF Event, JobEvent

LEMMA AboutOne ==
  ASSUME NEW e \in JobEvent, NEW more, more = <<e>>
  PROVE  /\ more \in Seq(JobEvent) /\ 1 \in DOMAIN more /\ more[1] = e
         /\ About(more, e.job) = {1}
         /\ \A i \in Job : i # e.job => About(more, i) = {}
  BY DEF About

\* A step on one row, with the events that account for it.
LEMMA OneRowTold ==
  ASSUME MemInv, HistoryInv, NEW j \in Stored, NEW row \in Row,
         jobs' = [jobs EXCEPT ![j] = row], clock' = clock,
         NEW more \in Seq(JobEvent), events' = events \o more,
         \A i \in Job : i # j => About(more, i) = {},
         Accounts(events', j, row)
  PROVE  HistoryInv'
<1>1. Stored' = Stored /\ j \in Job
  BY RowAssumption DEF Stored, MemInv, Types
<1>2. jobs'[j] = row /\ \A i \in Stored : i # j => jobs'[i] = jobs[i]
  BY <1>1 DEF MemInv, Types, Stored
<1> DEFINE hist == events'
<1>3. events \in Seq(JobEvent) /\ hist = events \o more
  BY DEF HistoryInv
<1> HIDE DEF hist
<1>4. \A i \in Job : Extended(hist, events, more, i)
  BY <1>3, AboutMore
<1>5. hist \in Seq(JobEvent)
  BY <1>1, <1>4 DEF Extended
<1>6. ASSUME NEW i \in Stored PROVE Accounts(hist, i, jobs'[i])
  <2>1. CASE i = j
    BY <1>2, <2>1 DEF hist
  <2>2. CASE i # j
    <3>1. About(more, i) = {} /\ Extended(hist, events, more, i)
      BY <1>4, <2>2 DEF Stored
    <3>2. Accounts(events, i, jobs[i])
      BY DEF HistoryInv
    <3>3. Accounts(hist, i, jobs[i])
      BY <1>3, <3>1, <3>2, Unmentioned
    <3>4. QED
      BY <1>2, <2>2, <3>3
  <2>3. QED
    BY <2>1, <2>2
<1>7. ASSUME NEW i \in Job \ Stored PROVE About(hist, i) = {}
  <2>1. About(more, i) = {} /\ Extended(hist, events, more, i) /\ About(events, i) = {}
    BY <1>4, StoredRow DEF HistoryInv
  <2>2. QED
    BY <2>1 DEF Extended
<1>8. QED
  BY <1>1, <1>5, <1>6, <1>7 DEF HistoryInv, hist

LEMMA OneEventTold ==
  ASSUME MemInv, HistoryInv, NEW j \in Stored, NEW row \in Row, NEW type \in JobEventType,
         jobs' = [jobs EXCEPT ![j] = row], clock' = clock,
         events' = events \o <<Event(type, j, jobs[j].status, row.status)>>,
         row.attempts = Counted(type, jobs[j].attempts)
  PROVE  HistoryInv'
<1> DEFINE e == Event(type, j, jobs[j].status, row.status)
           more == <<e>>
           hist == events'
<1>1. jobs[j] \in Row /\ j \in Job
  BY StoredRow
<1>2. jobs[j].status \in Status /\ row.status \in Status
  BY <1>1 DEF Row
<1>3. /\ e \in JobEvent /\ e.job = j /\ e.from = jobs[j].status /\ e.to = row.status
      /\ e.type = type
  BY <1>1, <1>2, EventType
<1>4. hist = events \o more
  OBVIOUS
<1> HIDE DEF e
<1>5. /\ more \in Seq(JobEvent) /\ 1 \in DOMAIN more /\ more[1] = e
      /\ About(more, j) = {1}
      /\ \A i \in Job : i # j => About(more, i) = {}
  BY <1>3, AboutOne
<1>6. events \in Seq(JobEvent) /\ Accounts(events, j, jobs[j])
  BY DEF HistoryInv
<1> HIDE DEF more
<1>7. Extended(hist, events, more, j)
  BY <1>4, <1>5, <1>6, AboutMore
<1> HIDE DEF hist
<1>8. Accounts(hist, j, row)
  BY <1>3, <1>5, <1>6, <1>7, OneEvent
<1>9. QED
  BY <1>4, <1>5, <1>8, OneRowTold DEF hist

LEMMA HeartbeatTold ==
  ASSUME MemInv, HistoryInv, NEW j \in Stored, NEW l \in Lease, NEW v \in Duration,
         Heartbeat(j, l, v)
  PROVE  HistoryInv'
<1> DEFINE row == Renewed(jobs[j], clock + v)
<1>1. jobs[j] \in Row /\ clock + v \in Nat
  <2>1. jobs[j] \in Row
    BY StoredRow
  <2>2. clock \in Nat /\ v \in Nat
    BY MemoryAssumption DEF MemInv, Types
  <2>3. QED
    BY <2>1, <2>2
<1>2. jobs[j].status = "processing" /\ row \in Row /\ row.status = jobs[j].status
      /\ row.attempts = jobs[j].attempts
  BY <1>1 DEF Heartbeat, Renewable, Renewed, Row
<1>3. /\ jobs' = [jobs EXCEPT ![j] = row] /\ clock' = clock
      /\ events' = events \o <<Event("heartbeat", j, jobs[j].status, row.status)>>
  BY <1>1, <1>2 DEF Heartbeat, Record, MemInv, Types
<1> HIDE DEF row
<1>4. row.attempts = Counted("heartbeat", jobs[j].attempts) /\ "heartbeat" \in JobEventType
  BY <1>2 DEF Counted, JobEventType
<1>5. QED
  BY <1>2, <1>3, <1>4, OneEventTold

LEMMA CompleteTold ==
  ASSUME MemInv, HistoryInv, NEW j \in Stored, NEW l \in Lease, Complete(j, l)
  PROVE  HistoryInv'
<1> DEFINE row == Completed(jobs[j])
<1>1. jobs[j] \in Row /\ row \in Row
  BY StoredRow, CompletedType
<1>2. row.status \in {"completed", "cancelled"} /\ row.attempts = jobs[j].attempts
  BY <1>1 DEF Completed, Released, Row
<1>3. /\ jobs' = [jobs EXCEPT ![j] = row] /\ clock' = clock
      /\ events' = events \o <<Event(row.status, j, jobs[j].status, row.status)>>
  BY DEF Complete, Acknowledge, Record
<1> HIDE DEF row
<1>4. row.attempts = Counted(row.status, jobs[j].attempts) /\ row.status \in JobEventType
  BY <1>2 DEF Counted, JobEventType
<1>5. QED
  BY <1>1, <1>3, <1>4, OneEventTold

LEMMA CancelTold ==
  ASSUME MemInv, HistoryInv, NEW j \in Stored, Cancel(j)
  PROVE  HistoryInv'
<1> DEFINE row == Cancelled(jobs[j])
<1>1. jobs[j] \in Row /\ row \in Row
  BY StoredRow DEF Cancelled, Row, Status
<1>2. row.status \in {"cancel_requested", "cancelled"} /\ row.attempts = jobs[j].attempts
  BY <1>1 DEF Cancelled, Row
<1>3. /\ jobs' = [jobs EXCEPT ![j] = row] /\ clock' = clock
      /\ events' = events \o <<Event(row.status, j, jobs[j].status, row.status)>>
  BY DEF Cancel, Record
<1> HIDE DEF row
<1>4. row.attempts = Counted(row.status, jobs[j].attempts) /\ row.status \in JobEventType
  BY <1>2 DEF Counted, JobEventType
<1>5. QED
  BY <1>1, <1>3, <1>4, OneEventTold

LEMMA RetryTold ==
  ASSUME MemInv, HistoryInv, NEW j \in Stored, Retry(j)
  PROVE  HistoryInv'
<1> DEFINE row == Retried(jobs[j], clock)
<1>1. jobs[j] \in Row /\ row \in Row /\ row.status = "queued" /\ row.attempts = 0
  BY StoredRow DEF Retried, Row, Status, MemInv, Types
<1>2. /\ jobs' = [jobs EXCEPT ![j] = row] /\ clock' = clock
      /\ events' = events \o <<Event("manual_retry", j, jobs[j].status, row.status)>>
  BY <1>1 DEF Retry, Record
<1> HIDE DEF row
<1>3. row.attempts = Counted("manual_retry", jobs[j].attempts) /\ "manual_retry" \in JobEventType
  BY <1>1 DEF Counted, JobEventType
<1>4. QED
  BY <1>1, <1>2, <1>3, OneEventTold

LEMMA TwoEvents ==
  ASSUME NEW e \in JobEvent, NEW f \in JobEvent
  PROVE  <<e, f>> = <<e>> \o <<f>>
<1> DEFINE s == <<e, f>>
           t == <<e>> \o <<f>>
<1>1. s \in Seq(JobEvent) /\ Len(s) = 2 /\ s[1] = e /\ s[2] = f
  OBVIOUS
<1>2. t \in Seq(JobEvent) /\ Len(t) = 2 /\ t[1] = e /\ t[2] = f
  <2> DEFINE a == <<e>>
             b == <<f>>
  <2>1. a \in Seq(JobEvent) /\ Len(a) = 1 /\ a[1] = e /\ b \in Seq(JobEvent) /\ Len(b) = 1 /\ b[1] = f
    OBVIOUS
  <2>2. t = a \o b
    OBVIOUS
  <2> HIDE DEF a, b, t
  <2>3. QED
    BY <2>1, <2>2, ConcatProperties
<1> HIDE DEF s, t
<1>3. \A i \in 1..Len(s) : s[i] = t[i]
  BY <1>1, <1>2
<1>4. s = t
  BY <1>1, <1>2, <1>3, SeqEqual
<1>5. QED
  BY <1>4 DEF s, t

\* A failed attempt of a processing job records that it failed, and then where the
\* job went.
LEMMA FailTold ==
  ASSUME MemInv, HistoryInv, NEW j \in Stored, NEW l \in Lease, Fail(j, l)
  PROVE  HistoryInv'
<1> DEFINE row == Failed(jobs[j], clock)
<1>1. jobs[j] \in Row /\ row \in Row /\ j \in Job
  BY StoredRow, FailedType DEF MemInv, Types
<1>2. /\ row.attempts = jobs[j].attempts
      /\ jobs[j].status = "cancel_requested" => row.status = "cancelled"
      /\ jobs[j].status # "cancel_requested" => row.status \in {"retrying", "dead_letter"}
  BY <1>1 DEF Failed, Released, Row
<1>3. jobs' = [jobs EXCEPT ![j] = row] /\ clock' = clock /\ jobs[j].status \in Held
  BY DEF Fail, Acknowledge, Owned
<1>4. CASE jobs[j].status = "cancel_requested"
  <2>1. events' = events \o <<Event("cancelled", j, jobs[j].status, row.status)>>
    BY <1>2, <1>4 DEF Fail, Acknowledge, Record
  <2>2. row.attempts = Counted("cancelled", jobs[j].attempts) /\ "cancelled" \in JobEventType
    BY <1>2 DEF Counted, JobEventType
  <2> HIDE DEF row
  <2>3. QED
    BY <1>1, <1>3, <2>1, <2>2, OneEventTold
<1>5. CASE jobs[j].status = "processing"
  <2> DEFINE type == IF row.status = "retrying" THEN "retry_scheduled" ELSE "dead_lettered"
             e == Event("failed", j, "processing", "processing")
             f == Event(type, j, "processing", row.status)
             mid == events \o <<e>>
             hist == events'
             more == <<e, f>>
  <2>1. events' = events \o more
    BY <1>2, <1>5 DEF Fail, Acknowledge, Record
  <2>2. /\ e \in JobEvent /\ e.job = j /\ e.from = "processing" /\ e.to = "processing"
        /\ e.type = "failed"
    BY <1>1, EventType DEF Status, JobEventType
  <2>3. /\ type \in JobEventType \ {"claimed", "manual_retry"} /\ row.status \in Status
    BY <1>1 DEF Row, JobEventType
  <2> HIDE DEF row, type
  <2>4. f \in JobEvent /\ f.job = j /\ f.from = "processing" /\ f.to = row.status /\ f.type = type
    BY <1>1, <2>3, EventType DEF Status
  <2> HIDE DEF e, f
  <2>5. events \in Seq(JobEvent) /\ Accounts(events, j, jobs[j])
    BY DEF HistoryInv
  <2>6. mid \in Seq(JobEvent) /\ hist = mid \o <<f>>
    <3>1. more = <<e>> \o <<f>>
      BY <2>2, <2>4, TwoEvents
    <3>2. <<e>> \in Seq(JobEvent) /\ <<f>> \in Seq(JobEvent)
      BY <2>2, <2>4
    <3>3. (events \o <<e>>) \o <<f>> = events \o (<<e>> \o <<f>>)
      BY <2>5, <3>2, ConcatAssociative
    <3>4. mid \in Seq(JobEvent)
      BY <2>5, <3>2
    <3>5. QED
      BY <2>1, <3>1, <3>3, <3>4
  <2>7. Extended(mid, events, <<e>>, j) /\ Extended(hist, mid, <<f>>, j)
    BY <2>2, <2>4, <2>5, <2>6, AboutOne, AboutMore
  <2> HIDE DEF mid, hist
  <2>8. Accounts(mid, j, jobs[j])
    <3> DEFINE one == <<e>>
    <3>1. /\ one \in Seq(JobEvent) /\ 1 \in DOMAIN one /\ one[1] = e /\ About(one, j) = {1}
      BY <2>2, AboutOne
    <3>2. Extended(mid, events, one, j) /\ jobs[j].attempts = Counted(e.type, jobs[j].attempts)
      BY <2>2, <2>7 DEF Counted
    <3> HIDE DEF one
    <3>3. QED
      BY <1>5, <2>2, <2>5, <3>1, <3>2, OneEvent
  <2>9. Accounts(hist, j, row)
    <3> DEFINE one == <<f>>
    <3>1. /\ one \in Seq(JobEvent) /\ 1 \in DOMAIN one /\ one[1] = f /\ About(one, j) = {1}
      BY <2>4, AboutOne
    <3>2. Extended(hist, mid, one, j) /\ row.attempts = Counted(f.type, jobs[j].attempts)
      BY <1>2, <2>3, <2>4, <2>7 DEF Counted
    <3> HIDE DEF one
    <3>3. QED
      BY <1>5, <2>4, <2>6, <2>8, <3>1, <3>2, OneEvent
  <2>10. more \in Seq(JobEvent) /\ \A i \in Job : i # j => About(more, i) = {}
    BY <2>2, <2>4 DEF About
  <2>11. QED
    BY <1>1, <1>3, <2>1, <2>9, <2>10, OneRowTold DEF hist
<1>6. QED
  BY <1>3, <1>4, <1>5 DEF Held

LEMMA SubmitTold ==
  ASSUME MemInv, HistoryInv, NEW j \in Job, NEW input \in SubmitInputs, Submit(j, input)
  PROVE  HistoryInv'
<1> DEFINE row == NewRow([input EXCEPT !.key = NoKey], clock, clock)
           e == Event("submitted", j, "none", row.status)
           more == <<e>>
           hist == events'
<1>1. [input EXCEPT !.key = NoKey] \in SubmitInput /\ clock \in Nat
  BY MemoryAssumption DEF SubmitInput, MemInv, Types
<1>2. row \in Row
  BY <1>1, NewRowType
<1>3. row.attempts = 0 /\ row.status \in Status
  BY <1>2 DEF NewRow, Row
<1>4. /\ e \in JobEvent /\ e.job = j /\ e.from = "none" /\ e.to = row.status
      /\ e.type = "submitted"
  BY <1>3, EventType DEF JobEventType
<1>5. /\ j \notin Stored /\ jobs' = [jobs EXCEPT ![j] = row] /\ clock' = clock
      /\ hist = events \o more
  BY DEF Submit, Record
<1> HIDE DEF row, e
<1>6. /\ more \in Seq(JobEvent) /\ 1 \in DOMAIN more /\ more[1] = e
      /\ About(more, j) = {1}
      /\ \A i \in Job : i # j => About(more, i) = {}
  BY <1>4, AboutOne
<1>7. /\ Stored' = Stored \cup {j} /\ jobs'[j] = row
      /\ \A i \in Stored : jobs'[i] = jobs[i]
  BY <1>2, <1>5, RowAssumption DEF Stored, MemInv, Types
<1>8. events \in Seq(JobEvent)
  BY DEF HistoryInv
<1> HIDE DEF more, hist
<1>9. \A i \in Job : Extended(hist, events, more, i)
  BY <1>5, <1>6, <1>8, AboutMore
<1>10. hist \in Seq(JobEvent)
  BY <1>9 DEF Extended
<1>11. ASSUME NEW i \in Stored' PROVE Accounts(hist, i, jobs'[i])
  <2>1. CASE i = j
    <3>1. About(events, j) = {} /\ Extended(hist, events, more, j)
      BY <1>5, <1>9 DEF HistoryInv
    <3>2. Accounts(hist, j, row)
      BY <1>3, <1>4, <1>6, <1>8, <3>1, FirstEvent
    <3>3. QED
      BY <1>7, <2>1, <3>2
  <2>2. CASE i # j
    <3>1. i \in Stored /\ i \in Job
      BY <1>7, <2>2 DEF Stored
    <3>2. About(more, i) = {} /\ Extended(hist, events, more, i)
          /\ Accounts(events, i, jobs[i])
      BY <1>6, <1>9, <2>2, <3>1 DEF HistoryInv
    <3>3. Accounts(hist, i, jobs[i])
      BY <1>6, <1>8, <3>2, Unmentioned
    <3>4. QED
      BY <1>7, <3>1, <3>3
  <2>3. QED
    BY <2>1, <2>2
<1>12. ASSUME NEW i \in Job \ Stored' PROVE About(hist, i) = {}
  <2>1. About(more, i) = {} /\ Extended(hist, events, more, i) /\ About(events, i) = {}
    BY <1>6, <1>7, <1>9 DEF HistoryInv
  <2>2. QED
    BY <2>1 DEF Extended
<1>13. IsFiniteSet(Stored')
  BY <1>7, FS_AddElement DEF HistoryInv
<1>14. QED
  BY <1>5, <1>10, <1>11, <1>12, <1>13 DEF HistoryInv, hist

-------------------------------------------------------------------------------
(* Reaping records one event for each expired job, in the order of the Map      *)

LEMMA ReapEventIs ==
  ASSUME MemInv, NEW j \in ExpiredJobs
  PROVE  /\ j \in Stored /\ ReapEvent(j) \in JobEvent /\ ReapEvent(j).job = j
         /\ ReapEvent(j).from = jobs[j].status /\ ReapEvent(j).to = AfterReap[j].status
         /\ AfterReap[j].attempts = Counted(ReapEvent(j).type, jobs[j].attempts)
<1> DEFINE type == IF jobs[j].status = "cancel_requested" THEN "cancelled"
                   ELSE "lease_expired"
<1>1. j \in Stored
  BY DEF ExpiredJobs
<1>2. j \in Job /\ jobs[j] \in Row /\ AfterReap[j] \in Row
  BY <1>1, StoredRow, ReapKeyed
<1>3. jobs[j].status \in Status /\ AfterReap[j].status \in Status
  BY <1>2 DEF Row
<1>4. ReapEvent(j) = Event(type, j, jobs[j].status, AfterReap[j].status)
  BY DEF ReapEvent
<1>5. AfterReap[j] = Reaped(jobs[j], clock)
  BY <1>2 DEF AfterReap
<1>6. AfterReap[j].attempts = jobs[j].attempts
  BY <1>2, <1>5 DEF Reaped, Released, Row
<1>7. type \in JobEventType /\ Counted(type, jobs[j].attempts) = jobs[j].attempts
  BY DEF JobEventType, Counted
<1> HIDE DEF type
<1>8. QED
  BY <1>1, <1>2, <1>3, <1>4, <1>6, <1>7, EventType

LEMMA ReapEventsAre ==
  ASSUME MemInv, HistoryInv, NEW more \in ReapEvents
  PROVE  /\ more \in Seq(JobEvent)
         /\ \A j \in ExpiredJobs : \E n \in DOMAIN more :
              About(more, j) = {n} /\ more[n] = ReapEvent(j)
         /\ \A j \in Job \ ExpiredJobs : About(more, j) = {}
<1> DEFINE N == Cardinality(ExpiredJobs)
<1>1. N \in Nat
  <2>1. ExpiredJobs \subseteq Stored /\ IsFiniteSet(Stored)
    BY DEF ExpiredJobs, HistoryInv
  <2>2. IsFiniteSet(ExpiredJobs)
    BY <2>1, FS_Subset
  <2>3. QED
    BY <2>2, FS_CardinalityType
<1>2. PICK order \in Bijection(1..N, ExpiredJobs) :
        more = [n \in DOMAIN order |-> ReapEvent(order[n])]
  BY DEF ReapEvents, Oldest
<1> HIDE DEF N
<1>3. /\ order \in [1..N -> ExpiredJobs]
      /\ \A m, n \in 1..N : order[m] = order[n] => m = n
      /\ \A j \in ExpiredJobs : \E n \in 1..N : order[n] = j
  BY <1>2 DEF Bijection, Injection, Surjection, IsInjective
<1>4. DOMAIN more = 1..N /\ \A n \in 1..N : more[n] = ReapEvent(order[n])
  BY <1>2, <1>3
<1>5. \A n \in 1..N : more[n] \in JobEvent /\ more[n].job = order[n]
  BY <1>3, <1>4, ReapEventIs
<1>6. more \in Seq(JobEvent)
  <2>1. more \in [1..N -> JobEvent]
    BY <1>2, <1>3, <1>4, <1>5
  <2>2. QED
    BY <1>1, <2>1, SeqDef
<1>7. \A j : About(more, j) = {n \in 1..N : order[n] = j}
  BY <1>4, <1>5 DEF About
<1>8. ASSUME NEW j \in ExpiredJobs
      PROVE  \E n \in DOMAIN more : About(more, j) = {n} /\ more[n] = ReapEvent(j)
  <2>1. PICK n \in 1..N : order[n] = j
    BY <1>3
  <2>2. About(more, j) = {n}
    BY <1>3, <1>7, <2>1
  <2>3. QED
    BY <1>4, <2>1, <2>2
<1>9. \A j \in Job \ ExpiredJobs : About(more, j) = {}
  BY <1>3, <1>7
<1>10. QED
  BY <1>6, <1>8, <1>9

LEMMA ReapTold ==
  ASSUME MemInv, HistoryInv, NEW more \in ReapEvents, NEW mid, mid = events \o more
  PROVE  /\ more \in Seq(JobEvent) /\ mid \in Seq(JobEvent)
         /\ \A j \in Stored : Accounts(mid, j, AfterReap[j])
         /\ \A j \in Job \ Stored : About(mid, j) = {}
<1>1. more \in Seq(JobEvent) /\ events \in Seq(JobEvent)
  BY ReapEventsAre DEF HistoryInv
<1>2. \A j : Extended(mid, events, more, j)
  BY <1>1, AboutMore
<1>3. ASSUME NEW j \in Stored PROVE Accounts(mid, j, AfterReap[j])
  <2>1. Accounts(events, j, jobs[j]) /\ Extended(mid, events, more, j) /\ j \in Job
    BY <1>2 DEF HistoryInv, Stored
  <2>2. CASE j \in ExpiredJobs
    <3>1. PICK n \in DOMAIN more : About(more, j) = {n} /\ more[n] = ReapEvent(j)
      BY <2>2, ReapEventsAre
    <3>2. /\ more[n].from = jobs[j].status /\ more[n].to = AfterReap[j].status
          /\ AfterReap[j].attempts = Counted(more[n].type, jobs[j].attempts)
      BY <2>2, <3>1, ReapEventIs
    <3>3. QED
      BY <1>1, <2>1, <3>1, <3>2, OneEvent
  <2>3. CASE j \notin ExpiredJobs
    <3>1. About(more, j) = {} /\ AfterReap[j] = jobs[j]
      BY <2>1, <2>3, ReapEventsAre DEF AfterReap
    <3>2. QED
      BY <1>1, <2>1, <3>1, Unmentioned
  <2>4. QED
    BY <2>2, <2>3
<1>4. ASSUME NEW j \in Job \ Stored PROVE About(mid, j) = {}
  <2>1. j \notin ExpiredJobs /\ About(events, j) = {}
    BY DEF ExpiredJobs, HistoryInv
  <2>2. About(more, j) = {}
    BY <2>1, ReapEventsAre
  <2>3. QED
    BY <1>2, <2>1, <2>2 DEF Extended
<1>5. mid \in Seq(JobEvent)
  BY <1>1
<1>6. QED
  BY <1>1, <1>3, <1>4, <1>5

LEMMA ClaimNothingTold ==
  ASSUME MemInv, HistoryInv, NEW q \in Queue, ClaimNothing(q)
  PROVE  HistoryInv'
<1> DEFINE hist == events'
<1>1. PICK more \in ReapEvents : hist = events \o more
  BY DEF ClaimNothing, Record
<1>2. jobs' = AfterReap /\ clock' = clock
  BY DEF ClaimNothing
<1>3. Stored' = Stored
  <2>1. \A j \in Job : AfterReap[j] # NoRow <=> jobs[j] # NoRow
    BY ReapKeyed, RowAssumption DEF AfterReap, Stored, ExpiredJobs
  <2>2. QED
    BY <1>2, <2>1 DEF Stored
<1> HIDE DEF hist
<1>4. /\ hist \in Seq(JobEvent)
      /\ \A j \in Stored : Accounts(hist, j, AfterReap[j])
      /\ \A j \in Job \ Stored : About(hist, j) = {}
  BY <1>1, ReapTold
<1>5. QED
  BY <1>2, <1>3, <1>4 DEF HistoryInv, hist

LEMMA ClaimJobTold ==
  ASSUME MemInv, HistoryInv, NEW q \in Queue, NEW l \in Lease, NEW v \in Duration,
         ClaimJob(q, l, v)
  PROVE  HistoryInv'
<1> DEFINE hist == events'
           t == clock + v
<1>1. PICK j \in First(ReadyJobs(q)) :
        /\ jobs' = [AfterReap EXCEPT ![j] = Leased(@, l, clock + v)]
        /\ \E es \in ReapEvents :
             Record(Append(es, Event("claimed", j, AfterReap[j].status, "processing")))
  BY DEF ClaimJob
<1> DEFINE e == Event("claimed", j, AfterReap[j].status, "processing")
           row == Leased(AfterReap[j], l, t)
<1>2. PICK more \in ReapEvents : hist = events \o Append(more, e)
  BY <1>1 DEF Record
<1> DEFINE mid == events \o more
           one == <<e>>
<1>3. j \in Stored /\ j \in Job /\ clock' = clock /\ t \in Nat
  <2>1. clock \in Nat /\ v \in Nat
    BY MemoryAssumption DEF MemInv, Types
  <2>2. QED
    BY <2>1 DEF First, ReadyJobs, ClaimJob, Stored
<1>4. AfterReap[j] \in Row
  BY <1>3, ReapKeyed
<1> HIDE DEF t
<1>5. row \in Row
  BY <1>3, <1>4, LeasedType
<1>6. row.status = "processing" /\ row.attempts = AfterReap[j].attempts + 1
  BY <1>4 DEF Leased, Row
<1>7. /\ e \in JobEvent /\ e.job = j /\ e.type = "claimed"
      /\ e.from = AfterReap[j].status /\ e.to = row.status
  <2>1. AfterReap[j].status \in Status /\ "processing" \in Status
        /\ "claimed" \in JobEventType
    BY <1>4 DEF Row, Status, JobEventType
  <2> HIDE DEF row
  <2>2. QED
    BY <1>3, <1>6, <2>1, EventType
<1>8. /\ jobs'[j] = row
      /\ \A i \in Job : i # j => jobs'[i] = AfterReap[i]
      /\ Stored' = Stored
  <2>1. AfterReap \in [Job -> Row \cup {NoRow}]
    BY ReapKeyed
  <2>2. jobs'[j] = row /\ \A i \in Job : i # j => jobs'[i] = AfterReap[i]
    BY <1>1, <1>3, <2>1 DEF t
  <2>3. \A i \in Job : AfterReap[i] # NoRow <=> jobs[i] # NoRow
    BY ReapKeyed, RowAssumption DEF AfterReap, Stored, ExpiredJobs
  <2> HIDE DEF row
  <2>4. QED
    BY <1>3, <1>5, <2>2, <2>3, RowAssumption DEF Stored
<1> HIDE DEF e, row
<1>9. /\ more \in Seq(JobEvent) /\ mid \in Seq(JobEvent)
      /\ \A i \in Stored : Accounts(mid, i, AfterReap[i])
      /\ \A i \in Job \ Stored : About(mid, i) = {}
  BY ReapTold
<1>10. /\ one \in Seq(JobEvent) /\ 1 \in DOMAIN one /\ one[1] = e /\ About(one, j) = {1}
       /\ \A i \in Job : i # j => About(one, i) = {}
  BY <1>7, AboutOne
<1>11. hist = mid \o one
  <2>1. Append(more, e) = more \o one
    BY <1>7, <1>9
  <2>2. events \in Seq(JobEvent)
    BY DEF HistoryInv
  <2> HIDE DEF hist, one
  <2>3. QED
    BY <1>2, <1>9, <1>10, <2>1, <2>2, ConcatAssociative
<1> HIDE DEF hist, mid, one
<1>12. \A i : Extended(hist, mid, one, i)
  BY <1>9, <1>10, <1>11, AboutMore
<1>13. ASSUME NEW i \in Stored PROVE Accounts(hist, i, jobs'[i])
  <2>1. Accounts(mid, i, AfterReap[i]) /\ Extended(hist, mid, one, i) /\ i \in Job
    BY <1>9, <1>12 DEF Stored
  <2>2. CASE i = j
    <3>1. row.attempts = Counted(e.type, AfterReap[j].attempts)
      BY <1>6, <1>7 DEF Counted
    <3>2. Accounts(hist, j, row)
      BY <1>7, <1>9, <1>10, <2>1, <2>2, <3>1, OneEvent
    <3>3. QED
      BY <1>8, <2>2, <3>2
  <2>3. CASE i # j
    <3>1. About(one, i) = {} /\ jobs'[i] = AfterReap[i]
      BY <1>8, <1>10, <2>1, <2>3
    <3>2. QED
      BY <1>9, <1>10, <2>1, <3>1, Unmentioned
  <2>4. QED
    BY <2>2, <2>3
<1>14. ASSUME NEW i \in Job \ Stored PROVE About(hist, i) = {}
  <2>1. About(mid, i) = {} /\ About(one, i) = {} /\ Extended(hist, mid, one, i)
    BY <1>3, <1>9, <1>10, <1>12
  <2>2. QED
    BY <2>1 DEF Extended
<1>15. hist \in Seq(JobEvent)
  BY <1>12 DEF Extended
<1>16. QED
  BY <1>3, <1>8, <1>13, <1>14, <1>15 DEF HistoryInv, hist

-------------------------------------------------------------------------------
LEMMA HistoryStep ==
  ASSUME MemInv, HistoryInv, [Next]_vars
  PROVE  HistoryInv'
<1>1. ASSUME UNCHANGED <<jobs, events>>, clock' <= MaxTime PROVE HistoryInv'
  <2>1. Stored' = Stored
    BY <1>1 DEF Stored
  <2>2. QED
    BY <1>1, <2>1 DEF HistoryInv
<1>2. ASSUME UNCHANGED vars PROVE HistoryInv'
  BY <1>1, <1>2 DEF vars, HistoryInv
<1>3. ASSUME Tick PROVE HistoryInv'
  <2>1. clock' <= MaxTime
    BY <1>3, MemoryAssumption DEF Tick, MemInv, Types
  <2>2. QED
    BY <1>1, <1>3, <2>1 DEF Tick
<1>4. ASSUME NEW j \in Job, NEW input \in SubmitInputs, Submit(j, input) PROVE HistoryInv'
  BY <1>4, SubmitTold
<1>5. ASSUME NEW input \in SubmitInputs, SubmitAgain(input) PROVE HistoryInv'
  BY <1>2, <1>5 DEF SubmitAgain
<1>6. ASSUME NEW q \in Queue, NEW l \in Lease, NEW v \in Duration, ClaimJob(q, l, v)
      PROVE  HistoryInv'
  BY <1>6, ClaimJobTold
<1>7. ASSUME NEW q \in Queue, ClaimNothing(q) PROVE HistoryInv'
  BY <1>7, ClaimNothingTold
<1>8. ASSUME NEW j \in Stored, NEW l \in Lease, NEW v \in Duration, Heartbeat(j, l, v)
      PROVE  HistoryInv'
  BY <1>8, HeartbeatTold
<1>9. ASSUME NEW j \in Stored, NEW l \in Lease, Complete(j, l) PROVE HistoryInv'
  BY <1>9, CompleteTold
<1>10. ASSUME NEW j \in Stored, NEW l \in Lease, Fail(j, l) PROVE HistoryInv'
  BY <1>10, FailTold
<1>11. ASSUME NEW j \in Stored, Cancel(j) PROVE HistoryInv'
  BY <1>11, CancelTold
<1>12. ASSUME NEW j \in Stored, Retry(j) PROVE HistoryInv'
  BY <1>12, RetryTold
<1>13. ASSUME Refused PROVE HistoryInv'
  BY <1>2, <1>13 DEF Refused
<1>14. QED
  BY <1>2, <1>3, <1>4, <1>5, <1>6, <1>7, <1>8, <1>9, <1>10, <1>11, <1>12, <1>13 DEF Next

LEMMA HistoryInvariant == Spec => [](MemInv /\ HistoryInv)
<1>1. Init => MemInv /\ HistoryInv
  BY MemInit, HistoryInit
<1>2. MemInv /\ HistoryInv /\ [Next]_vars => MemInv' /\ HistoryInv'
  BY MemStep, HistoryStep
<1>3. QED
  BY <1>1, <1>2, PTL DEF Spec

\* The rows, the keys, the leases, the clock and every recorded event are well formed.
THEOREM MemoryTypes == Spec => []TypeOK
<1>1. MemInv /\ HistoryInv => TypeOK
  BY MemoryAssumption DEF MemInv, Types, HistoryInv, TypeOK
<1>2. QED
  BY <1>1, HistoryInvariant, PTL

\* Whatever was reaped, failed, retried or cancelled, the events of a job lead from
\* its submission to its status without a gap: what the dashboard shows as the
\* history of a job is how the job got where it is.
THEOREM HistoryExplains == Spec => []HistoryReplays
<1>1. HistoryInv => HistoryReplays
  BY DEF HistoryInv, Accounts, HistoryReplays
<1>2. QED
  BY <1>1, HistoryInvariant, PTL

\* attempts, which decides between a retry and the dead letters, is the number of
\* claims in the history since the last manual retry.
THEOREM AttemptsCountClaims == Spec => []AttemptsAreClaims
<1>1. HistoryInv => AttemptsAreClaims
  BY DEF HistoryInv, Accounts, AttemptsAreClaims
<1>2. QED
  BY <1>1, HistoryInvariant, PTL

-------------------------------------------------------------------------------
(* Leases: a row and what the holder of its lease was told agree                *)

\* A row that carries a lease carries it as it was told, and only a job in a
\* worker's hands, or one that was cancelled in them, has one.
Current(row, j, terms) ==
  /\ Shape(row)
  /\ row.lease # NoLease => terms[row.lease] = [job |-> j, until |-> row.until]

\* A holder whose time is not over finds its lease on the row of a stored job.
Live(l, rows, terms, now) ==
  terms[l].until > now =>
    /\ terms[l].job \in Job /\ rows[terms[l].job] # NoRow
    /\ rows[terms[l].job].lease = l /\ rows[terms[l].job].until = terms[l].until

LeaseInv == /\ \A j \in Stored : Current(jobs[j], j, issued)
            /\ \A l \in Lease : Live(l, jobs, issued, clock)

LEMMA LeaseInit == Init => LeaseInv
  BY DEF Init, LeaseInv, Stored, Live

\* A row on which the lease and its expiry stay, under the same terms.
LEMMA SameLease ==
  ASSUME MemInv, LeaseInv, NEW j \in Stored, NEW row \in Row, Shape(row),
         row.lease = jobs[j].lease, row.until = jobs[j].until,
         jobs' = [jobs EXCEPT ![j] = row], UNCHANGED <<issued, clock>>
  PROVE  LeaseInv'
<1>1. /\ Stored' = Stored /\ j \in Job /\ row # NoRow
      /\ \A i \in Job : jobs'[i] = IF i = j THEN row ELSE jobs[i]
  BY RowAssumption DEF Stored, MemInv, Types
<1>2. ASSUME NEW i \in Stored PROVE Current(jobs'[i], i, issued)
  <2>1. Current(jobs[i], i, issued) /\ i \in Job
    BY DEF LeaseInv, Stored
  <2>2. QED
    BY <1>1, <2>1 DEF Current
<1>3. ASSUME NEW l \in Lease PROVE Live(l, jobs', issued, clock)
  <2>1. Live(l, jobs, issued, clock)
    BY DEF LeaseInv
  <2>2. QED
    BY <1>1, <2>1 DEF Live
<1>4. QED
  BY <1>1, <1>2, <1>3 DEF LeaseInv

LEMMA SubmitLeases ==
  ASSUME MemInv, LeaseInv, NEW j \in Job, NEW input \in SubmitInputs, Submit(j, input)
  PROVE  LeaseInv'
<1> DEFINE row == NewRow([input EXCEPT !.key = NoKey], clock, clock)
<1>1. [input EXCEPT !.key = NoKey] \in SubmitInput /\ clock \in Nat
  BY MemoryAssumption DEF SubmitInput, MemInv, Types
<1>2. row \in Row /\ Shape(row) /\ row.lease = NoLease
  BY <1>1, NewRowType
<1>3. j \notin Stored /\ jobs' = [jobs EXCEPT ![j] = row] /\ UNCHANGED <<issued, clock>>
  BY DEF Submit
<1> HIDE DEF row
<1>4. /\ Stored' = Stored \cup {j} /\ jobs'[j] = row /\ jobs[j] = NoRow
      /\ \A i \in Job : i # j => jobs'[i] = jobs[i]
  BY <1>2, <1>3, RowAssumption DEF Stored, MemInv, Types
<1>5. ASSUME NEW i \in Stored' PROVE Current(jobs'[i], i, issued)
  <2>1. CASE i = j
    BY <1>2, <1>4, <2>1 DEF Current
  <2>2. CASE i # j
    BY <1>4, <2>2 DEF LeaseInv, Stored
  <2>3. QED
    BY <2>1, <2>2
<1>6. ASSUME NEW l \in Lease PROVE Live(l, jobs', issued, clock)
  <2>1. Live(l, jobs, issued, clock)
    BY DEF LeaseInv
  <2>2. QED
    BY <1>4, <2>1 DEF Live
<1>7. QED
  BY <1>3, <1>5, <1>6 DEF LeaseInv

\* Reaping takes back expired leases only.
LEMMA ReapLeases ==
  ASSUME MemInv, LeaseInv
  PROVE  /\ \A j \in Stored : Current(AfterReap[j], j, issued)
         /\ \A l \in Lease : Live(l, AfterReap, issued, clock)
         /\ \A j \in Job : AfterReap[j] # NoRow <=> jobs[j] # NoRow
<1>1. clock \in Nat /\ \A j \in Stored : j \in Job /\ jobs[j] \in Row
  BY StoredRow DEF MemInv, Types
<1>2. ASSUME NEW j \in Stored PROVE Current(AfterReap[j], j, issued)
  <2>1. CASE j \in ExpiredJobs
    <3>1. AfterReap[j] = Reaped(jobs[j], clock)
      BY <1>1, <2>1 DEF AfterReap
    <3>2. QED
      BY <1>1, <3>1, ReapedType DEF Current
  <2>2. CASE j \notin ExpiredJobs
    BY <1>1, <2>2 DEF AfterReap, LeaseInv
  <2>3. QED
    BY <2>1, <2>2
<1>3. \A j \in Job : AfterReap[j] # NoRow <=> jobs[j] # NoRow
  BY ReapKeyed, RowAssumption DEF AfterReap, Stored, ExpiredJobs
<1>4. ASSUME NEW l \in Lease PROVE Live(l, AfterReap, issued, clock)
  <2> SUFFICES ASSUME issued[l].until > clock PROVE Live(l, AfterReap, issued, clock)
    BY DEF Live
  <2> DEFINE j == issued[l].job
  <2>1. j \in Job /\ jobs[j] # NoRow /\ jobs[j].lease = l /\ jobs[j].until = issued[l].until
    BY DEF LeaseInv, Live
  <2>2. j \notin ExpiredJobs
    <3>1. issued[l].until \in Nat
      BY DEF MemInv, Types
    <3>2. QED
      BY <1>1, <2>1, <3>1 DEF ExpiredJobs, Expired
  <2>3. AfterReap[j] = jobs[j]
    BY <2>1, <2>2 DEF AfterReap
  <2>4. QED
    BY <2>1, <2>3 DEF Live
<1>5. QED
  BY <1>2, <1>3, <1>4

LEMMA ClaimNothingLeases ==
  ASSUME MemInv, LeaseInv, NEW q \in Queue, ClaimNothing(q)
  PROVE  LeaseInv'
<1>1. jobs' = AfterReap /\ UNCHANGED <<issued, clock>>
  BY DEF ClaimNothing
<1>2. Stored' = Stored
  BY <1>1, ReapLeases DEF Stored
<1>3. QED
  BY <1>1, <1>2, ReapLeases DEF LeaseInv

LEMMA ClaimJobLeases ==
  ASSUME MemInv, LeaseInv, NEW q \in Queue, NEW l \in Lease, NEW v \in Duration,
         ClaimJob(q, l, v)
  PROVE  LeaseInv'
<1> DEFINE t == clock + v
<1>1. PICK j \in First(ReadyJobs(q)) :
        /\ jobs' = [AfterReap EXCEPT ![j] = Leased(@, l, clock + v)]
        /\ issued' = [issued EXCEPT ![l] = [job |-> j, until |-> clock + v]]
  BY DEF ClaimJob
<1> DEFINE row == Leased(AfterReap[j], l, t)
<1>2. /\ j \in Stored /\ j \in Job /\ AfterReap[j].status \in Claimable
      /\ issued[l].job = NoJob /\ clock' = clock
  BY DEF First, ReadyJobs, Ready, ClaimJob, FreshLease, Stored
<1>3. t \in Nat /\ AfterReap[j] \in Row /\ AfterReap \in [Job -> Row \cup {NoRow}]
  <2>1. clock \in Nat /\ v \in Nat
    BY MemoryAssumption DEF MemInv, Types
  <2>2. QED
    BY <1>2, <2>1, ReapKeyed
<1>4. /\ \A i \in Job : jobs'[i] = IF i = j THEN row ELSE AfterReap[i]
      /\ \A m \in Lease : issued'[m] = IF m = l THEN [job |-> j, until |-> t] ELSE issued[m]
  BY <1>1, <1>2, <1>3 DEF MemInv, Types
<1> HIDE DEF t
<1>5. row \in Row /\ Shape(row) /\ row.lease = l /\ row.until = t /\ row # NoRow
  BY <1>3, LeasedType, RowAssumption
<1>6. AfterReap[j].lease = NoLease
  BY <1>2, ReapLeases DEF Current, Shape, Held, Claimable
<1> HIDE DEF row
<1>7. Stored' = Stored
  BY <1>2, <1>4, <1>5, ReapLeases DEF Stored
<1>8. ASSUME NEW i \in Stored PROVE Current(jobs'[i], i, issued')
  <2>1. CASE i = j
    BY <1>2, <1>4, <1>5, <2>1 DEF Current
  <2>2. CASE i # j
    <3>1. Current(AfterReap[i], i, issued) /\ i \in Job /\ AfterReap[i] \in Row
      BY ReapLeases, ReapKeyed DEF Stored
    <3>2. AfterReap[i].lease \in Lease => AfterReap[i].lease # l
      BY <1>2, <3>1, NullAssumption DEF Current
    <3>3. QED
      BY <1>4, <2>2, <3>1, <3>2, NullAssumption DEF Current, Row
  <2>3. QED
    BY <2>1, <2>2
<1>9. ASSUME NEW m \in Lease PROVE Live(m, jobs', issued', clock)
  <2>1. CASE m = l
    BY <1>2, <1>4, <1>5, <2>1 DEF Live
  <2>2. CASE m # l
    <3>1. Live(m, AfterReap, issued, clock) /\ issued'[m] = issued[m]
      BY <1>4, <2>2, ReapLeases
    <3>2. issued[m].until > clock => issued[m].job # j
      BY <1>6, <3>1, NullAssumption DEF Live
    <3>3. QED
      BY <1>4, <3>1, <3>2 DEF Live
  <2>3. QED
    BY <2>1, <2>2
<1>10. QED
  BY <1>2, <1>7, <1>8, <1>9 DEF LeaseInv

LEMMA HeartbeatLeases ==
  ASSUME MemInv, LeaseInv, NEW j \in Stored, NEW l \in Lease, NEW v \in Duration,
         Heartbeat(j, l, v)
  PROVE  LeaseInv'
<1> DEFINE t == clock + v
           row == Renewed(jobs[j], t)
<1>1. jobs[j] \in Row /\ j \in Job /\ Current(jobs[j], j, issued) /\ jobs[j].lease = l
  BY StoredRow DEF Heartbeat, Renewable, LeaseInv
<1>2. t \in Nat
  <2>1. clock \in Nat /\ v \in Nat
    BY MemoryAssumption DEF MemInv, Types
  <2>2. QED
    BY <2>1
<1> HIDE DEF t
<1>3. row \in Row /\ Shape(row) /\ row.lease = l /\ row.until = t /\ row # NoRow
  BY <1>1, <1>2, RenewedType, RowAssumption DEF Current
<1>4. issued[l].job = j
  BY <1>1, NullAssumption DEF Current
<1>5. /\ \A i \in Job : jobs'[i] = IF i = j THEN row ELSE jobs[i]
      /\ \A m \in Lease : m # l => issued'[m] = issued[m]
      /\ issued'[l] = [job |-> j, until |-> t]
      /\ clock' = clock
  <2>1. issued[l] \in [job: Job \cup {NoJob}, until: Nat]
    BY DEF MemInv, Types
  <2>2. issued' = [issued EXCEPT ![l].until = t] /\ clock' = clock
        /\ jobs' = [jobs EXCEPT ![j] = row]
    BY DEF Heartbeat, t
  <2> HIDE DEF row
  <2>3. QED
    BY <1>4, <2>1, <2>2 DEF MemInv, Types
<1> HIDE DEF row
<1>6. Stored' = Stored
  BY <1>3, <1>5 DEF Stored
<1>7. ASSUME NEW i \in Stored PROVE Current(jobs'[i], i, issued')
  <2>1. CASE i = j
    BY <1>1, <1>3, <1>5, <2>1 DEF Current
  <2>2. CASE i # j
    <3>1. Current(jobs[i], i, issued) /\ i \in Job /\ jobs[i] \in Row
      BY StoredRow DEF LeaseInv
    <3>2. jobs[i].lease # l
      BY <1>4, <2>2, <3>1, NullAssumption DEF Current
    <3>3. QED
      BY <1>5, <2>2, <3>1, <3>2 DEF Current, Row
  <2>3. QED
    BY <2>1, <2>2
<1>8. ASSUME NEW m \in Lease PROVE Live(m, jobs', issued', clock)
  <2>1. CASE m = l
    BY <1>1, <1>3, <1>5, <2>1 DEF Live
  <2>2. CASE m # l
    <3>1. Live(m, jobs, issued, clock) /\ issued'[m] = issued[m]
      BY <1>5, <2>2 DEF LeaseInv
    <3>2. issued[m].until > clock => issued[m].job # j
      BY <1>1, <2>2, <3>1 DEF Live
    <3>3. QED
      BY <1>5, <3>1, <3>2 DEF Live
  <2>3. QED
    BY <2>1, <2>2
<1>9. QED
  BY <1>5, <1>6, <1>7, <1>8 DEF LeaseInv

LEMMA AcknowledgeLeases ==
  ASSUME MemInv, LeaseInv, NEW j \in Stored, NEW l \in Lease, NEW row \in Row, NEW es,
         Shape(row), row.lease = NoLease, Acknowledge(j, l, row, es)
  PROVE  LeaseInv'
<1>1. jobs[j] \in Row /\ j \in Job /\ Current(jobs[j], j, issued) /\ jobs[j].lease = l
  BY StoredRow DEF Acknowledge, Owned, LeaseInv
<1>2. issued[l].job = j /\ row # NoRow
  BY <1>1, NullAssumption, RowAssumption DEF Current
<1>3. /\ \A i \in Job : jobs'[i] = IF i = j THEN row ELSE jobs[i]
      /\ \A m \in Lease : m # l => issued'[m] = issued[m]
      /\ issued'[l].until = 0 /\ clock' = clock /\ clock \in Nat
  BY DEF Acknowledge, MemInv, Types
<1>4. Stored' = Stored
  BY <1>1, <1>2, <1>3 DEF Stored
<1>5. ASSUME NEW i \in Stored PROVE Current(jobs'[i], i, issued')
  <2>1. CASE i = j
    BY <1>1, <1>3, <2>1 DEF Current
  <2>2. CASE i # j
    <3>1. Current(jobs[i], i, issued) /\ i \in Job /\ jobs[i] \in Row
      BY StoredRow DEF LeaseInv
    <3>2. jobs[i].lease # l
      BY <1>2, <2>2, <3>1, NullAssumption DEF Current
    <3>3. QED
      BY <1>3, <2>2, <3>1, <3>2 DEF Current, Row
  <2>3. QED
    BY <2>1, <2>2
<1>6. ASSUME NEW m \in Lease PROVE Live(m, jobs', issued', clock)
  <2>1. CASE m = l
    BY <1>3, <2>1 DEF Live
  <2>2. CASE m # l
    <3>1. Live(m, jobs, issued, clock) /\ issued'[m] = issued[m]
      BY <1>3, <2>2 DEF LeaseInv
    <3>2. issued[m].until > clock => issued[m].job # j
      BY <1>1, <2>2, <3>1 DEF Live
    <3>3. QED
      BY <1>3, <3>1, <3>2 DEF Live
  <2>3. QED
    BY <2>1, <2>2
<1>7. QED
  BY <1>3, <1>4, <1>5, <1>6 DEF LeaseInv

LEMMA LeaseStep ==
  ASSUME MemInv, LeaseInv, [Next]_vars
  PROVE  LeaseInv'
<1>1. ASSUME UNCHANGED <<jobs, issued>>, clock' \in Nat, clock' >= clock PROVE LeaseInv'
  <2>1. clock \in Nat /\ issued \in Terms
    BY DEF MemInv, Types, Terms
  <2>2. \A l \in Lease : Live(l, jobs, issued, clock')
    BY <1>1, <2>1 DEF LeaseInv, Live, Terms
  <2>3. Stored' = Stored
    BY <1>1 DEF Stored
  <2>4. QED
    BY <1>1, <2>2, <2>3 DEF LeaseInv
<1>2. ASSUME UNCHANGED vars PROVE LeaseInv'
  BY <1>1, <1>2 DEF vars, MemInv, Types
<1>3. ASSUME Tick PROVE LeaseInv'
  BY <1>1, <1>3 DEF Tick, MemInv, Types
<1>4. ASSUME NEW j \in Job, NEW input \in SubmitInputs, Submit(j, input) PROVE LeaseInv'
  BY <1>4, SubmitLeases
<1>5. ASSUME NEW input \in SubmitInputs, SubmitAgain(input) PROVE LeaseInv'
  BY <1>2, <1>5 DEF SubmitAgain
<1>6. ASSUME NEW q \in Queue, NEW l \in Lease, NEW v \in Duration, ClaimJob(q, l, v)
      PROVE  LeaseInv'
  BY <1>6, ClaimJobLeases
<1>7. ASSUME NEW q \in Queue, ClaimNothing(q) PROVE LeaseInv'
  BY <1>7, ClaimNothingLeases
<1>8. ASSUME NEW j \in Stored, NEW l \in Lease, NEW v \in Duration, Heartbeat(j, l, v)
      PROVE  LeaseInv'
  BY <1>8, HeartbeatLeases
<1>9. ASSUME NEW j \in Stored, NEW l \in Lease, Complete(j, l) PROVE LeaseInv'
  <2> DEFINE row == Completed(jobs[j])
  <2>1. row \in Row /\ Shape(row) /\ row.lease = NoLease
    BY StoredRow, CompletedType
  <2>2. PICK es : Acknowledge(j, l, row, es)
    BY <1>9 DEF Complete
  <2> HIDE DEF row
  <2>3. QED
    BY <2>1, <2>2, AcknowledgeLeases
<1>10. ASSUME NEW j \in Stored, NEW l \in Lease, Fail(j, l) PROVE LeaseInv'
  <2> DEFINE row == Failed(jobs[j], clock)
  <2>1. row \in Row /\ Shape(row) /\ row.lease = NoLease
    BY StoredRow, FailedType DEF MemInv, Types
  <2>2. PICK es : Acknowledge(j, l, row, es)
    BY <1>10 DEF Fail
  <2> HIDE DEF row
  <2>3. QED
    BY <2>1, <2>2, AcknowledgeLeases
<1>11. ASSUME NEW j \in Stored, Cancel(j) PROVE LeaseInv'
  <2> DEFINE row == Cancelled(jobs[j])
  <2>1. jobs[j] \in Row /\ Shape(jobs[j]) /\ jobs[j].status \notin Uncancellable
    BY <1>11, StoredRow DEF Cancel, LeaseInv, Current
  <2>2. /\ row \in Row /\ Shape(row)
        /\ row.lease = jobs[j].lease /\ row.until = jobs[j].until
    BY <2>1, CancelledType
  <2>3. jobs' = [jobs EXCEPT ![j] = row] /\ UNCHANGED <<issued, clock>>
    BY <1>11 DEF Cancel
  <2> HIDE DEF row
  <2>4. QED
    BY <2>2, <2>3, SameLease
<1>12. ASSUME NEW j \in Stored, Retry(j) PROVE LeaseInv'
  <2> DEFINE row == Retried(jobs[j], clock)
  <2>1. jobs[j] \in Row /\ Shape(jobs[j]) /\ jobs[j].status = "dead_letter" /\ clock \in Nat
    BY <1>12, StoredRow DEF Retry, LeaseInv, Current, MemInv, Types
  <2>2. /\ row \in Row /\ Shape(row)
        /\ row.lease = jobs[j].lease /\ row.until = jobs[j].until
    BY <2>1, RetriedType
  <2>3. jobs' = [jobs EXCEPT ![j] = row] /\ UNCHANGED <<issued, clock>>
    BY <1>12 DEF Retry
  <2> HIDE DEF row
  <2>4. QED
    BY <2>2, <2>3, SameLease
<1>13. ASSUME Refused PROVE LeaseInv'
  BY <1>2, <1>13 DEF Refused
<1>14. QED
  BY <1>2, <1>3, <1>4, <1>5, <1>6, <1>7, <1>8, <1>9, <1>10, <1>11, <1>12, <1>13 DEF Next

\* However many workers claim, renew and acknowledge in the in-memory store, an
\* unexpired lease is on the row of its job: two of them never hold one job at once.
THEOREM MemoryLeases == Spec => []LiveLeaseIsCurrent
<1>1. Init => MemInv /\ LeaseInv
  BY MemInit, LeaseInit
<1>2. MemInv /\ LeaseInv /\ [Next]_vars => MemInv' /\ LeaseInv'
  BY MemStep, LeaseStep
<1>3. LeaseInv => LiveLeaseIsCurrent
  BY DEF LeaseInv, Live, LiveLeaseIsCurrent
<1>4. QED
  BY <1>1, <1>2, <1>3, PTL DEF Spec
===============================================================================
