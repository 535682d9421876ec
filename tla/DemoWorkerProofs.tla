--------------------------- MODULE DemoWorkerProofs ---------------------------
(* The demo worker, for any number of jobs, leases, queues and pending timers: *)
(* at most one tick is under way, a running worker always has something that   *)
(* wakes it up, and the job it shows as active is the one it holds.  The last  *)
(* needs an invariant of the contract: while a lease lasts, the row it was     *)
(* issued for still carries it.                                                *)
EXTENDS DemoWorker, JobRecordProofs, FiniteSetTheorems

(* The store                                                                   *)

Rows == [Job -> Row \cup {NoRow}]
Terms == [Lease -> [job: Job \cup {NoJob}, until: Nat]]

WellShaped(rows) == \A j \in Job : rows[j] # NoRow => Shape(rows[j])

\* A row that carries a lease agrees with what the holder of the lease was told.
RowsAgree(rows, terms) ==
  \A j \in Job, l \in Lease : rows[j] # NoRow /\ rows[j].lease = l =>
    terms[l].job = j /\ terms[l].until = rows[j].until

\* A lease that lasts is carried by the row it was issued for.
LeasesLast(rows, terms, now) ==
  \A l \in Lease : terms[l].until > now =>
    /\ terms[l].job \in Job
    /\ rows[terms[l].job] # NoRow /\ rows[terms[l].job].lease = l

\* A lease is issued for a job there is.
IssuedForRows(rows, terms) == \A l \in Lease : terms[l].job # NoJob => rows[terms[l].job] # NoRow

Consistent(rows, terms, now) ==
  /\ rows \in Rows /\ terms \in Terms /\ now \in Nat
  /\ WellShaped(rows) /\ RowsAgree(rows, terms) /\ LeasesLast(rows, terms, now)
  /\ IssuedForRows(rows, terms)

\* The job of a lease never changes once it is issued.
SameJobs(terms, later) == \A l \in Lease : terms[l].job # NoJob => later[l].job = terms[l].job

LEMMA TimePasses ==
  ASSUME NEW rows, NEW terms, NEW now, Consistent(rows, terms, now)
  PROVE  Consistent(rows, terms, now + 1)
<1>1. now \in Nat /\ now + 1 \in Nat /\ terms \in Terms
  BY DEF Consistent
<1>2. \A l \in Lease : terms[l].until \in Nat
  BY <1>1 DEF Terms
<1>3. \A l \in Lease : terms[l].until > now + 1 => terms[l].until > now
  BY <1>1, <1>2
<1>4. LeasesLast(rows, terms, now + 1)
  BY <1>3 DEF Consistent, LeasesLast
<1>5. QED
  BY <1>1, <1>4 DEF Consistent

\* A row that has no lease before and after.
LEMMA FreeRow ==
  ASSUME NEW rows, NEW terms, NEW now, Consistent(rows, terms, now),
         NEW j \in Job, rows[j] = NoRow \/ rows[j].lease = NoLease,
         NEW row \in Row, Shape(row), row.lease = NoLease
  PROVE  Consistent([rows EXCEPT ![j] = row], terms, now)
<1> DEFINE later == [rows EXCEPT ![j] = row]
<1>1. rows \in Rows
  BY DEF Consistent
<1>2. \A i \in Job : later[i] = IF i = j THEN row ELSE rows[i]
  BY <1>1 DEF Rows
<1>3. later \in Rows
  BY <1>1 DEF Rows
<1> HIDE DEF later
<1>4. WellShaped(later)
  BY <1>2 DEF WellShaped, Consistent
<1>5. RowsAgree(later, terms)
  BY <1>2, NullAssumption DEF RowsAgree, Consistent
<1>6. LeasesLast(later, terms, now)
  BY <1>2, NullAssumption DEF LeasesLast, Consistent
<1>7. IssuedForRows(later, terms)
  BY <1>2, RowAssumption DEF IssuedForRows, Consistent, Terms
<1>8. QED
  BY <1>3, <1>4, <1>5, <1>6, <1>7 DEF Consistent, later

\* A row whose lease columns do not change.
LEMMA SameLeaseRow ==
  ASSUME NEW rows, NEW terms, NEW now, Consistent(rows, terms, now),
         NEW j \in Job, rows[j] # NoRow, NEW row \in Row, Shape(row),
         row.lease = rows[j].lease, row.until = rows[j].until
  PROVE  Consistent([rows EXCEPT ![j] = row], terms, now)
<1> DEFINE later == [rows EXCEPT ![j] = row]
<1>1. rows \in Rows
  BY DEF Consistent
<1>2. \A i \in Job : later[i] = IF i = j THEN row ELSE rows[i]
  BY <1>1 DEF Rows
<1>3. later \in Rows
  BY <1>1 DEF Rows
<1> HIDE DEF later
<1>4. WellShaped(later)
  BY <1>2 DEF WellShaped, Consistent
<1>5. RowsAgree(later, terms)
  BY <1>2 DEF RowsAgree, Consistent
<1>6. LeasesLast(later, terms, now)
  BY <1>2, RowAssumption DEF LeasesLast, Consistent
<1>7. IssuedForRows(later, terms)
  BY <1>2, RowAssumption DEF IssuedForRows, Consistent, Terms
<1>8. QED
  BY <1>3, <1>4, <1>5, <1>6, <1>7 DEF Consistent, later

\* The row and the terms of its lease change together: a heartbeat, and with no
\* lease left an acknowledgement.
LEMMA LeaseRow ==
  ASSUME NEW rows, NEW terms, NEW now, Consistent(rows, terms, now),
         NEW j \in Job, rows[j] # NoRow, NEW l \in Lease, rows[j].lease = l,
         NEW row \in Row, Shape(row), NEW until \in Nat,
         \/ row.lease = l /\ row.until = until
         \/ row.lease = NoLease /\ until = 0
  PROVE  /\ Consistent([rows EXCEPT ![j] = row], [terms EXCEPT ![l].until = until], now)
         /\ SameJobs(terms, [terms EXCEPT ![l].until = until])
<1> DEFINE later == [rows EXCEPT ![j] = row]
           told == [terms EXCEPT ![l].until = until]
<1>1. rows \in Rows /\ terms \in Terms /\ now \in Nat
  BY DEF Consistent
<1>2. \A i \in Job : later[i] = IF i = j THEN row ELSE rows[i]
  BY <1>1 DEF Rows
<1>3. later \in Rows /\ told \in Terms
  BY <1>1 DEF Rows, Terms
<1>4. \A m \in Lease : /\ told[m].job = terms[m].job
                       /\ told[m].until = IF m = l THEN until ELSE terms[m].until
  BY <1>1 DEF Terms
<1> HIDE DEF later, told
<1>5. WellShaped(later)
  BY <1>2 DEF WellShaped, Consistent
<1>6. RowsAgree(later, told)
  BY <1>2, <1>4, NullAssumption DEF RowsAgree, Consistent
<1>7. LeasesLast(later, told, now)
  <2> SUFFICES ASSUME NEW m \in Lease, told[m].until > now
               PROVE  /\ told[m].job \in Job
                      /\ later[told[m].job] # NoRow /\ later[told[m].job].lease = m
    BY DEF LeasesLast
  <2>1. CASE m = l
    <3>1. terms[l].job = j
      BY DEF Consistent, RowsAgree
    <3>2. row.lease = l
      BY <1>1, <1>4, <2>1
    <3>3. QED
      BY <1>2, <1>4, <2>1, <3>1, <3>2, RowAssumption
  <2>2. CASE m # l
    BY <1>2, <1>4, <2>2 DEF Consistent, LeasesLast
  <2>3. QED
    BY <2>1, <2>2
<1>8. IssuedForRows(later, told)
  BY <1>1, <1>2, <1>4, RowAssumption DEF IssuedForRows, Consistent, Terms
<1>9. QED
  BY <1>1, <1>3, <1>4, <1>5, <1>6, <1>7, <1>8 DEF Consistent, later, told, SameJobs

\* A claim leases a row that no lease holds.
LEMMA ClaimRow ==
  ASSUME NEW rows, NEW terms, NEW now, Consistent(rows, terms, now),
         NEW j \in Job, rows[j] # NoRow, rows[j].status \in Claimable,
         NEW l \in Lease, terms[l].job = NoJob, NEW until \in Nat,
         NEW term, term = [job |-> j, until |-> until]
  PROVE  /\ Consistent([rows EXCEPT ![j] = Leased(@, l, until)],
                       [terms EXCEPT ![l] = term], now)
         /\ SameJobs(terms, [terms EXCEPT ![l] = term])
<1> DEFINE row == Leased(rows[j], l, until)
           later == [rows EXCEPT ![j] = row]
           told == [terms EXCEPT ![l] = term]
<1>1. rows \in Rows /\ terms \in Terms /\ now \in Nat /\ rows[j] \in Row
  BY DEF Consistent, Rows
<1>2. row \in Row /\ Shape(row) /\ row.lease = l /\ row.until = until
  BY <1>1, LeasedType
<1>3. rows[j].lease = NoLease
  BY <1>1 DEF Consistent, WellShaped, Shape, Claimable, Held
<1> HIDE DEF row
<1>4. \A i \in Job : later[i] = IF i = j THEN row ELSE rows[i]
  BY <1>1 DEF Rows
<1>5. later \in Rows /\ told \in Terms
  BY <1>1, <1>2 DEF Rows, Terms
<1>6. \A m \in Lease : told[m] = IF m = l THEN term ELSE terms[m]
  BY <1>1 DEF Terms
<1> HIDE DEF later, told
<1>7. WellShaped(later)
  BY <1>2, <1>4 DEF WellShaped, Consistent
<1>8. RowsAgree(later, told)
  <2> SUFFICES ASSUME NEW i \in Job, NEW m \in Lease, later[i] # NoRow, later[i].lease = m
               PROVE  told[m].job = i /\ told[m].until = later[i].until
    BY DEF RowsAgree
  <2>1. CASE i = j
    BY <1>2, <1>4, <1>6, <2>1
  <2>2. CASE i # j
    <3>1. terms[m].job = i /\ terms[m].until = later[i].until
      BY <1>4, <2>2 DEF Consistent, RowsAgree
    <3>2. m # l
      BY <3>1, NullAssumption
    <3>3. QED
      BY <1>6, <3>1, <3>2
  <2>3. QED
    BY <2>1, <2>2
<1>9. LeasesLast(later, told, now)
  <2> SUFFICES ASSUME NEW m \in Lease, told[m].until > now
               PROVE  /\ told[m].job \in Job
                      /\ later[told[m].job] # NoRow /\ later[told[m].job].lease = m
    BY DEF LeasesLast
  <2>1. CASE m = l
    BY <1>2, <1>4, <1>6, <2>1, RowAssumption
  <2>2. CASE m # l
    <3>1. /\ terms[m].job \in Job /\ told[m] = terms[m]
          /\ rows[terms[m].job] # NoRow /\ rows[terms[m].job].lease = m
      BY <1>6, <2>2 DEF Consistent, LeasesLast
    <3>2. terms[m].job # j
      BY <1>3, <3>1, NullAssumption
    <3>3. QED
      BY <1>4, <3>1, <3>2
  <2>3. QED
    BY <2>1, <2>2
<1>10. \A m \in Lease : terms[m].job # NoJob => told[m].job = terms[m].job
  BY <1>6
<1>11. IssuedForRows(later, told)
  BY <1>1, <1>2, <1>4, <1>6, RowAssumption DEF IssuedForRows, Consistent, Terms
<1>12. QED
  BY <1>1, <1>5, <1>7, <1>8, <1>9, <1>10, <1>11 DEF Consistent, later, told, row, SameJobs

\* Taking back expired leases leaves the others alone.
LEMMA ReapRows ==
  ASSUME NEW rows, NEW terms, NEW now, Consistent(rows, terms, now),
         NEW R, NEW t \in 0..now, \A j \in R : Expired(rows[j], t),
         NEW later, later = [j \in Job |-> IF j \in R THEN Reaped(rows[j], t) ELSE rows[j]],
         \A j \in R : j \in Job /\ rows[j] # NoRow
  PROVE  Consistent(later, terms, now) /\ \A j \in Job : later[j] = NoRow <=> rows[j] = NoRow
<1>1. rows \in Rows /\ terms \in Terms /\ now \in Nat /\ t \in Nat
  BY DEF Consistent
<1>2. \A j \in R : /\ rows[j] \in Row /\ Reaped(rows[j], t) \in Row
                   /\ Shape(Reaped(rows[j], t)) /\ Reaped(rows[j], t).lease = NoLease
  BY <1>1, ReapedType DEF Rows
<1>3. \A j \in Job : \/ j \notin R /\ later[j] = rows[j]
                     \/ j \in R /\ later[j] \in Row /\ Shape(later[j])
                        /\ later[j].lease = NoLease
  BY <1>2
<1>4. \A j \in Job : later[j] = NoRow <=> rows[j] = NoRow
  BY <1>3, RowAssumption
<1>5. later \in Rows
  BY <1>1, <1>2 DEF Rows
<1>6. WellShaped(later)
  BY <1>3, <1>4 DEF WellShaped, Consistent
<1>7. RowsAgree(later, terms)
  BY <1>3, <1>4, NullAssumption DEF RowsAgree, Consistent
<1>8. LeasesLast(later, terms, now)
  <2> SUFFICES ASSUME NEW l \in Lease, terms[l].until > now
               PROVE  /\ terms[l].job \in Job
                      /\ later[terms[l].job] # NoRow /\ later[terms[l].job].lease = l
    BY DEF LeasesLast
  <2> DEFINE j == terms[l].job
  <2>1. j \in Job /\ rows[j] # NoRow /\ rows[j].lease = l
    BY DEF Consistent, LeasesLast
  <2>2. terms[l].until = rows[j].until
    BY <2>1 DEF Consistent, RowsAgree
  <2>3. j \notin R
    BY <1>1, <2>2 DEF Expired, Terms
  <2>4. QED
    BY <1>3, <2>1, <2>3
<1>9. IssuedForRows(later, terms)
  BY <1>4, <1>1 DEF IssuedForRows, Consistent, Terms
<1>10. QED
  BY <1>1, <1>4, <1>5, <1>6, <1>7, <1>8, <1>9 DEF Consistent

-------------------------------------------------------------------------------
(* The operations of the contract                                              *)

StoreInv == Consistent(jobs, issued, clock)

LEMMA SameOperators ==
  /\ \A row, now : /\ Store!Expired(row, now) = Expired(row, now)
                   /\ Store!Reaped(row, now) = Reaped(row, now)
                   /\ Store!Renewed(row, now) = Renewed(row, now)
                   /\ Store!Failed(row, now) = Failed(row, now)
                   /\ Store!Retried(row, now) = Retried(row, now)
  /\ \A row : /\ Store!Completed(row) = Completed(row)
              /\ Store!Cancelled(row) = Cancelled(row)
  /\ \A row, x, now : /\ Store!Ready(row, x, now) = Ready(row, x, now)
                      /\ Store!Leased(row, x, now) = Leased(row, x, now)
                      /\ Store!Renewable(row, x, now) = Renewable(row, x, now)
  /\ \A input, created, now :
       Store!NewRow(input, created, now) = NewRow(input, created, now)
  /\ Store!Held = Held /\ Store!Uncancellable = Uncancellable
<1>1. \A row, status : Store!Released(row, status) = Released(row, status)
  BY DEF Store!Released, Released
<1>2. Store!Held = Held /\ Store!Uncancellable = Uncancellable
  BY DEF Store!Held, Held, Store!Uncancellable, Uncancellable
<1>3. \A row, now : /\ Store!Expired(row, now) = Expired(row, now)
                   /\ Store!Reaped(row, now) = Reaped(row, now)
                   /\ Store!Renewed(row, now) = Renewed(row, now)
                   /\ Store!Retried(row, now) = Retried(row, now)
  BY <1>1, <1>2 DEF Store!Expired, Expired, Store!Reaped, Reaped,
                    Store!Renewed, Renewed, Store!Retried, Retried
<1>4. \A n : Store!RetryDelay(n) = RetryDelay(n)
  BY DEF Store!RetryDelay, RetryDelay
<1>5. \A row, now : Store!Failed(row, now) = Failed(row, now)
  BY <1>1, <1>4 DEF Store!Failed, Failed
<1>6. \A row : /\ Store!Completed(row) = Completed(row)
              /\ Store!Cancelled(row) = Cancelled(row)
  BY <1>1 DEF Store!Completed, Completed, Store!Cancelled, Cancelled
<1>7. \A row, x, now : /\ Store!Ready(row, x, now) = Ready(row, x, now)
                      /\ Store!Leased(row, x, now) = Leased(row, x, now)
                      /\ Store!Renewable(row, x, now) = Renewable(row, x, now)
  BY DEF Store!Ready, Ready, Store!Claimable, Claimable, Store!Leased, Leased,
         Store!Renewable, Renewable
<1>8. \A input, created, now :
        Store!NewRow(input, created, now) = NewRow(input, created, now)
  BY DEF Store!NewRow, NewRow, Store!ResolveAvailableAt, ResolveAvailableAt
<1>9. QED
  BY <1>2, <1>3, <1>5, <1>6, <1>7, <1>8

LEMMA StoredRow ==
  ASSUME StoreInv, NEW j \in Store!Stored
  PROVE  /\ j \in Job /\ jobs[j] \in Row /\ jobs[j] # NoRow /\ Shape(jobs[j])
         /\ \A t \in Store!TimeRead : t \in Nat
  BY DEF Store!Stored, Store!TimeRead, StoreInv, Consistent, Rows, WellShaped

LEMMA SubmitKeeps ==
  ASSUME StoreInv, NEW j \in Job, NEW input \in SubmitInputs, Store!Submit(j, input)
  PROVE  StoreInv' /\ SameJobs(issued, issued')
<1>1. PICK t \in Store!TimeRead, n \in Store!CallerTimeRead :
        jobs' = [jobs EXCEPT ![j] = NewRow(input, t, n)]
  BY SameOperators DEF Store!Submit
<1>2. t \in Nat /\ n \in Nat /\ input \in SubmitInput
  BY WorkerAssumption DEF Store!TimeRead, Store!CallerTimeRead, StoreInv, Consistent
<1> DEFINE row == NewRow(input, t, n)
<1>3. row \in Row /\ Shape(row) /\ row.lease = NoLease
  BY <1>2, NewRowType
<1>4. jobs[j] = NoRow /\ UNCHANGED <<issued, clock>>
  BY DEF Store!Submit, Store!Stored
<1> HIDE DEF row
<1>5. Consistent([jobs EXCEPT ![j] = row], issued, clock)
  BY <1>3, <1>4, FreeRow DEF StoreInv
<1>6. QED
  BY <1>1, <1>4, <1>5 DEF StoreInv, row, SameJobs

LEMMA ClaimNothingKeeps ==
  ASSUME StoreInv, NEW R \in SUBSET Store!Stored, NEW t \in Store!TimeRead,
         Store!ClaimNothing(R, t)
  PROVE  StoreInv' /\ SameJobs(issued, issued')
<1>1. \A j \in R : Expired(jobs[j], t) /\ j \in Job /\ jobs[j] # NoRow
  BY StoredRow, SameOperators DEF Store!ClaimNothing
<1>2. jobs' = [j \in Job |-> IF j \in R THEN Reaped(jobs[j], t) ELSE jobs[j]]
      /\ UNCHANGED <<issued, clock>>
  BY SameOperators DEF Store!ClaimNothing, Store!AfterReap
<1>3. t \in 0..clock
  BY DEF Store!TimeRead
<1>4. Consistent(jobs', issued, clock)
  BY <1>1, <1>2, <1>3, ReapRows DEF StoreInv
<1>5. QED
  BY <1>2, <1>4 DEF StoreInv, SameJobs

LEMMA ClaimKeeps ==
  ASSUME StoreInv, NEW R \in SUBSET Store!Stored, NEW t \in Store!TimeRead,
         NEW j \in Store!Stored, NEW l \in Lease, Store!Claim(R, t, j, l, Visibility)
  PROVE  /\ StoreInv' /\ SameJobs(issued, issued') /\ issued'[l].job = j
<1> DEFINE rows == [i \in Job |-> IF i \in R THEN Reaped(jobs[i], t) ELSE jobs[i]]
           until == t + Visibility
           term == [job |-> j, until |-> until]
<1>1. \A i \in R : Expired(jobs[i], t) /\ i \in Job /\ jobs[i] # NoRow
  BY StoredRow, SameOperators DEF Store!Claim
<1>2. t \in 0..clock /\ until \in Nat /\ j \in Job /\ jobs[j] # NoRow
  BY WorkerAssumption, StoredRow DEF Store!TimeRead
<1>3. /\ jobs' = [rows EXCEPT ![j] = Leased(@, l, until)]
      /\ issued' = [issued EXCEPT ![l] = term] /\ clock' = clock
      /\ Ready(rows[j], jobs[j].queue, t) /\ issued[l].job = NoJob
  BY SameOperators DEF Store!Claim, Store!AfterReap, Store!Fresh
<1> HIDE DEF rows, until, term
<1>4. Consistent(rows, issued, clock) /\ rows[j] # NoRow
  BY <1>1, <1>2, ReapRows DEF StoreInv, rows
<1>5. rows[j].status \in Claimable
  BY <1>3 DEF Ready
<1>6. /\ Consistent([rows EXCEPT ![j] = Leased(@, l, until)],
                    [issued EXCEPT ![l] = term], clock)
      /\ SameJobs(issued, [issued EXCEPT ![l] = term])
  BY <1>2, <1>3, <1>4, <1>5, ClaimRow DEF term
<1>7. issued'[l] = term
  BY <1>3, <1>4 DEF Consistent, Terms
<1>8. QED
  BY <1>3, <1>6, <1>7 DEF StoreInv, term

LEMMA HeartbeatKeeps ==
  ASSUME StoreInv, NEW j \in Store!Stored, NEW l \in Lease, NEW t \in Store!TimeRead,
         Store!Heartbeat(j, l, t, Visibility)
  PROVE  StoreInv' /\ SameJobs(issued, issued')
<1> DEFINE until == t + Visibility
           row == Renewed(jobs[j], until)
<1>1. /\ j \in Job /\ jobs[j] \in Row /\ jobs[j] # NoRow /\ Shape(jobs[j])
      /\ until \in Nat
  BY StoredRow, WorkerAssumption
<1>2. /\ Renewable(jobs[j], l, t) /\ clock' = clock
      /\ jobs' = [jobs EXCEPT ![j] = row] /\ issued' = [issued EXCEPT ![l].until = until]
  BY SameOperators DEF Store!Heartbeat
<1> HIDE DEF until
<1>3. jobs[j].lease = l
  BY <1>2 DEF Renewable
<1>4. row \in Row /\ Shape(row) /\ row.lease = l /\ row.until = until
  BY <1>1, <1>3, RenewedType
<1> HIDE DEF row
<1>5. /\ Consistent([jobs EXCEPT ![j] = row], [issued EXCEPT ![l].until = until], clock)
      /\ SameJobs(issued, [issued EXCEPT ![l].until = until])
  BY <1>1, <1>3, <1>4, LeaseRow DEF StoreInv
<1>6. QED
  BY <1>2, <1>5 DEF StoreInv

LEMMA AcknowledgeKeeps ==
  ASSUME StoreInv, NEW j \in Store!Stored, NEW l \in Lease,
         NEW row \in Row, Shape(row), row.lease = NoLease, Store!Acknowledge(j, l, row)
  PROVE  StoreInv' /\ SameJobs(issued, issued')
<1>1. j \in Job /\ jobs[j] # NoRow
  BY StoredRow
<1>2. /\ jobs[j].lease = l /\ clock' = clock
      /\ jobs' = [jobs EXCEPT ![j] = row] /\ issued' = [issued EXCEPT ![l].until = 0]
  BY DEF Store!Acknowledge, Store!Owned
<1>3. /\ Consistent([jobs EXCEPT ![j] = row], [issued EXCEPT ![l].until = 0], clock)
      /\ SameJobs(issued, [issued EXCEPT ![l].until = 0])
  BY <1>1, <1>2, LeaseRow DEF StoreInv
<1>4. QED
  BY <1>2, <1>3 DEF StoreInv

LEMMA CompleteKeeps ==
  ASSUME StoreInv, NEW j \in Store!Stored, NEW l \in Lease, Store!Complete(j, l)
  PROVE  StoreInv' /\ SameJobs(issued, issued')
<1>1. Store!Acknowledge(j, l, Completed(jobs[j])) /\ jobs[j] \in Row
  BY StoredRow, SameOperators DEF Store!Complete
<1>2. QED
  BY <1>1, CompletedType, AcknowledgeKeeps

LEMMA FailKeeps ==
  ASSUME StoreInv, NEW j \in Store!Stored, NEW l \in Lease, NEW t \in Store!TimeRead,
         Store!Fail(j, l, t)
  PROVE  StoreInv' /\ SameJobs(issued, issued')
<1>1. Store!Acknowledge(j, l, Failed(jobs[j], t)) /\ jobs[j] \in Row /\ t \in Nat
  BY StoredRow, SameOperators DEF Store!Fail
<1>2. QED
  BY <1>1, FailedType, AcknowledgeKeeps

LEMMA CancelKeeps ==
  ASSUME StoreInv, NEW j \in Store!Stored, Store!Cancel(j)
  PROVE  StoreInv' /\ SameJobs(issued, issued')
<1> DEFINE row == IF jobs[j].status = "cancelled" THEN jobs[j] ELSE Cancelled(jobs[j])
<1>1. j \in Job /\ jobs[j] \in Row /\ jobs[j] # NoRow /\ Shape(jobs[j])
  BY StoredRow
<1>2. jobs[j].status \notin Uncancellable /\ UNCHANGED <<issued, clock>>
  BY SameOperators DEF Store!Cancel
<1>3. jobs' = [jobs EXCEPT ![j] = row]
  BY SameOperators DEF Store!Cancel
<1>4. /\ row \in Row /\ Shape(row)
      /\ row.lease = jobs[j].lease /\ row.until = jobs[j].until
  BY <1>1, <1>2, CancelledType
<1> HIDE DEF row
<1>5. Consistent([jobs EXCEPT ![j] = row], issued, clock)
  BY <1>1, <1>4, SameLeaseRow DEF StoreInv
<1>6. QED
  BY <1>2, <1>3, <1>5 DEF StoreInv, SameJobs

LEMMA RetryKeeps ==
  ASSUME StoreInv, NEW j \in Store!Stored, NEW t \in Store!TimeRead, Store!Retry(j, t)
  PROVE  StoreInv' /\ SameJobs(issued, issued')
<1> DEFINE row == Retried(jobs[j], t)
<1>1. j \in Job /\ jobs[j] \in Row /\ jobs[j] # NoRow /\ Shape(jobs[j]) /\ t \in Nat
  BY StoredRow
<1>2. jobs[j].status = "dead_letter" /\ UNCHANGED <<issued, clock>>
  BY DEF Store!Retry
<1>3. jobs' = [jobs EXCEPT ![j] = row]
  BY SameOperators DEF Store!Retry
<1>4. /\ row \in Row /\ Shape(row)
      /\ row.lease = jobs[j].lease /\ row.until = jobs[j].until
  BY <1>1, <1>2, RetriedType
<1> HIDE DEF row
<1>5. Consistent([jobs EXCEPT ![j] = row], issued, clock)
  BY <1>1, <1>4, SameLeaseRow DEF StoreInv
<1>6. QED
  BY <1>2, <1>3, <1>5 DEF StoreInv, SameJobs

LEMMA TickKeeps ==
  ASSUME StoreInv, Store!Tick
  PROVE  StoreInv' /\ SameJobs(issued, issued')
<1>1. clock' = clock + 1 /\ UNCHANGED <<jobs, issued>>
  BY DEF Store!Tick
<1>2. QED
  BY <1>1, TimePasses DEF StoreInv, SameJobs

LEMMA StoreStep ==
  ASSUME StoreInv, Store!Next
  PROVE  StoreInv' /\ SameJobs(issued, issued')
<1>1. CASE \E j \in Job, input \in SubmitInputs : Store!Submit(j, input)
  BY <1>1, SubmitKeeps
<1>2. CASE Store!Reap
  BY <1>2, ClaimNothingKeeps DEF Store!Reap
<1>3. CASE Store!ClaimAny
  BY <1>3, ClaimKeeps DEF Store!ClaimAny
<1>4. CASE Store!HeartbeatAny
  BY <1>4, HeartbeatKeeps DEF Store!HeartbeatAny
<1>5. CASE \E j \in Store!Stored, l \in Lease : Store!Complete(j, l)
  BY <1>5, CompleteKeeps
<1>6. CASE Store!FailAny
  BY <1>6, FailKeeps DEF Store!FailAny
<1>7. CASE \E j \in Store!Stored : Store!Cancel(j)
  BY <1>7, CancelKeeps
<1>8. CASE \E j \in Store!Stored, t \in Store!TimeRead : Store!Retry(j, t)
  BY <1>8, RetryKeeps
<1>9. CASE Store!Tick
  BY <1>9, TickKeeps
<1>10. QED
  BY <1>1, <1>2, <1>3, <1>4, <1>5, <1>6, <1>7, <1>8, <1>9 DEF Store!Next

-------------------------------------------------------------------------------
(* The worker                                                                  *)

TickRecord == [pc: {"none", "listing", "claiming", "working", "completing", "failing"},
               queues: SUBSET Queue, job: Job \cup {NoJob}, lease: Lease \cup {NoLease}]

WorkerTypes == /\ running \in BOOLEAN /\ busy \in BOOLEAN
               /\ timer \in BOOLEAN /\ failNext \in BOOLEAN
               /\ leaked \in 0..MaxLeaked
               /\ tick \in [TickId -> TickRecord]
               /\ activeJob \in Job \cup {NoJob}
               /\ completed \in Nat /\ failed \in Nat /\ clock <= MaxTime

Working == {"working", "completing", "failing"}

\* A stopped worker has no timer, and one that may be left behind fits the bound.
Timers == (~running => ~timer) /\ (timer /\ busy => leaked < MaxLeaked)

\* #busy says whether a tick is under way, and there is one at most.
One == (busy <=> Active # {}) /\ \A k, m \in Active : k = m

\* The tick under way holds the job that the status shows, on its own lease.
HeldJob ==
  /\ \A k \in Active : tick[k].job # NoJob =>
       /\ tick[k].lease \in Lease /\ activeJob = tick[k].job
       /\ issued[tick[k].lease].job = tick[k].job
  /\ \A k \in Active : tick[k].pc \in Working => tick[k].job # NoJob
  /\ activeJob # NoJob => \E k \in Active : tick[k].job = activeJob

WorkerInv == StoreInv /\ WorkerTypes /\ Timers /\ One /\ HeldJob /\ NeverWedged

LEMMA WorkerInit == Init => WorkerInv
<1> SUFFICES ASSUME Init PROVE WorkerInv
  OBVIOUS
<1>1. StoreInv
  <2>1. jobs \in Rows /\ issued \in Terms /\ clock \in Nat /\ clock = 0
    BY DEF Init, Store!Init, Store!NotIssued, Rows, Terms
  <2>2. \A j \in Job : jobs[j] = NoRow
    BY DEF Init, Store!Init
  <2>3. \A l \in Lease : issued[l].until = 0
    BY DEF Init, Store!Init, Store!NotIssued
  <2>4. \A l \in Lease : issued[l].job = NoJob
    BY DEF Init, Store!Init, Store!NotIssued
  <2>5. QED
    BY <2>1, <2>2, <2>3, <2>4
    DEF StoreInv, Consistent, WellShaped, RowsAgree, LeasesLast, IssuedForRows
<1>2. WorkerTypes
  <2>1. NoTick \in TickRecord
    BY DEF NoTick, TickRecord
  <2>2. clock <= MaxTime
    BY WorkerAssumption DEF Init, Store!Init
  <2>3. leaked \in 0..MaxLeaked
    BY WorkerAssumption DEF Init
  <2>4. tick \in [TickId -> TickRecord]
    BY <2>1 DEF Init
  <2>5. QED
    BY <2>2, <2>3, <2>4 DEF Init, WorkerTypes
<1>3. Active = {} /\ ~busy /\ activeJob = NoJob /\ ~running /\ ~timer
  BY DEF Init, Active
<1>4. QED
  BY <1>1, <1>2, <1>3 DEF WorkerInv, Timers, One, HeldJob, NeverWedged

\* Steps that leave the ticks alone.
LEMMA TicksStay ==
  ASSUME WorkerInv, UNCHANGED <<tick, busy, activeJob>>, SameJobs(issued, issued')
  PROVE  One' /\ HeldJob'
<1>1. Active' = Active
  BY DEF Active
<1>2. \A k \in Active : tick[k].job # NoJob =>
        issued'[tick[k].lease].job = tick[k].job
  BY DEF WorkerInv, HeldJob, SameJobs
<1>3. One'
  BY <1>1 DEF WorkerInv, One
<1>4. HeldJob'
  BY <1>1, <1>2 DEF WorkerInv, HeldJob
<1>5. QED
  BY <1>3, <1>4

LEMMA StoreStays ==
  ASSUME StoreInv, UNCHANGED storeVars
  PROVE  StoreInv' /\ SameJobs(issued, issued')
  BY DEF StoreInv, storeVars, SameJobs

\* A timer that fires makes room, whether the tick may run or not.
LEMMA TimerTaken ==
  ASSUME WorkerTypes, Timers, TakeTimer, running' = running
  PROVE  timer' \in BOOLEAN /\ leaked' \in 0..MaxLeaked /\ Timers'
<1>1. leaked \in 0..MaxLeaked /\ MaxLeaked \in Nat /\ timer \in BOOLEAN
  BY WorkerAssumption DEF WorkerTypes
<1>2. CASE timer /\ timer' = FALSE /\ UNCHANGED leaked
  BY <1>1, <1>2 DEF Timers
<1>3. CASE leaked > 0 /\ leaked' = leaked - 1 /\ UNCHANGED timer
  <2>1. leaked' \in 0..MaxLeaked /\ leaked' < MaxLeaked
    BY <1>1, <1>3
  <2>2. QED
    BY <1>1, <1>3, <2>1 DEF Timers
<1>4. QED
  BY <1>2, <1>3 DEF TakeTimer

LEMMA ControlStep ==
  ASSUME WorkerInv, Start \/ Stop \/ FailNext \/ TickRefused \/ Others
  PROVE  WorkerInv'
<1>1. CASE Start
  <2>1. StoreInv' /\ SameJobs(issued, issued')
    BY <1>1, StoreStays DEF Start, WorkerInv
  <2>2. One' /\ HeldJob'
    BY <1>1, <2>1, TicksStay DEF Start
  <2>3. WorkerTypes' /\ Timers' /\ NeverWedged'
    BY <1>1, WorkerAssumption
    DEF Start, Schedule, storeVars, counters, WorkerInv, WorkerTypes, Timers, NeverWedged
  <2>4. QED
    BY <2>1, <2>2, <2>3 DEF WorkerInv
<1>2. CASE Stop
  <2>1. StoreInv' /\ SameJobs(issued, issued')
    BY <1>2, StoreStays DEF Stop, WorkerInv
  <2>2. One' /\ HeldJob'
    BY <1>2, <2>1, TicksStay DEF Stop
  <2>3. WorkerTypes' /\ Timers' /\ NeverWedged'
    BY <1>2 DEF Stop, storeVars, counters, WorkerInv, WorkerTypes, Timers, NeverWedged
  <2>4. QED
    BY <2>1, <2>2, <2>3 DEF WorkerInv
<1>3. CASE FailNext
  <2>1. StoreInv' /\ SameJobs(issued, issued')
    BY <1>3, StoreStays DEF FailNext, WorkerInv
  <2>2. One' /\ HeldJob'
    BY <1>3, <2>1, TicksStay DEF FailNext
  <2>3. WorkerTypes' /\ Timers' /\ NeverWedged'
    BY <1>3 DEF FailNext, storeVars, timerVars, counters, WorkerInv, WorkerTypes, Timers,
                NeverWedged
  <2>4. QED
    BY <2>1, <2>2, <2>3 DEF WorkerInv
<1>4. CASE TickRefused
  <2>1. StoreInv' /\ SameJobs(issued, issued')
    BY <1>4, StoreStays DEF TickRefused, WorkerInv
  <2>2. One' /\ HeldJob'
    BY <1>4, <2>1, TicksStay DEF TickRefused
  <2>3. timer' \in BOOLEAN /\ leaked' \in 0..MaxLeaked /\ Timers'
    BY <1>4, TimerTaken DEF TickRefused, WorkerInv
  <2>4. WorkerTypes' /\ NeverWedged'
    BY <1>4, <2>3 DEF TickRefused, Entering, storeVars, counters, WorkerInv, WorkerTypes,
                      NeverWedged
  <2>5. QED
    BY <2>1, <2>2, <2>3, <2>4 DEF WorkerInv
<1>5. CASE Others
  <2>1. StoreInv' /\ SameJobs(issued, issued')
    BY <1>5, StoreStep DEF Others, WorkerInv
  <2>2. One' /\ HeldJob'
    BY <1>5, <2>1, TicksStay DEF Others
  <2>3. WorkerTypes' /\ Timers' /\ NeverWedged'
    BY <1>5 DEF Others, timerVars, counters, WorkerInv, WorkerTypes, Timers, NeverWedged
  <2>4. QED
    BY <2>1, <2>2, <2>3 DEF WorkerInv
<1>6. QED
  BY <1>1, <1>2, <1>3, <1>4, <1>5

LEMMA BeginStep ==
  ASSUME WorkerInv, NEW k \in TickId, TickBegins(k)
  PROVE  WorkerInv'
<1>1. StoreInv' /\ SameJobs(issued, issued')
  BY StoreStays DEF TickBegins, WorkerInv
<1>2. /\ ~busy /\ busy' /\ tick[k] = NoTick /\ activeJob' = activeJob
      /\ tick' = [tick EXCEPT ![k].pc = "listing"] /\ tick \in [TickId -> TickRecord]
  BY DEF TickBegins, Entering, WorkerInv, WorkerTypes
<1>3. Active = {} /\ activeJob = NoJob
  BY <1>2 DEF WorkerInv, One, HeldJob
<1>4. \A m \in TickId : tick[m] = NoTick
  BY <1>3 DEF Active
<1>5. tick'[k].pc = "listing" /\ tick'[k].job = NoJob
  BY <1>2 DEF NoTick, TickRecord
<1>6. Active' = {k}
  <2>1. \A m \in TickId : tick'[m] # NoTick <=> m = k
    BY <1>2, <1>4, <1>5 DEF NoTick
  <2>2. QED
    BY <2>1 DEF Active
<1>7. One' /\ HeldJob'
  BY <1>2, <1>3, <1>5, <1>6 DEF One, HeldJob, Working
<1>8. tick' \in [TickId -> TickRecord]
  BY <1>2 DEF TickRecord
<1>9. timer' \in BOOLEAN /\ leaked' \in 0..MaxLeaked /\ Timers'
  BY TimerTaken DEF TickBegins, WorkerInv
<1>10. busy' = TRUE /\ UNCHANGED <<storeVars, running, failNext, counters>>
  BY DEF TickBegins
<1>11. WorkerTypes' /\ NeverWedged'
  BY <1>2, <1>8, <1>9, <1>10 DEF storeVars, counters, WorkerInv, WorkerTypes, NeverWedged
<1>12. QED
  BY <1>1, <1>7, <1>9, <1>11 DEF WorkerInv

\* A tick that goes on, with its job if it had or has just claimed one.
LEMMA GoesOn ==
  ASSUME WorkerInv, NEW k \in Active, UNCHANGED <<running, busy, timerVars>>,
         StoreInv', SameJobs(issued, issued'), clock' <= MaxTime,
         NEW record \in TickRecord, tick' = [tick EXCEPT ![k] = record],
         record.pc # "none", activeJob' = record.job,
         record.job # NoJob => /\ record.lease \in Lease
                               /\ issued'[record.lease].job = record.job,
         record.pc \in Working => record.job # NoJob,
         failNext' \in BOOLEAN, UNCHANGED counters
  PROVE  WorkerInv'
<1>1. k \in TickId /\ tick \in [TickId -> TickRecord]
  BY DEF Active, WorkerInv, WorkerTypes
<1>2. \A m \in TickId : tick'[m] = IF m = k THEN record ELSE tick[m]
  BY <1>1
<1>3. \A m \in TickId : tick'[m] # NoTick <=> tick[m] # NoTick
  BY <1>2 DEF NoTick, Active
<1>4. Active' = Active
  BY <1>3 DEF Active
<1>5. One'
  BY <1>4 DEF WorkerInv, One
<1>6. \A m \in Active : m = k
  BY DEF WorkerInv, One
<1>7. HeldJob'
  BY <1>1, <1>2, <1>4, <1>6 DEF HeldJob
<1>8. tick' \in [TickId -> TickRecord] /\ record.job \in Job \cup {NoJob}
  BY <1>1 DEF TickRecord
<1>9. WorkerTypes' /\ Timers' /\ NeverWedged'
  BY <1>8 DEF timerVars, counters, WorkerInv, WorkerTypes, Timers, NeverWedged
<1>10. QED
  BY <1>5, <1>7, <1>9 DEF WorkerInv

\* The finally block.
LEMMA FinishKeeps ==
  ASSUME WorkerInv, NEW k \in Active, Finish(k), StoreInv', clock' <= MaxTime,
         failNext' \in BOOLEAN, completed' \in Nat, failed' \in Nat
  PROVE  WorkerInv'
<1>1. k \in TickId /\ tick \in [TickId -> TickRecord] /\ busy
  BY DEF Active, WorkerInv, WorkerTypes, One
<1>2. tick' = [tick EXCEPT ![k] = NoTick] /\ activeJob' = NoJob /\ ~busy' /\ running' = running
  BY DEF Finish
<1>3. \A m \in TickId : tick[m] # NoTick => m = k
  BY DEF WorkerInv, One, Active
<1>4. \A m \in TickId : tick'[m] = NoTick
  BY <1>1, <1>2, <1>3
<1>5. Active' = {}
  BY <1>4 DEF Active
<1>6. One' /\ HeldJob'
  BY <1>2, <1>5 DEF One, HeldJob
<1>7. tick' \in [TickId -> TickRecord]
  BY <1>1, <1>2 DEF TickRecord, NoTick
<1>8. /\ IF running THEN Schedule ELSE UNCHANGED timerVars
      /\ busy' = FALSE
  BY DEF Finish
<1>9. leaked' \in 0..MaxLeaked /\ timer' \in BOOLEAN /\ (running' => timer')
      /\ (~running' => ~timer')
  <2>1. leaked \in 0..MaxLeaked /\ MaxLeaked \in Nat
    BY WorkerAssumption DEF WorkerInv, WorkerTypes
  <2>2. (timer => leaked < MaxLeaked) /\ (~running => ~timer) /\ timer \in BOOLEAN
    BY <1>1 DEF WorkerInv, WorkerTypes, Timers
  <2>3. CASE running
    <3>1. timer' = TRUE /\ leaked' = IF timer THEN leaked + 1 ELSE leaked
      BY <1>8, <2>3 DEF Schedule
    <3>2. leaked' \in 0..MaxLeaked
      BY <2>1, <2>2, <3>1
    <3>3. QED
      BY <1>2, <2>3, <3>1, <3>2
  <2>4. CASE ~running
    BY <1>2, <1>8, <2>1, <2>2, <2>4 DEF timerVars
  <2>5. QED
    BY <2>3, <2>4
<1>10. WorkerTypes' /\ Timers' /\ NeverWedged'
  BY <1>2, <1>7, <1>8, <1>9 DEF WorkerInv, WorkerTypes, Timers, NeverWedged
<1>11. QED
  BY <1>6, <1>10 DEF WorkerInv

\* What a tick that waits for an answer is.
LEMMA Waiting ==
  ASSUME WorkerInv, NEW k \in TickId, tick[k].pc # "none"
  PROVE  /\ k \in Active /\ tick[k] \in TickRecord /\ clock \in Nat
         /\ tick[k].job # NoJob => /\ tick[k].lease \in Lease /\ activeJob = tick[k].job
                                  /\ issued[tick[k].lease].job = tick[k].job
         /\ activeJob = tick[k].job
         /\ tick[k].pc \in Working => tick[k].job # NoJob
<1>1. k \in Active /\ tick[k] \in TickRecord /\ clock \in Nat
  BY DEF Active, NoTick, WorkerInv, WorkerTypes, StoreInv, Consistent
<1>2. activeJob # NoJob => tick[k].job = activeJob
  BY <1>1 DEF WorkerInv, One, HeldJob
<1>3. QED
  BY <1>1, <1>2 DEF WorkerInv, HeldJob

LEMMA ListStep ==
  ASSUME WorkerInv, NEW k \in TickId, List(k)
  PROVE  WorkerInv'
<1> DEFINE found == {jobs[j].queue : j \in Store!Stored}
           record == [tick[k] EXCEPT !.pc = "claiming", !.queues = found]
<1>1. /\ tick[k].pc = "listing" /\ UNCHANGED <<storeVars, failNext, counters>>
      /\ IF found = {} THEN Finish(k)
         ELSE /\ tick' = [tick EXCEPT ![k].pc = "claiming", ![k].queues = found]
              /\ UNCHANGED <<running, busy, timerVars, activeJob>>
  BY DEF List
<1>2. StoreInv' /\ SameJobs(issued, issued')
  BY <1>1, StoreStays DEF WorkerInv
<1>3. /\ clock' <= MaxTime /\ failNext' \in BOOLEAN
      /\ completed' \in Nat /\ failed' \in Nat
  BY <1>1 DEF WorkerInv, WorkerTypes, storeVars, counters
<1>4. k \in Active /\ tick[k] \in TickRecord /\ activeJob = tick[k].job
  BY <1>1, Waiting
<1>5. found \in SUBSET Queue
  BY StoredRow DEF WorkerInv, Row
<1> HIDE DEF found
<1>6. CASE found = {}
  BY <1>1, <1>2, <1>3, <1>4, <1>6, FinishKeeps
<1>7. CASE found # {}
  <2>1. /\ record \in TickRecord /\ record.pc # "none"
        /\ record.job = tick[k].job /\ record.lease = tick[k].lease
        /\ record.pc \notin Working
    BY <1>4, <1>5 DEF TickRecord, Working
  <2>2. tick' = [tick EXCEPT ![k] = record]
    BY <1>1, <1>7 DEF WorkerInv, WorkerTypes
  <2>3. record.job # NoJob => record.lease \in Lease /\ issued'[record.lease].job = record.job
    BY <1>1, <2>1, Waiting DEF storeVars
  <2> HIDE DEF record
  <2>4. QED
    BY <1>1, <1>2, <1>3, <1>4, <1>7, <2>1, <2>2, <2>3, GoesOn
<1>8. QED
  BY <1>6, <1>7

LEMMA ClaimStep ==
  ASSUME WorkerInv, NEW k \in TickId, ClaimJob(k)
  PROVE  WorkerInv'
<1>1. PICK R \in SUBSET Store!Stored, t \in Store!TimeRead, j \in Store!Stored, l \in Lease :
        /\ Store!Claim(R, t, j, l, Visibility)
        /\ tick' = [tick EXCEPT ![k] = [pc |-> "working", queues |-> {},
                                        job |-> j, lease |-> l]]
        /\ activeJob' = j
  BY DEF ClaimJob
<1> DEFINE record == [pc |-> "working", queues |-> {}, job |-> j, lease |-> l]
<1>2. StoreInv' /\ SameJobs(issued, issued') /\ issued'[l].job = j
  BY <1>1, ClaimKeeps DEF WorkerInv
<1>3. clock' = clock
  BY <1>1 DEF Store!Claim
<1>4. tick[k].pc = "claiming" /\ UNCHANGED <<running, busy, timerVars, failNext, counters>>
  BY DEF ClaimJob
<1>5. k \in Active
  BY <1>4, Waiting
<1>6. record \in TickRecord
  BY StoredRow DEF WorkerInv, TickRecord
<1>7. clock' <= MaxTime /\ failNext' \in BOOLEAN
  BY <1>3, <1>4 DEF WorkerInv, WorkerTypes
<1>8. /\ record.pc # "none" /\ record.job = j /\ record.lease = l /\ record.job # NoJob
      /\ tick' = [tick EXCEPT ![k] = record]
  BY <1>1, StoredRow, NullAssumption DEF WorkerInv
<1> HIDE DEF record
<1>9. QED
  BY <1>1, <1>2, <1>4, <1>5, <1>6, <1>7, <1>8, GoesOn

LEMMA NothingStep ==
  ASSUME WorkerInv, NEW k \in TickId, ClaimNothing(k)
  PROVE  WorkerInv'
<1>1. PICK R \in SUBSET Store!Stored, t \in Store!TimeRead : Store!ClaimNothing(R, t)
  BY DEF ClaimNothing
<1>2. PICK q \in tick[k].queues :
        IF tick[k].queues = {q} THEN Finish(k)
        ELSE /\ tick' = [tick EXCEPT ![k].queues = @ \ {q}]
             /\ UNCHANGED <<running, busy, timerVars, activeJob>>
  BY DEF ClaimNothing
<1>3. StoreInv' /\ SameJobs(issued, issued') /\ UNCHANGED <<issued, clock>>
  BY <1>1, ClaimNothingKeeps DEF WorkerInv, Store!ClaimNothing
<1>4. tick[k].pc = "claiming" /\ UNCHANGED <<failNext, counters>>
  BY DEF ClaimNothing
<1>5. /\ clock' <= MaxTime /\ failNext' \in BOOLEAN
      /\ completed' \in Nat /\ failed' \in Nat
  BY <1>3, <1>4 DEF WorkerInv, WorkerTypes, counters
<1>6. k \in Active /\ tick[k] \in TickRecord /\ activeJob = tick[k].job
  BY <1>4, Waiting
<1>7. CASE tick[k].queues = {q}
  BY <1>2, <1>3, <1>5, <1>6, <1>7, FinishKeeps
<1>8. CASE tick[k].queues # {q}
  <2> DEFINE record == [tick[k] EXCEPT !.queues = @ \ {q}]
  <2>1. /\ record \in TickRecord /\ record.pc = "claiming"
        /\ record.job = tick[k].job /\ record.lease = tick[k].lease
    BY <1>4, <1>6 DEF TickRecord
  <2>2. tick' = [tick EXCEPT ![k] = record]
    BY <1>2, <1>8 DEF WorkerInv, WorkerTypes
  <2>3. record.job # NoJob => record.lease \in Lease /\ issued'[record.lease].job = record.job
    BY <1>3, <1>4, <2>1, Waiting
  <2> HIDE DEF record
  <2>4. activeJob' = record.job /\ record.pc # "none" /\ record.pc \notin Working
    BY <1>2, <1>6, <1>8, <2>1 DEF Working
  <2>5. QED
    BY <1>2, <1>3, <1>4, <1>5, <1>6, <1>8, <2>1, <2>2, <2>3, <2>4, GoesOn
<1>9. QED
  BY <1>7, <1>8

LEMMA DecideStep ==
  ASSUME WorkerInv, NEW k \in TickId, Decide(k)
  PROVE  WorkerInv'
<1> DEFINE record == [tick[k] EXCEPT !.pc = IF failNext THEN "failing" ELSE "completing"]
<1>1. /\ tick[k].pc = "working" /\ failNext' = FALSE
      /\ tick' = [tick EXCEPT ![k].pc = IF failNext THEN "failing" ELSE "completing"]
      /\ UNCHANGED <<storeVars, running, busy, timerVars, activeJob, counters>>
  BY DEF Decide
<1>2. StoreInv' /\ SameJobs(issued, issued')
  BY <1>1, StoreStays DEF WorkerInv
<1>3. k \in Active /\ tick[k] \in TickRecord /\ activeJob = tick[k].job
  BY <1>1, Waiting
<1>4. clock' <= MaxTime /\ UNCHANGED issued
  BY <1>1 DEF WorkerInv, WorkerTypes, storeVars
<1>5. /\ record \in TickRecord /\ record.pc # "none"
      /\ record.job = tick[k].job /\ record.lease = tick[k].lease
  BY <1>3 DEF TickRecord
<1>6. tick' = [tick EXCEPT ![k] = record]
  BY <1>1 DEF WorkerInv, WorkerTypes
<1>7. record.job # NoJob => record.lease \in Lease /\ issued'[record.lease].job = record.job
  BY <1>1, <1>4, <1>5, Waiting
<1> HIDE DEF record
<1>8. activeJob' = record.job /\ record.job # NoJob
  BY <1>1, <1>3, <1>5, Waiting DEF Working
<1>9. QED
  BY <1>1, <1>2, <1>3, <1>4, <1>5, <1>6, <1>7, <1>8, GoesOn

\* The job of a tick that is about to acknowledge is a stored one.
LEMMA HeldIsStored ==
  ASSUME WorkerInv, NEW k \in TickId, tick[k].pc \in {"completing", "failing"}
  PROVE  tick[k].job \in Store!Stored /\ tick[k].lease \in Lease
<1>1. /\ tick[k].job # NoJob /\ tick[k].lease \in Lease /\ tick[k].job \in Job
      /\ issued[tick[k].lease].job = tick[k].job
  BY Waiting DEF Working, TickRecord
<1>2. jobs[tick[k].job] # NoRow
  BY <1>1 DEF WorkerInv, StoreInv, Consistent, IssuedForRows
<1>3. QED
  BY <1>1, <1>2 DEF Store!Stored

LEMMA EndStep ==
  ASSUME WorkerInv, NEW k \in TickId, Complete(k) \/ Fail(k) \/ CallThrows(k)
  PROVE  WorkerInv'
<1>1. tick[k].pc # "none" /\ Finish(k) /\ failNext' = failNext
  BY DEF Complete, Fail, CallThrows
<1>2. k \in Active /\ tick[k] \in TickRecord
  BY <1>1, Waiting
<1>3. completed' \in Nat /\ failed' \in Nat /\ failNext' \in BOOLEAN
  BY <1>1 DEF Complete, Fail, CallThrows, counters, WorkerInv, WorkerTypes
<1>4. StoreInv' /\ clock' = clock
  <2>1. CASE CallThrows(k)
    BY <2>1, StoreStays DEF CallThrows, storeVars, WorkerInv
  <2>2. ASSUME NEW j, NEW l, NEW row, Store!Acknowledge(j, l, row)
        PROVE  clock' = clock
    BY <2>2 DEF Store!Acknowledge
  <2>3. CASE Complete(k)
    <3>1. Store!Complete(tick[k].job, tick[k].lease)
      BY <2>3 DEF Complete
    <3>2. Store!Acknowledge(tick[k].job, tick[k].lease, Store!Completed(jobs[tick[k].job]))
      BY <3>1 DEF Store!Complete
    <3>3. tick[k].job \in Store!Stored /\ tick[k].lease \in Lease
      BY <2>3, HeldIsStored DEF Complete
    <3>4. QED
      BY <2>2, <3>1, <3>2, <3>3, CompleteKeeps DEF WorkerInv
  <2>4. CASE Fail(k)
    <3>1. PICK t \in Store!TimeRead : Store!Fail(tick[k].job, tick[k].lease, t)
      BY <2>4 DEF Fail
    <3>2. Store!Acknowledge(tick[k].job, tick[k].lease, Store!Failed(jobs[tick[k].job], t))
      BY <3>1 DEF Store!Fail
    <3>3. tick[k].job \in Store!Stored /\ tick[k].lease \in Lease
      BY <2>4, HeldIsStored DEF Fail
    <3>4. QED
      BY <2>2, <3>1, <3>2, <3>3, FailKeeps DEF WorkerInv
  <2>5. QED
    BY <2>1, <2>3, <2>4
<1>5. clock' <= MaxTime
  BY <1>4 DEF WorkerInv, WorkerTypes
<1>6. QED
  BY <1>1, <1>2, <1>3, <1>4, <1>5, FinishKeeps

-------------------------------------------------------------------------------
LEMMA WorkerStep ==
  ASSUME WorkerInv, [Next]_vars
  PROVE  WorkerInv'
<1>1. CASE UNCHANGED vars
  <2>1. StoreInv' /\ SameJobs(issued, issued')
    BY <1>1, StoreStays DEF vars, storeVars, WorkerInv
  <2>2. One' /\ HeldJob'
    BY <1>1, <2>1, TicksStay DEF vars
  <2>3. WorkerTypes' /\ Timers' /\ NeverWedged'
    BY <1>1 DEF vars, WorkerInv, WorkerTypes, Timers, NeverWedged
  <2>4. QED
    BY <2>1, <2>2, <2>3 DEF WorkerInv
<1>2. CASE Start \/ Stop \/ FailNext \/ TickRefused \/ Others
  BY <1>2, ControlStep
<1>3. ASSUME NEW k \in TickId, TickBegins(k) PROVE WorkerInv'
  BY <1>3, BeginStep
<1>4. ASSUME NEW k \in TickId, TickStep(k) PROVE WorkerInv'
  <2>1. CASE List(k)
    BY <2>1, ListStep
  <2>2. CASE ClaimJob(k)
    BY <2>2, ClaimStep
  <2>3. CASE ClaimNothing(k)
    BY <2>3, NothingStep
  <2>4. CASE Decide(k)
    BY <2>4, DecideStep
  <2>5. CASE Complete(k) \/ Fail(k) \/ CallThrows(k)
    BY <2>5, EndStep
  <2>6. QED
    BY <1>4, <2>1, <2>2, <2>3, <2>4, <2>5 DEF TickStep
<1>5. QED
  BY <1>1, <1>2, <1>3, <1>4 DEF Next

\* The worker's invariant holds in every state, whatever its routes and the other
\* users of the store do.
THEOREM WorkerInvariant == Spec => []WorkerInv
  BY WorkerInit, WorkerStep, PTL DEF Spec

\* Every variable of the worker keeps its type, and the timers fit their bound.
THEOREM WorkerTypesHold == Spec => []TypeOK
<1>1. WorkerInv => TypeOK
  <2> SUFFICES ASSUME WorkerInv PROVE TypeOK
    OBVIOUS
  <2>1. jobs \in [Job -> Row \cup {NoRow}] /\ issued \in [Lease -> Store!Issue]
    BY DEF WorkerInv, StoreInv, Consistent, Rows, Terms, Store!Issue
  <2>2. clock \in 0..MaxTime
    BY WorkerAssumption DEF WorkerInv, StoreInv, Consistent, WorkerTypes
  <2>3. \A k \in TickId : tick[k] \in TickRecord
    BY DEF WorkerInv, WorkerTypes
  <2>4. {running, busy, timer, failNext} \subseteq BOOLEAN
    BY DEF WorkerInv, WorkerTypes
  <2>5. QED
    BY <2>1, <2>2, <2>3, <2>4 DEF TypeOK, TickRecord, WorkerInv, WorkerTypes
<1>2. QED
  BY <1>1, WorkerInvariant, PTL

\* However start and stop race with a tick under way, and however many timers are
\* pending, no second tick begins (#busy in tick).
THEOREM OneTick == Spec => []OneTickAtATime
<1>1. WorkerInv => OneTickAtATime
  <2> SUFFICES ASSUME WorkerInv PROVE OneTickAtATime
    OBVIOUS
  <2>1. CASE Active = {}
    <3>1. ~busy
      BY <2>1 DEF WorkerInv, One
    <3>2. QED
      BY <2>1, <3>1, FS_EmptySet DEF OneTickAtATime
  <2>2. CASE Active # {}
    <3>1. PICK k \in Active : Active = {k}
      BY <2>2 DEF WorkerInv, One
    <3>2. busy
      BY <2>2 DEF WorkerInv, One
    <3>3. Cardinality(Active) = 1
      BY <3>1, FS_Singleton
    <3>4. QED
      BY <3>2, <3>3 DEF OneTickAtATime
  <2>3. QED
    BY <2>1, <2>2
<1>2. QED
  BY <1>1, WorkerInvariant, PTL

\* A worker that shows as running always has a tick or a timer that wakes it up.
THEOREM AlwaysWoken == Spec => []NeverWedged
<1>1. WorkerInv => NeverWedged
  BY DEF WorkerInv
<1>2. QED
  BY <1>1, WorkerInvariant, PTL

\* The job shown as active is the one the tick claimed, and while its lease lasts
\* the store agrees: nobody else was given the job in between.
THEOREM ActiveIsHeld == Spec => []ActiveJobIsHeld
<1>1. WorkerInv => ActiveJobIsHeld
  <2> SUFFICES ASSUME WorkerInv PROVE ActiveJobIsHeld
    OBVIOUS
  <2>1. activeJob # NoJob => \E k \in Active : tick[k].job = activeJob
    BY DEF WorkerInv, HeldJob
  <2>2. ASSUME NEW k \in Active, tick[k].job # NoJob
        PROVE  /\ activeJob = tick[k].job
               /\ issued[tick[k].lease].until > clock =>
                    jobs[tick[k].job].lease = tick[k].lease
    <3>1. /\ tick[k].lease \in Lease /\ activeJob = tick[k].job
          /\ issued[tick[k].lease].job = tick[k].job
      BY <2>2 DEF WorkerInv, HeldJob
    <3>2. LeasesLast(jobs, issued, clock)
      BY DEF WorkerInv, StoreInv, Consistent
    <3>3. QED
      BY <3>1, <3>2 DEF LeasesLast
  <2>3. QED
    BY <2>1, <2>2 DEF ActiveJobIsHeld
<1>2. QED
  BY <1>1, WorkerInvariant, PTL
===============================================================================
