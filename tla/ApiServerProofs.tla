---------------------------- MODULE ApiServerProofs ----------------------------
(* What clients were told stays true, for any number of clients, calls, jobs   *)
(* and handlers whose client has gone: an accepted completion is final, and    *)
(* one idempotency key stands for one job.  And shutdown() ends the pool after *)
(* the last connection.                                                        *)
EXTENDS ApiServer, JobRecordProofs

Rows == [Job -> Row \cup {NoRow}]
Final == {"completed", "cancelled"}

\* No two jobs have the same key.
KeysDiffer(rows) == \A i, j \in Job : /\ rows[i] # NoRow /\ rows[j] # NoRow
                                     /\ rows[i].key = rows[j].key
                                     /\ rows[i].key # NoKey => i = j

\* A job is never deleted, keeps its key, and stays as it is once it is final.
Follows(rows, later) ==
  \A j \in Job : rows[j] # NoRow =>
    /\ later[j] # NoRow /\ later[j].key = rows[j].key
    /\ rows[j].status \in Final => later[j].status \in Final

RowsInv == jobs \in Rows /\ KeysDiffer(jobs)
StoreTypes == issued \in [Lease -> Store!Issue] /\ clock \in Nat
StoreInv == RowsInv /\ StoreTypes

LEMMA SameOperators ==
  /\ \A row, now : /\ Store!Expired(row, now) = Expired(row, now)
                   /\ Store!Reaped(row, now) = Reaped(row, now)
                   /\ Store!Renewed(row, now) = Renewed(row, now)
                   /\ Store!Failed(row, now) = Failed(row, now)
                   /\ Store!Retried(row, now) = Retried(row, now)
  /\ \A row : /\ Store!Completed(row) = Completed(row)
              /\ Store!Cancelled(row) = Cancelled(row)
  /\ \A row, x, now : /\ Store!Ready(row, x, now) = Ready(row, x, now)
                      /\ Store!Leased(row, x, now) = Leased(row, x, now)
                      /\ Store!Renewable(row, x, now) = Renewable(row, x, now)
  /\ \A input, created, now :
       Store!NewRow(input, created, now) = NewRow(input, created, now)
  /\ Store!Held = Held /\ Store!Uncancellable = Uncancellable
<1>1. \A row, status : Store!Released(row, status) = Released(row, status)
  BY DEF Store!Released, Released
<1>2. Store!Held = Held /\ Store!Uncancellable = Uncancellable
  BY DEF Store!Held, Held, Store!Uncancellable, Uncancellable
<1>3. \A row, now : /\ Store!Expired(row, now) = Expired(row, now)
                   /\ Store!Reaped(row, now) = Reaped(row, now)
                   /\ Store!Renewed(row, now) = Renewed(row, now)
                   /\ Store!Retried(row, now) = Retried(row, now)
  BY <1>1, <1>2 DEF Store!Expired, Expired, Store!Reaped, Reaped,
                    Store!Renewed, Renewed, Store!Retried, Retried
<1>4. \A n : Store!RetryDelay(n) = RetryDelay(n)
  BY DEF Store!RetryDelay, RetryDelay
<1>5. \A row, now : Store!Failed(row, now) = Failed(row, now)
  BY <1>1, <1>4 DEF Store!Failed, Failed
<1>6. \A row : /\ Store!Completed(row) = Completed(row)
              /\ Store!Cancelled(row) = Cancelled(row)
  BY <1>1 DEF Store!Completed, Completed, Store!Cancelled, Cancelled
<1>7. \A row, x, now : /\ Store!Ready(row, x, now) = Ready(row, x, now)
                      /\ Store!Leased(row, x, now) = Leased(row, x, now)
                      /\ Store!Renewable(row, x, now) = Renewable(row, x, now)
  BY DEF Store!Ready, Ready, Store!Claimable, Claimable, Store!Leased, Leased,
         Store!Renewable, Renewable
<1>8. \A input, created, now :
        Store!NewRow(input, created, now) = NewRow(input, created, now)
  BY DEF Store!NewRow, NewRow, Store!ResolveAvailableAt, ResolveAvailableAt
<1>9. QED
  BY <1>2, <1>3, <1>5, <1>6, <1>7, <1>8

\* No job is added and no key changes.
LEMMA SameKeys ==
  ASSUME NEW rows, NEW later, KeysDiffer(rows),
         \A j \in Job : later[j] # NoRow => rows[j] # NoRow /\ later[j].key = rows[j].key
  PROVE  KeysDiffer(later)
  BY DEF KeysDiffer

LEMMA OneRow ==
  ASSUME NEW rows \in Rows, KeysDiffer(rows), NEW j \in Job, rows[j] # NoRow,
         NEW row \in Row, row.key = rows[j].key,
         rows[j].status \in Final => row.status \in Final,
         NEW later, later = [rows EXCEPT ![j] = row]
  PROVE  later \in Rows /\ KeysDiffer(later) /\ Follows(rows, later)
<1>1. \A i \in Job : later[i] = IF i = j THEN row ELSE rows[i]
  BY DEF Rows
<1>2. later \in Rows
  BY DEF Rows
<1>3. \A i \in Job : later[i] # NoRow => rows[i] # NoRow /\ later[i].key = rows[i].key
  BY <1>1, RowAssumption
<1>4. Follows(rows, later)
  BY <1>1, RowAssumption DEF Follows
<1>5. QED
  BY <1>2, <1>3, <1>4, SameKeys

LEMMA NewKey ==
  ASSUME NEW rows \in Rows, KeysDiffer(rows), NEW j \in Job, rows[j] = NoRow,
         NEW row \in Row,
         row.key # NoKey => \A i \in Job : rows[i] # NoRow => rows[i].key # row.key,
         NEW later, later = [rows EXCEPT ![j] = row]
  PROVE  later \in Rows /\ KeysDiffer(later) /\ Follows(rows, later)
<1>1. \A i \in Job : later[i] = IF i = j THEN row ELSE rows[i]
  BY DEF Rows
<1>2. later \in Rows
  BY DEF Rows
<1>3. KeysDiffer(later)
  BY <1>1 DEF KeysDiffer
<1>4. Follows(rows, later)
  BY <1>1 DEF Follows
<1>5. QED
  BY <1>2, <1>3, <1>4

-------------------------------------------------------------------------------
(* The operations of the contract                                              *)

Moves == StoreInv' /\ Follows(jobs, jobs')

LEMMA StoredRow ==
  ASSUME StoreInv, NEW j \in Store!Stored
  PROVE  /\ j \in Job /\ jobs[j] \in Row /\ jobs[j] # NoRow
         /\ \A t \in Store!TimeRead : t \in Nat
  BY DEF Store!Stored, Store!TimeRead, StoreInv, RowsInv, StoreTypes, Rows

LEMMA SubmitMoves ==
  ASSUME StoreInv, NEW j \in Job, NEW input \in SubmitInput, Store!Submit(j, input)
  PROVE  Moves /\ jobs'[j] # NoRow /\ jobs'[j].key = input.key
<1>1. PICK t \in Store!TimeRead, n \in Store!CallerTimeRead :
        jobs' = [jobs EXCEPT ![j] = NewRow(input, t, n)]
  BY SameOperators DEF Store!Submit
<1>2. t \in Nat /\ n \in Nat /\ jobs \in Rows /\ KeysDiffer(jobs)
  BY DEF Store!TimeRead, Store!CallerTimeRead, StoreInv, RowsInv, StoreTypes
<1> DEFINE row == NewRow(input, t, n)
<1>3. row \in Row /\ row.key = input.key
  BY <1>2, NewRowType DEF NewRow
<1> HIDE DEF row
<1>4. jobs[j] = NoRow /\ UNCHANGED <<issued, clock>>
  BY DEF Store!Submit, Store!Stored
<1>5. input.key # NoKey => \A i \in Job : jobs[i] # NoRow => jobs[i].key # input.key
  BY DEF Store!Submit, Store!KeyTaken, Store!Stored
<1>6. jobs' = [jobs EXCEPT ![j] = row]
  BY <1>1 DEF row
<1>7. jobs' \in Rows /\ KeysDiffer(jobs') /\ Follows(jobs, jobs')
  BY <1>2, <1>3, <1>4, <1>5, <1>6, NewKey
<1>8. jobs'[j] = row
  BY <1>2, <1>6 DEF Rows
<1>9. QED
  BY <1>3, <1>4, <1>7, <1>8, RowAssumption DEF Moves, StoreInv, RowsInv, StoreTypes

LEMMA ReapMoves ==
  ASSUME StoreInv, NEW R \in SUBSET Store!Stored, NEW t \in Store!TimeRead,
         \A j \in R : Expired(jobs[j], t), NEW later, later = Store!AfterReap(R, t)
  PROVE  /\ later \in Rows /\ KeysDiffer(later) /\ Follows(jobs, later)
         /\ \A j \in Job : later[j] = NoRow <=> jobs[j] = NoRow
<1>1. jobs \in Rows /\ KeysDiffer(jobs)
  BY DEF StoreInv, RowsInv
<1>2. later = [j \in Job |-> IF j \in R THEN Reaped(jobs[j], t) ELSE jobs[j]]
  BY SameOperators DEF Store!AfterReap
<1>3. \A j \in R : /\ j \in Job /\ jobs[j] \in Row /\ jobs[j] # NoRow /\ t \in Nat
                   /\ Reaped(jobs[j], t) \in Row /\ Reaped(jobs[j], t).key = jobs[j].key
                   /\ jobs[j].status \notin Final
  <2> TAKE j \in R
  <2>1. j \in Job /\ jobs[j] \in Row /\ jobs[j] # NoRow /\ t \in Nat
    BY StoredRow
  <2>2. Reaped(jobs[j], t).key = jobs[j].key
    BY <2>1 DEF Reaped, Released, Row
  <2>3. QED
    BY <2>1, <2>2, ReapedType DEF Expired, Held, Final
<1>4. later \in Rows
  BY <1>1, <1>2, <1>3 DEF Rows
<1>5. \A j \in Job : later[j] = NoRow <=> jobs[j] = NoRow
  BY <1>2, <1>3, RowAssumption
<1>6. Follows(jobs, later)
  BY <1>2, <1>3, RowAssumption DEF Follows
<1>7. KeysDiffer(later)
  <2>1. \A j \in Job : later[j] # NoRow => jobs[j] # NoRow /\ later[j].key = jobs[j].key
    BY <1>5, <1>6 DEF Follows
  <2>2. QED
    BY <1>1, <2>1, SameKeys
<1>8. QED
  BY <1>4, <1>5, <1>6, <1>7

LEMMA ClaimMoves ==
  ASSUME StoreInv, NEW R \in SUBSET Store!Stored, NEW t \in Store!TimeRead
  PROVE  /\ Store!ClaimNothing(R, t) => Moves
         /\ \A j \in Store!Stored, l \in Lease : Store!Claim(R, t, j, l, Visibility) => Moves
<1>1. ASSUME Store!ClaimNothing(R, t) PROVE Moves
  <2>1. /\ \A j \in R : Expired(jobs[j], t)
        /\ jobs' = Store!AfterReap(R, t) /\ UNCHANGED <<issued, clock>>
    BY <1>1, SameOperators DEF Store!ClaimNothing
  <2>2. jobs' \in Rows /\ KeysDiffer(jobs') /\ Follows(jobs, jobs')
    BY <2>1, ReapMoves
  <2>3. QED
    BY <2>1, <2>2 DEF Moves, StoreInv, RowsInv, StoreTypes
<1>2. ASSUME NEW j \in Store!Stored, NEW l \in Lease, Store!Claim(R, t, j, l, Visibility)
      PROVE  Moves
  <2> DEFINE rows == Store!AfterReap(R, t)
             until == t + Visibility
             term == [job |-> j, until |-> until]
             row == Leased(rows[j], l, until)
  <2>1. /\ \A i \in R : Expired(jobs[i], t)
        /\ jobs' = [rows EXCEPT ![j] = row]
        /\ issued' = [issued EXCEPT ![l] = term] /\ clock' = clock
        /\ Ready(rows[j], jobs[j].queue, t)
    BY <1>2, SameOperators DEF Store!Claim
  <2>2. j \in Job /\ jobs[j] # NoRow /\ t \in Nat /\ until \in Nat
    BY StoredRow, ApiAssumption
  <2> HIDE DEF rows, until, term
  <2>3. /\ rows \in Rows /\ KeysDiffer(rows) /\ Follows(jobs, rows)
        /\ rows[j] # NoRow
    BY <2>1, <2>2, ReapMoves DEF rows
  <2>4. rows[j] \in Row /\ rows[j].status \notin Final
    BY <2>1, <2>2, <2>3 DEF Ready, Claimable, Final, Rows
  <2>5. row \in Row /\ row.key = rows[j].key
    BY <2>2, <2>4, LeasedType DEF Leased, Row
  <2> HIDE DEF row
  <2>6. jobs' \in Rows /\ KeysDiffer(jobs') /\ Follows(rows, jobs')
    BY <2>1, <2>2, <2>3, <2>4, <2>5, OneRow
  <2>7. Follows(jobs, jobs')
    BY <2>3, <2>6 DEF Follows
  <2>8. issued' \in [Lease -> Store!Issue]
    BY <2>1, <2>2 DEF term, StoreInv, StoreTypes, Store!Issue
  <2>9. QED
    BY <2>1, <2>6, <2>7, <2>8 DEF Moves, StoreInv, RowsInv, StoreTypes
<1>3. QED
  BY <1>1, <1>2

\* A change of one stored row, and of the terms of one lease.
LEMMA RowMoves ==
  ASSUME StoreInv, NEW j \in Store!Stored, NEW row \in Row, row.key = jobs[j].key,
         jobs[j].status \in Final => row.status \in Final,
         jobs' = [jobs EXCEPT ![j] = row], clock' = clock,
         issued' \in [Lease -> Store!Issue]
  PROVE  Moves /\ jobs'[j] = row
<1>1. j \in Job /\ jobs[j] # NoRow /\ jobs \in Rows /\ KeysDiffer(jobs)
  BY StoredRow DEF StoreInv, RowsInv
<1>2. jobs' \in Rows /\ KeysDiffer(jobs') /\ Follows(jobs, jobs')
  BY <1>1, OneRow
<1>3. jobs'[j] = row
  BY <1>1 DEF Rows
<1>4. QED
  BY <1>2, <1>3 DEF Moves, StoreInv, RowsInv, StoreTypes

LEMMA HeartbeatMoves ==
  ASSUME StoreInv, NEW j \in Store!Stored, NEW l \in Lease, NEW t \in Store!TimeRead,
         Store!Heartbeat(j, l, t, Visibility)
  PROVE  Moves
<1> DEFINE until == t + Visibility
           row == Renewed(jobs[j], until)
<1>1. jobs[j] \in Row /\ until \in Nat
  BY StoredRow, ApiAssumption
<1>2. /\ Renewable(jobs[j], l, t) /\ clock' = clock /\ jobs' = [jobs EXCEPT ![j] = row]
      /\ issued' = [issued EXCEPT ![l].until = until]
  BY SameOperators DEF Store!Heartbeat
<1> HIDE DEF until
<1>3. row \in Row /\ row.key = jobs[j].key
  BY <1>1 DEF Renewed, Row
<1>4. jobs[j].status \notin Final
  BY <1>2 DEF Renewable, Final
<1>5. issued' \in [Lease -> Store!Issue]
  BY <1>1, <1>2 DEF StoreInv, StoreTypes, Store!Issue
<1> HIDE DEF row
<1>6. QED
  BY <1>2, <1>3, <1>4, <1>5, RowMoves

LEMMA AcknowledgeMoves ==
  ASSUME StoreInv, NEW j \in Store!Stored, NEW l \in Lease, NEW row \in Row,
         row.key = jobs[j].key, Store!Acknowledge(j, l, row)
  PROVE  Moves /\ jobs'[j] = row
<1>1. /\ jobs[j].status \in Held /\ clock' = clock /\ jobs' = [jobs EXCEPT ![j] = row]
      /\ issued' = [issued EXCEPT ![l].until = 0]
  BY SameOperators DEF Store!Acknowledge, Store!Owned
<1>2. jobs[j].status \notin Final
  BY <1>1 DEF Held, Final
<1>3. issued' \in [Lease -> Store!Issue]
  BY <1>1 DEF StoreInv, StoreTypes, Store!Issue
<1>4. QED
  BY <1>1, <1>2, <1>3, RowMoves

LEMMA CompleteMoves ==
  ASSUME StoreInv, NEW j \in Store!Stored, NEW l \in Lease, Store!Complete(j, l)
  PROVE  Moves /\ jobs'[j] # NoRow /\ jobs'[j].status \in Final
<1> DEFINE row == Completed(jobs[j])
<1>1. Store!Acknowledge(j, l, row) /\ jobs[j] \in Row
  BY StoredRow, SameOperators DEF Store!Complete
<1>2. row \in Row /\ row.key = jobs[j].key /\ row.status \in Final
  BY <1>1, CompletedType DEF Completed, Released, Row, Final
<1> HIDE DEF row
<1>3. QED
  BY <1>1, <1>2, AcknowledgeMoves, RowAssumption

LEMMA FailMoves ==
  ASSUME StoreInv, NEW j \in Store!Stored, NEW l \in Lease, NEW t \in Store!TimeRead,
         Store!Fail(j, l, t)
  PROVE  Moves
<1> DEFINE row == Failed(jobs[j], t)
<1>1. Store!Acknowledge(j, l, row) /\ jobs[j] \in Row /\ t \in Nat
  BY StoredRow, SameOperators DEF Store!Fail
<1>2. row \in Row /\ row.key = jobs[j].key
  BY <1>1, FailedType DEF Failed, Released, Row
<1> HIDE DEF row
<1>3. QED
  BY <1>1, <1>2, AcknowledgeMoves

LEMMA CancelMoves ==
  ASSUME StoreInv, NEW j \in Store!Stored, Store!Cancel(j)
  PROVE  Moves
<1> DEFINE row == IF jobs[j].status = "cancelled" THEN jobs[j] ELSE Cancelled(jobs[j])
<1>1. /\ jobs[j] \in Row /\ jobs[j].status \notin Uncancellable
      /\ UNCHANGED <<issued, clock>> /\ jobs' = [jobs EXCEPT ![j] = row]
  BY StoredRow, SameOperators DEF Store!Cancel
<1>2. /\ row \in Row /\ row.key = jobs[j].key
      /\ jobs[j].status \in Final => row.status \in Final
  BY <1>1 DEF Cancelled, Row, Status, Final, Uncancellable
<1> HIDE DEF row
<1>3. issued' \in [Lease -> Store!Issue]
  BY <1>1 DEF StoreInv, StoreTypes
<1>4. QED
  BY <1>1, <1>2, <1>3, RowMoves

LEMMA RetryMoves ==
  ASSUME StoreInv, NEW j \in Store!Stored, NEW t \in Store!TimeRead, Store!Retry(j, t)
  PROVE  Moves
<1> DEFINE row == Retried(jobs[j], t)
<1>1. /\ jobs[j] \in Row /\ t \in Nat /\ jobs[j].status = "dead_letter"
      /\ UNCHANGED <<issued, clock>> /\ jobs' = [jobs EXCEPT ![j] = row]
  BY StoredRow, SameOperators DEF Store!Retry
<1>2. /\ row \in Row /\ row.key = jobs[j].key /\ jobs[j].status \notin Final
  BY <1>1 DEF Retried, Row, Status, Final
<1> HIDE DEF row
<1>3. issued' \in [Lease -> Store!Issue]
  BY <1>1 DEF StoreInv, StoreTypes
<1>4. QED
  BY <1>1, <1>2, <1>3, RowMoves

LEMMA NothingMoves ==
  ASSUME StoreInv, UNCHANGED storeVars
  PROVE  Moves
  BY DEF Moves, StoreInv, RowsInv, StoreTypes, storeVars, Follows

-------------------------------------------------------------------------------
(* What clients were told                                                      *)

Told == \A x \in told :
  /\ x.call.op = "complete" => jobs[x.job] # NoRow /\ jobs[x.job].status \in Final
  /\ x.call.op = "submit" => jobs[x.job] # NoRow /\ jobs[x.job].key = x.call.input.key

ToldInv == Told /\ told \subseteq Success

\* The fields of a request depend on the route it is for.
LEMMA CallFields ==
  ASSUME NEW k \in Call
  PROVE  /\ k.op = "submit" => k.input \in SubmitInput
         /\ k.op \in OfOneJob => k.job \in Job
         /\ k.op \in {"heartbeat", "complete", "fail"} => k.lease \in Lease
<1>1. k \in CallRecord
  BY ApiAssumption
<1>2. QED
  BY <1>1 DEF CallRecord, OfOneJob

LEMMA ToldStays ==
  ASSUME ToldInv, Follows(jobs, jobs'), told' = told
  PROVE  ToldInv'
<1>1. \A x \in told : x.job \in Job
  BY DEF ToldInv, Success
<1>2. Told'
  BY <1>1 DEF ToldInv, Told, Follows
<1>3. QED
  BY <1>2 DEF ToldInv, Success

LEMMA ToldMore ==
  ASSUME ToldInv, Follows(jobs, jobs'), NEW k \in Call, NEW job \in Job,
         NEW lease \in Lease \cup {NoLease}, NEW heard, Answers(k, job, lease, heard),
         k.op = "complete" => jobs'[job] # NoRow /\ jobs'[job].status \in Final,
         k.op = "submit" => jobs'[job] # NoRow /\ jobs'[job].key = k.input.key
  PROVE  ToldInv'
<1> DEFINE new == [call |-> k, job |-> job, lease |-> lease]
<1>1. \A x \in told : x.job \in Job
  BY DEF ToldInv, Success
<1>2. new \in Success /\ new.call = k /\ new.job = job
  BY DEF Success
<1>3. told' = told \/ told' = told \cup {new}
  BY DEF Answers
<1> HIDE DEF new
<1>4. \A x \in told' : x \in told \/ x = new
  BY <1>3
<1>5. Told'
  <2>1. ASSUME NEW x \in told
        PROVE  /\ x.call.op = "complete" => jobs'[x.job] # NoRow /\ jobs'[x.job].status \in Final
               /\ x.call.op = "submit" =>
                    jobs'[x.job] # NoRow /\ jobs'[x.job].key = x.call.input.key
    BY <1>1 DEF ToldInv, Told, Follows
  <2>2. QED
    BY <1>2, <1>4, <2>1 DEF Told
<1>6. told' \subseteq Success'
  BY <1>2, <1>4 DEF ToldInv, Success
<1>7. QED
  BY <1>5, <1>6 DEF ToldInv

-------------------------------------------------------------------------------
(* The routes                                                                  *)

RouteInv == StoreInv /\ ToldInv

LEMMA NothingAnswered ==
  ASSUME RouteInv, UNCHANGED storeVars
  PROVE  /\ AnswersNothing => RouteInv'
         /\ Moves
<1>1. Moves
  BY NothingMoves DEF RouteInv
<1>2. ASSUME AnswersNothing PROVE RouteInv'
  BY <1>1, <1>2, ToldStays DEF RouteInv, Moves, AnswersNothing
<1>3. QED
  BY <1>1, <1>2

LEMMA SubmitRouteKeeps ==
  ASSUME RouteInv, NEW k \in Call, k.op = "submit", NEW heard, SubmitRoute(k, heard)
  PROVE  RouteInv'
<1>1. k.input \in SubmitInput
  BY CallFields
<1>2. ASSUME NEW j \in Job, Store!Submit(j, k.input), Answers(k, j, NoLease, heard)
      PROVE  RouteInv'
  <2>1. Moves /\ jobs'[j] # NoRow /\ jobs'[j].key = k.input.key
    BY <1>1, <1>2, SubmitMoves DEF RouteInv
  <2>2. ToldInv'
    BY <1>2, <2>1, ToldMore DEF RouteInv, Moves
  <2>3. QED
    BY <2>1, <2>2 DEF RouteInv, Moves
<1>3. ASSUME NEW j \in Stored, jobs[j].key = k.input.key, Answers(k, j, NoLease, heard),
             UNCHANGED storeVars
      PROVE  RouteInv'
  <2>1. Moves /\ jobs' = jobs
    BY <1>3, NothingAnswered DEF storeVars
  <2>2. j \in Job /\ jobs[j] # NoRow
    BY StoredRow DEF Stored, RouteInv
  <2>3. ToldInv'
    BY <1>3, <2>1, <2>2, ToldMore DEF RouteInv, Moves
  <2>4. QED
    BY <2>1, <2>3 DEF RouteInv, Moves
<1>4. QED
  BY <1>2, <1>3 DEF SubmitRoute

LEMMA ClaimRouteKeeps ==
  ASSUME RouteInv, NEW k \in Call, k.op = "claim", NEW heard, ClaimRoute(k, heard)
  PROVE  RouteInv'
<1>1. PICK R \in SUBSET Store!Stored, t \in Store!TimeRead :
        \/ Store!ClaimNothing(R, t) /\ AnswersNothing
        \/ \E j \in Stored, l \in Lease : /\ Store!Claim(R, t, j, l, Visibility)
                                         /\ Answers(k, j, l, heard)
  BY DEF ClaimRoute, Stored
<1>2. CASE Store!ClaimNothing(R, t) /\ AnswersNothing
  <2>1. Moves
    BY <1>2, ClaimMoves DEF RouteInv
  <2>2. QED
    BY <1>2, <2>1, ToldStays DEF RouteInv, Moves, AnswersNothing
<1>3. ASSUME NEW j \in Stored, NEW l \in Lease, Store!Claim(R, t, j, l, Visibility),
             Answers(k, j, l, heard)
      PROVE  RouteInv'
  <2>1. Moves /\ j \in Job
    BY <1>3, ClaimMoves, StoredRow DEF RouteInv, Stored
  <2>2. QED
    BY <1>3, <2>1, ToldMore DEF RouteInv, Moves
<1>4. QED
  BY <1>1, <1>2, <1>3

LEMMA OneJobRouteKeeps ==
  ASSUME RouteInv, NEW k \in Call, k.op \in OfOneJob, NEW heard, OneJobRoute(k, heard)
  PROVE  RouteInv'
<1>1. k.op # "submit" /\ k.job \in Job
  BY CallFields DEF OfOneJob
<1>2. CASE UNCHANGED storeVars /\ AnswersNothing
  BY <1>2, NothingAnswered
<1>3. ASSUME Moves, NEW lease \in Lease \cup {NoLease}, Answers(k, k.job, lease, heard),
             k.op = "complete" => jobs'[k.job] # NoRow /\ jobs'[k.job].status \in Final
      PROVE  RouteInv'
  BY <1>1, <1>3, ToldMore DEF RouteInv, Moves
<1>4. ASSUME k.job \in Stored, k.op \in {"heartbeat", "complete", "fail"}, LeaseRoute(k, heard)
      PROVE  RouteInv'
  <2>1. k.lease \in Lease /\ k.job \in Store!Stored /\ StoreInv
    BY <1>4, CallFields DEF Stored, RouteInv
  <2>2. CASE /\ k.op = "heartbeat"
             /\ \E t \in Store!TimeRead : Store!Heartbeat(k.job, k.lease, t, Visibility)
             /\ Answers(k, k.job, k.lease, heard)
    <3>1. Moves
      BY <2>1, <2>2, HeartbeatMoves
    <3>2. QED
      BY <1>3, <2>1, <2>2, <3>1
  <2>3. CASE /\ k.op = "complete" /\ Store!Complete(k.job, k.lease)
             /\ Answers(k, k.job, k.lease, heard)
    <3>1. Moves /\ jobs'[k.job] # NoRow /\ jobs'[k.job].status \in Final
      BY <2>1, <2>3, CompleteMoves
    <3>2. QED
      BY <1>3, <2>1, <2>3, <3>1
  <2>4. CASE /\ k.op = "fail" /\ \E t \in Store!TimeRead : Store!Fail(k.job, k.lease, t)
             /\ Answers(k, k.job, k.lease, heard)
    <3>1. Moves
      BY <2>1, <2>4, FailMoves
    <3>2. QED
      BY <1>3, <2>1, <2>4, <3>1
  <2>5. CASE LeaseRefused(k)
    BY <1>2, <2>5 DEF LeaseRefused
  <2>6. QED
    BY <1>4, <2>2, <2>3, <2>4, <2>5 DEF LeaseRoute
<1>5. ASSUME k.job \in Stored, k.op = "cancel", CancelRoute(k, heard) PROVE RouteInv'
  <2>1. k.job \in Store!Stored /\ StoreInv
    BY <1>5 DEF Stored, RouteInv
  <2>2. CASE Store!Cancel(k.job) /\ Answers(k, k.job, NoLease, heard)
    <3>1. Moves
      BY <2>1, <2>2, CancelMoves
    <3>2. QED
      BY <1>3, <1>5, <2>2, <3>1
  <2>3. QED
    BY <1>2, <1>5, <2>2 DEF CancelRoute
<1>6. ASSUME k.job \in Stored, k.op = "retry", RetryRoute(k, heard) PROVE RouteInv'
  <2>1. k.job \in Store!Stored /\ StoreInv
    BY <1>6 DEF Stored, RouteInv
  <2>2. CASE /\ \E t \in Store!TimeRead : Store!Retry(k.job, t)
             /\ Answers(k, k.job, NoLease, heard)
    <3>1. Moves
      BY <2>1, <2>2, RetryMoves
    <3>2. QED
      BY <1>3, <1>6, <2>2, <3>1
  <2>3. QED
    BY <1>2, <1>6, <2>2 DEF RetryRoute
<1>7. ASSUME k.op = "read", ReadRoute(k, heard) PROVE RouteInv'
  <2>1. Moves /\ Answers(k, k.job, NoLease, heard)
    BY <1>7, NothingAnswered DEF ReadRoute
  <2>2. QED
    BY <1>3, <1>7, <2>1
<1>8. QED
  BY <1>2, <1>4, <1>5, <1>6, <1>7 DEF OneJobRoute

LEMMA StoreRouteKeeps ==
  ASSUME RouteInv, NEW k \in Call, NEW heard, StoreRoute(k, heard)
  PROVE  RouteInv'
<1>1. CASE k.op = "submit" /\ SubmitRoute(k, heard)
  BY <1>1, SubmitRouteKeeps
<1>2. CASE k.op = "claim" /\ ClaimRoute(k, heard)
  BY <1>2, ClaimRouteKeeps
<1>3. CASE k.op \in OfOneJob /\ OneJobRoute(k, heard)
  BY <1>3, OneJobRouteKeeps
<1>4. CASE UNCHANGED storeVars /\ AnswersNothing
  BY <1>4, NothingAnswered
<1>5. QED
  BY <1>1, <1>2, <1>3, <1>4 DEF StoreRoute

-------------------------------------------------------------------------------
(* The process and its connections                                             *)

ProcessTypes ==
  /\ phase \in {"serving", "closing", "ending", "quitting", "down"}
  /\ loop \in [Loop -> {"on", "stopping", "off"}]
  /\ conn \in [Client -> {"closed", "idle", "request", "stream"}]
  /\ request \in [Client -> Call \cup {NoCall}]
  /\ \A c \in Client : conn[c] = "request" => request[c] \in Call
  /\ orphans \subseteq Call

\* A connection is open only while the server listens or waits for it to close.
OpenWhileServing == \A c \in Client : conn[c] # "closed" => phase \in {"serving", "closing"}

ProcessInv == ProcessTypes /\ OpenWhileServing
ApiInv == RouteInv /\ ProcessInv

LEMMA ApiInit == Init => ApiInv
<1> SUFFICES ASSUME Init PROVE ApiInv
  OBVIOUS
<1>1. StoreInv
  <2>1. \A j \in Job : jobs[j] = NoRow
    BY DEF Init, Store!Init
  <2>2. jobs \in Rows /\ StoreTypes
    BY DEF Init, Store!Init, Store!NotIssued, Store!Issue, Rows, StoreTypes
  <2>3. QED
    BY <2>1, <2>2 DEF StoreInv, RowsInv, KeysDiffer
<1>2. ToldInv
  BY DEF Init, ToldInv, Told
<1>3. ProcessInv
  BY DEF Init, ProcessInv, ProcessTypes, OpenWhileServing
<1>4. QED
  BY <1>1, <1>2, <1>3 DEF ApiInv, RouteInv

\* A connection that moves on while the server listens, or closes.
LEMMA ConnMoves ==
  ASSUME ProcessInv, NEW c \in Client,
         NEW state \in {"closed", "idle", "request", "stream"},
         NEW k \in Call \cup {NoCall}, SetConn(c, state, k),
         state = "request" => k \in Call,
         state = "closed" \/ phase \in {"serving", "closing"},
         phase' = phase, loop' \in [Loop -> {"on", "stopping", "off"}], orphans' \subseteq Call
  PROVE  ProcessInv'
<1>1. /\ conn' = [conn EXCEPT ![c] = state] /\ request' = [request EXCEPT ![c] = k]
      /\ conn \in [Client -> {"closed", "idle", "request", "stream"}]
      /\ request \in [Client -> Call \cup {NoCall}]
  BY DEF SetConn, ProcessInv, ProcessTypes
<1>2. \A d \in Client : /\ conn'[d] = IF d = c THEN state ELSE conn[d]
                        /\ request'[d] = IF d = c THEN k ELSE request[d]
  BY <1>1
<1>3. ProcessTypes'
  BY <1>1, <1>2 DEF ProcessInv, ProcessTypes
<1>4. OpenWhileServing'
  BY <1>2 DEF ProcessInv, OpenWhileServing
<1>5. QED
  BY <1>3, <1>4 DEF ProcessInv

LEMMA StoreIdle ==
  ASSUME RouteInv, UNCHANGED storeVars, told' = told
  PROVE  RouteInv'
  BY NothingAnswered DEF AnswersNothing

LEMMA ConnectionStep ==
  ASSUME ApiInv, NEW c \in Client,
         \/ Open(c) \/ (\E k \in Call : Send(c, k)) \/ Handler(c) \/ Close(c)
  PROVE  ApiInv'
<1>1. RouteInv /\ ProcessInv /\ orphans \subseteq Call
      /\ loop \in [Loop -> {"on", "stopping", "off"}]
  BY DEF ApiInv, ProcessInv, ProcessTypes
<1>2. /\ conn[c] # "closed" => phase \in {"serving", "closing"}
      /\ conn[c] = "request" => request[c] \in Call
  BY <1>1 DEF ProcessInv, ProcessTypes, OpenWhileServing
<1>3. CASE Open(c)
  <2>1. RouteInv'
    BY <1>1, <1>3, StoreIdle DEF Open
  <2>2. ProcessInv'
    BY <1>1, <1>3, ConnMoves DEF Open, processVars
  <2>3. QED
    BY <2>1, <2>2 DEF ApiInv
<1>4. ASSUME NEW k \in Call, Send(c, k) PROVE ApiInv'
  <2>1. RouteInv'
    BY <1>1, <1>4, StoreIdle DEF Send
  <2>2. ProcessInv'
    BY <1>1, <1>2, <1>4, ConnMoves DEF Send, processVars
  <2>3. QED
    BY <2>1, <2>2 DEF ApiInv
<1>5. CASE Handle(c)
  <2>1. RouteInv'
    BY <1>1, <1>2, <1>5, StoreRouteKeeps DEF Handle
  <2>2. ProcessInv'
    BY <1>1, <1>2, <1>5, ConnMoves DEF Handle, processVars
  <2>3. QED
    BY <2>1, <2>2 DEF ApiInv
<1>6. CASE HandleInvalid(c) \/ HandleStream(c)
  <2>1. RouteInv'
    BY <1>1, <1>6, StoreIdle DEF HandleInvalid, HandleStream
  <2>2. ProcessInv'
    BY <1>1, <1>2, <1>6, ConnMoves DEF HandleInvalid, HandleStream, processVars
  <2>3. QED
    BY <2>1, <2>2 DEF ApiInv
<1>7. CASE HandleWorker(c)
  <2>1. RouteInv'
    BY <1>1, <1>7, StoreIdle DEF HandleWorker
  <2>2. loop' \in [Loop -> {"on", "stopping", "off"}]
    <3>1. loop["worker"] \in {"on", "stopping", "off"}
      BY <1>1 DEF Loop
    <3>2. Halted(loop["worker"]) \subseteq {"on", "stopping", "off"}
      BY <3>1 DEF Halted
    <3>3. PICK state \in {"on", "stopping", "off"} : loop' = [loop EXCEPT !["worker"] = state]
      BY <1>7, <3>2 DEF HandleWorker
    <3>4. QED
      BY <1>1, <3>3
  <2>3. ProcessInv'
    BY <1>1, <1>2, <1>7, <2>2, ConnMoves DEF HandleWorker
  <2>4. QED
    BY <2>1, <2>3 DEF ApiInv
<1>8. CASE Close(c)
  <2>1. RouteInv'
    BY <1>1, <1>8, StoreIdle DEF Close
  <2>2. orphans' \subseteq Call
    BY <1>1, <1>2, <1>8 DEF Close
  <2>3. ProcessInv'
    BY <1>1, <1>8, <2>2, ConnMoves DEF Close, processVars
  <2>4. QED
    BY <2>1, <2>3 DEF ApiInv
<1>9. QED
  BY <1>3, <1>4, <1>5, <1>6, <1>7, <1>8 DEF Handler

LEMMA OrphanStep ==
  ASSUME ApiInv, NEW k \in Call, HandleOrphan(k)
  PROVE  ApiInv'
<1>1. RouteInv'
  BY StoreRouteKeeps DEF HandleOrphan, ApiInv
<1>2. ProcessInv'
  BY DEF HandleOrphan, ApiInv, ProcessInv, ProcessTypes, OpenWhileServing, processVars
<1>3. QED
  BY <1>1, <1>2 DEF ApiInv

LEMMA ProcessStep ==
  ASSUME ApiInv,
         \/ (\E b \in Loop : LoopEnds(b)) \/ Bootstrap \/ Shutdown \/ ServerClosed
         \/ PoolEnded \/ BrokerClosed \/ Crash
  PROVE  ApiInv'
<1>1. UNCHANGED <<storeVars, told>>
  BY DEF LoopEnds, Bootstrap, Shutdown, ServerClosed, PoolEnded, BrokerClosed, Crash, GoOn
<1>2. RouteInv'
  BY <1>1, StoreIdle DEF ApiInv
<1>3. ProcessInv
  BY DEF ApiInv
<1>4. ASSUME phase' \in {"serving", "closing", "ending", "quitting", "down"},
             loop' \in [Loop -> {"on", "stopping", "off"}],
             \A c \in Client : conn[c] # "closed" => phase' \in {"serving", "closing"},
             UNCHANGED <<conn, request, orphans>>
      PROVE  ProcessInv'
  BY <1>3, <1>4 DEF ProcessInv, ProcessTypes, OpenWhileServing
<1>5. /\ phase \in {"serving", "closing", "ending", "quitting", "down"}
      /\ loop \in [Loop -> {"on", "stopping", "off"}]
      /\ \A c \in Client : conn[c] # "closed" => phase \in {"serving", "closing"}
  BY <1>3 DEF ProcessInv, ProcessTypes, OpenWhileServing
<1>6. ASSUME NEW b \in Loop, LoopEnds(b) PROVE ProcessInv'
  BY <1>4, <1>5, <1>6 DEF LoopEnds
<1>7. ASSUME Bootstrap PROVE ProcessInv'
  <2>1. loop' \in [Loop -> {"on", "stopping", "off"}]
    BY <1>5, <1>7 DEF Bootstrap
  <2>2. QED
    BY <1>4, <1>7, <2>1 DEF Bootstrap
<1>8. ASSUME ServerClosed \/ PoolEnded \/ BrokerClosed PROVE ProcessInv'
  BY <1>4, <1>5, <1>8 DEF ServerClosed, PoolEnded, BrokerClosed, GoOn
<1>9. ASSUME phase' \in {"closing", "down"},
             loop' \in [Loop -> {"on", "stopping", "off"}],
             conn' \in [Client -> {"closed", "idle", "request", "stream"}],
             request' \in [Client -> Call \cup {NoCall}], orphans' \subseteq Call,
             \A c \in Client : conn'[c] # "closed" => /\ conn'[c] = conn[c]
                                                     /\ request'[c] = request[c]
                                                     /\ phase' = "closing"
      PROVE  ProcessInv'
  <2>1. \A c \in Client : conn'[c] = "request" => request'[c] \in Call
    BY <1>3, <1>9 DEF ProcessInv, ProcessTypes
  <2>2. ProcessTypes'
    BY <1>9, <2>1 DEF ProcessTypes
  <2>3. OpenWhileServing'
    BY <1>9 DEF OpenWhileServing
  <2>4. QED
    BY <2>2, <2>3 DEF ProcessInv
<1>10. /\ conn \in [Client -> {"closed", "idle", "request", "stream"}]
       /\ request \in [Client -> Call \cup {NoCall}] /\ orphans \subseteq Call
  BY <1>3 DEF ProcessInv, ProcessTypes
<1>11. ASSUME Shutdown PROVE ProcessInv'
  <2>1. /\ phase' = "closing" /\ UNCHANGED <<request, orphans>>
        /\ loop' \in [Loop -> {"on", "stopping", "off"}]
        /\ conn' = [c \in Client |-> IF conn[c] = "idle" THEN "closed" ELSE conn[c]]
    BY <1>11 DEF Shutdown
  <2>2. QED
    BY <1>9, <1>10, <2>1
<1>12. ASSUME Crash PROVE ProcessInv'
  <2>1. /\ phase' = "down" /\ orphans' = {} /\ loop' = [b \in Loop |-> "off"]
        /\ conn' = [c \in Client |-> "closed"] /\ request' = [c \in Client |-> NoCall]
    BY <1>12 DEF Crash
  <2>2. QED
    BY <1>9, <2>1
<1>13. ProcessInv'
  BY <1>6, <1>7, <1>8, <1>11, <1>12
<1>14. QED
  BY <1>2, <1>13 DEF ApiInv

LEMMA ApiStep ==
  ASSUME ApiInv, [Next]_vars
  PROVE  ApiInv'
<1>1. CASE UNCHANGED vars
  <2>1. RouteInv'
    BY <1>1, StoreIdle DEF vars, storeVars, ApiInv
  <2>2. ProcessInv'
    BY <1>1 DEF vars, ApiInv, ProcessInv, ProcessTypes, OpenWhileServing
  <2>3. QED
    BY <2>1, <2>2 DEF ApiInv
<1>2. ASSUME NEW c \in Client,
             \/ Open(c) \/ (\E k \in Call : Send(c, k)) \/ Handler(c) \/ Close(c)
      PROVE  ApiInv'
  BY <1>2, ConnectionStep
<1>3. ASSUME NEW k \in Call, HandleOrphan(k) PROVE ApiInv'
  BY <1>3, OrphanStep
<1>4. CASE \/ (\E b \in Loop : LoopEnds(b)) \/ Bootstrap \/ Shutdown \/ ServerClosed
           \/ PoolEnded \/ BrokerClosed \/ Crash
  BY <1>4, ProcessStep
<1>5. CASE Tick
  <2>1. clock' = clock + 1 /\ UNCHANGED <<jobs, issued, told, processVars, conn, request, orphans>>
    BY <1>5 DEF Tick, Store!Tick
  <2>2. RouteInv'
    <3>1. StoreInv' /\ Follows(jobs, jobs')
      BY <2>1 DEF ApiInv, RouteInv, StoreInv, RowsInv, StoreTypes, Follows
    <3>2. QED
      BY <2>1, <3>1, ToldStays DEF ApiInv, RouteInv
  <2>3. ProcessInv'
    BY <2>1 DEF ApiInv, ProcessInv, ProcessTypes, OpenWhileServing, processVars
  <2>4. QED
    BY <2>2, <2>3 DEF ApiInv
<1>6. QED
  BY <1>1, <1>2, <1>3, <1>4, <1>5 DEF Next, Handler

\* The invariant of the API process holds through lost answers, repeated calls,
\* handlers without a client, crashes and restarts.
THEOREM ApiInvariant == Spec => []ApiInv
  BY ApiInit, ApiStep, PTL DEF Spec

\* Every variable of the process keeps its type.
THEOREM ApiTypes == Spec => []TypeOK
<1>1. ApiInv => TypeOK
  BY DEF ApiInv, RouteInv, StoreInv, RowsInv, Rows, StoreTypes, ToldInv, ProcessInv,
         ProcessTypes, TypeOK
<1>2. QED
  BY <1>1, ApiInvariant, PTL

\* shutdown() closes the store only when no client waits for an answer.
THEOREM PoolIsLast == Spec => []PoolOutlivesRequests
<1>1. ApiInv => PoolOutlivesRequests
  BY DEF ApiInv, ProcessInv, OpenWhileServing, PoolOutlivesRequests
<1>2. QED
  BY <1>1, ApiInvariant, PTL

\* A completion that a client was told of is never overwritten (PLAN.md:169).
THEOREM TerminalCompletion == Spec => []CompletionIsTerminal
<1>1. ApiInv => CompletionIsTerminal
  BY DEF ApiInv, RouteInv, ToldInv, Told, Final, CompletionIsTerminal
<1>2. QED
  BY <1>1, ApiInvariant, PTL

\* All who submit with one idempotency key are told of the same job (PLAN.md:170).
THEOREM OneJobToldPerKey == Spec => []KeyedSubmitsAgree
<1>1. ApiInv => KeyedSubmitsAgree
  <2> SUFFICES ASSUME ApiInv, NEW x \in told, NEW y \in told,
                      x.call.op = "submit", y.call.op = "submit",
                      x.call.input.key # NoKey, x.call.input.key = y.call.input.key
               PROVE  x.job = y.job
    BY DEF KeyedSubmitsAgree
  <2>1. x.job \in Job /\ y.job \in Job
    BY DEF ApiInv, RouteInv, ToldInv, Success
  <2>2. /\ jobs[x.job] # NoRow /\ jobs[x.job].key = x.call.input.key
        /\ jobs[y.job] # NoRow /\ jobs[y.job].key = y.call.input.key
    BY DEF ApiInv, RouteInv, ToldInv, Told
  <2>3. QED
    BY <2>1, <2>2 DEF ApiInv, RouteInv, StoreInv, RowsInv, KeysDiffer
<1>2. QED
  BY <1>1, ApiInvariant, PTL
===============================================================================
