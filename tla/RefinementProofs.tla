--------------------------- MODULE RefinementProofs ---------------------------
(* PostgresJobStore implements the contract: the statements of any number of   *)
(* concurrent calls add up to operations of JobStore, each at the commit of    *)
(* its transaction, and no commit changes a row that its events do not         *)
(* explain.  The invariant says, for every open transaction, what single       *)
(* operation its writes so far amount to; every other session leaves the rows  *)
(* it holds alone, so only its own statements have to be looked at.            *)
EXTENDS PostgresJobStoreProofs

-------------------------------------------------------------------------------
(* What a transaction has done when it is about to commit                      *)

\* A claim's reaping: each row it holds is as it was, or its lease had run out and
\* was taken back.
TookBack(s, j) == /\ Expired(jobs[j], txn[s].start)
                  /\ draft[j] = Reaped(jobs[j], txn[s].start)
KeptOrTookBack(s, j) == jobs[j] # NoRow /\ (draft[j] = jobs[j] \/ TookBack(s, j))

NothingDone(s) == txn[s].told = Silent /\ \A j \in HeldBy(s) : KeptOrTookBack(s, j)

SubmitDone(s) ==
  \E j \in Job, input \in SubmitInputs, n \in 0..(clock + MaxSkew) :
    /\ HeldBy(s) = {j} /\ jobs[j] = NoRow
    /\ draft[j] = NewRow(input, txn[s].start, n)
    /\ txn[s].told = Silent

\* The row the claim takes may be one it has itself taken back.
ClaimDone(s) ==
  \E j \in HeldBy(s), l \in Lease, v \in Duration, old \in Row :
    /\ jobs[j] # NoRow
    /\ \/ old = jobs[j]
       \/ Expired(jobs[j], txn[s].start) /\ old = Reaped(jobs[j], txn[s].start)
    /\ Ready(old, jobs[j].queue, txn[s].start)
    /\ LeaseOf(jobs[j]) # l
    /\ draft[j] = Leased(old, l, txn[s].start + v)
    /\ txn[s].told = Tell(l, j, txn[s].start + v)
    /\ \A i \in HeldBy(s) \ {j} : KeptOrTookBack(s, i)

HeartbeatDone(s) ==
  \E j \in Stored, l \in Lease, v \in Duration :
    /\ HeldBy(s) = {j}
    /\ Renewable(jobs[j], l, txn[s].start)
    /\ draft[j] = Renewed(jobs[j], txn[s].start + v)
    /\ txn[s].told = Tell(l, j, txn[s].start + v)

AcknowledgeDone(s) ==
  \E j \in Stored, l \in Lease, n \in 0..(clock + MaxSkew) :
    /\ HeldBy(s) = {j}
    /\ n + MaxSkew >= txn[s].start /\ Owned(jobs[j], l, n)
    /\ draft[j] \in {Completed(jobs[j]), Failed(jobs[j], txn[s].start)}
    /\ txn[s].told = Tell(l, j, 0)

CancelDone(s) ==
  \E j \in Stored :
    /\ HeldBy(s) = {j}
    /\ jobs[j].status \notin Uncancellable \cup {"cancelled"}
    /\ draft[j] = Cancelled(jobs[j])
    /\ txn[s].told = Silent

RetryDone(s) ==
  \E j \in Stored :
    /\ HeldBy(s) = {j}
    /\ jobs[j].status = "dead_letter"
    /\ draft[j] = Retried(jobs[j], txn[s].start)
    /\ txn[s].told = Silent

OneOperation(s) == \/ NothingDone(s) \/ SubmitDone(s) \/ ClaimDone(s) \/ HeartbeatDone(s)
                   \/ AcknowledgeDone(s) \/ CancelDone(s) \/ RetryDone(s)

\* A row that is being inserted has its new version from the moment it is locked,
\* and until its last statement a call has changed nothing but what it took back.
DoesOneOperation(s) == /\ \A j \in HeldBy(s) : draft[j] # NoRow
                       /\ OneOperation(s)
                       /\ txn[s].pc # "ready" => NothingDone(s)
OpInv == \A s \in Session : DoesOneOperation(s)

PgInv == IInv /\ RowInv /\ OpInv

LEMMA OpInit == Init => OpInv
<1> SUFFICES ASSUME Init PROVE OpInv
  OBVIOUS
<1>1. \A s \in Session : HeldBy(s) = {} /\ txn[s].told = Silent
  BY SessionAssumption DEF Init, HeldBy, Idle
<1>2. QED
  BY <1>1 DEF OpInv, DoesOneOperation, OneOperation, NothingDone

-------------------------------------------------------------------------------
(* Sessions do not touch what other sessions hold                              *)

Untouching(o) == /\ txn'[o] = txn[o]
                 /\ \A j \in Job : lock'[j] = o <=> lock[j] = o
                 /\ \A j \in HeldBy(o) : jobs'[j] = jobs[j] /\ draft'[j] = draft[j]

\* Locking and writing at most a row that is free or the session's own.
LEMMA WriteUntouching ==
  ASSUME IInv, NEW s \in Session, NEW o \in Session \ {s}, NEW j \in Job,
         lock[j] \in {NoSession, s}, Committed, txn'[o] = txn[o],
         \A i \in Job \ {j} : lock'[i] = lock[i] /\ draft'[i] = draft[i],
         lock'[j] \in {lock[j], s}
  PROVE  Untouching(o)
<1>1. lock[j] # o /\ lock'[j] # o /\ UNCHANGED jobs
  BY SessionAssumption DEF Committed
<1>2. QED
  BY <1>1 DEF Untouching, HeldBy

LEMMA EndUntouching ==
  ASSUME IInv, NEW s \in Session, NEW o \in Session \ {s}, Commit(s) \/ Undo(s)
  PROVE  Untouching(o)
<1>1. Unlock(s) /\ txn' = [txn EXCEPT ![s] = Idle]
  BY DEF Commit, Undo
<1>2. txn'[o] = txn[o] /\ \A j \in Job : lock'[j] = o <=> lock[j] = o
  BY <1>1, EndLocks, SessionAssumption DEF IInv, Unlock
<1>3. \A j \in HeldBy(o) : jobs'[j] = jobs[j] /\ draft'[j] = draft[j]
  BY DEF Commit, Undo, Committed, HeldBy
<1>4. QED
  BY <1>2, <1>3 DEF Untouching

\* A statement of session s, or its BEGIN, leaves every other session alone.
LEMMA OthersUntouched ==
  ASSUME PgInv, NEW s \in Session, NEW o \in Session \ {s},
         Step(s) \/ Abort(s) \/ \E op \in Operation : Begin(s, op)
  PROVE  Untouching(o)
<1>1. CASE \/ Submit(s) /\ \E input \in SubmitInputs : SubmitDuplicate(s, input)
           \/ ReapScan(s) \/ ClaimNothing(s) \/ NotFound(s)
           \/ \E op \in Operation : Begin(s, op)
           \/ Goto(s, "failing") /\ UNCHANGED <<draft, lock>> /\ Committed
  <2>1. UNCHANGED <<jobs, draft, lock>>
    BY <1>1 DEF Submit, SubmitDuplicate, ReapScan, ClaimNothing, NotFound, Begin, Committed
  <2>2. \E new : txn' = [txn EXCEPT ![s] = new]
    BY <1>1 DEF Submit, SubmitDuplicate, ReapScan, ClaimNothing, NotFound, Begin, Goto
  <2>3. txn'[o] = txn[o]
    BY <2>2 DEF IInv, PgInv, TypeInv, TypeOK
  <2>4. QED
    BY <2>1, <2>3 DEF Untouching
<1>2. ASSUME NEW j \in Job, NEW pc, Unlocked(j), LockOnly(s, j, pc), Committed
      PROVE  Untouching(o)
  <2>1. /\ txn'[o] = txn[o] /\ lock'[j] = s /\ lock[j] = NoSession
        /\ \A i \in Job \ {j} : lock'[i] = lock[i] /\ draft'[i] = draft[i]
    BY <1>2 DEF LockOnly, Goto, Unlocked, PgInv, IInv, TypeInv, TypeOK
  <2>2. QED
    BY <1>2, <2>1, WriteUntouching DEF PgInv
<1>3. ASSUME NEW j \in Job, NEW row, NEW es, NEW told, lock[j] \in {NoSession, s},
             Write(s, j, row, es, told), Committed
      PROVE  Untouching(o)
  <2>1. /\ txn'[o] = txn[o] /\ lock'[j] = s
        /\ \A i \in Job \ {j} : lock'[i] = lock[i] /\ draft'[i] = draft[i]
    BY <1>3 DEF Write, PgInv, IInv, TypeInv, TypeOK
  <2>2. QED
    BY <1>3, <2>1, WriteUntouching DEF PgInv
<1>4. CASE Submit(s)
  <2>1. PICK input \in SubmitInputs : SubmitDuplicate(s, input) \/ SubmitInsert(s, input)
    BY <1>4 DEF Submit
  <2>2. CASE SubmitInsert(s, input)
    <3>1. PICK j \in Job, n \in CallerNow :
            LET row == NewRow(input, txn[s].start, n) IN
            /\ draft[j] = NoRow
            /\ lock' = [lock EXCEPT ![j] = s]
            /\ draft' = [draft EXCEPT ![j] = row]
            /\ txn' = [txn EXCEPT ![s].pc = "ready", ![s].queue = input.queue,
                         ![s].events = <<Event("submitted", j, "none", row.status)>>]
      BY <2>2 DEF SubmitInsert
    <3>2. lock[j] \notin Session
      BY <3>1 DEF PgInv, OpInv, DoesOneOperation, HeldBy
    <3>3. lock[j] = NoSession
      BY <3>2 DEF PgInv, IInv, TypeInv, TypeOK
    <3>4. Committed
      BY <1>4 DEF Submit
    <3>5. /\ txn'[o] = txn[o] /\ lock'[j] = s
          /\ \A i \in Job \ {j} : lock'[i] = lock[i] /\ draft'[i] = draft[i]
      BY <3>1 DEF PgInv, IInv, TypeInv, TypeOK
    <3>6. QED
      BY <3>3, <3>4, <3>5, WriteUntouching DEF PgInv
  <2>3. QED
    BY <1>1, <1>4, <2>1, <2>2
<1>5. ASSUME NEW j \in Job, ReapRow(s, j) PROVE Untouching(o)
  <2>1. lock[j] = NoSession /\ Committed /\ lock' = [lock EXCEPT ![j] = s]
    BY <1>5 DEF ReapRow, Unlocked
  <2>2. txn'[o] = txn[o]
    BY <1>5 DEF ReapRow, PgInv, IInv, TypeInv, TypeOK
  <2>3. \A i \in Job \ {j} : lock'[i] = lock[i] /\ draft'[i] = draft[i]
    BY <1>5 DEF ReapRow, PgInv, IInv, TypeInv, TypeOK
  <2>4. lock'[j] = s
    BY <2>1 DEF PgInv, IInv, TypeInv, TypeOK
  <2>5. QED
    BY <2>1, <2>2, <2>3, <2>4, WriteUntouching DEF PgInv
<1>6. CASE ClaimLease(s)
  <2>1. PICK q \in Queue, l \in FreshLease, v \in Duration : \E j \in Best(s, q) :
          Write(s, j, Leased(draft[j], l, txn[s].start + v),
                <<Event("claimed", j, draft[j].status, "processing")>>,
                Tell(l, j, txn[s].start + v))
    BY <1>6 DEF ClaimLease
  <2>2. \A j \in Best(s, q) : j \in Job /\ lock[j] \in {NoSession, s}
    BY DEF Best, Candidates
  <2>3. QED
    BY <1>3, <1>6, <2>1, <2>2 DEF ClaimLease
<1>7. CASE HeartbeatRefused(s) \/ RetryRefused(s)
  <2>1. PICK j \in Stored : Refuse(s, j)
    BY <1>7 DEF HeartbeatRefused, RetryRefused
  <2>2. Committed
    BY <1>7 DEF HeartbeatRefused, RetryRefused
  <2>3. QED
    BY <1>1, <1>2, <2>1, <2>2 DEF Refuse, Stored
<1>8. CASE HeartbeatUpdate(s) \/ Acknowledge(s) \/ Cancel(s) \/ RetryUpdate(s)
  <2>1. Committed
    BY <1>8 DEF HeartbeatUpdate, Acknowledge, Cancel, RetryUpdate
  <2>2. PICK j \in Stored : /\ Unlocked(j)
                            /\ \/ \E pc : LockOnly(s, j, pc)
                               \/ \E row, es, told : Write(s, j, row, es, told)
    <3>1. CASE HeartbeatUpdate(s)
      BY <3>1 DEF HeartbeatUpdate
    <3>2. CASE Acknowledge(s)
      BY <3>2 DEF Acknowledge
    <3>3. CASE Cancel(s)
      BY <3>3 DEF Cancel
    <3>4. CASE RetryUpdate(s)
      BY <3>4 DEF RetryUpdate
    <3>5. QED
      BY <1>8, <3>1, <3>2, <3>3, <3>4
  <2>3. j \in Job /\ lock[j] \in {NoSession, s}
    BY <2>2 DEF Stored, Unlocked
  <2>4. QED
    BY <1>2, <1>3, <2>1, <2>2, <2>3
<1>9. CASE Commit(s) \/ Rollback(s) \/ Abort(s)
  BY <1>9, EndUntouching DEF Rollback, Abort, PgInv
<1>10. QED
  BY <1>1, <1>4, <1>5, <1>6, <1>7, <1>8, <1>9 DEF Step

-------------------------------------------------------------------------------
(* Each statement is the only one of its operation that is not taking back     *)

LEMMA LaterTime ==
  ASSUME NEW now \in Nat, NEW later \in Nat, now <= later, NEW n \in 0..(now + MaxSkew)
  PROVE  n \in 0..(later + MaxSkew)
  BY PgAssumption

LEMMA OperationStays ==
  ASSUME NEW o \in Session, Untouching(o), clock \in Nat, clock' \in Nat, clock <= clock',
         DoesOneOperation(o)
  PROVE  DoesOneOperation(o)'
<1>1. /\ txn'[o] = txn[o] /\ HeldBy(o)' = HeldBy(o)
      /\ \A j \in HeldBy(o) : jobs'[j] = jobs[j] /\ draft'[j] = draft[j]
  BY DEF Untouching, HeldBy
<1>2. \A j \in HeldBy(o) : KeptOrTookBack(o, j)' = KeptOrTookBack(o, j)
  BY <1>1 DEF KeptOrTookBack, TookBack
<1>3. NothingDone(o) => NothingDone(o)'
  BY <1>1, <1>2 DEF NothingDone
<1>4. \A j \in HeldBy(o) : j \in Stored => j \in Stored'
  BY <1>1 DEF Stored
<1>5. SubmitDone(o) => SubmitDone(o)'
  <2> SUFFICES ASSUME SubmitDone(o) PROVE SubmitDone(o)'
    OBVIOUS
  <2>1. PICK j \in Job, input \in SubmitInputs, n \in 0..(clock + MaxSkew) :
          /\ HeldBy(o) = {j} /\ jobs[j] = NoRow
          /\ draft[j] = NewRow(input, txn[o].start, n)
          /\ txn[o].told = Silent
    BY DEF SubmitDone
  <2>2. n \in 0..(clock' + MaxSkew)
    BY LaterTime
  <2>3. QED
    BY <1>1, <2>1, <2>2 DEF SubmitDone
<1>6. ClaimDone(o) => ClaimDone(o)'
  <2> SUFFICES ASSUME ClaimDone(o) PROVE ClaimDone(o)'
    OBVIOUS
  <2>1. PICK j \in HeldBy(o), l \in Lease, v \in Duration, old \in Row :
          /\ jobs[j] # NoRow
          /\ \/ old = jobs[j]
             \/ Expired(jobs[j], txn[o].start) /\ old = Reaped(jobs[j], txn[o].start)
          /\ Ready(old, jobs[j].queue, txn[o].start)
          /\ LeaseOf(jobs[j]) # l
          /\ draft[j] = Leased(old, l, txn[o].start + v)
          /\ txn[o].told = Tell(l, j, txn[o].start + v)
          /\ \A i \in HeldBy(o) \ {j} : KeptOrTookBack(o, i)
    BY DEF ClaimDone
  <2>2. \A i \in HeldBy(o)' \ {j} : KeptOrTookBack(o, i)'
    BY <1>1, <1>2, <2>1
  <2>3. QED
    BY <1>1, <2>1, <2>2 DEF ClaimDone
<1>7. HeartbeatDone(o) => HeartbeatDone(o)'
  BY <1>1, <1>4 DEF HeartbeatDone
<1>8. AcknowledgeDone(o) => AcknowledgeDone(o)'
  <2> SUFFICES ASSUME AcknowledgeDone(o) PROVE AcknowledgeDone(o)'
    OBVIOUS
  <2>1. PICK j \in Stored, l \in Lease, n \in 0..(clock + MaxSkew) :
          /\ HeldBy(o) = {j}
          /\ n + MaxSkew >= txn[o].start /\ Owned(jobs[j], l, n)
          /\ draft[j] \in {Completed(jobs[j]), Failed(jobs[j], txn[o].start)}
          /\ txn[o].told = Tell(l, j, 0)
    BY DEF AcknowledgeDone
  <2>2. n \in 0..(clock' + MaxSkew)
    BY LaterTime
  <2>3. QED
    BY <1>1, <1>4, <2>1, <2>2 DEF AcknowledgeDone
<1>9. CancelDone(o) => CancelDone(o)'
  BY <1>1, <1>4 DEF CancelDone
<1>10. RetryDone(o) => RetryDone(o)'
  BY <1>1, <1>4 DEF RetryDone
<1>11. QED
  BY <1>1, <1>3, <1>5, <1>6, <1>7, <1>8, <1>9, <1>10 DEF DoesOneOperation, OneOperation

\* A statement that writes no row keeps what the call has done so far.
LEMMA MoveOperation ==
  ASSUME PgInv, NEW s \in Session, NothingDone(s), UNCHANGED <<jobs, draft>>,
         txn'[s].told = txn[s].told, txn'[s].start = txn[s].start,
         \A j \in Job : lock'[j] = s => lock[j] = s \/ (j \in Stored /\ Unlocked(j))
  PROVE  DoesOneOperation(s)'
<1>1. \A j \in HeldBy(s)' : KeptOrTookBack(s, j)'
  <2> TAKE j \in HeldBy(s)'
  <2>1. j \in Job /\ (j \in HeldBy(s) \/ (j \in Stored /\ Unlocked(j)))
    BY DEF HeldBy
  <2>2. CASE j \in HeldBy(s)
    BY <2>2 DEF NothingDone, KeptOrTookBack, TookBack
  <2>3. CASE j \in Stored /\ Unlocked(j)
    BY <2>1, <2>3 DEF Stored, KeptOrTookBack, PgInv, IInv, LeaseInv, UnlockedRowsAgree
  <2>4. QED
    BY <2>1, <2>2, <2>3
<1>2. \A j \in HeldBy(s)' : draft'[j] # NoRow
  BY <1>1 DEF KeptOrTookBack, HeldBy, PgInv, IInv, TypeInv, RowsStay
<1>3. NothingDone(s)'
  BY <1>1 DEF NothingDone
<1>4. QED
  BY <1>2, <1>3 DEF DoesOneOperation, OneOperation

LEMMA WriteFacts ==
  ASSUME PgInv, NEW s \in Session, NEW j \in Job, NEW row, NEW es, NEW told,
         Write(s, j, row, es, told), Committed
  PROVE  /\ txn'[s].pc = "ready" /\ txn'[s].start = txn[s].start /\ txn'[s].told = told
         /\ txn'[s].events = txn[s].events \o es
         /\ draft'[j] = row /\ HeldBy(s)' = HeldBy(s) \cup {j}
         /\ \A i \in Job \ {j} : draft'[i] = draft[i]
         /\ UNCHANGED <<jobs, issued, clock>>
<1>1. txn[s] \in Txn /\ lock \in [Job -> Session \cup {NoSession}]
      /\ txn \in [Session -> Txn] /\ draft \in [Job -> Row \cup {NoRow}]
  BY DEF PgInv, IInv, TypeInv, TypeOK
<1>2. HeldBy(s)' = HeldBy(s) \cup {j}
  BY <1>1 DEF Write, HeldBy
<1>3. QED
  BY <1>1, <1>2 DEF Write, Txn, Committed

\* The calls about one job hold no other row.
LEMMA CallHoldsOne ==
  ASSUME PgInv, NEW s \in Session, txn[s].pc = "begun", NEW j \in Stored, NEW row \in Row,
         NEW es, NEW told, Write(s, j, row, es, told), Committed
  PROVE  /\ HeldBy(s)' = {j} /\ j \in Stored' /\ draft'[j] = row
         /\ \A i \in HeldBy(s)' : draft'[i] # NoRow
         /\ txn'[s].pc = "ready" /\ txn'[s].start = txn[s].start /\ txn'[s].told = told
         /\ UNCHANGED jobs
<1>1. HeldBy(s) = {} /\ j \in Job
  BY DEF PgInv, RowInv, ClaimsTakeBack, HoldsWhatItTookBack, Stored
<1>2. QED
  BY <1>1, WriteFacts, RowAssumption DEF Stored

LEMMA ReapedQueue ==
  ASSUME NEW row \in Row, NEW now PROVE Reaped(row, now).queue = row.queue
  BY DEF Reaped, Released, Row

\* Statements that look at rows, whatever they make of them.
LEMMA LookOperation ==
  ASSUME PgInv, NEW s \in Session,
         \/ \E op \in Operation : Begin(s, op)
         \/ ReapScan(s) \/ ClaimNothing(s) \/ NotFound(s)
         \/ HeartbeatRefused(s) \/ RetryRefused(s)
         \/ Submit(s) /\ \E input \in SubmitInputs : SubmitDuplicate(s, input)
         \/ /\ Committed /\ txn[s].pc = "begun"
            /\ \E pc : \E j \in Stored : Unlocked(j) /\ LockOnly(s, j, pc)
  PROVE  DoesOneOperation(s)'
<1>1. txn \in [Session -> Txn] /\ lock \in [Job -> Session \cup {NoSession}]
  BY DEF PgInv, IInv, TypeInv, TypeOK
<1>2. txn[s].pc # "ready"
  <2>1. CASE \E op \in Operation : Begin(s, op)
    <3>1. Idle.pc = "idle"
      BY DEF Idle
    <3>2. txn[s] = Idle
      BY <2>1 DEF Begin
    <3>3. QED
      BY <3>1, <3>2
  <2>2. CASE ~\E op \in Operation : Begin(s, op)
    <3> HIDE DEF Idle
    <3>1. txn[s].pc \in {"begun", "reaping"}
      BY <2>2 DEF ReapScan, ClaimNothing, ReapDone, NotFound, HeartbeatRefused, RetryRefused,
                  Submit, At
    <3>2. QED
      BY <3>1
  <2>3. QED
    BY <2>1, <2>2
<1>3. NothingDone(s)
  BY <1>2 DEF PgInv, OpInv, DoesOneOperation
<1>4. UNCHANGED <<jobs, draft>>
  BY DEF Begin, ReapScan, ClaimNothing, NotFound, HeartbeatRefused, RetryRefused, Refuse,
         Submit, SubmitDuplicate, LockOnly, Committed
<1>5. \A j \in Job : lock'[j] = s => lock[j] = s \/ (j \in Stored /\ Unlocked(j))
  BY <1>1 DEF Begin, ReapScan, ClaimNothing, NotFound, HeartbeatRefused, RetryRefused, Refuse,
         Submit, SubmitDuplicate, LockOnly
<1>6. CASE \E op \in Operation : Begin(s, op)
  <2>1. HeldBy(s) = {} /\ txn'[s].told = Silent /\ UNCHANGED lock
    <3>1. PICK op \in Operation : Begin(s, op)
      BY <1>6
    <3>2. [Idle EXCEPT !.op = op, !.pc = "begun", !.start = clock].told = Silent
          /\ Idle.pc = "idle"
      BY DEF Idle
    <3> HIDE DEF Idle, Silent
    <3>3. txn[s].pc = "idle" /\ txn'[s].told = Silent /\ UNCHANGED lock
      BY <1>1, <3>1, <3>2 DEF Begin
    <3>4. QED
      BY <3>3 DEF PgInv, RowInv, ClaimsTakeBack, HoldsWhatItTookBack
  <2>2. HeldBy(s)' = {}
    BY <2>1 DEF HeldBy
  <2>3. QED
    BY <2>1, <2>2 DEF DoesOneOperation, OneOperation, NothingDone
<1>7. CASE ~\E op \in Operation : Begin(s, op)
  <2>1. txn'[s].told = txn[s].told /\ txn'[s].start = txn[s].start
    <3>1. CASE ReapScan(s)
      BY <1>1, <3>1 DEF ReapScan, Txn
    <3>2. CASE \E pc : Goto(s, pc)
      BY <1>1, <3>2 DEF Goto, Txn
    <3>3. CASE \E input \in SubmitInputs : SubmitDuplicate(s, input)
      <4>1. PICK input \in SubmitInputs : SubmitDuplicate(s, input)
        BY <3>3
      <4>2. txn[s] \in Txn
        BY <1>1
      <4>3. txn'[s] = [txn[s] EXCEPT !.pc = "ready", !.queue = input.queue]
        BY <1>1, <4>1 DEF SubmitDuplicate
      <4>4. QED
        BY <4>2, <4>3 DEF Txn
    <3>4. QED
      BY <1>7, <3>1, <3>2, <3>3 DEF ClaimNothing, NotFound, HeartbeatRefused, RetryRefused,
                                     Refuse, LockOnly
  <2>2. QED
    BY <1>3, <1>4, <1>5, <2>1, MoveOperation
<1>8. QED
  BY <1>6, <1>7

LEMMA SubmitOperation ==
  ASSUME PgInv, NEW s \in Session, Submit(s) PROVE DoesOneOperation(s)'
<1>1. PICK input \in SubmitInputs : SubmitDuplicate(s, input) \/ SubmitInsert(s, input)
  BY DEF Submit
<1>2. CASE SubmitDuplicate(s, input)
  BY <1>1, <1>2, LookOperation
<1>3. CASE SubmitInsert(s, input)
  <2>1. PICK j \in Job, n \in CallerNow :
          LET row == NewRow(input, txn[s].start, n) IN
          /\ draft[j] = NoRow
          /\ lock' = [lock EXCEPT ![j] = s]
          /\ draft' = [draft EXCEPT ![j] = row]
          /\ txn' = [txn EXCEPT ![s].pc = "ready", ![s].queue = input.queue,
                       ![s].events = <<Event("submitted", j, "none", row.status)>>]
    BY <1>3 DEF SubmitInsert
  <2> DEFINE row == NewRow(input, txn[s].start, n)
  <2>2. /\ txn[s] \in Txn /\ lock \in [Job -> Session \cup {NoSession}]
        /\ txn \in [Session -> Txn] /\ draft \in [Job -> Row \cup {NoRow}]
        /\ clock \in Nat
    BY DEF PgInv, IInv, TypeInv, TypeOK
  <2>3. txn[s].pc = "begun" /\ UNCHANGED <<jobs, clock>>
    BY DEF Submit, At, Committed
  <2>4. HeldBy(s) = {} /\ NothingDone(s)
    BY <2>3 DEF PgInv, RowInv, ClaimsTakeBack, HoldsWhatItTookBack, OpInv, DoesOneOperation
  <2>5. n \in Nat /\ n \in 0..(clock + MaxSkew) /\ input \in SubmitInput
    BY PgAssumption, <2>2 DEF CallerNow
  <2>6. row \in Row
    BY <2>2, <2>5, NewRowType DEF Txn
  <2> HIDE DEF row
  <2>7. /\ HeldBy(s)' = {j} /\ draft'[j] = row /\ txn'[s].pc = "ready"
        /\ txn'[s].start = txn[s].start /\ txn'[s].told = txn[s].told
    BY <2>1, <2>2, <2>4 DEF HeldBy, Txn, row
  <2>8. jobs[j] = NoRow
    BY <2>1 DEF PgInv, IInv, TypeInv, RowsStay
  <2>9. SubmitDone(s)'
    <3>1. draft'[j] = NewRow(input, txn'[s].start, n)
      BY <2>7 DEF row
    <3>2. txn'[s].told = Silent
      BY <2>4, <2>7 DEF NothingDone
    <3>3. QED
      BY <2>3, <2>5, <2>7, <2>8, <3>1, <3>2 DEF SubmitDone
  <2>10. \A i \in HeldBy(s)' : draft'[i] # NoRow
    BY <2>6, <2>7, RowAssumption
  <2>11. QED
    BY <2>7, <2>9, <2>10 DEF DoesOneOperation, OneOperation
<1>4. QED
  BY <1>1, <1>2, <1>3

LEMMA ReapRowOperation ==
  ASSUME PgInv, NEW s \in Session, NEW j \in Job, ReapRow(s, j) PROVE DoesOneOperation(s)'
<1>1. /\ j \in Stored /\ jobs[j] \in Row /\ txn[s] \in Txn /\ txn \in [Session -> Txn]
      /\ txn[s].pc = "reaping" /\ Unlocked(j) /\ draft[j] = jobs[j]
      /\ lock' = [lock EXCEPT ![j] = s] /\ UNCHANGED jobs
      /\ lock \in [Job -> Session \cup {NoSession}] /\ draft \in [Job -> Row \cup {NoRow}]
  BY DEF ReapRow, At, PgInv, IInv, TypeInv, TypeOK, RowsStay, Stored, LeaseInv, UnlockedRowsAgree,
         Committed
<1>2. NothingDone(s)
  BY <1>1 DEF PgInv, OpInv, DoesOneOperation
<1>3. txn'[s].told = txn[s].told /\ txn'[s].start = txn[s].start
  BY <1>1 DEF ReapRow, Txn
<1>4. \A i \in Job : lock'[i] = s => lock[i] = s \/ i = j
  BY <1>1
<1>5. CASE Expired(jobs[j], txn[s].start)
  <2>1. draft' = [draft EXCEPT ![j] = Reaped(jobs[j], txn[s].start)]
    BY <1>5 DEF ReapRow, StillExpired
  <2>2. Reaped(jobs[j], txn[s].start) \in Row
    BY <1>1, ReapedType DEF Txn
  <2>3. \A i \in HeldBy(s)' : KeptOrTookBack(s, i)' /\ draft'[i] # NoRow
    <3> TAKE i \in HeldBy(s)'
    <3>1. CASE i = j
      BY <1>1, <1>3, <1>5, <2>1, <2>2, <3>1, RowAssumption
         DEF KeptOrTookBack, TookBack, Stored
    <3>2. CASE i # j
      <4>1. i \in HeldBy(s) /\ draft'[i] = draft[i]
        BY <1>1, <1>4, <2>1, <3>2 DEF HeldBy
      <4>2. draft[i] # NoRow /\ KeptOrTookBack(s, i)
        BY <1>2, <4>1 DEF NothingDone, PgInv, OpInv, DoesOneOperation
      <4>3. QED
        BY <1>1, <1>3, <4>1, <4>2 DEF KeptOrTookBack, TookBack
    <3>3. QED
      BY <3>1, <3>2
  <2>4. QED
    BY <1>2, <1>3, <2>3 DEF DoesOneOperation, OneOperation, NothingDone
<1>6. CASE ~Expired(jobs[j], txn[s].start)
  <2>1. UNCHANGED draft
    BY <1>6 DEF ReapRow, StillExpired
  <2>2. QED
    BY <1>1, <1>2, <1>3, <1>4, <2>1, MoveOperation
<1>7. QED
  BY <1>5, <1>6

LEMMA ClaimLeaseOperation ==
  ASSUME PgInv, NEW s \in Session, ClaimLease(s) PROVE DoesOneOperation(s)'
<1>0. PICK q \in Queue, l \in FreshLease, v \in Duration : \E j \in Best(s, q) :
       Write(s, j, Leased(draft[j], l, txn[s].start + v),
             <<Event("claimed", j, draft[j].status, "processing")>>,
             Tell(l, j, txn[s].start + v))
  BY DEF ClaimLease
<1>1. PICK j \in Best(s, q) :
       Write(s, j, Leased(draft[j], l, txn[s].start + v),
             <<Event("claimed", j, draft[j].status, "processing")>>,
             Tell(l, j, txn[s].start + v))
  BY <1>0
<1>2. /\ j \in Job /\ draft[j] # NoRow /\ Ready(draft[j], q, txn[s].start)
      /\ lock[j] \in {NoSession, s} /\ Committed /\ txn[s].pc = "reaping"
  BY DEF ClaimLease, ReapDone, At, Best, Candidates
<1>3. draft[j] \in Row /\ jobs[j] \in Row \cup {NoRow} /\ txn[s].start \in Nat /\ v \in Nat
      /\ l \in Lease
  BY <1>2, PgAssumption DEF PgInv, IInv, TypeInv, TypeOK, Txn, FreshLease
<1>4. NothingDone(s)
  BY <1>2 DEF PgInv, OpInv, DoesOneOperation
<1> DEFINE row == Leased(draft[j], l, txn[s].start + v)
           es == <<Event("claimed", j, draft[j].status, "processing")>>
           told == Tell(l, j, txn[s].start + v)
<1>5. /\ txn'[s].pc = "ready" /\ txn'[s].start = txn[s].start /\ txn'[s].told = told
      /\ draft'[j] = row /\ HeldBy(s)' = HeldBy(s) \cup {j}
      /\ \A i \in Job \ {j} : draft'[i] = draft[i]
      /\ UNCHANGED jobs
  <2> HIDE DEF row, es, told
  <2>1. Write(s, j, row, es, told)
    BY <1>1 DEF row, es, told
  <2>2. QED
    BY <1>2, <2>1, WriteFacts
<1>6. row \in Row
  BY <1>3, LeasedType
<1>7. KeptOrTookBack(s, j)
  <2>1. CASE lock[j] = NoSession
    BY <1>2, <2>1 DEF KeptOrTookBack, PgInv, IInv, LeaseInv, UnlockedRowsAgree, Unlocked
  <2>2. CASE lock[j] = s
    BY <1>2, <1>4, <2>2 DEF NothingDone, HeldBy
  <2>3. QED
    BY <1>2, <2>1, <2>2
<1>8. Ready(draft[j], jobs[j].queue, txn[s].start)
  <2>1. jobs[j] \in Row /\ draft[j].queue = q
    BY <1>2, <1>3, <1>7 DEF KeptOrTookBack, Ready
  <2>2. Reaped(jobs[j], txn[s].start).queue = jobs[j].queue
    BY <2>1, ReapedQueue
  <2>3. draft[j].queue = jobs[j].queue
    BY <1>7, <2>2 DEF KeptOrTookBack, TookBack
  <2>4. QED
    BY <1>2, <2>1, <2>3
<1>9. LeaseOf(jobs[j]) # l
  <2> SUFFICES ASSUME LeaseOf(jobs[j]) = l PROVE FALSE
    OBVIOUS
  <2>1. issued[l] = [job |-> j, until |-> UntilOf(jobs[j])]
    BY <1>2, <1>3, NullAssumption DEF PgInv, IInv, LeaseInv, CommittedLeasesAreIssued
  <2>2. QED
    BY <1>2, <2>1, NullAssumption DEF FreshLease
<1>10. \A i \in HeldBy(s)' \ {j} : KeptOrTookBack(s, i)' /\ draft'[i] # NoRow
  <2> TAKE i \in HeldBy(s)' \ {j}
  <2>1. i \in HeldBy(s) /\ i \in Job /\ draft'[i] = draft[i]
    BY <1>5 DEF HeldBy
  <2>2. draft[i] # NoRow /\ KeptOrTookBack(s, i)
    BY <1>4, <2>1 DEF NothingDone, PgInv, OpInv, DoesOneOperation
  <2>3. QED
    BY <1>5, <2>1, <2>2 DEF KeptOrTookBack, TookBack
<1> HIDE DEF row
<1>11. ClaimDone(s)'
  <2>1. j \in HeldBy(s)' /\ draft'[j] = Leased(draft[j], l, txn'[s].start + v)
        /\ txn'[s].told = Tell(l, j, txn'[s].start + v)
    BY <1>5 DEF row
  <2>2. jobs[j] # NoRow
        /\ \/ draft[j] = jobs[j]
           \/ Expired(jobs[j], txn[s].start) /\ draft[j] = Reaped(jobs[j], txn[s].start)
    BY <1>7 DEF KeptOrTookBack, TookBack
  <2>3. QED
    BY <1>3, <1>5, <1>8, <1>9, <1>10, <2>1, <2>2 DEF ClaimDone
<1>12. \A i \in HeldBy(s)' : draft'[i] # NoRow
  BY <1>5, <1>6, <1>10, RowAssumption
<1>13. QED
  BY <1>5, <1>11, <1>12 DEF DoesOneOperation, OneOperation

LEMMA HeartbeatOperation ==
  ASSUME PgInv, NEW s \in Session, HeartbeatUpdate(s) PROVE DoesOneOperation(s)'
<1>1. PICK l \in Lease, j \in Stored, v \in Duration :
        /\ Renewable(jobs[j], l, txn[s].start) /\ Unlocked(j)
        /\ Write(s, j, Renewed(jobs[j], txn[s].start + v),
                 <<Event("heartbeat", j, "processing", "processing")>>,
                 Tell(l, j, txn[s].start + v))
  BY DEF HeartbeatUpdate
<1> DEFINE row == Renewed(jobs[j], txn[s].start + v)
           es == <<Event("heartbeat", j, "processing", "processing")>>
           told == Tell(l, j, txn[s].start + v)
<1>2. /\ Committed /\ txn[s].pc = "begun" /\ jobs[j] \in Row /\ Shape(jobs[j])
      /\ txn[s].start \in Nat /\ v \in Nat
  BY PgAssumption DEF HeartbeatUpdate, At, Stored, PgInv, IInv, TypeInv, TypeOK, Txn, LeaseInv, WellShaped
<1>3. row \in Row
  BY <1>2, RenewedType
<1> HIDE DEF row, es, told
<1>4. Write(s, j, row, es, told)
  BY <1>1 DEF row, es, told
<1>5. /\ HeldBy(s)' = {j} /\ j \in Stored' /\ draft'[j] = row
      /\ \A i \in HeldBy(s)' : draft'[i] # NoRow
      /\ txn'[s].pc = "ready" /\ txn'[s].start = txn[s].start /\ txn'[s].told = told
      /\ UNCHANGED jobs
  BY <1>2, <1>3, <1>4, CallHoldsOne
<1>6. HeartbeatDone(s)'
  BY <1>1, <1>5 DEF HeartbeatDone, row, told
<1>7. QED
  BY <1>5, <1>6 DEF DoesOneOperation, OneOperation

LEMMA AcknowledgeOperation ==
  ASSUME PgInv, NEW s \in Session, Acknowledge(s) PROVE DoesOneOperation(s)'
<1> DEFINE op == txn[s].op
           new(j) == Acknowledged(op, jobs[j], txn[s].start)
<1>1. PICK l \in Lease, j \in Stored, n \in CallerNow :
        /\ Unlocked(j)
        /\ \/ /\ Owned(jobs[j], l, n)
              /\ Write(s, j, new(j), AckEvents(op, j, jobs[j], new(j)), Tell(l, j, 0))
           \/ LockOnly(s, j, "failing")
  BY DEF Acknowledge
<1>2. Committed /\ txn[s].pc = "begun" /\ jobs[j] \in Row /\ txn[s].start \in Nat
  BY DEF Acknowledge, Stored, PgInv, IInv, TypeInv, TypeOK, Txn
<1>3. CASE LockOnly(s, j, "failing")
  BY <1>1, <1>2, <1>3, LookOperation
<1>4. CASE /\ Owned(jobs[j], l, n)
           /\ Write(s, j, new(j), AckEvents(op, j, jobs[j], new(j)), Tell(l, j, 0))
  <2> DEFINE row == new(j)
             es == AckEvents(op, j, jobs[j], row)
             told == Tell(l, j, 0)
  <2>1. row \in Row /\ row \in {Completed(jobs[j]), Failed(jobs[j], txn[s].start)}
    BY <1>2, CompletedType, FailedType DEF Acknowledged
  <2>2. Write(s, j, row, es, told)
    BY <1>4
  <2> HIDE DEF row, es, told
  <2>3. /\ HeldBy(s)' = {j} /\ j \in Stored' /\ draft'[j] = row
        /\ \A i \in HeldBy(s)' : draft'[i] # NoRow
        /\ txn'[s].pc = "ready" /\ txn'[s].start = txn[s].start /\ txn'[s].told = told
        /\ UNCHANGED jobs
    BY <1>2, <2>1, <2>2, CallHoldsOne
  <2>4. clock' = clock /\ txn[s].start <= clock /\ clock \in Nat
    BY <1>2 DEF Committed, PgInv, IInv, LeaseInv, StartsPast, TypeInv, TypeOK
  <2>5. n \in 0..(clock' + MaxSkew) /\ n + MaxSkew >= txn[s].start
    BY <1>2, <2>4, PgAssumption DEF CallerNow
  <2>6. AcknowledgeDone(s)'
    BY <1>4, <2>1, <2>3, <2>5 DEF AcknowledgeDone, told
  <2>7. QED
    BY <2>3, <2>6 DEF DoesOneOperation, OneOperation
<1>5. QED
  BY <1>1, <1>3, <1>4

LEMMA CancelOperation ==
  ASSUME PgInv, NEW s \in Session, Cancel(s) PROVE DoesOneOperation(s)'
<1>1. PICK j \in Stored :
        /\ Unlocked(j)
        /\ CASE jobs[j].status = "cancelled" -> LockOnly(s, j, "ready")
             [] jobs[j].status \in Uncancellable -> LockOnly(s, j, "failing")
             [] OTHER ->
                  LET row == Cancelled(jobs[j]) IN
                  Write(s, j, row, <<Event(row.status, j, jobs[j].status, row.status)>>, Silent)
  BY DEF Cancel
<1> DEFINE row == Cancelled(jobs[j])
           es == <<Event(row.status, j, jobs[j].status, row.status)>>
<1>2. /\ Committed /\ txn[s].pc = "begun" /\ jobs[j] \in Row /\ Shape(jobs[j])
  BY DEF Cancel, At, Stored, PgInv, IInv, TypeInv, TypeOK, LeaseInv, WellShaped
<1>3. \/ \E pc : LockOnly(s, j, pc)
      \/ /\ jobs[j].status \notin Uncancellable \cup {"cancelled"}
         /\ Write(s, j, row, es, Silent)
  BY <1>1
<1>4. CASE \E pc : LockOnly(s, j, pc)
  BY <1>1, <1>2, <1>4, LookOperation
<1>5. CASE /\ jobs[j].status \notin Uncancellable \cup {"cancelled"}
           /\ Write(s, j, row, es, Silent)
  <2>1. row \in Row
    BY <1>2, <1>5, CancelledType
  <2> HIDE DEF row, es
  <2>2. /\ HeldBy(s)' = {j} /\ j \in Stored' /\ draft'[j] = row
        /\ \A i \in HeldBy(s)' : draft'[i] # NoRow
        /\ txn'[s].pc = "ready" /\ txn'[s].start = txn[s].start /\ txn'[s].told = Silent
        /\ UNCHANGED jobs
    BY <1>2, <1>5, <2>1, CallHoldsOne
  <2>3. CancelDone(s)'
    BY <1>5, <2>2 DEF CancelDone, row
  <2>4. QED
    BY <2>2, <2>3 DEF DoesOneOperation, OneOperation
<1>6. QED
  BY <1>3, <1>4, <1>5

LEMMA RetryOperation ==
  ASSUME PgInv, NEW s \in Session, RetryUpdate(s) PROVE DoesOneOperation(s)'
<1>1. PICK j \in Stored :
        /\ jobs[j].status = "dead_letter" /\ Unlocked(j)
        /\ Write(s, j, Retried(jobs[j], txn[s].start),
                 <<Event("manual_retry", j, "dead_letter", "queued")>>, Silent)
  BY DEF RetryUpdate
<1> DEFINE row == Retried(jobs[j], txn[s].start)
           es == <<Event("manual_retry", j, "dead_letter", "queued")>>
<1>2. /\ Committed /\ txn[s].pc = "begun" /\ jobs[j] \in Row /\ Shape(jobs[j])
      /\ txn[s].start \in Nat
  BY DEF RetryUpdate, At, Stored, PgInv, IInv, TypeInv, TypeOK, Txn, LeaseInv, WellShaped
<1>3. row \in Row
  BY <1>1, <1>2, RetriedType
<1> HIDE DEF row, es
<1>4. Write(s, j, row, es, Silent)
  BY <1>1 DEF row, es
<1>5. /\ HeldBy(s)' = {j} /\ j \in Stored' /\ draft'[j] = row
      /\ \A i \in HeldBy(s)' : draft'[i] # NoRow
      /\ txn'[s].pc = "ready" /\ txn'[s].start = txn[s].start /\ txn'[s].told = Silent
      /\ UNCHANGED jobs
  BY <1>2, <1>3, <1>4, CallHoldsOne
<1>6. RetryDone(s)'
  BY <1>1, <1>5 DEF RetryDone, row
<1>7. QED
  BY <1>5, <1>6 DEF DoesOneOperation, OneOperation

LEMMA EndOperation ==
  ASSUME PgInv, NEW s \in Session, Commit(s) \/ Undo(s) PROVE DoesOneOperation(s)'
<1>1. Unlock(s) /\ txn' = [txn EXCEPT ![s] = Idle]
  BY DEF Commit, Undo
<1>2. HeldBy(s)' = {}
  BY <1>1, SessionAssumption DEF Unlock, HeldBy
<1>3. txn'[s] = Idle
  BY <1>1 DEF PgInv, IInv, TypeInv, TypeOK
<1>4. QED
  BY <1>2, <1>3 DEF DoesOneOperation, OneOperation, NothingDone, Idle

LEMMA OpStep ==
  ASSUME PgInv, [Next]_vars PROVE OpInv'
<1>1. clock \in Nat /\ TypeOK
  BY DEF PgInv, IInv, TypeInv, TypeOK
<1>2. CASE UNCHANGED <<jobs, draft, lock, txn>> /\ clock' \in Nat /\ clock <= clock'
  BY <1>1, <1>2, OperationStays DEF PgInv, OpInv, Untouching
<1>3. ASSUME NEW s \in Session, Step(s) \/ Abort(s) \/ \E op \in Operation : Begin(s, op)
      PROVE  OpInv'
  <2>1. UNCHANGED clock
    BY <1>3 DEF Step, Begin, Submit, ReapScan, ReapRow, ClaimLease, ClaimNothing,
                HeartbeatUpdate, HeartbeatRefused, Acknowledge, Cancel, RetryUpdate,
                RetryRefused, NotFound, Commit, Rollback, Abort, Undo, Committed
  <2>2. ASSUME NEW o \in Session \ {s} PROVE DoesOneOperation(o)'
    BY <1>1, <1>3, <2>1, OthersUntouched, OperationStays DEF PgInv, OpInv
  <2>3. DoesOneOperation(s)'
    <3>1. ASSUME NEW j \in Job, ReapRow(s, j) PROVE DoesOneOperation(s)'
      BY <3>1, ReapRowOperation
    <3>2. CASE Commit(s) \/ Rollback(s) \/ Abort(s)
      BY <3>2, EndOperation DEF Rollback, Abort
    <3>3. QED
      BY <1>3, <3>1, <3>2, LookOperation, SubmitOperation, ClaimLeaseOperation,
         HeartbeatOperation, AcknowledgeOperation, CancelOperation, RetryOperation DEF Step
  <2>4. QED
    BY <2>2, <2>3 DEF OpInv
<1>4. CASE Tick
  BY <1>1, <1>2, <1>4 DEF Tick
<1>5. CASE UNCHANGED vars
  BY <1>1, <1>2, <1>5 DEF vars
<1>6. QED
  BY <1>3, <1>4, <1>5 DEF Next

LEMMA PgInvariant == Spec => []PgInv
<1>1. Init => PgInv
  BY TypeInit, LeaseInit, RowInit, OpInit DEF IInv, PgInv
<1>2. PgInv /\ [Next]_vars => PgInv'
  <2> SUFFICES ASSUME PgInv, [Next]_vars PROVE PgInv'
    OBVIOUS
  <2>1. IInv'
    BY LeaseStep DEF PgInv
  <2>2. RowInv'
    BY RowStep DEF PgInv
  <2>3. OpInv'
    BY OpStep
  <2>4. QED
    BY <2>1, <2>2, <2>3 DEF PgInv
<1>3. QED
  BY <1>1, <1>2, PTL DEF Spec

-------------------------------------------------------------------------------
(* A commit is an operation of the contract                                    *)

\* The contract is instantiated, so its operators have names of their own; they
\* are the same ones.
LEMMA ContractOperators ==
  /\ Contract!Stored = Stored
  /\ Contract!Uncancellable = Uncancellable /\ Contract!Held = Held
  /\ \A row, now : /\ Contract!Expired(row, now) = Expired(row, now)
                   /\ Contract!Reaped(row, now) = Reaped(row, now)
                   /\ Contract!Renewed(row, now) = Renewed(row, now)
                   /\ Contract!Failed(row, now) = Failed(row, now)
                   /\ Contract!Retried(row, now) = Retried(row, now)
  /\ \A row : /\ Contract!Completed(row) = Completed(row)
              /\ Contract!Cancelled(row) = Cancelled(row)
  /\ \A row, x, now : /\ Contract!Ready(row, x, now) = Ready(row, x, now)
                      /\ Contract!Leased(row, x, now) = Leased(row, x, now)
                      /\ Contract!Renewable(row, x, now) = Renewable(row, x, now)
  /\ \A input, created, now :
       Contract!NewRow(input, created, now) = NewRow(input, created, now)
<1>1. \A row, status : Contract!Released(row, status) = Released(row, status)
  BY DEF Contract!Released, Released
<1>2. \A row, now : /\ Contract!Expired(row, now) = Expired(row, now)
                   /\ Contract!Reaped(row, now) = Reaped(row, now)
                   /\ Contract!Renewed(row, now) = Renewed(row, now)
                   /\ Contract!Retried(row, now) = Retried(row, now)
  BY <1>1 DEF Contract!Expired, Expired, Contract!Held, Held, Contract!Reaped, Reaped,
              Contract!Renewed, Renewed, Contract!Retried, Retried
<1>3. \A n : Contract!RetryDelay(n) = RetryDelay(n)
  BY DEF Contract!RetryDelay, RetryDelay
<1>4. \A row, now : Contract!Failed(row, now) = Failed(row, now)
  BY <1>1, <1>3 DEF Contract!Failed, Failed
<1>5. \A row : /\ Contract!Completed(row) = Completed(row)
              /\ Contract!Cancelled(row) = Cancelled(row)
  BY <1>1 DEF Contract!Completed, Completed, Contract!Cancelled, Cancelled
<1>6. \A row, x, now : /\ Contract!Ready(row, x, now) = Ready(row, x, now)
                      /\ Contract!Leased(row, x, now) = Leased(row, x, now)
                      /\ Contract!Renewable(row, x, now) = Renewable(row, x, now)
  BY DEF Contract!Ready, Ready, Contract!Claimable, Claimable, Contract!Leased, Leased,
         Contract!Renewable, Renewable
<1>7. \A input, created, now :
        Contract!NewRow(input, created, now) = NewRow(input, created, now)
  BY DEF Contract!NewRow, NewRow, Contract!ResolveAvailableAt, ResolveAvailableAt
<1>8. /\ Contract!Stored = Stored
      /\ Contract!Uncancellable = Uncancellable /\ Contract!Held = Held
  BY DEF Contract!Stored, Stored, Contract!Uncancellable, Uncancellable, Contract!Held, Held
<1>9. QED
  BY <1>2, <1>4, <1>5, <1>6, <1>7, <1>8

\* A transaction may take any time, so any time a caller's clock has shown counts.
LEMMA AnyTimeRead ==
  ASSUME PgInv
  PROVE  /\ Contract!TimeRead = 0..clock
         /\ Contract!CallerTimeRead = 0..(clock + MaxSkew)
<1>1. clock \in Nat /\ MaxSkew \in Nat
  BY PgAssumption DEF PgInv, IInv, TypeInv, TypeOK
<1>2. Contract!TimeRead = 0..clock
  BY <1>1 DEF Contract!TimeRead
<1>3. ASSUME NEW n \in 0..(clock + MaxSkew)
      PROVE  \E t \in 0..clock : n - t \in (-MaxSkew)..MaxSkew
  <2>1. CASE n <= clock
    <3>1. n \in 0..clock /\ n - n \in (-MaxSkew)..MaxSkew
      BY <1>1, <2>1
    <3>2. QED
      BY <3>1
  <2>2. CASE n > clock
    <3>1. clock \in 0..clock /\ n - clock \in (-MaxSkew)..MaxSkew
      BY <1>1, <2>2
    <3>2. QED
      BY <3>1
  <2>3. QED
    BY <1>1, <2>1, <2>2
<1>4. QED
  BY <1>2, <1>3 DEF Contract!CallerTimeRead

\* What the commit of a call makes of the rows and of the leases told.
LEMMA CommitFacts ==
  ASSUME PgInv, NEW s \in Session, Commit(s)
  PROVE  /\ OneOperation(s) /\ UNCHANGED clock /\ txn[s].start \in Contract!TimeRead
         /\ jobs' = [j \in Job |-> IF j \in HeldBy(s) THEN draft[j] ELSE jobs[j]]
         /\ txn[s].told = Silent => UNCHANGED issued
         /\ \A u : \A l \in Lease, j \in Job : txn[s].told = Tell(l, j, u) =>
              issued' = [issued EXCEPT ![l] = [job |-> j, until |-> u]]
<1>1. TypeOK /\ OneOperation(s) /\ UNCHANGED clock
  BY DEF PgInv, IInv, TypeInv, OpInv, DoesOneOperation, Commit
<1>2. txn[s].start \in Contract!TimeRead
  BY <1>1, AnyTimeRead DEF TypeOK, Txn, PgInv, IInv, LeaseInv, StartsPast
<1>3. jobs' = [j \in Job |-> IF j \in HeldBy(s) THEN draft[j] ELSE jobs[j]]
  BY DEF Commit, HeldBy
<1>4. issued' = [l \in Lease |->
                  IF txn[s].told.lease = l
                  THEN [job |-> txn[s].told.job, until |-> txn[s].told.until]
                  ELSE issued[l]]
  BY DEF Commit
<1>5. txn[s].told = Silent => UNCHANGED issued
  BY <1>1, <1>4, NullAssumption DEF Silent, TypeOK
<1>6. ASSUME NEW l \in Lease, NEW j \in Job, NEW u, txn[s].told = Tell(l, j, u)
      PROVE  issued' = [issued EXCEPT ![l] = [job |-> j, until |-> u]]
  <2>1. txn[s].told.lease = l /\ txn[s].told.job = j /\ txn[s].told.until = u
    BY <1>6 DEF Tell
  <2>2. QED
    BY <1>1, <1>4, <2>1 DEF TypeOK
<1>7. QED
  BY <1>1, <1>2, <1>3, <1>5, <1>6

\* A call about one job changes its row.
LEMMA CommitOne ==
  ASSUME PgInv, NEW s \in Session, Commit(s), NEW j \in Job, HeldBy(s) = {j}
  PROVE  jobs' = [jobs EXCEPT ![j] = draft[j]]
<1>1. jobs \in [Job -> Row \cup {NoRow}]
  BY DEF PgInv, IInv, TypeInv, TypeOK
<1>2. QED
  BY <1>1, CommitFacts

\* The lease that a row has was told for that row.
LEMMA TellAgain ==
  ASSUME PgInv, NEW s \in Session, Commit(s), NEW j \in Stored, NEW l \in Lease, NEW u,
         jobs[j].lease = l, txn[s].told = Tell(l, j, u)
  PROVE  issued' = [issued EXCEPT ![l].until = u]
<1>1. j \in Job /\ LeaseOf(jobs[j]) = l /\ l # NoLease
      /\ issued \in [Lease -> [job: Job \cup {NoJob}, until: Nat]]
  BY NullAssumption DEF Stored, LeaseOf, PgInv, IInv, TypeInv, TypeOK
<1>2. issued[l] = [job |-> j, until |-> UntilOf(jobs[j])]
  BY <1>1 DEF PgInv, IInv, LeaseInv, CommittedLeasesAreIssued
<1>3. issued' = [issued EXCEPT ![l] = [job |-> j, until |-> u]]
  BY <1>1, CommitFacts
<1>4. [issued[l] EXCEPT !.until = u] = [job |-> j, until |-> u]
  BY <1>2
<1>5. QED
  BY <1>1, <1>3, <1>4

\* The rows after a claim has taken back those it holds, except row j.
TakenBack(s) == {i \in HeldBy(s) : jobs[i] # NoRow /\ draft[i] # jobs[i] /\ TookBack(s, i)}

LEMMA CommitNothing ==
  ASSUME PgInv, NEW s \in Session, Commit(s), NothingDone(s) PROVE Contract!Reap
<1> DEFINE R == TakenBack(s)
           t == txn[s].start
<1>1. t \in Contract!TimeRead /\ UNCHANGED <<issued, clock>>
  BY CommitFacts DEF NothingDone
<1>2. R \in SUBSET Stored /\ \A i \in R : Expired(jobs[i], t)
  BY DEF TakenBack, TookBack, HeldBy, Stored
<1>3. \A i \in Job : (IF i \in HeldBy(s) THEN draft[i] ELSE jobs[i])
                     = IF i \in R THEN Reaped(jobs[i], t) ELSE jobs[i]
  BY DEF NothingDone, KeptOrTookBack, TakenBack, TookBack
<1> HIDE DEF R, t
<1>4. jobs' = Contract!AfterReap(R, t)
  <2>1. jobs' = [i \in Job |-> IF i \in R THEN Reaped(jobs[i], t) ELSE jobs[i]]
    BY <1>3, CommitFacts
  <2>2. QED
    BY <2>1, ContractOperators DEF Contract!AfterReap
<1>5. Contract!ClaimNothing(R, t)
  BY <1>1, <1>2, <1>4, ContractOperators DEF Contract!ClaimNothing
<1>6. QED
  BY <1>1, <1>2, <1>5, ContractOperators DEF Contract!Reap

LEMMA CommitSubmit ==
  ASSUME PgInv, NEW s \in Session, Commit(s), SubmitDone(s)
  PROVE  \E j \in Job, input \in SubmitInputs : Contract!Submit(j, input)
<1>1. PICK j \in Job, input \in SubmitInputs, n \in 0..(clock + MaxSkew) :
        /\ HeldBy(s) = {j} /\ jobs[j] = NoRow
        /\ draft[j] = NewRow(input, txn[s].start, n)
        /\ txn[s].told = Silent
  BY DEF SubmitDone
<1>2. /\ txn[s].start \in Contract!TimeRead /\ n \in Contract!CallerTimeRead
      /\ UNCHANGED <<issued, clock>>
  BY <1>1, CommitFacts, AnyTimeRead
<1>3. jobs' = [jobs EXCEPT ![j] = Contract!NewRow(input, txn[s].start, n)]
  BY <1>1, CommitOne, ContractOperators
<1>4. ~Contract!KeyTaken(input.key)
  <2> SUFFICES ASSUME input.key # NoKey, NEW i \in Stored, jobs[i].key = input.key
               PROVE  FALSE
    BY ContractOperators DEF Contract!KeyTaken
  <2>1. i \in Job /\ draft[i] # NoRow /\ draft[i].key = input.key
    BY DEF Stored, PgInv, RowInv, DraftsFollow, Follows, IInv, TypeInv, RowsStay
  <2>2. draft[j] # NoRow /\ draft[j].key = input.key
    BY <1>1, NewRowFacts DEF PgInv, OpInv, DoesOneOperation
  <2>3. i = j
    BY <2>1, <2>2 DEF PgInv, RowInv, KeysDiffer
  <2>4. QED
    BY <1>1, <2>3 DEF Stored
<1>5. Contract!Submit(j, input)
  BY <1>1, <1>2, <1>3, <1>4, ContractOperators DEF Contract!Submit, Stored
<1>6. QED
  BY <1>5

LEMMA LeasedLease ==
  ASSUME NEW row \in Row, NEW l, NEW until, Leased(row, l, until) # NoRow
  PROVE  LeaseOf(Leased(row, l, until)) = l
<1>1. Leased(row, l, until).lease = l
  BY DEF Leased, Row
<1>2. QED
  BY <1>1 DEF LeaseOf

\* The claim takes back first, then leases the job it has chosen among the rest.
LEMMA CommitClaim ==
  ASSUME PgInv, NEW s \in Session, Commit(s), ClaimDone(s) PROVE Contract!ClaimAny
<1> DEFINE t == txn[s].start
<1>1. PICK j \in HeldBy(s), l \in Lease, v \in Duration, old \in Row :
        /\ jobs[j] # NoRow
        /\ \/ old = jobs[j]
           \/ Expired(jobs[j], t) /\ old = Reaped(jobs[j], t)
        /\ Ready(old, jobs[j].queue, t)
        /\ LeaseOf(jobs[j]) # l
        /\ draft[j] = Leased(old, l, t + v)
        /\ txn[s].told = Tell(l, j, t + v)
        /\ \A i \in HeldBy(s) \ {j} : KeptOrTookBack(s, i)
  BY DEF ClaimDone
<1> DEFINE R == (TakenBack(s) \ {j}) \cup (IF old = jobs[j] THEN {} ELSE {j})
           reaped == Contract!AfterReap(R, t)
<1>2. j \in Job /\ j \in Stored /\ t \in Contract!TimeRead /\ UNCHANGED clock
  BY <1>1, CommitFacts DEF HeldBy, Stored
<1>3. R \in SUBSET Stored /\ \A i \in R : Expired(jobs[i], t)
  BY <1>1, <1>2 DEF TakenBack, TookBack, HeldBy, Stored
<1>4. \A i \in Job : (IF i \in HeldBy(s) THEN draft[i] ELSE jobs[i])
                     = IF i = j THEN Leased(old, l, t + v)
                       ELSE IF i \in R THEN Reaped(jobs[i], t) ELSE jobs[i]
  BY <1>1 DEF KeptOrTookBack, TakenBack, TookBack
<1>5. j \in R => old = Reaped(jobs[j], t)
  BY <1>1
<1>6. j \notin R => old = jobs[j]
  OBVIOUS
<1> HIDE DEF R
<1>7. reaped = [i \in Job |-> IF i \in R THEN Reaped(jobs[i], t) ELSE jobs[i]]
  BY ContractOperators DEF Contract!AfterReap
<1>8. reaped[j] = old
  BY <1>2, <1>5, <1>6, <1>7
<1>9. jobs' = [reaped EXCEPT ![j] = Contract!Leased(@, l, t + v)]
  <2> DEFINE row == Leased(old, l, t + v)
  <2>1. jobs' = [i \in Job |-> IF i = j THEN row
                               ELSE IF i \in R THEN Reaped(jobs[i], t) ELSE jobs[i]]
    BY <1>4, CommitFacts
  <2>2. row = Contract!Leased(reaped[j], l, t + v)
    BY <1>8, ContractOperators
  <2> HIDE DEF row, reaped, t
  <2>3. [reaped EXCEPT ![j] = Contract!Leased(@, l, t + v)] = [reaped EXCEPT ![j] = row]
    BY <2>2
  <2>4. QED
    BY <1>2, <1>7, <2>1, <2>3
<1>10. l \in Contract!Fresh
  <2>1. txn[s].told.lease = l /\ txn[s].told.job = j /\ l # NoLease
    BY <1>1, NullAssumption DEF Tell
  <2>2. LeaseOf(draft[j]) = l
    BY <1>1, LeasedLease DEF PgInv, OpInv, DoesOneOperation
  <2>3. TellsWhatIsWritten(s)
    BY DEF PgInv, IInv, LeaseInv, ToldIsWritten
  <2>4. issued[l].job = NoJob
    BY <1>1, <2>1, <2>2, <2>3 DEF TellsWhatIsWritten
  <2>5. QED
    BY <2>4 DEF Contract!Fresh
<1>11. issued' = [issued EXCEPT ![l] = [job |-> j, until |-> t + v]]
  BY <1>1, <1>2, CommitFacts
<1>12. Contract!Claim(R, t, j, l, v)
  BY <1>1, <1>2, <1>3, <1>8, <1>9, <1>10, <1>11, ContractOperators DEF Contract!Claim
<1>13. QED
  BY <1>2, <1>3, <1>12, ContractOperators DEF Contract!ClaimAny

LEMMA CommitHeartbeat ==
  ASSUME PgInv, NEW s \in Session, Commit(s), HeartbeatDone(s) PROVE Contract!HeartbeatAny
<1> DEFINE t == txn[s].start
<1>1. PICK j \in Stored, l \in Lease, v \in Duration :
        /\ HeldBy(s) = {j} /\ Renewable(jobs[j], l, t)
        /\ draft[j] = Renewed(jobs[j], t + v) /\ txn[s].told = Tell(l, j, t + v)
  BY DEF HeartbeatDone
<1>2. t \in Contract!TimeRead /\ UNCHANGED clock /\ jobs[j].lease = l /\ j \in Job
  BY <1>1, CommitFacts DEF Renewable, Stored
<1>3. issued' = [issued EXCEPT ![l].until = t + v]
  BY <1>1, <1>2, TellAgain
<1>4. jobs' = [jobs EXCEPT ![j] = Contract!Renewed(@, t + v)]
  <2>1. draft[j] = Contract!Renewed(jobs[j], t + v)
    BY <1>1, ContractOperators
  <2>2. QED
    BY <1>1, <1>2, <2>1, CommitOne
<1>5. Contract!Heartbeat(j, l, t, v)
  BY <1>1, <1>2, <1>3, <1>4, ContractOperators DEF Contract!Heartbeat
<1>6. QED
  BY <1>1, <1>2, <1>5, ContractOperators DEF Contract!HeartbeatAny

LEMMA CommitAcknowledge ==
  ASSUME PgInv, NEW s \in Session, Commit(s), AcknowledgeDone(s) PROVE Contract!Next
<1> DEFINE t == txn[s].start
<1>1. PICK j \in Stored, l \in Lease, n \in 0..(clock + MaxSkew) :
        /\ HeldBy(s) = {j}
        /\ n + MaxSkew >= t /\ Owned(jobs[j], l, n)
        /\ draft[j] \in {Completed(jobs[j]), Failed(jobs[j], t)}
        /\ txn[s].told = Tell(l, j, 0)
  BY DEF AcknowledgeDone
<1>2. /\ t \in Contract!TimeRead /\ n \in Contract!CallerTimeRead /\ UNCHANGED clock
      /\ j \in Job /\ jobs[j].lease = l
  BY <1>1, CommitFacts, AnyTimeRead DEF Stored, Owned
<1>3. issued' = [issued EXCEPT ![l].until = 0]
  BY <1>1, <1>2, TellAgain
<1>4. jobs' = [jobs EXCEPT ![j] = draft[j]]
  BY <1>1, <1>2, CommitOne
<1>5. ASSUME NEW row, draft[j] = row PROVE Contract!Acknowledge(j, l, row)
  <2>1. Contract!Owned(jobs[j], l, n)
    BY <1>1 DEF Owned, Held, Contract!Owned, Contract!Held
  <2>2. QED
    BY <1>2, <1>3, <1>4, <1>5, <2>1 DEF Contract!Acknowledge
<1>6. Contract!Complete(j, l) \/ Contract!Fail(j, l, t)
  BY <1>1, <1>5, ContractOperators DEF Contract!Complete, Contract!Fail
<1>7. QED
  BY <1>1, <1>2, <1>6, ContractOperators DEF Contract!Next, Contract!FailAny

LEMMA CommitCancel ==
  ASSUME PgInv, NEW s \in Session, Commit(s), CancelDone(s)
  PROVE  \E j \in Contract!Stored : Contract!Cancel(j)
<1>1. PICK j \in Stored :
        /\ HeldBy(s) = {j} /\ jobs[j].status \notin Uncancellable \cup {"cancelled"}
        /\ draft[j] = Cancelled(jobs[j]) /\ txn[s].told = Silent
  BY DEF CancelDone
<1>2. UNCHANGED <<issued, clock>> /\ j \in Job
  BY <1>1, CommitFacts DEF Stored
<1>3. jobs' = [jobs EXCEPT ![j] = IF @.status = "cancelled" THEN @ ELSE Contract!Cancelled(@)]
  <2>1. draft[j] = IF jobs[j].status = "cancelled" THEN jobs[j]
                   ELSE Contract!Cancelled(jobs[j])
    BY <1>1, ContractOperators
  <2>2. QED
    BY <1>1, <1>2, <2>1, CommitOne
<1>4. Contract!Cancel(j)
  BY <1>1, <1>2, <1>3, ContractOperators DEF Contract!Cancel
<1>5. QED
  BY <1>4, ContractOperators

LEMMA CommitRetry ==
  ASSUME PgInv, NEW s \in Session, Commit(s), RetryDone(s)
  PROVE  \E j \in Contract!Stored, t \in Contract!TimeRead : Contract!Retry(j, t)
<1> DEFINE t == txn[s].start
<1>1. PICK j \in Stored :
        /\ HeldBy(s) = {j} /\ jobs[j].status = "dead_letter"
        /\ draft[j] = Retried(jobs[j], t) /\ txn[s].told = Silent
  BY DEF RetryDone
<1>2. UNCHANGED <<issued, clock>> /\ j \in Job /\ t \in Contract!TimeRead
  BY <1>1, CommitFacts DEF Stored
<1>3. jobs' = [jobs EXCEPT ![j] = Contract!Retried(@, t)]
  <2>1. draft[j] = Contract!Retried(jobs[j], t)
    BY <1>1, ContractOperators
  <2>2. QED
    BY <1>1, <1>2, <2>1, CommitOne
<1>4. Contract!Retry(j, t)
  BY <1>1, <1>2, <1>3 DEF Contract!Retry
<1>5. QED
  BY <1>2, <1>4, ContractOperators

LEMMA CommitIsOperation ==
  ASSUME PgInv, NEW s \in Session, Commit(s) PROVE Contract!Next
<1>1. OneOperation(s)
  BY CommitFacts
<1>2. QED
  BY <1>1, CommitNothing, CommitSubmit, CommitClaim, CommitHeartbeat, CommitAcknowledge,
     CommitCancel, CommitRetry DEF OneOperation, Contract!Next

\* Nothing else a transaction does is seen from outside.
LEMMA RefinementStep ==
  ASSUME PgInv, [Next]_vars PROVE [Contract!Next]_(Contract!vars)
<1>1. CASE \E s \in Session : Commit(s)
  BY <1>1, CommitIsOperation
<1>2. CASE Tick
  BY <1>2 DEF Tick, Contract!Tick, Contract!Next
<1>3. CASE ~(\E s \in Session : Commit(s)) /\ ~Tick
  BY <1>3 DEF Next, vars, Step, Begin, Submit, ReapScan, ReapRow, ClaimLease, ClaimNothing,
              HeartbeatUpdate, HeartbeatRefused, Acknowledge, Cancel, RetryUpdate,
              RetryRefused, NotFound, Rollback, Abort, Undo, Committed, Contract!vars
<1>4. QED
  BY <1>1, <1>2, <1>3

\* Statements interleave, wait, are retried on newer rows and undone, and still each
\* call takes effect at one instant, its commit, as the contract says, for any
\* number of jobs, leases, keys and concurrent sessions (every method of the store).
THEOREM PostgresRefinement == Spec => ImplementsContract
<1>1. Init => Contract!Init
  BY DEF Init, Contract!Init, NotIssued, Contract!NotIssued
<1>2. PgInv /\ [Next]_vars => [Contract!Next]_(Contract!vars)
  BY RefinementStep
<1>3. QED
  BY <1>1, <1>2, PgInvariant, PTL DEF Spec, ImplementsContract, Contract!Spec

-------------------------------------------------------------------------------
(* The leases that act                                                         *)

Acts(s, l) == LET j == issued[l].job IN
              /\ LeaseOf(jobs[j]) = l /\ lock[j] = s
              /\ UntilOf(jobs[j]) + MaxSkew > txn[s].start

\* A call about a row that is leased to l holds that row.
LEMMA HolderActs ==
  ASSUME PgInv, NEW s \in Session, NEW j \in Stored, NEW l \in Lease,
         HeldBy(s) = {j}, jobs[j].lease = l, jobs[j].until + MaxSkew > txn[s].start
  PROVE  Acts(s, l)
<1>1. j \in Job /\ LeaseOf(jobs[j]) = l /\ UntilOf(jobs[j]) = jobs[j].until /\ lock[j] = s
  BY DEF Stored, LeaseOf, UntilOf, HeldBy
<1>2. issued[l] = [job |-> j, until |-> UntilOf(jobs[j])]
  BY <1>1, NullAssumption DEF PgInv, IInv, LeaseInv, CommittedLeasesAreIssued
<1>3. issued[l].job = j
  BY <1>2
<1>4. QED
  BY <1>1, <1>3 DEF Acts

LEMMA CommitActs ==
  ASSUME PgInv, NEW s \in Session, Commit(s), NEW l \in Lease, issued[l].job # NoJob,
         issued'[l] # issued[l]
  PROVE  Acts(s, l)
<1>1. /\ OneOperation(s) /\ issued \in [Lease -> [job: Job \cup {NoJob}, until: Nat]]
      /\ txn[s].start \in Nat /\ clock \in Nat /\ MaxSkew \in Nat
  BY CommitFacts, PgAssumption DEF PgInv, IInv, TypeInv, TypeOK, Txn
<1>2. txn[s].told # Silent
  BY CommitFacts
<1>3. ASSUME NEW k \in Lease, NEW j \in Job, NEW u, txn[s].told = Tell(k, j, u)
      PROVE  k = l
  BY <1>1, <1>3, CommitFacts
<1>4. CASE ClaimDone(s)
  <2>1. PICK j \in HeldBy(s), k \in Lease, u \in {txn[s].start + v : v \in Duration},
              old \in Row :
          /\ jobs[j] # NoRow /\ LeaseOf(jobs[j]) # k /\ draft[j] = Leased(old, k, u)
          /\ txn[s].told = Tell(k, j, u)
    BY <1>4 DEF ClaimDone
  <2>2. k = l /\ txn[s].told.lease = k /\ txn[s].told.job = j /\ k # NoLease
    BY <1>3, <2>1, NullAssumption DEF HeldBy, Tell
  <2>3. LeaseOf(draft[j]) = k
    BY <2>1, LeasedLease DEF PgInv, OpInv, DoesOneOperation
  <2>4. TellsWhatIsWritten(s)
    BY DEF PgInv, IInv, LeaseInv, ToldIsWritten
  <2>5. QED
    BY <2>1, <2>2, <2>3, <2>4 DEF TellsWhatIsWritten
<1>5. CASE HeartbeatDone(s)
  <2>1. PICK j \in Stored, k \in Lease, v \in Duration :
          /\ HeldBy(s) = {j} /\ Renewable(jobs[j], k, txn[s].start)
          /\ txn[s].told = Tell(k, j, txn[s].start + v)
    BY <1>5 DEF HeartbeatDone
  <2>2. k = l /\ jobs[j].lease = k /\ jobs[j].until \in Nat /\ jobs[j].until > txn[s].start
    BY <1>3, <2>1 DEF Renewable, Stored, PgInv, IInv, TypeInv, TypeOK, Row
  <2>3. QED
    BY <1>1, <2>1, <2>2, HolderActs
<1>6. CASE AcknowledgeDone(s)
  <2>1. PICK j \in Stored, k \in Lease, n \in 0..(clock + MaxSkew) :
          /\ HeldBy(s) = {j} /\ n + MaxSkew >= txn[s].start /\ Owned(jobs[j], k, n)
          /\ txn[s].told = Tell(k, j, 0)
    BY <1>6 DEF AcknowledgeDone
  <2>2. k = l /\ jobs[j].lease = k /\ jobs[j].until \in Nat /\ jobs[j].until > n
    BY <1>3, <2>1 DEF Owned, Stored, PgInv, IInv, TypeInv, TypeOK, Row
  <2>3. jobs[j].until + MaxSkew > txn[s].start
    BY <1>1, <2>1, <2>2
  <2>4. QED
    BY <2>1, <2>2, <2>3, HolderActs
<1>7. QED
  BY <1>1, <1>2, <1>4, <1>5, <1>6
     DEF OneOperation, NothingDone, SubmitDone, CancelDone, RetryDone

\* A heartbeat or an acknowledgement moves a lease only if the row still has it and,
\* but for the skew of the callers' clocks, it was alive when the transaction began.
THEOREM ActsOnLive == Spec => ActsOnLiveLease
<1> DEFINE Lives == \A l \in Lease : issued[l].job # NoJob /\ issued'[l] # issued[l] =>
                      LET row == jobs[issued[l].job] IN
                      /\ row.lease = l
                      /\ \E s \in Session : /\ lock[issued[l].job] = s
                                            /\ row.until + MaxSkew > txn[s].start
<1>1. PgInv /\ [Next]_vars => Lives
  <2> SUFFICES ASSUME PgInv, [Next]_vars, NEW l \in Lease, issued[l].job # NoJob,
                      issued'[l] # issued[l]
               PROVE  LET row == jobs[issued[l].job] IN
                      /\ row.lease = l
                      /\ \E s \in Session : /\ lock[issued[l].job] = s
                                            /\ row.until + MaxSkew > txn[s].start
    OBVIOUS
  <2>1. PICK s \in Session : Commit(s)
    BY DEF Next, vars, Step, Begin, Submit, ReapScan, ReapRow, ClaimLease, ClaimNothing,
           HeartbeatUpdate, HeartbeatRefused, Acknowledge, Cancel, RetryUpdate,
           RetryRefused, NotFound, Rollback, Abort, Undo, Tick, Committed
  <2>2. Acts(s, l)
    BY <2>1, CommitActs
  <2>3. jobs[issued[l].job] # NoRow
    BY <2>2, NullAssumption DEF Acts, LeaseOf
  <2>4. QED
    BY <2>2, <2>3 DEF Acts, LeaseOf, UntilOf
<1>2. Spec => [][Lives]_vars
  <2> HIDE DEF Lives
  <2>1. QED
    BY <1>1, PgInvariant, PTL DEF Spec
<1>3. QED
  BY <1>2 DEF ActsOnLiveLease

-------------------------------------------------------------------------------
(* The events of a transaction                                                 *)

\* The events about job j lead from one status to another.
Leads(es, j, from, to) ==
  \E first, last \in About(es, j) :
    /\ \A n \in About(es, j) : first <= n /\ n <= last
    /\ es[first].from = from /\ es[last].to = to

\* A transaction has events only for rows it holds, and for each of these either
\* none, and it has not written it, or some that lead to its new version.
Recorded(s, j) ==
  \/ About(txn[s].events, j) = {} /\ draft[j] = jobs[j]
  \/ Leads(txn[s].events, j, StatusOf(jobs[j]), draft[j].status)
RecordsWhatItWrites(s) ==
  /\ \A n \in DOMAIN txn[s].events : txn[s].events[n].job \in HeldBy(s)
  /\ \A j \in HeldBy(s) : Recorded(s, j)
EventsInv == \A s \in Session : RecordsWhatItWrites(s)

\* More events about job j, which start from where the row was.
LEMMA LeadsOn ==
  ASSUME NEW es \in Seq(EventRecord), NEW fs \in Seq(EventRecord), NEW j \in Job,
         fs # <<>>, \A n \in DOMAIN fs : fs[n].job = j,
         NEW from, NEW mid, fs[1].from = mid,
         \/ About(es, j) = {} /\ mid = from
         \/ Leads(es, j, from, mid)
  PROVE  Leads(es \o fs, j, from, fs[Len(fs)].to)
<1> DEFINE all == es \o fs
           last == Len(es) + Len(fs)
<1>1. /\ Len(es) \in Nat /\ Len(fs) \in Nat /\ Len(fs) > 0
      /\ DOMAIN es = 1..Len(es) /\ DOMAIN fs = 1..Len(fs)
  BY LenProperties, EmptySeq
<1>2. /\ DOMAIN all = 1..last
      /\ \A n \in 1..last : all[n] = IF n <= Len(es) THEN es[n] ELSE fs[n - Len(es)]
  BY ConcatProperties, LenProperties
<1> HIDE DEF all
<1>3. last \in About(all, j) /\ all[last] = fs[Len(fs)]
      /\ \A n \in About(all, j) : n <= last
  BY <1>1, <1>2 DEF About
<1>4. ASSUME NEW first \in About(all, j), \A n \in About(all, j) : first <= n,
             all[first].from = from
      PROVE  Leads(all, j, from, fs[Len(fs)].to)
  BY <1>3, <1>4 DEF Leads
<1>5. CASE About(es, j) = {} /\ mid = from
  <2> DEFINE first == Len(es) + 1
  <2>1. first \in About(all, j) /\ all[first] = fs[1]
    BY <1>1, <1>2 DEF About
  <2>2. \A n \in About(all, j) : first <= n
    BY <1>1, <1>2, <1>5 DEF About
  <2>3. QED
    BY <1>4, <1>5, <2>1, <2>2 DEF all
<1>6. CASE Leads(es, j, from, mid)
  <2>1. PICK first \in About(es, j) :
          (\A n \in About(es, j) : first <= n) /\ es[first].from = from
    BY <1>6 DEF Leads
  <2>2. first \in About(all, j) /\ all[first] = es[first]
    BY <1>1, <1>2, <2>1 DEF About
  <2>3. \A n \in About(all, j) : first <= n
    BY <1>1, <1>2, <2>1 DEF About
  <2>4. QED
    BY <1>4, <2>1, <2>2, <2>3 DEF all
<1>7. QED
  BY <1>5, <1>6

\* They say nothing new of another job.
LEMMA LeadsElsewhere ==
  ASSUME NEW es \in Seq(EventRecord), NEW fs \in Seq(EventRecord), NEW j, NEW i, i # j,
         \A n \in DOMAIN fs : fs[n].job = j
  PROVE  /\ About(es \o fs, i) = About(es, i)
         /\ \A from, to : Leads(es, i, from, to) => Leads(es \o fs, i, from, to)
<1> DEFINE all == es \o fs
<1>1. /\ Len(es) \in Nat /\ Len(fs) \in Nat
      /\ DOMAIN es = 1..Len(es) /\ DOMAIN fs = 1..Len(fs)
  BY LenProperties
<1>2. /\ DOMAIN all = 1..(Len(es) + Len(fs))
      /\ \A n \in DOMAIN all : all[n] = IF n <= Len(es) THEN es[n] ELSE fs[n - Len(es)]
  BY ConcatProperties, LenProperties
<1> HIDE DEF all
<1>3. About(all, i) = About(es, i) /\ \A n \in About(es, i) : all[n] = es[n]
  BY <1>1, <1>2 DEF About
<1>4. \A from, to : Leads(es, i, from, to) => Leads(all, i, from, to)
  BY <1>3 DEF Leads
<1>5. QED
  BY <1>3, <1>4 DEF all

LEMMA EventsStay ==
  ASSUME NEW o \in Session, Untouching(o), RecordsWhatItWrites(o)
  PROVE  RecordsWhatItWrites(o)'
<1>1. /\ txn'[o] = txn[o] /\ HeldBy(o)' = HeldBy(o)
      /\ \A j \in HeldBy(o) : jobs'[j] = jobs[j] /\ draft'[j] = draft[j]
  BY DEF Untouching, HeldBy
<1>2. \A j \in HeldBy(o) : Recorded(o, j) => Recorded(o, j)'
  BY <1>1 DEF Recorded, StatusOf
<1>3. QED
  BY <1>1, <1>2 DEF RecordsWhatItWrites

\* A statement that writes and records nothing.
LEMMA EventsQuiet ==
  ASSUME PgInv, NEW s \in Session, RecordsWhatItWrites(s), UNCHANGED <<jobs, draft>>,
         txn'[s].events = txn[s].events,
         \A j \in Job : lock[j] = s => lock'[j] = s,
         \A j \in Job : lock'[j] = s => lock[j] = s \/ Unlocked(j)
  PROVE  RecordsWhatItWrites(s)'
<1>1. \A n \in DOMAIN txn'[s].events : txn'[s].events[n].job \in HeldBy(s)'
  BY DEF RecordsWhatItWrites, HeldBy
<1>2. ASSUME NEW j \in HeldBy(s)' PROVE Recorded(s, j)'
  <2>1. CASE j \in HeldBy(s)
    BY <2>1 DEF RecordsWhatItWrites, Recorded
  <2>2. CASE j \notin HeldBy(s)
    <3>1. j \in Job /\ Unlocked(j)
      BY <2>2 DEF HeldBy
    <3>2. draft[j] = jobs[j]
      BY <3>1 DEF PgInv, IInv, LeaseInv, UnlockedRowsAgree
    <3>3. About(txn[s].events, j) = {}
      BY <2>2 DEF RecordsWhatItWrites, About
    <3>4. QED
      BY <3>2, <3>3 DEF Recorded
  <2>3. QED
    BY <2>1, <2>2
<1>3. QED
  BY <1>1, <1>2 DEF RecordsWhatItWrites

\* A statement that writes row j and records how it changed.
LEMMA EventsWrite ==
  ASSUME PgInv, NEW s \in Session, RecordsWhatItWrites(s), NEW j \in Job,
         lock[j] = s \/ draft[j] = jobs[j],
         HeldBy(s)' = HeldBy(s) \cup {j}, UNCHANGED jobs,
         \A i \in Job \ {j} : draft'[i] = draft[i],
         NEW es \in Seq(EventRecord), txn'[s].events = txn[s].events \o es,
         es # <<>>, \A n \in DOMAIN es : es[n].job = j,
         es[1].from = StatusOf(draft[j]), es[Len(es)].to = draft'[j].status
  PROVE  RecordsWhatItWrites(s)'
<1> DEFINE old == txn[s].events
<1>1. old \in Seq(EventRecord)
  BY DEF PgInv, IInv, TypeInv, TypeOK, Txn
<1>2. \A n \in DOMAIN txn'[s].events : txn'[s].events[n].job \in HeldBy(s)'
  <2>1. \A n \in DOMAIN old : old[n].job \in HeldBy(s)
    BY DEF RecordsWhatItWrites
  <2> HIDE DEF old
  <2>2. /\ Len(old) \in Nat /\ Len(es) \in Nat
        /\ DOMAIN old = 1..Len(old) /\ DOMAIN es = 1..Len(es)
    BY <1>1, LenProperties
  <2>3. /\ DOMAIN (old \o es) = 1..(Len(old) + Len(es))
        /\ \A n \in DOMAIN (old \o es) :
             (old \o es)[n] = IF n <= Len(old) THEN old[n] ELSE es[n - Len(old)]
    BY <1>1, ConcatProperties, LenProperties
  <2>4. \A n \in DOMAIN (old \o es) : n <= Len(old) => n \in DOMAIN old
    BY <2>2, <2>3
  <2>5. \A n \in DOMAIN (old \o es) : ~(n <= Len(old)) => n - Len(old) \in DOMAIN es
    BY <2>2, <2>3
  <2>6. \A n \in DOMAIN (old \o es) : (old \o es)[n].job \in HeldBy(s) \cup {j}
    BY <2>1, <2>3, <2>4, <2>5
  <2>7. QED
    BY <2>6 DEF old
<1>3. Recorded(s, j)'
  <2>1. \/ About(old, j) = {} /\ StatusOf(draft[j]) = StatusOf(jobs[j])
        \/ Leads(old, j, StatusOf(jobs[j]), StatusOf(draft[j]))
    <3>1. CASE j \in HeldBy(s)
      <4>1. draft[j] # NoRow
        BY <3>1 DEF PgInv, OpInv, DoesOneOperation
      <4>2. QED
        BY <3>1, <4>1 DEF RecordsWhatItWrites, Recorded, StatusOf
    <3>2. CASE j \notin HeldBy(s)
      <4>1. About(old, j) = {}
        BY <3>2 DEF RecordsWhatItWrites, About
      <4>2. draft[j] = jobs[j]
        BY <3>2 DEF HeldBy
      <4>3. QED
        BY <4>1, <4>2
    <3>3. QED
      BY <3>1, <3>2
  <2> HIDE DEF old
  <2>2. Leads(old \o es, j, StatusOf(jobs[j]), es[Len(es)].to)
    BY <1>1, <2>1, LeadsOn
  <2>3. QED
    BY <2>2 DEF Recorded, old
<1>4. ASSUME NEW i \in HeldBy(s), i # j PROVE Recorded(s, i)'
  <2>1. i \in Job /\ Recorded(s, i) /\ draft'[i] = draft[i]
    BY <1>4 DEF RecordsWhatItWrites, HeldBy
  <2> HIDE DEF old
  <2>2. About(old \o es, i) = About(old, i)
        /\ \A from, to : Leads(old, i, from, to) => Leads(old \o es, i, from, to)
    BY <1>1, <1>4, LeadsElsewhere
  <2>3. QED
    BY <2>1, <2>2 DEF Recorded, old
<1>5. QED
  BY <1>2, <1>3, <1>4 DEF RecordsWhatItWrites

LEMMA OneEvent ==
  ASSUME NEW type \in EventTypes, NEW j \in Job, NEW from \in Status \cup {"none"},
         NEW to \in Status, NEW es, es = <<Event(type, j, from, to)>>
  PROVE  /\ es \in Seq(EventRecord) /\ es # <<>> /\ \A n \in DOMAIN es : es[n].job = j
         /\ es[1].from = from /\ es[Len(es)].to = to
<1> DEFINE e == Event(type, j, from, to)
<1>1. e \in EventRecord /\ e.job = j /\ e.from = from /\ e.to = to
  BY EventType DEF Event
<1> HIDE DEF e
<1>2. es = <<e>>
  BY DEF e
<1>3. QED
  BY <1>1, <1>2, OneEventType

LEMMA AckEventsTell ==
  ASSUME NEW op, NEW j \in Job, NEW old \in Row, NEW start \in Nat, old.status \in Held,
         NEW new, new = Acknowledged(op, old, start), NEW es, es = AckEvents(op, j, old, new)
  PROVE  /\ es \in Seq(EventRecord) /\ es # <<>> /\ \A n \in DOMAIN es : es[n].job = j
         /\ es[1].from = old.status /\ es[Len(es)].to = new.status
<1>1. new \in Row
  BY CompletedType, FailedType DEF Acknowledged
<1>2. es \in Seq(EventRecord)
  BY <1>1, AckEventsType
<1>3. old.status \in Status /\ new.status \in Status /\ "processing" \in Status
  BY <1>1 DEF Row, Status
<1>4. {"cancelled", "completed", "failed", "retry_scheduled", "dead_lettered"}
        \subseteq EventTypes
  BY DEF EventTypes
<1>5. CASE new.status = "cancelled"
  <2>1. es = <<Event("cancelled", j, old.status, new.status)>>
    BY <1>5 DEF AckEvents
  <2>2. QED
    BY <1>3, <1>4, <2>1, OneEvent
<1>6. CASE new.status # "cancelled" /\ op = "complete"
  <2>1. es = <<Event("completed", j, old.status, new.status)>>
    BY <1>6 DEF AckEvents
  <2>2. QED
    BY <1>3, <1>4, <2>1, OneEvent
<1>7. CASE new.status # "cancelled" /\ op # "complete"
  <2> DEFINE type == IF new.status = "retrying" THEN "retry_scheduled" ELSE "dead_lettered"
             e == Event("failed", j, "processing", new.status)
             f == Event(type, j, "processing", new.status)
  <2>1. es = <<e, f>>
    BY <1>7 DEF AckEvents
  <2>2. old.status = "processing"
    <3>1. new = Failed(old, start)
      BY <1>7 DEF Acknowledged
    <3>2. old.status = "cancel_requested" => new.status = "cancelled"
      BY <3>1 DEF Failed, Released, Row
    <3>3. QED
      BY <1>7, <3>2 DEF Held
  <2>3. e.job = j /\ f.job = j /\ e.from = "processing" /\ f.to = new.status
    BY DEF Event
  <2> HIDE DEF e, f
  <2>4. QED
    BY <1>2, <2>1, <2>2, <2>3
<1>8. QED
  BY <1>5, <1>6, <1>7

\* Write with events that start from the row it replaces.
LEMMA EventsStatement ==
  ASSUME PgInv, NEW s \in Session, RecordsWhatItWrites(s), NEW j \in Job,
         lock[j] \in {NoSession, s}, NEW row, NEW es \in Seq(EventRecord), NEW told,
         Write(s, j, row, es, told), Committed,
         es # <<>>, \A n \in DOMAIN es : es[n].job = j,
         draft[j] # NoRow, es[1].from = draft[j].status, es[Len(es)].to = row.status
  PROVE  RecordsWhatItWrites(s)'
<1>1. lock[j] = s \/ draft[j] = jobs[j]
  BY DEF PgInv, IInv, LeaseInv, UnlockedRowsAgree, Unlocked
<1>2. es[1].from = StatusOf(draft[j])
  BY DEF StatusOf
<1>3. /\ txn'[s].events = txn[s].events \o es
      /\ draft'[j] = row /\ HeldBy(s)' = HeldBy(s) \cup {j}
      /\ \A i \in Job \ {j} : draft'[i] = draft[i]
      /\ UNCHANGED jobs
  BY WriteFacts
<1>4. QED
  BY <1>1, <1>2, <1>3, EventsWrite

LEMMA LookEvents ==
  ASSUME PgInv, NEW s \in Session, RecordsWhatItWrites(s),
         \/ \E op \in Operation : Begin(s, op)
         \/ ReapScan(s) \/ ClaimNothing(s) \/ NotFound(s)
         \/ HeartbeatRefused(s) \/ RetryRefused(s)
         \/ Submit(s) /\ \E input \in SubmitInputs : SubmitDuplicate(s, input)
         \/ Committed /\ \E pc : \E j \in Stored : Unlocked(j) /\ LockOnly(s, j, pc)
  PROVE  RecordsWhatItWrites(s)'
<1>1. txn \in [Session -> Txn] /\ lock \in [Job -> Session \cup {NoSession}]
  BY DEF PgInv, IInv, TypeInv, TypeOK
<1>2. UNCHANGED <<jobs, draft>>
  BY DEF Begin, ReapScan, ClaimNothing, NotFound, HeartbeatRefused, RetryRefused, Refuse,
         Submit, SubmitDuplicate, LockOnly, Committed
<1>3. \/ UNCHANGED lock
      \/ \E j \in Stored : Unlocked(j) /\ lock' = [lock EXCEPT ![j] = s]
  BY DEF Begin, ReapScan, ClaimNothing, NotFound, HeartbeatRefused, RetryRefused, Refuse,
         Submit, SubmitDuplicate, LockOnly
<1>4. \A j \in Job : /\ lock[j] = s => lock'[j] = s
                     /\ lock'[j] = s => lock[j] = s \/ Unlocked(j)
  BY <1>1, <1>3 DEF Stored
<1>5. txn'[s].events = txn[s].events
  <2>1. CASE \E op \in Operation : Begin(s, op)
    <3>1. PICK op \in Operation : Begin(s, op)
      BY <2>1
    <3>2. [Idle EXCEPT !.op = op, !.pc = "begun", !.start = clock].events = Idle.events
      BY DEF Idle
    <3> HIDE DEF Idle
    <3>3. QED
      BY <1>1, <3>1, <3>2 DEF Begin
  <2>2. CASE ReapScan(s)
    BY <1>1, <2>2 DEF ReapScan, Txn
  <2>3. CASE \E pc : Goto(s, pc)
    BY <1>1, <2>3 DEF Goto, Txn
  <2>4. CASE \E input \in SubmitInputs : SubmitDuplicate(s, input)
    <3>1. PICK input \in SubmitInputs : SubmitDuplicate(s, input)
      BY <2>4
    <3>2. txn'[s] = [txn[s] EXCEPT !.pc = "ready", !.queue = input.queue] /\ txn[s] \in Txn
      BY <1>1, <3>1 DEF SubmitDuplicate
    <3>3. QED
      BY <3>2 DEF Txn
  <2>5. QED
    BY <2>1, <2>2, <2>3, <2>4 DEF ClaimNothing, NotFound, HeartbeatRefused, RetryRefused,
                                   Refuse, LockOnly
<1>6. QED
  BY <1>2, <1>4, <1>5, EventsQuiet

LEMMA SubmitEvents ==
  ASSUME PgInv, NEW s \in Session, RecordsWhatItWrites(s), Submit(s)
  PROVE  RecordsWhatItWrites(s)'
<1>1. PICK input \in SubmitInputs : SubmitDuplicate(s, input) \/ SubmitInsert(s, input)
  BY DEF Submit
<1>2. CASE SubmitDuplicate(s, input)
  BY <1>1, <1>2, LookEvents
<1>3. CASE SubmitInsert(s, input)
  <2>1. PICK j \in Job, n \in CallerNow :
          LET row == NewRow(input, txn[s].start, n) IN
          /\ draft[j] = NoRow
          /\ lock' = [lock EXCEPT ![j] = s]
          /\ draft' = [draft EXCEPT ![j] = row]
          /\ txn' = [txn EXCEPT ![s].pc = "ready", ![s].queue = input.queue,
                       ![s].events = <<Event("submitted", j, "none", row.status)>>]
    BY <1>3 DEF SubmitInsert
  <2> DEFINE row == NewRow(input, txn[s].start, n)
             es == <<Event("submitted", j, "none", row.status)>>
  <2>2. /\ txn[s] \in Txn /\ lock \in [Job -> Session \cup {NoSession}]
        /\ txn \in [Session -> Txn] /\ draft \in [Job -> Row \cup {NoRow}]
        /\ n \in Nat /\ input \in SubmitInput
    BY PgAssumption DEF PgInv, IInv, TypeInv, TypeOK, CallerNow
  <2>3. txn[s].pc = "begun" /\ UNCHANGED jobs
    BY DEF Submit, At, Committed
  <2>4. HeldBy(s) = {}
    BY <2>3 DEF PgInv, RowInv, ClaimsTakeBack, HoldsWhatItTookBack
  <2>5. row.status \in Status
    BY <2>2, NewRowType DEF Txn
  <2>6. es \in Seq(EventRecord) /\ es # <<>> /\ (\A k \in DOMAIN es : es[k].job = j)
        /\ es[1].from = "none" /\ es[Len(es)].to = row.status
    <3>1. "submitted" \in EventTypes
      BY DEF EventTypes
    <3> HIDE DEF row
    <3>2. QED
      BY <2>5, <3>1, OneEvent
  <2> HIDE DEF row, es
  <2>7. txn[s].events = <<>>
    <3>1. DOMAIN txn[s].events = {}
      BY <2>4 DEF RecordsWhatItWrites
    <3>2. txn[s].events \in Seq(EventRecord)
      BY <2>2 DEF Txn
    <3> DEFINE old == txn[s].events
    <3> HIDE DEF old
    <3>3. Len(old) \in Nat /\ 1..Len(old) = {} /\ (old # <<>> => Len(old) \in Nat \ {0})
      BY <3>1, <3>2, LenProperties, EmptySeq DEF old
    <3>4. ~(Len(old) > 0)
      BY <3>3
    <3>5. QED
      BY <3>3, <3>4 DEF old
  <2>8. txn'[s].events = es
    BY <2>1, <2>2 DEF Txn, row, es
  <2>9. txn'[s].events = txn[s].events \o es
    BY <2>6, <2>7, <2>8, ConcatEmptySeq
  <2>10. HeldBy(s)' = HeldBy(s) \cup {j} /\ draft'[j] = row
        /\ \A i \in Job \ {j} : draft'[i] = draft[i]
    BY <2>1, <2>2 DEF HeldBy, row
  <2>11. draft[j] = jobs[j] /\ StatusOf(draft[j]) = "none"
    BY <2>1 DEF PgInv, IInv, TypeInv, RowsStay, StatusOf
  <2>12. QED
    BY <2>3, <2>6, <2>9, <2>10, <2>11, EventsWrite
<1>4. QED
  BY <1>1, <1>2, <1>3

LEMMA ReapRowEvents ==
  ASSUME PgInv, NEW s \in Session, RecordsWhatItWrites(s), NEW j \in Job, ReapRow(s, j)
  PROVE  RecordsWhatItWrites(s)'
<1>1. /\ j \in Stored /\ jobs[j] \in Row /\ txn[s] \in Txn /\ txn \in [Session -> Txn]
      /\ Unlocked(j) /\ draft[j] = jobs[j] /\ jobs[j] # NoRow
      /\ lock' = [lock EXCEPT ![j] = s] /\ UNCHANGED jobs
      /\ lock \in [Job -> Session \cup {NoSession}] /\ draft \in [Job -> Row \cup {NoRow}]
  BY DEF ReapRow, At, PgInv, IInv, TypeInv, TypeOK, RowsStay, Stored, LeaseInv, UnlockedRowsAgree,
         Committed
<1>2. HeldBy(s)' = HeldBy(s) \cup {j}
  BY <1>1 DEF HeldBy
<1>3. CASE Expired(jobs[j], txn[s].start)
  <2> DEFINE row == Reaped(jobs[j], txn[s].start)
             e == ReapEvent(j, row.status)
             es == <<e>>
  <2>1. draft' = [draft EXCEPT ![j] = row]
    BY <1>3 DEF ReapRow, StillExpired
  <2>2. txn'[s].events = Append(txn[s].events, e)
    BY <1>1, <1>3 DEF ReapRow, StillExpired, Txn
  <2>3. row \in Row /\ row.status \in Status
    <3>1. row \in Row
      BY <1>1, ReapedType DEF Txn
    <3>2. QED
      BY <3>1 DEF Row
  <2>4. jobs[j].status \in Held
        /\ row.status = IF jobs[j].status = "cancel_requested" THEN "cancelled" ELSE "queued"
    BY <1>1, <1>3 DEF Expired, Reaped, Released, Row
  <2> HIDE DEF row
  <2>5. e = Event(IF row.status = "cancelled" THEN "cancelled" ELSE "lease_expired",
                  j, jobs[j].status, row.status)
    BY <2>4 DEF ReapEvent, Held
  <2>6. /\ es \in Seq(EventRecord) /\ es # <<>> /\ \A n \in DOMAIN es : es[n].job = j
        /\ es[1].from = jobs[j].status /\ es[Len(es)].to = row.status
    <3> DEFINE type == IF row.status = "cancelled" THEN "cancelled" ELSE "lease_expired"
    <3>1. type \in EventTypes
      BY DEF EventTypes
    <3>2. jobs[j].status \in Status
      BY <1>1 DEF Row
    <3>3. es = <<Event(type, j, jobs[j].status, row.status)>>
      BY <2>5
    <3> HIDE DEF type, e
    <3>4. QED
      BY <2>3, <3>1, <3>2, <3>3, OneEvent
  <2> HIDE DEF e
  <2>7. txn'[s].events = txn[s].events \o es
    <3>1. txn[s].events \in Seq(EventRecord) /\ e \in EventRecord
      BY <1>1, <2>3, ReapEventType DEF Txn, e, Stored
    <3>2. QED
      BY <2>2, <3>1, AppendIsConcat
  <2> HIDE DEF es
  <2>8. draft'[j] = row /\ \A i \in Job \ {j} : draft'[i] = draft[i]
    BY <1>1, <2>1
  <2>9. es[1].from = StatusOf(draft[j])
    BY <1>1, <2>6 DEF StatusOf
  <2>10. QED
    BY <1>1, <1>2, <2>6, <2>7, <2>8, <2>9, EventsWrite
<1>4. CASE ~Expired(jobs[j], txn[s].start)
  <2>1. UNCHANGED draft /\ txn'[s].events = txn[s].events
    BY <1>1, <1>4 DEF ReapRow, StillExpired, Txn
  <2>2. \A i \in Job : /\ lock[i] = s => lock'[i] = s
                       /\ lock'[i] = s => lock[i] = s \/ Unlocked(i)
    BY <1>1
  <2>3. QED
    BY <1>1, <2>1, <2>2, EventsQuiet
<1>5. QED
  BY <1>3, <1>4

LEMMA ClaimLeaseEvents ==
  ASSUME PgInv, NEW s \in Session, RecordsWhatItWrites(s), ClaimLease(s)
  PROVE  RecordsWhatItWrites(s)'
<1>1. PICK q \in Queue, l \in FreshLease, v \in Duration : \E j \in Best(s, q) :
       Write(s, j, Leased(draft[j], l, txn[s].start + v),
             <<Event("claimed", j, draft[j].status, "processing")>>,
             Tell(l, j, txn[s].start + v))
  BY DEF ClaimLease
<1>2. PICK j \in Best(s, q) :
       Write(s, j, Leased(draft[j], l, txn[s].start + v),
             <<Event("claimed", j, draft[j].status, "processing")>>,
             Tell(l, j, txn[s].start + v))
  BY <1>1
<1>3. j \in Job /\ draft[j] # NoRow /\ lock[j] \in {NoSession, s} /\ Committed
  BY DEF ClaimLease, Best, Candidates
<1>4. draft[j] \in Row
  BY <1>3 DEF PgInv, IInv, TypeInv, TypeOK
<1> DEFINE row == Leased(draft[j], l, txn[s].start + v)
           es == <<Event("claimed", j, draft[j].status, "processing")>>
           told == Tell(l, j, txn[s].start + v)
<1>5. row.status = "processing" /\ draft[j].status \in Status
  BY <1>4 DEF Leased, Row
<1>6. Write(s, j, row, es, told)
  BY <1>2
<1> HIDE DEF row, told
<1>7. /\ es \in Seq(EventRecord) /\ es # <<>> /\ \A n \in DOMAIN es : es[n].job = j
      /\ es[1].from = draft[j].status /\ es[Len(es)].to = "processing"
  <2>1. "claimed" \in EventTypes /\ "processing" \in Status
    BY DEF EventTypes, Status
  <2>2. QED
    BY <1>3, <1>5, <2>1, OneEvent
<1> HIDE DEF es
<1>8. QED
  BY <1>3, <1>5, <1>6, <1>7, EventsStatement

LEMMA HeartbeatEvents ==
  ASSUME PgInv, NEW s \in Session, RecordsWhatItWrites(s), HeartbeatUpdate(s)
  PROVE  RecordsWhatItWrites(s)'
<1>1. PICK l \in Lease, j \in Stored, v \in Duration :
        /\ Renewable(jobs[j], l, txn[s].start) /\ Unlocked(j)
        /\ Write(s, j, Renewed(jobs[j], txn[s].start + v),
                 <<Event("heartbeat", j, "processing", "processing")>>,
                 Tell(l, j, txn[s].start + v))
  BY DEF HeartbeatUpdate
<1>2. /\ j \in Job /\ draft[j] = jobs[j] /\ jobs[j] # NoRow /\ jobs[j] \in Row
      /\ lock[j] \in {NoSession, s} /\ Committed /\ jobs[j].status = "processing"
  BY <1>1 DEF HeartbeatUpdate, Stored, Renewable, Unlocked, PgInv, IInv, TypeInv, TypeOK,
              LeaseInv, UnlockedRowsAgree
<1> DEFINE row == Renewed(jobs[j], txn[s].start + v)
           es == <<Event("heartbeat", j, "processing", "processing")>>
           told == Tell(l, j, txn[s].start + v)
<1>3. row.status = "processing"
  BY <1>2 DEF Renewed, Row
<1>4. Write(s, j, row, es, told)
  BY <1>1
<1> HIDE DEF row, told
<1>5. /\ es \in Seq(EventRecord) /\ es # <<>> /\ \A n \in DOMAIN es : es[n].job = j
      /\ es[1].from = "processing" /\ es[Len(es)].to = "processing"
  <2>1. "heartbeat" \in EventTypes /\ "processing" \in Status
    BY DEF EventTypes, Status
  <2>2. QED
    BY <1>2, <2>1, OneEvent
<1> HIDE DEF es
<1>6. QED
  BY <1>2, <1>3, <1>4, <1>5, EventsStatement

LEMMA AcknowledgeRecords ==
  ASSUME PgInv, NEW s \in Session, RecordsWhatItWrites(s), Acknowledge(s)
  PROVE  RecordsWhatItWrites(s)'
<1> DEFINE op == txn[s].op
           new(j) == Acknowledged(op, jobs[j], txn[s].start)
<1>1. PICK l \in Lease, j \in Stored, n \in CallerNow :
        /\ Unlocked(j)
        /\ \/ /\ Owned(jobs[j], l, n)
              /\ Write(s, j, new(j), AckEvents(op, j, jobs[j], new(j)), Tell(l, j, 0))
           \/ LockOnly(s, j, "failing")
  BY DEF Acknowledge
<1>2. /\ j \in Job /\ draft[j] = jobs[j] /\ jobs[j] # NoRow /\ jobs[j] \in Row
      /\ lock[j] \in {NoSession, s} /\ Committed /\ txn[s].start \in Nat
  BY <1>1 DEF Acknowledge, Stored, Unlocked, PgInv, IInv, TypeInv, TypeOK, Txn,
              LeaseInv, UnlockedRowsAgree
<1>3. CASE LockOnly(s, j, "failing")
  BY <1>1, <1>2, <1>3, LookEvents
<1>4. CASE /\ Owned(jobs[j], l, n)
           /\ Write(s, j, new(j), AckEvents(op, j, jobs[j], new(j)), Tell(l, j, 0))
  <2> DEFINE row == new(j)
             es == AckEvents(op, j, jobs[j], row)
             told == Tell(l, j, 0)
  <2>1. Write(s, j, row, es, told) /\ jobs[j].status \in Held
    BY <1>4 DEF Owned
  <2>2. /\ es \in Seq(EventRecord) /\ es # <<>> /\ \A k \in DOMAIN es : es[k].job = j
        /\ es[1].from = jobs[j].status /\ es[Len(es)].to = row.status
    BY <1>2, <2>1, AckEventsTell
  <2> HIDE DEF row, es, told
  <2>3. QED
    BY <1>2, <2>1, <2>2, EventsStatement
<1>5. QED
  BY <1>1, <1>3, <1>4

LEMMA CancelEvents ==
  ASSUME PgInv, NEW s \in Session, RecordsWhatItWrites(s), Cancel(s)
  PROVE  RecordsWhatItWrites(s)'
<1>1. PICK j \in Stored :
        /\ Unlocked(j)
        /\ CASE jobs[j].status = "cancelled" -> LockOnly(s, j, "ready")
             [] jobs[j].status \in Uncancellable -> LockOnly(s, j, "failing")
             [] OTHER ->
                  LET row == Cancelled(jobs[j]) IN
                  Write(s, j, row, <<Event(row.status, j, jobs[j].status, row.status)>>, Silent)
  BY DEF Cancel
<1> DEFINE row == Cancelled(jobs[j])
           es == <<Event(row.status, j, jobs[j].status, row.status)>>
<1>2. /\ j \in Job /\ draft[j] = jobs[j] /\ jobs[j] # NoRow /\ jobs[j] \in Row
      /\ lock[j] \in {NoSession, s} /\ Committed
  BY <1>1 DEF Cancel, Stored, Unlocked, PgInv, IInv, TypeInv, TypeOK,
              LeaseInv, UnlockedRowsAgree
<1>3. (\E pc : LockOnly(s, j, pc)) \/ Write(s, j, row, es, Silent)
  BY <1>1
<1>4. CASE \E pc : LockOnly(s, j, pc)
  BY <1>1, <1>2, <1>4, LookEvents
<1>5. CASE Write(s, j, row, es, Silent)
  <2>1. row.status \in {"cancel_requested", "cancelled"} /\ jobs[j].status \in Status
    BY <1>2 DEF Cancelled, Row
  <2> HIDE DEF row
  <2>2. /\ es \in Seq(EventRecord) /\ es # <<>> /\ \A n \in DOMAIN es : es[n].job = j
        /\ es[1].from = jobs[j].status /\ es[Len(es)].to = row.status
    <3>1. row.status \in EventTypes /\ row.status \in Status
      BY <2>1 DEF EventTypes, Status
    <3>2. QED
      BY <1>2, <2>1, <3>1, OneEvent
  <2> HIDE DEF es
  <2>3. QED
    BY <1>2, <1>5, <2>2, EventsStatement
<1>6. QED
  BY <1>3, <1>4, <1>5

LEMMA RetryEvents ==
  ASSUME PgInv, NEW s \in Session, RecordsWhatItWrites(s), RetryUpdate(s)
  PROVE  RecordsWhatItWrites(s)'
<1>1. PICK j \in Stored :
        /\ jobs[j].status = "dead_letter" /\ Unlocked(j)
        /\ Write(s, j, Retried(jobs[j], txn[s].start),
                 <<Event("manual_retry", j, "dead_letter", "queued")>>, Silent)
  BY DEF RetryUpdate
<1>2. /\ j \in Job /\ draft[j] = jobs[j] /\ jobs[j] # NoRow /\ jobs[j] \in Row
      /\ lock[j] \in {NoSession, s} /\ Committed
  BY <1>1 DEF RetryUpdate, Stored, Unlocked, PgInv, IInv, TypeInv, TypeOK,
              LeaseInv, UnlockedRowsAgree
<1> DEFINE row == Retried(jobs[j], txn[s].start)
           es == <<Event("manual_retry", j, "dead_letter", "queued")>>
<1>3. row.status = "queued"
  BY <1>2, RetriedFacts
<1>4. Write(s, j, row, es, Silent)
  BY <1>1
<1> HIDE DEF row
<1>5. /\ es \in Seq(EventRecord) /\ es # <<>> /\ \A n \in DOMAIN es : es[n].job = j
      /\ es[1].from = "dead_letter" /\ es[Len(es)].to = "queued"
  <2>1. "manual_retry" \in EventTypes /\ {"dead_letter", "queued"} \subseteq Status
    BY DEF EventTypes, Status
  <2>2. QED
    BY <1>2, <2>1, OneEvent
<1> HIDE DEF es
<1>6. QED
  BY <1>1, <1>2, <1>3, <1>4, <1>5, EventsStatement

LEMMA EndEvents ==
  ASSUME PgInv, NEW s \in Session, Commit(s) \/ Undo(s) PROVE RecordsWhatItWrites(s)'
<1>1. Unlock(s) /\ txn' = [txn EXCEPT ![s] = Idle]
  BY DEF Commit, Undo
<1>2. HeldBy(s)' = {}
  BY <1>1, SessionAssumption DEF Unlock, HeldBy
<1>3. txn'[s].events = <<>>
  BY <1>1 DEF PgInv, IInv, TypeInv, TypeOK, Idle
<1>4. QED
  BY <1>2, <1>3 DEF RecordsWhatItWrites

LEMMA EventsStep ==
  ASSUME PgInv, EventsInv, [Next]_vars PROVE EventsInv'
<1>1. CASE UNCHANGED <<jobs, draft, lock, txn>>
  BY <1>1, EventsStay DEF EventsInv, Untouching
<1>2. ASSUME NEW s \in Session, Step(s) \/ Abort(s) \/ \E op \in Operation : Begin(s, op)
      PROVE  EventsInv'
  <2>1. ASSUME NEW o \in Session \ {s} PROVE RecordsWhatItWrites(o)'
    BY <1>2, OthersUntouched, EventsStay DEF EventsInv
  <2>2. RecordsWhatItWrites(s)'
    <3>1. ASSUME NEW j \in Job, ReapRow(s, j) PROVE RecordsWhatItWrites(s)'
      BY <3>1, ReapRowEvents DEF EventsInv
    <3>2. CASE Commit(s) \/ Rollback(s) \/ Abort(s)
      BY <3>2, EndEvents DEF Rollback, Abort
    <3>3. QED
      BY <1>2, <3>1, <3>2, LookEvents, SubmitEvents, ClaimLeaseEvents, HeartbeatEvents,
         AcknowledgeRecords, CancelEvents, RetryEvents DEF Step, EventsInv
  <2>3. QED
    BY <2>1, <2>2 DEF EventsInv
<1>3. CASE Tick
  BY <1>1, <1>3 DEF Tick
<1>4. CASE UNCHANGED vars
  BY <1>1, <1>4 DEF vars
<1>5. QED
  BY <1>2, <1>3, <1>4 DEF Next

LEMMA EventsInvariant == Spec => [](PgInv /\ EventsInv)
<1>1. Init => EventsInv
  BY SessionAssumption DEF Init, EventsInv, RecordsWhatItWrites, HeldBy, Idle
<1>2. PgInv /\ EventsInv /\ [Next]_vars => EventsInv'
  BY EventsStep
<1>3. QED
  BY <1>1, <1>2, PgInvariant, PTL DEF Spec

\* No row of the store changes without events, recorded in the same transaction, that
\* lead from its old status to its new one (insertEvent, in every method).
THEOREM EventsTell == Spec => EventsTellTheChange
<1> DEFINE Explained(j) == \E s \in Session : LET es == txn[s].events IN
             /\ lock[j] = s
             /\ \E first, last \in About(es, j) :
                  /\ \A n \in About(es, j) : first <= n /\ n <= last
                  /\ es[first].from = StatusOf(jobs[j])
                  /\ es[last].to = jobs'[j].status
           Change == \A j \in Job : jobs'[j] # jobs[j] => Explained(j)
<1>1. PgInv /\ EventsInv /\ [Next]_vars => Change
  <2> SUFFICES ASSUME PgInv, EventsInv, [Next]_vars, NEW j \in Job, jobs'[j] # jobs[j]
               PROVE  Explained(j)
    OBVIOUS
  <2>1. PICK s \in Session : Commit(s)
    BY DEF Next, vars, Step, Begin, Submit, ReapScan, ReapRow, ClaimLease, ClaimNothing,
           HeartbeatUpdate, HeartbeatRefused, Acknowledge, Cancel, RetryUpdate,
           RetryRefused, NotFound, Rollback, Abort, Undo, Tick, Committed
  <2>2. j \in HeldBy(s) /\ lock[j] = s /\ jobs'[j] = draft[j]
    BY <2>1 DEF Commit, HeldBy
  <2>3. Leads(txn[s].events, j, StatusOf(jobs[j]), draft[j].status)
    BY <2>2 DEF EventsInv, RecordsWhatItWrites, Recorded
  <2>4. QED
    BY <2>2, <2>3 DEF Leads
<1>2. Spec => [][Change]_vars
  <2> HIDE DEF Change
  <2>1. QED
    BY <1>1, EventsInvariant, PTL DEF Spec
<1>3. QED
  BY <1>2 DEF EventsTellTheChange
==============================================================================
