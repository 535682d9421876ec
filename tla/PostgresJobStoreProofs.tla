------------------------ MODULE PostgresJobStoreProofs ------------------------
(* The types of PostgresJobStore, and what it guarantees for any number of    *)
(* jobs, workers, keys and leases and any clock: a lease that has not run out *)
(* is the current lease of its job, a key stores one job, the retry budget    *)
(* decides, and a final job stays final.  The properties speak of committed   *)
(* rows and of what workers were told; the invariants they follow from also   *)
(* say what open transactions have done to the rows they hold.                *)
EXTENDS PostgresJobStore, JobRecordProofs, SequenceTheorems

-------------------------------------------------------------------------------
(* Types                                                                       *)

LEMMA IdleType == Idle \in Txn
<1>1. <<>> \in Seq(EventRecord)
  BY EmptySeq
<1>2. QED
  BY <1>1 DEF Idle, Txn, Silent

LEMMA EventsType ==
  ASSUME NEW es \in Seq(EventRecord), NEW fs \in Seq(EventRecord)
  PROVE  es \o fs \in Seq(EventRecord)
  BY ConcatProperties

LEMMA OneEventType ==
  ASSUME NEW e \in EventRecord PROVE <<e>> \in Seq(EventRecord)
  BY SMT

LEMMA TwoEventsType ==
  ASSUME NEW e \in EventRecord, NEW f \in EventRecord PROVE <<e, f>> \in Seq(EventRecord)
  BY SMT

LEMMA EventType ==
  ASSUME NEW type \in EventTypes, NEW j \in Job, NEW from \in Status \cup {"none"}, NEW to \in Status
  PROVE  Event(type, j, from, to) \in EventRecord
  BY DEF Event, EventRecord

\* What the types rest on: rows are never deleted, so a row that a claim has
\* still to look at exists, and a transaction that locks a row keeps it a row.
RowsStay == /\ \A s \in Session : txn[s].todo \subseteq Stored
            /\ \A j \in Job : jobs[j] # NoRow => draft[j] # NoRow

TypeInv == TypeOK /\ RowsStay

LEMMA TypeInit == Init => TypeInv
<1> SUFFICES ASSUME Init PROVE TypeInv
  OBVIOUS
<1>1. [l \in Lease |-> NotIssued] \in [Lease -> [job: Job \cup {NoJob}, until: Nat]]
  BY DEF NotIssued
<1>2. txn \in [Session -> Txn]
  BY IdleType DEF Init
<1>3. RowsStay
  BY DEF Init, RowsStay, Idle
<1>4. QED
  BY <1>1, <1>2, <1>3 DEF Init, TypeOK, TypeInv

\* A step that writes row j, and moves session s on, keeps every type.
LEMMA WriteTxnType ==
  ASSUME TypeInv, NEW s \in Session, NEW j \in Job, NEW row \in Row,
         NEW new \in Txn, new.todo \subseteq Stored,
         txn' = [txn EXCEPT ![s] = new], draft' = [draft EXCEPT ![j] = row],
         lock' = [lock EXCEPT ![j] = s], Committed
  PROVE  TypeInv'
<1>1. \A o \in Session : txn'[o].todo = IF o = s THEN new.todo ELSE txn[o].todo
  BY DEF TypeInv, TypeOK
<1>2. TypeOK'
  BY DEF TypeInv, TypeOK, Committed
<1>3. RowsStay'
  BY <1>1, RowAssumption DEF TypeInv, TypeOK, RowsStay, Stored, Committed
<1>4. QED
  BY <1>2, <1>3 DEF TypeInv

\* A statement that writes row j for session s keeps every variable's type.
LEMMA WriteType ==
  ASSUME TypeInv, NEW s \in Session, NEW j \in Job, NEW row \in Row,
         NEW es \in Seq(EventRecord),
         NEW told \in [lease: Lease \cup {NoLease}, job: Job \cup {NoJob}, until: Nat],
         Write(s, j, row, es, told), Committed
  PROVE  TypeInv'
<1>1. txn[s] \in Txn
  BY DEF TypeInv, TypeOK
<1>2. txn[s].events \o es \in Seq(EventRecord)
  BY <1>1, EventsType DEF Txn
<1> DEFINE new == [txn[s] EXCEPT !.pc = "ready", !.events = @ \o es, !.told = told]
<1>3. new \in Txn /\ new.todo = txn[s].todo
  BY <1>1, <1>2 DEF Txn
<1>4. txn' = [txn EXCEPT ![s] = new]
  BY DEF Write
<1> HIDE DEF new
<1>5. lock' = [lock EXCEPT ![j] = s] /\ draft' = [draft EXCEPT ![j] = row]
      /\ txn[s].todo \subseteq Stored
  BY DEF Write, TypeInv, RowsStay
<1>6. QED
  BY <1>3, <1>4, <1>5, WriteTxnType

\* A step that only moves a session on in its transaction keeps every type.
LEMMA TxnType ==
  ASSUME TypeInv, NEW s \in Session, NEW new \in Txn, new.todo \subseteq Stored,
         txn' = [txn EXCEPT ![s] = new], Committed, UNCHANGED draft,
         lock' \in [Job -> Session \cup {NoSession}]
  PROVE  TypeInv'
<1>1. TypeOK'
  BY DEF TypeInv, TypeOK, Committed
<1>2. \A o \in Session : txn'[o].todo = IF o = s THEN new.todo ELSE txn[o].todo
  BY DEF TypeInv, TypeOK
<1>3. RowsStay'
  BY <1>2 DEF TypeInv, RowsStay, Stored, Committed
<1>4. QED
  BY <1>1, <1>3 DEF TypeInv

LEMMA GotoType ==
  ASSUME TypeInv, NEW s \in Session, NEW pc \in {"ready", "failing"}, Goto(s, pc),
         Committed, UNCHANGED draft, lock' \in [Job -> Session \cup {NoSession}]
  PROVE  TypeInv'
<1> DEFINE new == [txn[s] EXCEPT !.pc = pc]
<1>1. new \in Txn /\ new.todo = txn[s].todo
  BY DEF TypeInv, TypeOK, Txn
<1>2. txn' = [txn EXCEPT ![s] = new] /\ txn[s].todo \subseteq Stored
  BY DEF Goto, TypeInv, RowsStay
<1> HIDE DEF new
<1>3. QED
  BY <1>1, <1>2, TxnType

LEMMA QuietType ==
  ASSUME TypeInv, NEW s \in Session, NEW pc \in {"ready", "failing"},
         Goto(s, pc), Committed, UNCHANGED <<draft, lock>>
  PROVE  TypeInv'
<1>1. lock' \in [Job -> Session \cup {NoSession}]
  BY DEF TypeInv, TypeOK
<1>2. QED
  BY <1>1, GotoType

LEMMA LockOnlyType ==
  ASSUME TypeInv, NEW s \in Session, NEW j \in Job, NEW pc \in {"ready", "failing"},
         LockOnly(s, j, pc), Committed
  PROVE  TypeInv'
<1>1. lock' \in [Job -> Session \cup {NoSession}] /\ Goto(s, pc) /\ UNCHANGED draft
  BY DEF LockOnly, TypeInv, TypeOK
<1>2. QED
  BY <1>1, GotoType

LEMMA RefuseType ==
  ASSUME TypeInv, NEW s \in Session, NEW j \in Stored, Refuse(s, j), Committed
  PROVE  TypeInv'
  BY QuietType, LockOnlyType DEF Refuse, Stored

LEMMA BeginType ==
  ASSUME TypeInv, NEW s \in Session, NEW op \in Operation, Begin(s, op)
  PROVE  TypeInv'
<1> DEFINE new == [Idle EXCEPT !.op = op, !.pc = "begun", !.start = clock]
<1>1. new \in Txn /\ new.todo = {}
  BY IdleType DEF Txn, Idle, TypeInv, TypeOK
<1>2. /\ txn' = [txn EXCEPT ![s] = new] /\ Committed /\ UNCHANGED draft
      /\ lock' \in [Job -> Session \cup {NoSession}]
  BY DEF Begin, TypeInv, TypeOK
<1> HIDE DEF new
<1>3. QED
  BY <1>1, <1>2, TxnType

LEMMA CallerNowType ==
  ASSUME TypeInv, NEW n \in CallerNow PROVE n \in Nat
  BY PgAssumption DEF CallerNow, TypeInv, TypeOK

LEMMA SubmitType ==
  ASSUME TypeInv, NEW s \in Session, Submit(s) PROVE TypeInv'
<1>1. PICK input \in SubmitInputs : SubmitDuplicate(s, input) \/ SubmitInsert(s, input)
  BY DEF Submit
<1>2. input \in SubmitInput /\ input.queue \in Queue
  BY PgAssumption DEF SubmitInput
<1>3. Committed
  BY DEF Submit
<1>4. txn[s] \in Txn
  BY DEF TypeInv, TypeOK
<1>5. CASE SubmitDuplicate(s, input)
  <2> DEFINE new == [txn[s] EXCEPT !.pc = "ready", !.queue = input.queue]
  <2>1. new \in Txn /\ new.todo = txn[s].todo
    BY <1>2, <1>4 DEF Txn
  <2>2. /\ txn' = [txn EXCEPT ![s] = new] /\ UNCHANGED draft
        /\ lock' \in [Job -> Session \cup {NoSession}] /\ txn[s].todo \subseteq Stored
    BY <1>5 DEF SubmitDuplicate, TypeInv, TypeOK, RowsStay
  <2> HIDE DEF new
  <2>3. QED
    BY <1>3, <2>1, <2>2, TxnType
<1>6. CASE SubmitInsert(s, input)
  <2>1. PICK j \in Job, n \in CallerNow :
          LET row == NewRow(input, txn[s].start, n) IN
          /\ lock' = [lock EXCEPT ![j] = s]
          /\ draft' = [draft EXCEPT ![j] = row]
          /\ txn' = [txn EXCEPT ![s].pc = "ready", ![s].queue = input.queue,
                       ![s].events = <<Event("submitted", j, "none", row.status)>>]
    BY <1>6 DEF SubmitInsert
  <2> DEFINE row == NewRow(input, txn[s].start, n)
             es == <<Event("submitted", j, "none", row.status)>>
             new == [txn[s] EXCEPT !.pc = "ready", !.queue = input.queue, !.events = es]
  <2>2. txn[s].start \in Nat
    BY <1>4 DEF Txn
  <2>3. row \in Row /\ row.status \in Status
    BY <1>2, <2>2, CallerNowType, NewRowType
  <2>5. /\ txn' = [txn EXCEPT ![s] = new] /\ draft' = [draft EXCEPT ![j] = row]
        /\ lock' = [lock EXCEPT ![j] = s]
    BY <2>1
  <2> HIDE DEF row
  <2>4. es \in Seq(EventRecord)
    <3>1. "submitted" \in EventTypes
      BY DEF EventTypes
    <3>2. Event("submitted", j, "none", row.status) \in EventRecord
      BY <2>3, <3>1, EventType
    <3>3. QED
      BY <3>2, OneEventType
  <2> HIDE DEF es
  <2>6. new \in Txn /\ new.todo \subseteq Stored
    BY <1>2, <1>4, <2>4 DEF Txn, TypeInv, RowsStay
  <2> HIDE DEF new
  <2>7. QED
    BY <1>3, <2>3, <2>5, <2>6, WriteTxnType
<1>7. QED
  BY <1>1, <1>5, <1>6

LEMMA ReapScanType ==
  ASSUME TypeInv, NEW s \in Session, ReapScan(s) PROVE TypeInv'
<1> DEFINE rows == {j \in Stored : Expired(jobs[j], txn[s].start)}
           new == [txn[s] EXCEPT !.pc = "reaping", !.todo = rows]
<1>1. rows \in SUBSET Job /\ rows \subseteq Stored
  BY DEF Stored
<1>2. /\ txn' = [txn EXCEPT ![s] = new] /\ Committed /\ UNCHANGED draft
      /\ lock' \in [Job -> Session \cup {NoSession}]
  BY DEF ReapScan, TypeInv, TypeOK
<1> HIDE DEF rows
<1>3. new \in Txn /\ new.todo \subseteq Stored
  BY <1>1 DEF TypeInv, TypeOK, Txn
<1> HIDE DEF new
<1>4. QED
  BY <1>2, <1>3, TxnType

LEMMA ReapEventType ==
  ASSUME NEW j \in Job, NEW status \in Status PROVE ReapEvent(j, status) \in EventRecord
<1>1. {"cancelled", "lease_expired"} \subseteq EventTypes
  BY DEF EventTypes
<1>2. {"cancel_requested", "processing"} \subseteq Status
  BY DEF Status
<1>3. QED
  BY <1>1, <1>2, EventType DEF ReapEvent

LEMMA ReapRowType ==
  ASSUME TypeInv, NEW s \in Session, NEW j \in Job, ReapRow(s, j)
  PROVE  TypeInv'
<1>0. jobs[j] # NoRow
  BY DEF ReapRow, TypeInv, RowsStay, Stored
<1>1. /\ txn[s] \in Txn /\ jobs[j] \in Row /\ txn[s].start \in Nat
      /\ txn[s].events \in Seq(EventRecord) /\ txn[s].todo \subseteq Stored
  BY <1>0 DEF TypeInv, TypeOK, RowsStay, Txn
<1>2. lock' = [lock EXCEPT ![j] = s] /\ Committed
  BY DEF ReapRow
<1>3. CASE Expired(jobs[j], txn[s].start)
  <2> DEFINE row == Reaped(jobs[j], txn[s].start)
             es == Append(txn[s].events, ReapEvent(j, row.status))
             new == [txn[s] EXCEPT !.todo = @ \ {j}, !.events = es]
  <2>1. draft' = [draft EXCEPT ![j] = row] /\ txn' = [txn EXCEPT ![s] = new]
    BY <1>3 DEF ReapRow, StillExpired
  <2>2. row \in Row /\ row.status \in Status
    <3>1. row \in Row
      BY <1>1, ReapedType
    <3>2. QED
      BY <3>1 DEF Row
  <2> HIDE DEF row
  <2>4. ReapEvent(j, row.status) \in EventRecord
    BY <2>2, ReapEventType
  <2>5. es \in Seq(EventRecord)
    BY <1>1, <2>4, AppendProperties
  <2> HIDE DEF es
  <2>6. new \in Txn /\ new.todo \subseteq Stored
    BY <1>1, <2>5 DEF Txn
  <2> HIDE DEF new
  <2>7. QED
    BY <1>2, <2>1, <2>2, <2>6, WriteTxnType
<1>4. CASE ~Expired(jobs[j], txn[s].start)
  <2> DEFINE new == [txn[s] EXCEPT !.todo = @ \ {j}]
  <2>1. UNCHANGED draft /\ txn' = [txn EXCEPT ![s] = new]
    BY <1>4 DEF ReapRow, StillExpired
  <2>2. new \in Txn /\ new.todo \subseteq Stored
    BY <1>1 DEF Txn
  <2>3. lock' \in [Job -> Session \cup {NoSession}]
    BY <1>2 DEF TypeInv, TypeOK
  <2> HIDE DEF new
  <2>4. QED
    BY <1>2, <2>1, <2>2, <2>3, TxnType
<1>5. QED
  BY <1>3, <1>4

LEMMA TellType ==
  ASSUME NEW l \in Lease, NEW j \in Job, NEW until \in Nat
  PROVE  Tell(l, j, until) \in [lease: Lease \cup {NoLease}, job: Job \cup {NoJob}, until: Nat]
  BY DEF Tell

LEMMA SilentType ==
  Silent \in [lease: Lease \cup {NoLease}, job: Job \cup {NoJob}, until: Nat]
  BY DEF Silent

LEMMA ClaimLeaseType ==
  ASSUME TypeInv, NEW s \in Session, ClaimLease(s) PROVE TypeInv'
<1>1. PICK q \in Queue, l \in FreshLease, v \in Duration : \E j \in Best(s, q) :
       Write(s, j, Leased(draft[j], l, txn[s].start + v),
             <<Event("claimed", j, draft[j].status, "processing")>>,
             Tell(l, j, txn[s].start + v))
  BY DEF ClaimLease
<1>2. PICK j \in Best(s, q) :
       Write(s, j, Leased(draft[j], l, txn[s].start + v),
             <<Event("claimed", j, draft[j].status, "processing")>>,
             Tell(l, j, txn[s].start + v))
  BY <1>1
<1>3. j \in Job /\ l \in Lease /\ draft[j] \in Row /\ draft[j].status \in Status
  BY DEF Best, Candidates, FreshLease, TypeInv, TypeOK, Row
<1>4. txn[s].start + v \in Nat
  BY PgAssumption DEF TypeInv, TypeOK, Txn
<1> DEFINE until == txn[s].start + v
           e == Event("claimed", j, draft[j].status, "processing")
<1>5. Leased(draft[j], l, until) \in Row
  BY <1>3, <1>4, LeasedType
<1>6. <<e>> \in Seq(EventRecord)
  <2>1. "processing" \in Status /\ "claimed" \in EventTypes
    BY DEF Status, EventTypes
  <2>2. e \in EventRecord
    BY <1>3, <2>1, EventType
  <2> HIDE DEF e
  <2>3. QED
    BY <2>2, OneEventType
<1>7. Tell(l, j, until) \in [lease: Lease \cup {NoLease}, job: Job \cup {NoJob}, until: Nat]
  BY <1>3, <1>4, TellType
<1>8. Committed
  BY DEF ClaimLease
<1>9. Write(s, j, Leased(draft[j], l, until), <<e>>, Tell(l, j, until))
  BY <1>2
<1> HIDE DEF e, until
<1>10. QED
  BY <1>3, <1>5, <1>6, <1>7, <1>8, <1>9, WriteType

LEMMA HeartbeatType ==
  ASSUME TypeInv, NEW s \in Session, HeartbeatUpdate(s) PROVE TypeInv'
<1>1. PICK l \in Lease, j \in Stored, v \in Duration :
        Write(s, j, Renewed(jobs[j], txn[s].start + v),
              <<Event("heartbeat", j, "processing", "processing")>>,
              Tell(l, j, txn[s].start + v))
  BY DEF HeartbeatUpdate
<1> DEFINE until == txn[s].start + v
           e == Event("heartbeat", j, "processing", "processing")
<1>2. j \in Job /\ jobs[j] \in Row /\ until \in Nat /\ Committed
  BY PgAssumption DEF HeartbeatUpdate, Stored, TypeInv, TypeOK, Txn
<1>3. <<e>> \in Seq(EventRecord)
  <2>1. "heartbeat" \in EventTypes /\ "processing" \in Status
    BY DEF EventTypes, Status
  <2>2. e \in EventRecord
    BY <1>2, <2>1, EventType
  <2> HIDE DEF e
  <2>3. QED
    BY <2>2, OneEventType
<1>4. Write(s, j, Renewed(jobs[j], until), <<e>>, Tell(l, j, until))
  BY <1>1
<1> HIDE DEF until, e
<1>5. Renewed(jobs[j], until) \in Row
  BY <1>2 DEF Renewed, Row
<1>6. Tell(l, j, until) \in [lease: Lease \cup {NoLease}, job: Job \cup {NoJob}, until: Nat]
  BY <1>2, TellType
<1>7. QED
  BY <1>2, <1>3, <1>4, <1>5, <1>6, WriteType

LEMMA AckEventsType ==
  ASSUME NEW op, NEW j \in Job, NEW old \in Row, NEW new \in Row
  PROVE  AckEvents(op, j, old, new) \in Seq(EventRecord)
<1>1. old.status \in Status /\ new.status \in Status /\ "processing" \in Status
  BY DEF Row, Status
<1>2. {"cancelled", "completed", "failed", "retry_scheduled", "dead_lettered"}
        \subseteq EventTypes
  BY DEF EventTypes
<1>3. CASE new.status = "cancelled"
  <2> DEFINE e == Event("cancelled", j, old.status, new.status)
  <2>1. e \in EventRecord
    BY <1>1, <1>2, EventType
  <2>2. AckEvents(op, j, old, new) = <<e>>
    BY <1>3 DEF AckEvents
  <2> HIDE DEF e
  <2>3. QED
    BY <2>1, <2>2, OneEventType
<1>4. CASE new.status # "cancelled" /\ op = "complete"
  <2> DEFINE e == Event("completed", j, old.status, new.status)
  <2>1. e \in EventRecord
    BY <1>1, <1>2, EventType
  <2>2. AckEvents(op, j, old, new) = <<e>>
    BY <1>4 DEF AckEvents
  <2> HIDE DEF e
  <2>3. QED
    BY <2>1, <2>2, OneEventType
<1>5. CASE new.status # "cancelled" /\ op # "complete"
  <2> DEFINE type == IF new.status = "retrying" THEN "retry_scheduled" ELSE "dead_lettered"
             e == Event("failed", j, "processing", new.status)
             f == Event(type, j, "processing", new.status)
  <2>1. type \in EventTypes
    BY <1>2
  <2>2. AckEvents(op, j, old, new) = <<e, f>>
    BY <1>5 DEF AckEvents
  <2> HIDE DEF type
  <2>3. e \in EventRecord /\ f \in EventRecord
    BY <1>1, <1>2, <2>1, EventType
  <2> HIDE DEF e, f
  <2>4. QED
    BY <2>2, <2>3, TwoEventsType
<1>6. QED
  BY <1>3, <1>4, <1>5

LEMMA AcknowledgeType ==
  ASSUME TypeInv, NEW s \in Session, Acknowledge(s) PROVE TypeInv'
<1> DEFINE op == txn[s].op
           row(j) == Acknowledged(op, jobs[j], txn[s].start)
<1>1. PICK l \in Lease, j \in Stored :
        \/ Write(s, j, row(j), AckEvents(op, j, jobs[j], row(j)), Tell(l, j, 0))
        \/ LockOnly(s, j, "failing")
  BY DEF Acknowledge
<1>2. j \in Job /\ jobs[j] \in Row /\ txn[s].start \in Nat /\ Committed
  BY DEF Acknowledge, Stored, TypeInv, TypeOK, Txn
<1>3. row(j) \in Row
  BY <1>2, CompletedType, FailedType DEF Acknowledged
<1>4. AckEvents(op, j, jobs[j], row(j)) \in Seq(EventRecord)
  BY <1>2, <1>3, AckEventsType
<1>5. Tell(l, j, 0) \in [lease: Lease \cup {NoLease}, job: Job \cup {NoJob}, until: Nat]
  BY <1>2, TellType
<1> HIDE DEF row, op
<1>6. QED
  BY <1>1, <1>2, <1>3, <1>4, <1>5, WriteType, LockOnlyType

LEMMA CancelType ==
  ASSUME TypeInv, NEW s \in Session, Cancel(s) PROVE TypeInv'
<1>1. PICK j \in Stored :
        CASE jobs[j].status = "cancelled" -> LockOnly(s, j, "ready")
          [] jobs[j].status \in Uncancellable -> LockOnly(s, j, "failing")
          [] OTHER ->
               LET row == Cancelled(jobs[j]) IN
               Write(s, j, row, <<Event(row.status, j, jobs[j].status, row.status)>>, Silent)
  BY DEF Cancel
<1> DEFINE row == Cancelled(jobs[j])
           e == Event(row.status, j, jobs[j].status, row.status)
<1>2. j \in Job /\ jobs[j] \in Row /\ Committed
  BY DEF Cancel, Stored, TypeInv, TypeOK
<1>3. \/ LockOnly(s, j, "ready")
      \/ LockOnly(s, j, "failing")
      \/ Write(s, j, row, <<e>>, Silent)
  BY <1>1
<1>4. row \in Row /\ row.status \in {"cancel_requested", "cancelled"}
  BY <1>2 DEF Cancelled, Row, Status
<1> HIDE DEF row
<1>5. <<e>> \in Seq(EventRecord)
  <2>1. row.status \in EventTypes /\ row.status \in Status /\ jobs[j].status \in Status
    BY <1>2, <1>4 DEF EventTypes, Status, Row
  <2>2. e \in EventRecord
    BY <1>2, <2>1, EventType
  <2> HIDE DEF e
  <2>3. QED
    BY <2>2, OneEventType
<1> HIDE DEF e
<1>6. QED
  BY <1>2, <1>3, <1>4, <1>5, SilentType, WriteType, LockOnlyType

LEMMA RetryType ==
  ASSUME TypeInv, NEW s \in Session, RetryUpdate(s) PROVE TypeInv'
<1>1. PICK j \in Stored :
        Write(s, j, Retried(jobs[j], txn[s].start),
              <<Event("manual_retry", j, "dead_letter", "queued")>>, Silent)
  BY DEF RetryUpdate
<1> DEFINE row == Retried(jobs[j], txn[s].start)
           e == Event("manual_retry", j, "dead_letter", "queued")
<1>2. j \in Job /\ jobs[j] \in Row /\ txn[s].start \in Nat /\ Committed
  BY DEF RetryUpdate, Stored, TypeInv, TypeOK, Txn
<1>3. row \in Row
  BY <1>2 DEF Retried, Row, Status
<1>4. <<e>> \in Seq(EventRecord)
  <2>1. "manual_retry" \in EventTypes /\ {"dead_letter", "queued"} \subseteq Status
    BY DEF EventTypes, Status
  <2>2. e \in EventRecord
    BY <1>2, <2>1, EventType
  <2> HIDE DEF e
  <2>3. QED
    BY <2>2, OneEventType
<1>5. Write(s, j, row, <<e>>, Silent)
  BY <1>1
<1> HIDE DEF row, e
<1>6. QED
  BY <1>2, <1>3, <1>4, <1>5, SilentType, WriteType

\* Both ends of a transaction leave the session idle and its rows unlocked.
LEMMA EndType ==
  ASSUME TypeInv, NEW s \in Session, Unlock(s), txn' = [txn EXCEPT ![s] = Idle]
  PROVE  /\ lock' \in [Job -> Session \cup {NoSession}]
         /\ txn' \in [Session -> Txn]
         /\ \A o \in Session : txn'[o].todo \subseteq txn[o].todo
<1>1. lock' \in [Job -> Session \cup {NoSession}]
  BY DEF Unlock, TypeInv, TypeOK
<1>2. txn' \in [Session -> Txn]
  BY IdleType DEF TypeInv, TypeOK
<1>3. \A o \in Session : txn'[o].todo \subseteq txn[o].todo
  BY DEF TypeInv, TypeOK, Idle
<1>4. QED
  BY <1>1, <1>2, <1>3

LEMMA CommitType ==
  ASSUME TypeInv, NEW s \in Session, Commit(s) PROVE TypeInv'
<1>1. /\ lock' \in [Job -> Session \cup {NoSession}]
      /\ txn' \in [Session -> Txn]
      /\ \A o \in Session : txn'[o].todo \subseteq txn[o].todo
  BY EndType DEF Commit
<1>2. jobs' \in [Job -> Row \cup {NoRow}] /\ Stored \subseteq Stored'
  BY DEF Commit, Stored, TypeInv, TypeOK, RowsStay
<1>3. issued' \in [Lease -> [job: Job \cup {NoJob}, until: Nat]]
  <2>1. txn[s].told.job \in Job \cup {NoJob} /\ txn[s].told.until \in Nat
    BY DEF TypeInv, TypeOK, Txn
  <2>2. QED
    BY <2>1 DEF Commit, TypeInv, TypeOK
<1>4. queues' \subseteq Queue /\ UNCHANGED <<draft, clock>>
  BY DEF Commit, TypeInv, TypeOK, Txn
<1>5. \A j \in Job : jobs'[j] # NoRow => draft'[j] # NoRow
  BY DEF Commit, TypeInv, TypeOK, RowsStay
<1>6. QED
  BY <1>1, <1>2, <1>3, <1>4, <1>5 DEF TypeInv, TypeOK, RowsStay

LEMMA UndoType ==
  ASSUME TypeInv, NEW s \in Session, Undo(s) PROVE TypeInv'
<1>1. /\ lock' \in [Job -> Session \cup {NoSession}]
      /\ txn' \in [Session -> Txn]
      /\ \A o \in Session : txn'[o].todo \subseteq txn[o].todo
  BY EndType DEF Undo
<1>2. draft' \in [Job -> Row \cup {NoRow}]
  BY DEF Undo, TypeInv, TypeOK
<1>3. \A j \in Job : jobs'[j] # NoRow => draft'[j] # NoRow
  BY DEF Undo, Committed, TypeInv, TypeOK, RowsStay
<1>4. QED
  BY <1>1, <1>2, <1>3 DEF Undo, Committed, Stored, TypeInv, TypeOK, RowsStay

LEMMA TypeStep ==
  ASSUME TypeInv, [Next]_vars PROVE TypeInv'
<1>1. CASE UNCHANGED vars
  BY <1>1 DEF vars, TypeInv, TypeOK, RowsStay, Stored
<1>2. CASE Tick
  BY <1>2 DEF Tick, TypeInv, TypeOK, RowsStay, Stored
<1>3. ASSUME NEW s \in Session, NEW op \in Operation, Begin(s, op) PROVE TypeInv'
  BY <1>3, BeginType
<1>4. ASSUME NEW s \in Session, Abort(s) PROVE TypeInv'
  BY <1>4, UndoType DEF Abort
<1>5. ASSUME NEW s \in Session, Step(s) PROVE TypeInv'
  <2>1. CASE Submit(s)
    BY <2>1, SubmitType
  <2>2. CASE ReapScan(s)
    BY <2>2, ReapScanType
  <2>3. ASSUME NEW j \in Job, ReapRow(s, j) PROVE TypeInv'
    BY <2>3, ReapRowType
  <2>4. CASE ClaimLease(s)
    BY <2>4, ClaimLeaseType
  <2>5. CASE ClaimNothing(s) \/ HeartbeatRefused(s) \/ RetryRefused(s) \/ NotFound(s)
    BY <2>5, QuietType, RefuseType
       DEF ClaimNothing, HeartbeatRefused, RetryRefused, NotFound
  <2>6. CASE HeartbeatUpdate(s)
    BY <2>6, HeartbeatType
  <2>7. CASE Acknowledge(s)
    BY <2>7, AcknowledgeType
  <2>8. CASE Cancel(s)
    BY <2>8, CancelType
  <2>9. CASE RetryUpdate(s)
    BY <2>9, RetryType
  <2>10. CASE Commit(s)
    BY <2>10, CommitType
  <2>11. CASE Rollback(s)
    BY <2>11, UndoType DEF Rollback
  <2>12. QED
    BY <1>5, <2>1, <2>2, <2>3, <2>4, <2>5, <2>6, <2>7, <2>8, <2>9, <2>10, <2>11 DEF Step
<1>6. QED
  BY <1>1, <1>2, <1>3, <1>4, <1>5 DEF Next

\* Whatever the statements of concurrent calls do, the store holds rows, locks,
\* transactions and issued leases, and a stored job is never lost.
THEOREM TypeCorrect == Spec => [](TypeOK /\ RowsStay)
<1>1. TypeInv /\ [Next]_vars => TypeInv'
  BY TypeStep
<1>2. QED
  BY TypeInit, <1>1, PTL DEF Spec, TypeInv

-------------------------------------------------------------------------------
(* Leases                                                                      *)

LeaseOf(row) == IF row = NoRow THEN NoLease ELSE row.lease
UntilOf(row) == IF row = NoRow THEN 0 ELSE row.until

\* Leases are carried by jobs in a worker's hands, and by cancelled ones.
WellShaped == \A j \in Job : /\ jobs[j] # NoRow => Shape(jobs[j])
                             /\ draft[j] # NoRow => Shape(draft[j])

UnlockedRowsAgree == \A j \in Job : Unlocked(j) => draft[j] = jobs[j]

StartsPast == \A s \in Session : txn[s].start <= clock

\* No lease is on two jobs, not even between an open version and a committed one.
Bears(j, l) == LeaseOf(jobs[j]) = l \/ LeaseOf(draft[j]) = l
OneBearer == \A i, j \in Job, l \in Lease : Bears(i, l) /\ Bears(j, l) => i = j

\* A committed lease was issued for its job, with the expiry its row has.
CommittedLeasesAreIssued ==
  \A j \in Job : LeaseOf(jobs[j]) # NoLease =>
    issued[LeaseOf(jobs[j])] = [job |-> j, until |-> UntilOf(jobs[j])]

SameLease(j) == /\ LeaseOf(draft[j]) = LeaseOf(jobs[j])
                /\ UntilOf(draft[j]) = UntilOf(jobs[j])
Tells(s, j) == txn[s].told = Tell(LeaseOf(draft[j]), j, UntilOf(draft[j]))

\* A transaction that gives a row a lease or an expiry will tell its caller.
DraftLeasesAreTold ==
  \A s \in Session : \A j \in HeldBy(s) :
    LeaseOf(draft[j]) # NoLease => SameLease(j) \/ Tells(s, j)

\* One that takes a lease off a row, or changes its expiry, has seen it run out or
\* works for the caller who holds it.
LostLeasesAreOver ==
  \A s \in Session : \A j \in HeldBy(s) :
    LeaseOf(jobs[j]) # NoLease =>
      \/ SameLease(j)
      \/ UntilOf(jobs[j]) <= txn[s].start
      \/ txn[s].told.lease = LeaseOf(jobs[j])

\* What a transaction will tell is in a row it holds: the lease and expiry of its
\* new version, the old lease renewed or one never issued, or the old lease gone.
TellsWhatIsWritten(s) ==
  txn[s].told.lease # NoLease =>
    /\ txn[s].pc = "ready"
    /\ txn[s].told.job \in HeldBy(s)
    /\ draft[txn[s].told.job] # NoRow
    /\ \/ /\ Tells(s, txn[s].told.job)
          /\ \/ LeaseOf(jobs[txn[s].told.job]) = txn[s].told.lease
             \/ issued[txn[s].told.lease].job = NoJob
       \/ /\ txn[s].told.until = 0
          /\ LeaseOf(jobs[txn[s].told.job]) = txn[s].told.lease
          /\ LeaseOf(draft[txn[s].told.job]) = NoLease
ToldIsWritten == \A s \in Session : TellsWhatIsWritten(s)

LiveLease ==
  \A l \in Lease : issued[l].until > clock =>
    /\ issued[l].job \in Job
    /\ LeaseOf(jobs[issued[l].job]) = l
    /\ UntilOf(jobs[issued[l].job]) = issued[l].until

LeaseInv == /\ WellShaped
            /\ UnlockedRowsAgree
            /\ StartsPast
            /\ OneBearer
            /\ CommittedLeasesAreIssued
            /\ DraftLeasesAreTold
            /\ LostLeasesAreOver
            /\ ToldIsWritten
            /\ LiveLease

LEMMA LeaseOfType ==
  ASSUME NEW row \in Row \cup {NoRow}
  PROVE  LeaseOf(row) \in Lease \cup {NoLease} /\ UntilOf(row) \in Nat
  BY DEF LeaseOf, UntilOf, Row

LEMMA LeaseInit == Init => LeaseInv
<1> SUFFICES ASSUME Init PROVE LeaseInv
  OBVIOUS
<1>1. WellShaped /\ UnlockedRowsAgree
  BY DEF Init, WellShaped, UnlockedRowsAgree
<1>2. StartsPast /\ ToldIsWritten
  BY DEF Init, StartsPast, ToldIsWritten, TellsWhatIsWritten, Idle, Silent
<1>3. \A j \in Job : LeaseOf(jobs[j]) = NoLease /\ LeaseOf(draft[j]) = NoLease
  BY DEF Init, LeaseOf
<1>4. OneBearer /\ CommittedLeasesAreIssued /\ DraftLeasesAreTold /\ LostLeasesAreOver
  BY <1>3, NullAssumption
     DEF OneBearer, Bears, CommittedLeasesAreIssued, DraftLeasesAreTold,
         LostLeasesAreOver, HeldBy
<1>5. LiveLease
  BY DEF Init, LiveLease, NotIssued
<1>6. QED
  BY <1>1, <1>2, <1>4, <1>5 DEF LeaseInv

-------------------------------------------------------------------------------
(* Steps inside a transaction                                                  *)

\* What another session has written and will tell is not disturbed by a step that
\* leaves it its rows and does not issue its lease.
LEMMA WrittenStays ==
  ASSUME NEW o \in Session, TellsWhatIsWritten(o), txn'[o] = txn[o],
         \A j \in Job : lock[j] = o /\ draft[j] # NoRow =>
                        lock'[j] = o /\ jobs'[j] = jobs[j] /\ draft'[j] = draft[j],
         txn[o].told.lease # NoLease =>
           issued'[txn[o].told.lease] = issued[txn[o].told.lease]
  PROVE  TellsWhatIsWritten(o)'
<1> SUFFICES ASSUME txn[o].told.lease # NoLease PROVE TellsWhatIsWritten(o)'
  BY DEF TellsWhatIsWritten
<1> DEFINE j == txn[o].told.job
<1>1. j \in Job /\ lock[j] = o /\ draft[j] # NoRow
  BY DEF TellsWhatIsWritten, HeldBy
<1>2. lock'[j] = o /\ jobs'[j] = jobs[j] /\ draft'[j] = draft[j]
  BY <1>1
<1>3. QED
  BY <1>1, <1>2 DEF TellsWhatIsWritten, Tells, HeldBy

\* A statement that writes nothing, and at most locks a row nobody holds.
LEMMA MoveKeeps ==
  ASSUME TypeInv, LeaseInv, NEW s \in Session, NEW new \in Txn,
         txn[s].told.lease = NoLease, new.told.lease = NoLease,
         txn[s].start <= new.start, new.start <= clock,
         txn' = [txn EXCEPT ![s] = new], Committed, UNCHANGED draft,
         \/ UNCHANGED lock
         \/ \E j \in Job : Unlocked(j) /\ lock' = [lock EXCEPT ![j] = s]
  PROVE  LeaseInv'
<1>1. \A o \in Session : txn'[o] = IF o = s THEN new ELSE txn[o]
  BY DEF TypeInv, TypeOK
<1>2. \A j \in Job : /\ jobs'[j] = jobs[j] /\ draft'[j] = draft[j]
                     /\ SameLease(j)' = SameLease(j)
                     /\ lock'[j] # lock[j] => Unlocked(j) /\ lock'[j] = s /\ SameLease(j)
  BY DEF LeaseInv, UnlockedRowsAgree, Unlocked, Committed, SameLease, TypeInv, TypeOK
<1>3. /\ UNCHANGED <<jobs, draft, issued, clock>>
  BY DEF Committed
<1>4. WellShaped' /\ OneBearer' /\ CommittedLeasesAreIssued' /\ LiveLease'
  BY <1>3 DEF LeaseInv, WellShaped, OneBearer, Bears, CommittedLeasesAreIssued, LiveLease
<1>5. UnlockedRowsAgree'
  BY <1>2, SessionAssumption DEF LeaseInv, UnlockedRowsAgree, Unlocked
<1>6. StartsPast'
  BY <1>1, <1>3 DEF LeaseInv, StartsPast
<1>7. \A o \in Session, j \in Job : lock'[j] = o /\ ~SameLease(j) => lock[j] = o
  BY <1>2
<1>8. DraftLeasesAreTold'
  <2> SUFFICES ASSUME NEW o \in Session, NEW j \in Job, lock'[j] = o,
                      LeaseOf(draft[j]) # NoLease, ~SameLease(j)
               PROVE  Tells(o, j)'
    BY <1>2 DEF DraftLeasesAreTold, HeldBy
  <2>1. Tells(o, j)
    BY <1>7 DEF LeaseInv, DraftLeasesAreTold, HeldBy
  <2>2. o # s
    BY <2>1 DEF Tells, Tell
  <2>3. QED
    BY <1>1, <1>3, <2>1, <2>2 DEF Tells
<1>9. LostLeasesAreOver'
  <2> SUFFICES ASSUME NEW o \in Session, NEW j \in Job, lock'[j] = o,
                      LeaseOf(jobs[j]) # NoLease, ~SameLease(j)
               PROVE  \/ UntilOf(jobs[j]) <= txn'[o].start
                      \/ txn'[o].told.lease = LeaseOf(jobs[j])
    BY <1>2 DEF LostLeasesAreOver, HeldBy
  <2>1. \/ UntilOf(jobs[j]) <= txn[o].start
        \/ txn[o].told.lease = LeaseOf(jobs[j])
    BY <1>7 DEF LeaseInv, LostLeasesAreOver, HeldBy
  <2>2. UntilOf(jobs[j]) \in Nat /\ txn[o].start \in Nat /\ new.start \in Nat
    BY LeaseOfType DEF TypeInv, TypeOK, Txn
  <2>3. QED
    BY <1>1, <2>1, <2>2
<1>10. ToldIsWritten'
  <2> SUFFICES ASSUME NEW o \in Session PROVE TellsWhatIsWritten(o)'
    BY DEF ToldIsWritten
  <2>1. CASE o = s
    BY <1>1, <2>1 DEF TellsWhatIsWritten
  <2>2. CASE o # s
    <3>1. \A j \in Job : lock[j] = o => lock'[j] = o
      BY <1>2, SessionAssumption DEF Unlocked
    <3>2. QED
      BY <1>1, <1>3, <2>2, <3>1, WrittenStays DEF LeaseInv, ToldIsWritten
  <2>3. QED
    BY <2>1, <2>2
<1>11. QED
  BY <1>4, <1>5, <1>6, <1>8, <1>9, <1>10 DEF LeaseInv

\* What a statement that writes row j for session s must respect: it gives the row
\* no lease but its own or a fresh one, and what it does to the lease is told.
Respects(s, j, row, new) ==
  LET same == row.lease = LeaseOf(jobs[j]) /\ row.until = UntilOf(jobs[j]) IN
  /\ row.lease \in {NoLease, LeaseOf(draft[j])} \cup FreshLease
  /\ row.lease # NoLease => same \/ new.told = Tell(row.lease, j, row.until)
  /\ LeaseOf(jobs[j]) # NoLease =>
       \/ same
       \/ UntilOf(jobs[j]) <= new.start
       \/ new.told.lease = LeaseOf(jobs[j])
  /\ new.told.lease # NoLease =>
       /\ new.pc = "ready" /\ new.told.job = j
       /\ \/ /\ new.told = Tell(row.lease, j, row.until)
             /\ \/ LeaseOf(jobs[j]) = new.told.lease
                \/ issued[new.told.lease].job = NoJob
          \/ /\ new.told.until = 0
             /\ LeaseOf(jobs[j]) = new.told.lease
             /\ row.lease = NoLease

LEMMA WriteKeeps ==
  ASSUME TypeInv, LeaseInv, NEW s \in Session, NEW j \in Job, NEW row \in Row,
         NEW new \in Txn, Shape(row), Respects(s, j, row, new),
         lock[j] \in {NoSession, s} \/ draft[j] = NoRow,
         txn[s].told.lease = NoLease, new.start = txn[s].start,
         txn' = [txn EXCEPT ![s] = new], draft' = [draft EXCEPT ![j] = row],
         lock' = [lock EXCEPT ![j] = s], Committed
  PROVE  LeaseInv'
<1>1. /\ \A o \in Session : txn'[o] = IF o = s THEN new ELSE txn[o]
      /\ \A i \in Job : draft'[i] = IF i = j THEN row ELSE draft[i]
      /\ \A i \in Job : lock'[i] = IF i = j THEN s ELSE lock[i]
  BY DEF TypeInv, TypeOK
<1>2. UNCHANGED <<jobs, issued, clock>>
  BY DEF Committed
<1>3. row # NoRow /\ LeaseOf(row) = row.lease /\ UntilOf(row) = row.until
  BY RowAssumption DEF LeaseOf, UntilOf
<1>4. WellShaped' /\ StartsPast' /\ LiveLease' /\ CommittedLeasesAreIssued'
  BY <1>1, <1>2 DEF LeaseInv, WellShaped, StartsPast, LiveLease, CommittedLeasesAreIssued
<1>5. UnlockedRowsAgree'
  BY <1>1, <1>2, SessionAssumption DEF LeaseInv, UnlockedRowsAgree, Unlocked
<1>6. OneBearer'
  <2>1. \A i \in Job, l \in Lease :
          Bears(i, l)' => Bears(i, l) \/ (i = j /\ l = row.lease /\ l \in FreshLease)
    <3> SUFFICES ASSUME NEW i \in Job, NEW l \in Lease, Bears(i, l)', ~Bears(i, l)
                 PROVE  i = j /\ l = row.lease /\ l \in FreshLease
      OBVIOUS
    <3>1. LeaseOf(draft'[i]) = l /\ LeaseOf(draft[i]) # l
      BY <1>2 DEF Bears
    <3>2. i = j /\ row.lease = l
      BY <1>1, <1>3, <3>1
    <3>3. row.lease \in {NoLease, LeaseOf(draft[j])} \cup FreshLease
      BY DEF Respects
    <3>4. QED
      BY <3>1, <3>2, <3>3, NullAssumption
  <2>2. \A i \in Job, l \in FreshLease : ~Bears(i, l)
    <3> SUFFICES ASSUME NEW i \in Job, NEW l \in FreshLease, Bears(i, l) PROVE FALSE
      OBVIOUS
    <3>1. l \in Lease /\ l # NoLease /\ issued[l].job = NoJob
      BY NullAssumption DEF FreshLease
    <3>2. LeaseOf(draft[i]) # l
      BY <3>1 DEF FreshLease, LeaseOf
    <3>3. LeaseOf(jobs[i]) = l
      BY <3>2 DEF Bears
    <3>4. issued[l] = [job |-> i, until |-> UntilOf(jobs[i])]
      BY <3>1, <3>3 DEF LeaseInv, CommittedLeasesAreIssued
    <3>5. QED
      BY <3>1, <3>4, NullAssumption
  <2>3. QED
    BY <2>1, <2>2 DEF LeaseInv, OneBearer
<1>7. DraftLeasesAreTold'
  <2> SUFFICES ASSUME NEW o \in Session, NEW i \in Job, lock'[i] = o,
                      LeaseOf(draft'[i]) # NoLease
               PROVE  SameLease(i)' \/ Tells(o, i)'
    BY DEF DraftLeasesAreTold, HeldBy
  <2>1. CASE i = j
    BY <1>1, <1>2, <1>3, <2>1 DEF Respects, SameLease, Tells
  <2>2. CASE i # j
    <3>1. SameLease(i) \/ Tells(o, i)
      BY <1>1, <2>2 DEF LeaseInv, DraftLeasesAreTold, HeldBy
    <3>2. Tells(o, i) => o # s
      BY <1>1, <2>2 DEF Tells, Tell
    <3>3. QED
      BY <1>1, <1>2, <2>2, <3>1, <3>2 DEF SameLease, Tells
  <2>3. QED
    BY <2>1, <2>2
<1>8. LostLeasesAreOver'
  <2> SUFFICES ASSUME NEW o \in Session, NEW i \in Job, lock'[i] = o,
                      LeaseOf(jobs[i]) # NoLease
               PROVE  \/ SameLease(i)'
                      \/ UntilOf(jobs[i]) <= txn'[o].start
                      \/ txn'[o].told.lease = LeaseOf(jobs[i])
    BY <1>2 DEF LostLeasesAreOver, HeldBy
  <2>1. CASE i = j
    BY <1>1, <1>2, <1>3, <2>1 DEF Respects, SameLease
  <2>2. CASE i # j
    <3>1. \/ SameLease(i)
          \/ UntilOf(jobs[i]) <= txn[o].start
          \/ txn[o].told.lease = LeaseOf(jobs[i])
      BY <1>1, <2>2 DEF LeaseInv, LostLeasesAreOver, HeldBy
    <3>2. QED
      BY <1>1, <1>2, <2>2, <3>1 DEF SameLease
  <2>3. QED
    BY <2>1, <2>2
<1>9. ToldIsWritten'
  <2> SUFFICES ASSUME NEW o \in Session PROVE TellsWhatIsWritten(o)'
    BY DEF ToldIsWritten
  <2>1. CASE o = s
    BY <1>1, <1>2, <1>3, <2>1 DEF TellsWhatIsWritten, Tells, HeldBy, Respects
  <2>2. CASE o # s
    <3>1. \A i \in Job : lock[i] = o /\ draft[i] # NoRow => i # j
      BY <2>2, SessionAssumption
    <3>2. QED
      BY <1>1, <1>2, <2>2, <3>1, WrittenStays DEF LeaseInv, ToldIsWritten
  <2>3. QED
    BY <2>1, <2>2
<1>10. QED
  BY <1>4, <1>5, <1>6, <1>7, <1>8, <1>9 DEF LeaseInv

-------------------------------------------------------------------------------
(* Ends of transactions, and time                                              *)

\* Unlocking the rows of one session leaves the others theirs.
LEMMA EndLocks ==
  ASSUME TypeInv, NEW s \in Session, Unlock(s), txn' = [txn EXCEPT ![s] = Idle]
  PROVE  /\ \A o \in Session : txn'[o] = IF o = s THEN Idle ELSE txn[o]
         /\ \A j \in Job : lock'[j] = IF lock[j] = s THEN NoSession ELSE lock[j]
         /\ \A o \in Session, j \in Job : lock'[j] = o => o # s /\ lock[j] = o
<1>1. /\ \A o \in Session : txn'[o] = IF o = s THEN Idle ELSE txn[o]
      /\ \A j \in Job : lock'[j] = IF lock[j] = s THEN NoSession ELSE lock[j]
  BY DEF Unlock, TypeInv, TypeOK
<1>2. QED
  BY <1>1, SessionAssumption

LEMMA UndoKeeps ==
  ASSUME TypeInv, LeaseInv, NEW s \in Session, Undo(s) PROVE LeaseInv'
<1>1. /\ \A o \in Session : txn'[o] = IF o = s THEN Idle ELSE txn[o]
      /\ \A j \in Job : lock'[j] = IF lock[j] = s THEN NoSession ELSE lock[j]
      /\ \A o \in Session, j \in Job : lock'[j] = o => o # s /\ lock[j] = o
  BY EndLocks DEF Undo
<1>2. /\ UNCHANGED <<jobs, issued, clock>>
      /\ \A j \in Job : draft'[j] = IF lock[j] = s THEN jobs[j] ELSE draft[j]
  BY DEF Undo, Committed
<1>3. WellShaped' /\ CommittedLeasesAreIssued' /\ LiveLease'
  BY <1>2 DEF LeaseInv, WellShaped, CommittedLeasesAreIssued, LiveLease
<1>4. UnlockedRowsAgree'
  BY <1>1, <1>2 DEF LeaseInv, UnlockedRowsAgree, Unlocked
<1>5. StartsPast'
  BY <1>1, <1>2 DEF LeaseInv, StartsPast, Idle, TypeInv, TypeOK
<1>6. OneBearer'
  <2>1. \A j \in Job, l \in Lease : Bears(j, l)' => Bears(j, l)
    BY <1>2 DEF Bears
  <2>2. QED
    BY <2>1 DEF LeaseInv, OneBearer
<1>7. DraftLeasesAreTold' /\ LostLeasesAreOver'
  BY <1>1, <1>2 DEF LeaseInv, DraftLeasesAreTold, LostLeasesAreOver, HeldBy, SameLease, Tells
<1>8. ToldIsWritten'
  <2> SUFFICES ASSUME NEW o \in Session PROVE TellsWhatIsWritten(o)'
    BY DEF ToldIsWritten
  <2>1. CASE o = s
    BY <1>1, <2>1 DEF TellsWhatIsWritten, Idle, Silent
  <2>2. CASE o # s
    BY <1>1, <1>2, <2>2, WrittenStays DEF LeaseInv, ToldIsWritten
  <2>3. QED
    BY <2>1, <2>2
<1>9. QED
  BY <1>3, <1>4, <1>5, <1>6, <1>7, <1>8 DEF LeaseInv

LEMMA TickKeeps == ASSUME TypeInv, LeaseInv, Tick PROVE LeaseInv'
<1>1. UNCHANGED <<jobs, draft, lock, txn, issued>> /\ clock' = clock + 1 /\ clock \in Nat
  BY DEF Tick, TypeInv, TypeOK
<1>2. /\ WellShaped' /\ UnlockedRowsAgree' /\ OneBearer' /\ CommittedLeasesAreIssued'
      /\ DraftLeasesAreTold' /\ LostLeasesAreOver'
  BY <1>1 DEF LeaseInv, WellShaped, UnlockedRowsAgree, Unlocked, OneBearer, Bears,
              CommittedLeasesAreIssued, DraftLeasesAreTold, LostLeasesAreOver, HeldBy,
              SameLease, Tells
<1>3. ToldIsWritten'
  BY <1>1 DEF LeaseInv, ToldIsWritten, TellsWhatIsWritten, Tells, HeldBy
<1>4. StartsPast'
  BY <1>1 DEF LeaseInv, StartsPast, TypeInv, TypeOK, Txn
<1>5. LiveLease'
  <2>1. \A l \in Lease : issued[l].until \in Nat
    BY DEF TypeInv, TypeOK
  <2>2. QED
    BY <1>1, <2>1 DEF LeaseInv, LiveLease
<1>6. QED
  BY <1>2, <1>3, <1>4, <1>5 DEF LeaseInv

\* What a call tells is of the row it commits, and no other open call tells of
\* that lease.
LEMMA ToldIsOwn ==
  ASSUME TypeInv, LeaseInv, NEW s \in Session, txn[s].told.lease # NoLease
  PROVE  /\ txn[s].told.lease \in Lease /\ txn[s].told.job \in Job
         /\ lock[txn[s].told.job] = s
         /\ \A i \in Job : Bears(i, txn[s].told.lease) => i = txn[s].told.job
         /\ \A o \in Session : txn[o].told.lease = txn[s].told.lease => o = s
<1>1. \A o \in Session : txn[o].told.lease # NoLease =>
        /\ txn[o].told.lease \in Lease /\ txn[o].told.job \in Job
        /\ lock[txn[o].told.job] = o /\ Bears(txn[o].told.job, txn[o].told.lease)
  <2> SUFFICES ASSUME NEW o \in Session, txn[o].told.lease # NoLease
               PROVE  /\ txn[o].told.lease \in Lease /\ txn[o].told.job \in Job
                      /\ lock[txn[o].told.job] = o
                      /\ Bears(txn[o].told.job, txn[o].told.lease)
    OBVIOUS
  <2>1. txn[o].told.lease \in Lease
    BY DEF TypeInv, TypeOK, Txn
  <2>2. TellsWhatIsWritten(o)
    BY DEF LeaseInv, ToldIsWritten
  <2>3. Tells(o, txn[o].told.job) => LeaseOf(draft[txn[o].told.job]) = txn[o].told.lease
    BY DEF Tells, Tell
  <2>4. QED
    BY <2>1, <2>2, <2>3 DEF TellsWhatIsWritten, HeldBy, Bears
<1>2. QED
  BY <1>1 DEF LeaseInv, OneBearer

LEMMA CommitKeeps ==
  ASSUME TypeInv, LeaseInv, NEW s \in Session, Commit(s) PROVE LeaseInv'
<1> DEFINE told == txn[s].told
<1>1. /\ \A o \in Session : txn'[o] = IF o = s THEN Idle ELSE txn[o]
      /\ \A j \in Job : lock'[j] = IF lock[j] = s THEN NoSession ELSE lock[j]
      /\ \A o \in Session, j \in Job : lock'[j] = o => o # s /\ lock[j] = o
  BY EndLocks DEF Commit
<1>2. /\ UNCHANGED <<draft, clock>>
      /\ \A j \in Job : jobs'[j] = IF lock[j] = s THEN draft[j] ELSE jobs[j]
      /\ \A l \in Lease : issued'[l] = IF told.lease = l
                                      THEN [job |-> told.job, until |-> told.until]
                                      ELSE issued[l]
  BY DEF Commit
<1>3. WellShaped'
  BY <1>2 DEF LeaseInv, WellShaped
<1>4. UnlockedRowsAgree'
  BY <1>1, <1>2 DEF LeaseInv, UnlockedRowsAgree, Unlocked
<1>5. StartsPast'
  BY <1>1, <1>2 DEF LeaseInv, StartsPast, Idle, TypeInv, TypeOK
<1>6. OneBearer'
  <2>1. \A j \in Job, l \in Lease : Bears(j, l)' => Bears(j, l)
    BY <1>2 DEF Bears
  <2>2. QED
    BY <2>1 DEF LeaseInv, OneBearer
<1>7. DraftLeasesAreTold' /\ LostLeasesAreOver'
  BY <1>1, <1>2 DEF LeaseInv, DraftLeasesAreTold, LostLeasesAreOver, HeldBy, SameLease, Tells
<1>8. CommittedLeasesAreIssued'
  <2> SUFFICES ASSUME NEW j \in Job, LeaseOf(jobs'[j]) # NoLease
               PROVE  issued'[LeaseOf(jobs'[j])] = [job |-> j, until |-> UntilOf(jobs'[j])]
    BY DEF CommittedLeasesAreIssued
  <2> DEFINE l == LeaseOf(jobs'[j])
  <2>1. l \in Lease
    BY <1>2, LeaseOfType DEF TypeInv, TypeOK
  <2>2. Bears(j, l)
    BY <1>2 DEF Bears
  <2>3. CASE told.lease = l
    <3>1. told.job = j /\ lock[j] = s
      BY <2>1, <2>2, <2>3, ToldIsOwn, NullAssumption
    <3>2. LeaseOf(draft[j]) = l
      BY <1>2, <3>1
    <3>3. Tells(s, j)
      BY <2>3, <3>1, <3>2 DEF LeaseInv, ToldIsWritten, TellsWhatIsWritten
    <3>4. told.until = UntilOf(jobs'[j])
      BY <1>2, <3>1, <3>3 DEF Tells, Tell
    <3>5. QED
      BY <1>2, <2>1, <2>3, <3>1, <3>4
  <2>4. CASE told.lease # l
    <3>1. LeaseOf(jobs[j]) = l /\ UntilOf(jobs[j]) = UntilOf(jobs'[j])
      <4>1. CASE lock[j] # s
        BY <1>2, <4>1
      <4>2. CASE lock[j] = s
        <5>1. jobs'[j] = draft[j]
          BY <1>2, <4>2
        <5>2. ~Tells(s, j)
          BY <2>4, <5>1 DEF Tells, Tell
        <5>3. SameLease(j)
          BY <4>2, <5>1, <5>2 DEF LeaseInv, DraftLeasesAreTold, HeldBy
        <5>4. QED
          BY <5>1, <5>3 DEF SameLease
      <4>3. QED
        BY <4>1, <4>2
    <3>2. issued[l] = [job |-> j, until |-> UntilOf(jobs[j])]
      BY <3>1 DEF LeaseInv, CommittedLeasesAreIssued
    <3>3. QED
      BY <1>2, <2>1, <2>4, <3>1, <3>2
  <2>5. QED
    BY <2>3, <2>4
<1>9. ToldIsWritten'
  <2> SUFFICES ASSUME NEW o \in Session PROVE TellsWhatIsWritten(o)'
    BY DEF ToldIsWritten
  <2>1. CASE o = s
    BY <1>1, <2>1 DEF TellsWhatIsWritten, Idle, Silent
  <2>2. CASE o # s
    <3>1. txn[o].told.lease # NoLease =>
            issued'[txn[o].told.lease] = issued[txn[o].told.lease]
      BY <1>2, <2>2, ToldIsOwn
    <3>2. QED
      BY <1>1, <1>2, <2>2, <3>1, SessionAssumption, WrittenStays DEF LeaseInv, ToldIsWritten
  <2>3. QED
    BY <2>1, <2>2
<1>10. LiveLease'
  <2> SUFFICES ASSUME NEW l \in Lease, issued'[l].until > clock
               PROVE  /\ issued'[l].job \in Job
                      /\ LeaseOf(jobs'[issued'[l].job]) = l
                      /\ UntilOf(jobs'[issued'[l].job]) = issued'[l].until
    BY <1>2 DEF LiveLease
  <2> DEFINE j == issued'[l].job
  <2>1. CASE told.lease = l
    <3>1. told.lease # NoLease
      BY <2>1, NullAssumption
    <3>2. j = told.job /\ issued'[l].until = told.until /\ j \in Job /\ lock[j] = s
      BY <1>2, <2>1, <3>1, ToldIsOwn
    <3>3. told.until # 0
      BY <3>2 DEF TypeInv, TypeOK
    <3>4. Tells(s, told.job)
      BY <3>1, <3>3 DEF LeaseInv, ToldIsWritten, TellsWhatIsWritten
    <3>5. LeaseOf(draft[j]) = l /\ UntilOf(draft[j]) = told.until
      BY <2>1, <3>2, <3>4 DEF Tells, Tell
    <3>6. QED
      BY <1>2, <3>2, <3>5
  <2>2. CASE told.lease # l
    <3>1. issued'[l] = issued[l]
      BY <1>2, <2>2
    <3>2. j \in Job /\ LeaseOf(jobs[j]) = l /\ UntilOf(jobs[j]) = issued'[l].until
      BY <3>1 DEF LeaseInv, LiveLease
    <3>3. CASE lock[j] # s
      BY <1>2, <3>2, <3>3
    <3>4. CASE lock[j] = s
      <4>1. ~(UntilOf(jobs[j]) <= txn[s].start)
        BY <3>2, LeaseOfType DEF LeaseInv, StartsPast, TypeInv, TypeOK, Txn
      <4>2. SameLease(j)
        BY <2>2, <3>2, <3>4, <4>1, NullAssumption DEF LeaseInv, LostLeasesAreOver, HeldBy
      <4>3. QED
        BY <1>2, <3>2, <3>4, <4>2 DEF SameLease
    <3>5. QED
      BY <3>3, <3>4
  <2>3. QED
    BY <2>1, <2>2
<1>11. QED
  BY <1>3, <1>4, <1>5, <1>6, <1>7, <1>8, <1>9, <1>10 DEF LeaseInv

-------------------------------------------------------------------------------
(* The operations                                                              *)

\* Nothing is to be told before the statement that writes the lease.
LEMMA NothingToldYet ==
  ASSUME LeaseInv, NEW s \in Session, txn[s].pc # "ready"
  PROVE  txn[s].told.lease = NoLease
  BY DEF LeaseInv, ToldIsWritten, TellsWhatIsWritten

\* A step that moves on inside its transaction.
LEMMA GotoKeeps ==
  ASSUME TypeInv, LeaseInv, NEW s \in Session, NEW pc \in {"ready", "failing"},
         txn[s].pc # "ready", Goto(s, pc), Committed, UNCHANGED draft,
         \/ UNCHANGED lock
         \/ \E j \in Job : Unlocked(j) /\ lock' = [lock EXCEPT ![j] = s]
  PROVE  LeaseInv'
<1> DEFINE new == [txn[s] EXCEPT !.pc = pc]
<1>0. txn[s] \in Txn
  BY DEF TypeInv, TypeOK
<1>1. new \in Txn /\ new.told = txn[s].told /\ new.start = txn[s].start
  BY <1>0 DEF Txn
<1>2. txn' = [txn EXCEPT ![s] = new]
  BY DEF Goto
<1>3. txn[s].told.lease = NoLease /\ txn[s].start <= clock /\ txn[s].start \in Nat
  BY NothingToldYet DEF LeaseInv, StartsPast, TypeInv, TypeOK, Txn
<1> HIDE DEF new
<1>4. txn[s].start <= new.start /\ new.start <= clock
  BY <1>1, <1>3
<1>5. QED
  BY <1>1, <1>2, <1>3, <1>4, MoveKeeps

LEMMA LockOnlyKeeps ==
  ASSUME TypeInv, LeaseInv, NEW s \in Session, NEW j \in Job, Unlocked(j),
         NEW pc \in {"ready", "failing"}, txn[s].pc # "ready", LockOnly(s, j, pc), Committed
  PROVE  LeaseInv'
  BY GotoKeeps DEF LockOnly

LEMMA RefuseKeeps ==
  ASSUME TypeInv, LeaseInv, NEW s \in Session, NEW j \in Job,
         txn[s].pc # "ready", Refuse(s, j), Committed
  PROVE  LeaseInv'
  BY GotoKeeps, LockOnlyKeeps DEF Refuse

\* A statement that writes a row it may lock and tells what it did to the lease.
LEMMA StatementKeeps ==
  ASSUME TypeInv, LeaseInv, NEW s \in Session, NEW j \in Job, NEW row \in Row, Shape(row),
         NEW es \in Seq(EventRecord),
         NEW told \in [lease: Lease \cup {NoLease}, job: Job \cup {NoJob}, until: Nat],
         Write(s, j, row, es, told), Committed,
         txn[s].pc # "ready", lock[j] \in {NoSession, s},
         \A new \in Txn : new.start = txn[s].start /\ new.pc = "ready" /\ new.told = told
                         => Respects(s, j, row, new)
  PROVE  LeaseInv'
<1>1. txn[s] \in Txn
  BY DEF TypeInv, TypeOK
<1>2. txn[s].events \o es \in Seq(EventRecord)
  BY <1>1, EventsType DEF Txn
<1> DEFINE new == [txn[s] EXCEPT !.pc = "ready", !.events = @ \o es, !.told = told]
<1>3. new \in Txn /\ new.start = txn[s].start /\ new.pc = "ready" /\ new.told = told
  BY <1>1, <1>2 DEF Txn
<1>4. /\ txn' = [txn EXCEPT ![s] = new] /\ draft' = [draft EXCEPT ![j] = row]
      /\ lock' = [lock EXCEPT ![j] = s]
  BY DEF Write
<1> HIDE DEF new
<1>5. Respects(s, j, row, new) /\ txn[s].told.lease = NoLease
  BY <1>3, NothingToldYet
<1>6. QED
  BY <1>3, <1>4, <1>5, WriteKeeps

LEMMA BeginKeeps ==
  ASSUME TypeInv, LeaseInv, NEW s \in Session, NEW op \in Operation, Begin(s, op)
  PROVE  LeaseInv'
<1> DEFINE new == [Idle EXCEPT !.op = op, !.pc = "begun", !.start = clock]
<1>1. new \in Txn /\ new.told.lease = NoLease /\ new.start = clock
  BY IdleType DEF Txn, Idle, Silent, TypeInv, TypeOK
<1>2. txn[s].told.lease = NoLease /\ txn[s].start <= clock /\ clock \in Nat
  BY DEF Begin, Idle, Silent, TypeInv, TypeOK
<1>3. txn' = [txn EXCEPT ![s] = new] /\ Committed /\ UNCHANGED draft /\ UNCHANGED lock
  BY DEF Begin
<1> HIDE DEF new
<1>4. new.start <= clock
  BY <1>1, <1>2
<1>5. QED
  BY <1>1, <1>2, <1>3, <1>4, MoveKeeps

LEMMA SubmitKeeps ==
  ASSUME TypeInv, LeaseInv, NEW s \in Session, Submit(s) PROVE LeaseInv'
<1>1. PICK input \in SubmitInputs : SubmitDuplicate(s, input) \/ SubmitInsert(s, input)
  BY DEF Submit
<1>2. input \in SubmitInput /\ input.queue \in Queue /\ Committed
  BY PgAssumption DEF Submit, SubmitInput
<1>3. /\ txn[s] \in Txn /\ txn[s].told.lease = NoLease
      /\ txn[s].start \in Nat /\ txn[s].start <= clock
  BY NothingToldYet DEF Submit, At, LeaseInv, StartsPast, TypeInv, TypeOK, Txn
<1>4. CASE SubmitDuplicate(s, input)
  <2> DEFINE new == [txn[s] EXCEPT !.pc = "ready", !.queue = input.queue]
  <2>1. new \in Txn /\ new.told = txn[s].told /\ new.start = txn[s].start
    BY <1>2, <1>3 DEF Txn
  <2>2. txn' = [txn EXCEPT ![s] = new] /\ UNCHANGED draft /\ UNCHANGED lock
    BY <1>4 DEF SubmitDuplicate
  <2> HIDE DEF new
  <2>3. new.told.lease = NoLease /\ txn[s].start <= new.start /\ new.start <= clock
    BY <1>3, <2>1
  <2>4. QED
    BY <1>2, <1>3, <2>1, <2>2, <2>3, MoveKeeps
<1>5. CASE SubmitInsert(s, input)
  <2>1. PICK j \in Job, n \in CallerNow :
          LET row == NewRow(input, txn[s].start, n) IN
          /\ draft[j] = NoRow
          /\ lock' = [lock EXCEPT ![j] = s]
          /\ draft' = [draft EXCEPT ![j] = row]
          /\ txn' = [txn EXCEPT ![s].pc = "ready", ![s].queue = input.queue,
                       ![s].events = <<Event("submitted", j, "none", row.status)>>]
    BY <1>5 DEF SubmitInsert
  <2> DEFINE row == NewRow(input, txn[s].start, n)
             es == <<Event("submitted", j, "none", row.status)>>
             new == [txn[s] EXCEPT !.pc = "ready", !.queue = input.queue, !.events = es]
  <2>2. row \in Row /\ row.status \in Status /\ Shape(row) /\ row.lease = NoLease
    BY <1>2, <1>3, CallerNowType, NewRowType
  <2>3. /\ txn' = [txn EXCEPT ![s] = new] /\ draft' = [draft EXCEPT ![j] = row]
        /\ lock' = [lock EXCEPT ![j] = s] /\ draft[j] = NoRow
    BY <2>1
  <2> HIDE DEF row
  <2>4. es \in Seq(EventRecord)
    <3>1. "submitted" \in EventTypes
      BY DEF EventTypes
    <3>2. QED
      BY <2>2, <3>1, EventType, OneEventType
  <2> HIDE DEF es
  <2>5. new \in Txn /\ new.told = txn[s].told /\ new.start = txn[s].start
    BY <1>2, <1>3, <2>4 DEF Txn
  <2> HIDE DEF new
  <2>6. LeaseOf(jobs[j]) = NoLease
    BY <2>3 DEF LeaseOf, TypeInv, RowsStay
  <2>7. Respects(s, j, row, new)
    BY <1>3, <2>2, <2>5, <2>6 DEF Respects
  <2>8. QED
    BY <1>2, <1>3, <2>2, <2>3, <2>5, <2>7, WriteKeeps
<1>6. QED
  BY <1>1, <1>4, <1>5

LEMMA ReapScanKeeps ==
  ASSUME TypeInv, LeaseInv, NEW s \in Session, ReapScan(s) PROVE LeaseInv'
<1> DEFINE rows == {j \in Stored : Expired(jobs[j], txn[s].start)}
           new == [txn[s] EXCEPT !.pc = "reaping", !.todo = rows]
<1>1. rows \in SUBSET Job
  BY DEF Stored
<1>2. txn' = [txn EXCEPT ![s] = new] /\ Committed /\ UNCHANGED draft /\ UNCHANGED lock
  BY DEF ReapScan
<1> HIDE DEF rows
<1>3. new \in Txn /\ new.told = txn[s].told /\ new.start = txn[s].start
  BY <1>1 DEF TypeInv, TypeOK, Txn
<1>4. txn[s].told.lease = NoLease /\ txn[s].start \in Nat /\ txn[s].start <= clock
  BY NothingToldYet DEF ReapScan, At, LeaseInv, StartsPast, TypeInv, TypeOK, Txn
<1> HIDE DEF new
<1>5. new.told.lease = NoLease /\ txn[s].start <= new.start /\ new.start <= clock
  BY <1>3, <1>4
<1>6. QED
  BY <1>2, <1>3, <1>4, <1>5, MoveKeeps

\* The row that is taken back is the committed one, and its lease has run out.
LEMMA ReapRowKeeps ==
  ASSUME TypeInv, LeaseInv, NEW s \in Session, NEW j \in Job, ReapRow(s, j)
  PROVE  LeaseInv'
<1>0. jobs[j] # NoRow
  BY DEF ReapRow, TypeInv, RowsStay, Stored
<1>1. /\ txn[s] \in Txn /\ jobs[j] \in Row /\ txn[s].start \in Nat
      /\ txn[s].events \in Seq(EventRecord) /\ txn[s].start <= clock
  BY <1>0 DEF LeaseInv, StartsPast, TypeInv, TypeOK, Txn
<1>2. /\ lock' = [lock EXCEPT ![j] = s] /\ Committed /\ Unlocked(j)
      /\ txn[s].told.lease = NoLease
  BY NothingToldYet DEF ReapRow, At
<1>3. CASE Expired(jobs[j], txn[s].start)
  <2> DEFINE row == Reaped(jobs[j], txn[s].start)
             es == Append(txn[s].events, ReapEvent(j, row.status))
             new == [txn[s] EXCEPT !.todo = @ \ {j}, !.events = es]
  <2>1. draft' = [draft EXCEPT ![j] = row] /\ txn' = [txn EXCEPT ![s] = new]
    BY <1>3 DEF ReapRow, StillExpired
  <2>2. row \in Row /\ Shape(row) /\ row.lease = NoLease
    BY <1>1, ReapedType
  <2> HIDE DEF row
  <2>3. row.status \in Status
    BY <2>2 DEF Row
  <2>4. es \in Seq(EventRecord)
    BY <1>1, <2>3, ReapEventType, AppendProperties
  <2> HIDE DEF es
  <2>5. new \in Txn /\ new.told = txn[s].told /\ new.start = txn[s].start
    BY <1>1, <2>4 DEF Txn
  <2> HIDE DEF new
  <2>6. UntilOf(jobs[j]) <= new.start
    BY <1>0, <1>3, <2>5 DEF Expired, UntilOf
  <2>7. Respects(s, j, row, new)
    BY <1>2, <2>2, <2>5, <2>6 DEF Respects
  <2>8. lock[j] \in {NoSession, s}
    BY <1>2 DEF Unlocked
  <2>9. QED
    BY <1>2, <2>1, <2>2, <2>5, <2>7, <2>8, WriteKeeps
<1>4. CASE ~Expired(jobs[j], txn[s].start)
  <2> DEFINE new == [txn[s] EXCEPT !.todo = @ \ {j}]
  <2>1. UNCHANGED draft /\ txn' = [txn EXCEPT ![s] = new]
    BY <1>4 DEF ReapRow, StillExpired
  <2>2. new \in Txn /\ new.told = txn[s].told /\ new.start = txn[s].start
    BY <1>1 DEF Txn
  <2> HIDE DEF new
  <2>3. new.told.lease = NoLease /\ txn[s].start <= new.start /\ new.start <= clock
    BY <1>1, <1>2, <2>2
  <2>4. QED
    BY <1>1, <1>2, <2>1, <2>2, <2>3, MoveKeeps
<1>5. QED
  BY <1>3, <1>4

\* A claim gives the fresh lease to a row that has none: only a held or cancelled
\* row has one, and neither can be claimed.
LEMMA ClaimLeaseKeeps ==
  ASSUME TypeInv, LeaseInv, NEW s \in Session, ClaimLease(s) PROVE LeaseInv'
<1>0. PICK q \in Queue, l \in FreshLease, v \in Duration : \E j \in Best(s, q) :
       Write(s, j, Leased(draft[j], l, txn[s].start + v),
             <<Event("claimed", j, draft[j].status, "processing")>>,
             Tell(l, j, txn[s].start + v))
  BY DEF ClaimLease
<1>1. PICK j \in Best(s, q) :
       Write(s, j, Leased(draft[j], l, txn[s].start + v),
             <<Event("claimed", j, draft[j].status, "processing")>>,
             Tell(l, j, txn[s].start + v))
  BY <1>0
<1>2. /\ j \in Job /\ draft[j] # NoRow /\ draft[j].status \in Claimable
      /\ lock[j] \in {NoSession, s}
  BY DEF Best, Candidates, Ready
<1>3. l \in Lease /\ l # NoLease /\ issued[l].job = NoJob
  BY NullAssumption DEF FreshLease
<1>4. draft[j] \in Row /\ draft[j].status \in Status
  BY <1>2 DEF TypeInv, TypeOK, Row
<1>5. txn[s].start + v \in Nat /\ Committed /\ txn[s].pc # "ready"
  BY PgAssumption DEF ClaimLease, ReapDone, At, TypeInv, TypeOK, Txn
<1> DEFINE until == txn[s].start + v
           row == Leased(draft[j], l, until)
           e == Event("claimed", j, draft[j].status, "processing")
           es == <<e>>
           told == Tell(l, j, until)
<1>6. row \in Row /\ Shape(row) /\ row.lease = l /\ row.until = until
  BY <1>3, <1>4, <1>5, LeasedType
<1>7. es \in Seq(EventRecord)
  <2>1. "processing" \in Status /\ "claimed" \in EventTypes
    BY DEF Status, EventTypes
  <2>2. e \in EventRecord
    BY <1>2, <1>4, <2>1, EventType
  <2> HIDE DEF e
  <2>3. QED
    BY <2>2, OneEventType
<1>8. told \in [lease: Lease \cup {NoLease}, job: Job \cup {NoJob}, until: Nat]
  BY <1>2, <1>3, <1>5, TellType
<1>9. told.lease = l /\ told.job = j /\ told.until = until
  BY DEF Tell
<1>10. Write(s, j, row, es, told)
  BY <1>1
<1> HIDE DEF row, es
<1>11. LeaseOf(draft[j]) = NoLease
  BY <1>2 DEF LeaseInv, WellShaped, Shape, Claimable, Held, LeaseOf
<1>12. \/ LeaseOf(jobs[j]) = NoLease
       \/ UntilOf(jobs[j]) <= txn[s].start
  <2>1. CASE lock[j] = NoSession
    BY <1>2, <1>11, <2>1 DEF LeaseInv, UnlockedRowsAgree, Unlocked
  <2>2. CASE lock[j] = s
    <3>1. txn[s].told.lease = NoLease
      BY <1>5, NothingToldYet
    <3>2. QED
      BY <1>2, <1>11, <2>2, <3>1 DEF LeaseInv, LostLeasesAreOver, HeldBy, SameLease
  <2>3. QED
    BY <1>2, <2>1, <2>2
<1>13. ASSUME NEW new \in Txn,
              new.start = txn[s].start, new.pc = "ready", new.told = told
       PROVE  Respects(s, j, row, new)
  <2>1. new.told = Tell(row.lease, j, row.until)
    BY <1>6, <1>13
  <2> HIDE DEF told
  <2>2. QED
    BY <1>3, <1>6, <1>9, <1>12, <1>13, <2>1 DEF Respects
<1> HIDE DEF told, until
<1>14. QED
  BY <1>2, <1>5, <1>6, <1>7, <1>8, <1>10, <1>13, StatementKeeps

\* A heartbeat keeps the lease and tells the new expiry.
LEMMA HeartbeatKeeps ==
  ASSUME TypeInv, LeaseInv, NEW s \in Session, HeartbeatUpdate(s) PROVE LeaseInv'
<1>1. PICK l \in Lease, j \in Stored, v \in Duration :
        /\ Renewable(jobs[j], l, txn[s].start) /\ Unlocked(j)
        /\ Write(s, j, Renewed(jobs[j], txn[s].start + v),
                 <<Event("heartbeat", j, "processing", "processing")>>,
                 Tell(l, j, txn[s].start + v))
  BY DEF HeartbeatUpdate
<1> DEFINE until == txn[s].start + v
           row == Renewed(jobs[j], until)
           e == Event("heartbeat", j, "processing", "processing")
           es == <<e>>
           told == Tell(l, j, until)
<1>2. /\ j \in Job /\ jobs[j] # NoRow /\ jobs[j] \in Row /\ until \in Nat
      /\ Committed /\ txn[s].pc # "ready"
  BY PgAssumption DEF HeartbeatUpdate, At, Stored, TypeInv, TypeOK, Txn
<1>3. draft[j] = jobs[j] /\ lock[j] \in {NoSession, s} /\ Shape(jobs[j])
  BY <1>1, <1>2 DEF LeaseInv, UnlockedRowsAgree, Unlocked, WellShaped
<1>4. jobs[j].lease = l /\ LeaseOf(jobs[j]) = l /\ LeaseOf(draft[j]) = l /\ l # NoLease
  BY <1>1, <1>2, <1>3, NullAssumption DEF Renewable, LeaseOf
<1>5. row \in Row /\ Shape(row) /\ row.lease = l /\ row.until = until
  BY <1>2, <1>3, <1>4, RenewedType
<1>6. es \in Seq(EventRecord)
  <2>1. "heartbeat" \in EventTypes /\ "processing" \in Status
    BY DEF EventTypes, Status
  <2>2. e \in EventRecord
    BY <1>2, <2>1, EventType
  <2> HIDE DEF e
  <2>3. QED
    BY <2>2, OneEventType
<1>7. told \in [lease: Lease \cup {NoLease}, job: Job \cup {NoJob}, until: Nat]
  BY <1>2, TellType
<1>8. told.lease = l /\ told.job = j /\ told.until = until
  BY DEF Tell
<1>9. Write(s, j, row, es, told)
  BY <1>1
<1> HIDE DEF row, es
<1>10. ASSUME NEW new \in Txn,
              new.start = txn[s].start, new.pc = "ready", new.told = told
       PROVE  Respects(s, j, row, new)
  <2>1. new.told = Tell(row.lease, j, row.until)
    BY <1>5, <1>10
  <2> HIDE DEF told
  <2>2. QED
    BY <1>4, <1>5, <1>8, <1>10, <2>1 DEF Respects
<1> HIDE DEF told, until
<1>11. QED
  BY <1>2, <1>3, <1>5, <1>6, <1>7, <1>9, <1>10, StatementKeeps

\* An acknowledgement takes off the lease its caller presented.
LEMMA AcknowledgeKeeps ==
  ASSUME TypeInv, LeaseInv, NEW s \in Session, Acknowledge(s) PROVE LeaseInv'
<1> DEFINE op == txn[s].op
           row(j) == Acknowledged(op, jobs[j], txn[s].start)
<1>1. PICK l \in Lease, j \in Stored, n \in CallerNow :
        /\ Unlocked(j)
        /\ \/ /\ Owned(jobs[j], l, n)
              /\ Write(s, j, row(j), AckEvents(op, j, jobs[j], row(j)), Tell(l, j, 0))
           \/ LockOnly(s, j, "failing")
  BY DEF Acknowledge
<1>2. /\ j \in Job /\ jobs[j] # NoRow /\ jobs[j] \in Row /\ txn[s].start \in Nat
      /\ Committed /\ txn[s].pc # "ready"
  BY DEF Acknowledge, Stored, TypeInv, TypeOK, Txn
<1>3. CASE LockOnly(s, j, "failing")
  BY <1>1, <1>2, <1>3, LockOnlyKeeps
<1>4. CASE /\ Owned(jobs[j], l, n)
           /\ Write(s, j, row(j), AckEvents(op, j, jobs[j], row(j)), Tell(l, j, 0))
  <2>1. row(j) \in Row /\ Shape(row(j)) /\ row(j).lease = NoLease
    BY <1>2, CompletedType, FailedType DEF Acknowledged
  <2>2. AckEvents(op, j, jobs[j], row(j)) \in Seq(EventRecord)
    BY <1>2, <2>1, AckEventsType
  <2> DEFINE told == Tell(l, j, 0)
  <2>3. told \in [lease: Lease \cup {NoLease}, job: Job \cup {NoJob}, until: Nat]
    BY <1>2, TellType
  <2>4. told.lease = l /\ told.job = j /\ told.until = 0
    BY DEF Tell
  <2>5. LeaseOf(jobs[j]) = l /\ lock[j] \in {NoSession, s}
    BY <1>1, <1>2, <1>4 DEF Owned, LeaseOf, Unlocked
  <2>6. Write(s, j, row(j), AckEvents(op, j, jobs[j], row(j)), told)
    BY <1>4
  <2> HIDE DEF row, op, told
  <2>7. ASSUME NEW new \in Txn,
               new.start = txn[s].start, new.pc = "ready", new.told = told
        PROVE  Respects(s, j, row(j), new)
    BY <2>1, <2>4, <2>5, <2>7 DEF Respects
  <2>8. QED
    BY <1>2, <2>1, <2>2, <2>3, <2>5, <2>6, <2>7, StatementKeeps
<1>5. QED
  BY <1>1, <1>3, <1>4

\* A write that leaves lease and expiry as they were has nothing to tell.
LEMMA SilentKeeps ==
  ASSUME TypeInv, LeaseInv, NEW s \in Session, NEW j \in Stored, NEW row \in Row, Shape(row),
         NEW e \in EventRecord, Write(s, j, row, <<e>>, Silent), Committed,
         txn[s].pc # "ready", Unlocked(j),
         row.lease = jobs[j].lease, row.until = jobs[j].until
  PROVE  LeaseInv'
<1>1. j \in Job /\ lock[j] \in {NoSession, s} /\ draft[j] = jobs[j]
  BY DEF Stored, Unlocked, LeaseInv, UnlockedRowsAgree
<1>2. LeaseOf(jobs[j]) = row.lease /\ UntilOf(jobs[j]) = row.until
  BY DEF Stored, LeaseOf, UntilOf
<1> DEFINE es == <<e>>
<1>3. es \in Seq(EventRecord) /\ Write(s, j, row, es, Silent)
  BY OneEventType
<1> HIDE DEF es
<1>4. ASSUME NEW new \in Txn,
             new.start = txn[s].start, new.pc = "ready", new.told = Silent
      PROVE  Respects(s, j, row, new)
  <2>1. new.told.lease = NoLease
    BY <1>4 DEF Silent
  <2>2. QED
    BY <1>1, <1>2, <2>1 DEF Respects
<1>5. QED
  BY <1>1, <1>3, <1>4, SilentType, StatementKeeps

LEMMA CancelKeeps ==
  ASSUME TypeInv, LeaseInv, NEW s \in Session, Cancel(s) PROVE LeaseInv'
<1>1. PICK j \in Stored :
        /\ Unlocked(j)
        /\ CASE jobs[j].status = "cancelled" -> LockOnly(s, j, "ready")
             [] jobs[j].status \in Uncancellable -> LockOnly(s, j, "failing")
             [] OTHER ->
                  LET row == Cancelled(jobs[j]) IN
                  Write(s, j, row, <<Event(row.status, j, jobs[j].status, row.status)>>, Silent)
  BY DEF Cancel
<1> DEFINE row == Cancelled(jobs[j])
           e == Event(row.status, j, jobs[j].status, row.status)
<1>2. /\ j \in Job /\ jobs[j] \in Row /\ Shape(jobs[j]) /\ Committed /\ txn[s].pc # "ready"
  BY DEF Cancel, At, Stored, LeaseInv, WellShaped, TypeInv, TypeOK
<1>3. \/ LockOnly(s, j, "ready")
      \/ LockOnly(s, j, "failing")
      \/ jobs[j].status \notin Uncancellable /\ Write(s, j, row, <<e>>, Silent)
  BY <1>1
<1>4. CASE jobs[j].status \notin Uncancellable /\ Write(s, j, row, <<e>>, Silent)
  <2>1. /\ row \in Row /\ Shape(row)
        /\ row.lease = jobs[j].lease /\ row.until = jobs[j].until
    BY <1>2, <1>4, CancelledType
  <2>2. row.status \in {"cancel_requested", "cancelled"}
    BY <1>2 DEF Cancelled, Row
  <2>3. Write(s, j, row, <<e>>, Silent)
    BY <1>4
  <2> HIDE DEF row
  <2>4. e \in EventRecord
    <3>1. row.status \in EventTypes /\ row.status \in Status /\ jobs[j].status \in Status
      BY <1>2, <2>2 DEF EventTypes, Status, Row
    <3>2. QED
      BY <1>2, <3>1, EventType
  <2> HIDE DEF e
  <2>5. QED
    BY <1>1, <1>2, <2>1, <2>3, <2>4, SilentKeeps
<1>5. QED
  BY <1>1, <1>2, <1>3, <1>4, LockOnlyKeeps

LEMMA RetryKeeps ==
  ASSUME TypeInv, LeaseInv, NEW s \in Session, RetryUpdate(s) PROVE LeaseInv'
<1>1. PICK j \in Stored :
        /\ jobs[j].status = "dead_letter" /\ Unlocked(j)
        /\ Write(s, j, Retried(jobs[j], txn[s].start),
                 <<Event("manual_retry", j, "dead_letter", "queued")>>, Silent)
  BY DEF RetryUpdate
<1> DEFINE row == Retried(jobs[j], txn[s].start)
           e == Event("manual_retry", j, "dead_letter", "queued")
<1>2. /\ j \in Job /\ jobs[j] \in Row /\ Shape(jobs[j]) /\ txn[s].start \in Nat
      /\ Committed /\ txn[s].pc # "ready"
  BY DEF RetryUpdate, At, Stored, LeaseInv, WellShaped, TypeInv, TypeOK, Txn
<1>3. /\ row \in Row /\ Shape(row)
      /\ row.lease = jobs[j].lease /\ row.until = jobs[j].until
  BY <1>1, <1>2, RetriedType
<1>4. e \in EventRecord
  <2>1. "manual_retry" \in EventTypes /\ {"dead_letter", "queued"} \subseteq Status
    BY DEF EventTypes, Status
  <2>2. QED
    BY <1>2, <2>1, EventType
<1>5. Write(s, j, row, <<e>>, Silent)
  BY <1>1
<1> HIDE DEF row, e
<1>6. QED
  BY <1>1, <1>2, <1>3, <1>4, <1>5, SilentKeeps

-------------------------------------------------------------------------------
IInv == TypeInv /\ LeaseInv

LEMMA LeaseStep ==
  ASSUME IInv, [Next]_vars PROVE IInv'
<1> USE DEF IInv
<1>1. TypeInv'
  BY TypeStep
<1>2. CASE UNCHANGED vars
  <2>1. UNCHANGED <<jobs, draft, lock, txn, issued, clock>>
    BY <1>2 DEF vars
  <2>2. /\ WellShaped' /\ UnlockedRowsAgree' /\ StartsPast' /\ OneBearer'
        /\ CommittedLeasesAreIssued' /\ LiveLease'
    BY <2>1 DEF LeaseInv, WellShaped, UnlockedRowsAgree, Unlocked, StartsPast, OneBearer,
                Bears, CommittedLeasesAreIssued, LiveLease
  <2>3. DraftLeasesAreTold' /\ LostLeasesAreOver' /\ ToldIsWritten'
    BY <2>1 DEF LeaseInv, DraftLeasesAreTold, LostLeasesAreOver, ToldIsWritten,
                TellsWhatIsWritten, HeldBy, SameLease, Tells
  <2>4. QED
    BY <1>1, <2>2, <2>3 DEF LeaseInv
<1>3. CASE Tick
  BY <1>1, <1>3, TickKeeps
<1>4. ASSUME NEW s \in Session, NEW op \in Operation, Begin(s, op) PROVE LeaseInv'
  BY <1>4, BeginKeeps
<1>5. ASSUME NEW s \in Session, Abort(s) PROVE LeaseInv'
  BY <1>5, UndoKeeps DEF Abort
<1>6. ASSUME NEW s \in Session, Step(s) PROVE LeaseInv'
  <2>1. CASE Submit(s)
    BY <2>1, SubmitKeeps
  <2>2. CASE ReapScan(s)
    BY <2>2, ReapScanKeeps
  <2>3. ASSUME NEW j \in Job, ReapRow(s, j) PROVE LeaseInv'
    BY <2>3, ReapRowKeeps
  <2>4. CASE ClaimLease(s)
    BY <2>4, ClaimLeaseKeeps
  <2>5. CASE ClaimNothing(s) \/ NotFound(s)
    BY <2>5, GotoKeeps DEF ClaimNothing, NotFound, ReapDone, At
  <2>6. CASE HeartbeatRefused(s) \/ RetryRefused(s)
    BY <2>6, RefuseKeeps DEF HeartbeatRefused, RetryRefused, At, Stored
  <2>7. CASE HeartbeatUpdate(s)
    BY <2>7, HeartbeatKeeps
  <2>8. CASE Acknowledge(s)
    BY <2>8, AcknowledgeKeeps
  <2>9. CASE Cancel(s)
    BY <2>9, CancelKeeps
  <2>10. CASE RetryUpdate(s)
    BY <2>10, RetryKeeps
  <2>11. CASE Commit(s)
    BY <2>11, CommitKeeps
  <2>12. CASE Rollback(s)
    BY <2>12, UndoKeeps DEF Rollback
  <2>13. QED
    BY <1>6, <2>1, <2>2, <2>3, <2>4, <2>5, <2>6, <2>7, <2>8, <2>9, <2>10, <2>11, <2>12
       DEF Step
<1>7. QED
  BY <1>1, <1>2, <1>3, <1>4, <1>5, <1>6 DEF Next

LEMMA LeaseInvariant == Spec => []IInv
<1>1. Init => IInv
  BY TypeInit, LeaseInit DEF IInv
<1>2. IInv /\ [Next]_vars => IInv'
  BY LeaseStep
<1>3. QED
  BY <1>1, <1>2, PTL DEF Spec

\* While the expiry a lease holder was told lies ahead, the store agrees that it
\* holds the job, whatever concurrent calls do: at no time do two workers hold
\* unexpired leases on one job.
THEOREM LiveLeasesAreCurrent == Spec => []LiveLeaseIsCurrent
<1>1. IInv => LiveLeaseIsCurrent
  <2> SUFFICES ASSUME IInv, NEW l \in Lease, issued[l].until > clock
               PROVE  /\ jobs[issued[l].job].lease = l
                      /\ jobs[issued[l].job].until = issued[l].until
    BY DEF LiveLeaseIsCurrent
  <2>1. /\ LeaseOf(jobs[issued[l].job]) = l
        /\ UntilOf(jobs[issued[l].job]) = issued[l].until
    BY DEF IInv, LeaseInv, LiveLease
  <2>2. jobs[issued[l].job] # NoRow
    BY <2>1, NullAssumption DEF LeaseOf
  <2>3. QED
    BY <2>1, <2>2 DEF LeaseOf, UntilOf
<1>2. QED
  BY <1>1, LeaseInvariant, PTL

\* A job in a worker's hands has a lease that was issued for it alone, and a job
\* that can be claimed, has completed or is dead-lettered has none.
THEOREM HeldJobsHaveTheirLease == Spec => []HeldJobsAreLeased
<1>1. IInv => HeldJobsAreLeased
  <2> SUFFICES ASSUME IInv, NEW j \in Stored
               PROVE  /\ Shape(jobs[j])
                      /\ jobs[j].lease # NoLease =>
                           issued[jobs[j].lease] = [job |-> j, until |-> jobs[j].until]
    BY DEF HeldJobsAreLeased, Shape
  <2>1. j \in Job /\ jobs[j] # NoRow
    BY DEF Stored
  <2>2. Shape(jobs[j])
    BY <2>1 DEF IInv, LeaseInv, WellShaped
  <2>3. jobs[j].lease = LeaseOf(jobs[j]) /\ jobs[j].until = UntilOf(jobs[j])
    BY <2>1 DEF LeaseOf, UntilOf
  <2>4. QED
    BY <2>1, <2>2, <2>3 DEF IInv, LeaseInv, CommittedLeasesAreIssued
<1>2. QED
  BY <1>1, LeaseInvariant, PTL

\* Only a commit changes committed rows.
LEMMA OnlyCommitChangesJobs ==
  ASSUME [Next]_vars
  PROVE  UNCHANGED jobs \/ \E s \in Session : Commit(s)
  BY DEF Next, vars, Step, Begin, Abort, Tick, Submit, ReapScan, ReapRow, ClaimLease,
         ClaimNothing, NotFound, HeartbeatUpdate, HeartbeatRefused, Acknowledge, Cancel,
         RetryUpdate, RetryRefused, Rollback, Undo, Committed

\* A lease that has left its job's row never comes back, so no late write of a
\* stale worker or claim can resurrect it.
THEOREM LeasesNeverReturn == Spec => LeaseNeverReturns
<1> DEFINE StayGone ==
             \A l \in Lease :
               issued[l].job # NoJob /\ (\A j \in Stored : jobs[j].lease # l) =>
                 \A j \in Job : jobs'[j] # NoRow => jobs'[j].lease # l
<1>1. IInv /\ [Next]_vars => StayGone
  <2> SUFFICES ASSUME IInv, [Next]_vars, NEW l \in Lease, issued[l].job # NoJob,
                      \A i \in Stored : jobs[i].lease # l,
                      NEW j \in Job, jobs'[j] # NoRow, jobs'[j].lease = l
               PROVE  FALSE
    OBVIOUS
  <2>1. LeaseOf(jobs[j]) # l
    BY NullAssumption DEF LeaseOf, Stored
  <2>2. PICK s \in Session : Commit(s)
    BY <2>1, OnlyCommitChangesJobs DEF LeaseOf
  <2>3. lock[j] = s /\ LeaseOf(draft[j]) = l
    BY <2>1, <2>2 DEF Commit, LeaseOf
  <2>4. l # NoLease /\ ~SameLease(j)
    BY <2>1, <2>3, NullAssumption DEF SameLease
  <2>5. Tells(s, j)
    BY <2>3, <2>4 DEF IInv, LeaseInv, DraftLeasesAreTold, HeldBy
  <2>6. txn[s].told.lease = l /\ txn[s].told.job = j
    BY <2>3, <2>5 DEF Tells, Tell
  <2>7. issued[l].job = NoJob
    BY <2>1, <2>4, <2>6 DEF IInv, LeaseInv, ToldIsWritten, TellsWhatIsWritten
  <2>8. QED
    BY <2>7
<1>2. Spec => [][StayGone]_vars
  <2> HIDE DEF StayGone
  <2>1. QED
    BY <1>1, LeaseInvariant, PTL DEF Spec
<1>3. QED
  BY <1>2 DEF LeaseNeverReturns

-------------------------------------------------------------------------------
(* Rows: the retry budget, the idempotency keys and the final states.  Each is *)
(* about committed rows and follows from the same fact about the versions that *)
(* open transactions have written, so the invariant relates a row to its draft; *)
(* the rows a claim holds when it chooses one are the only drafts that are     *)
(* written twice.                                                              *)

InBudget(row) == /\ row.status = "retrying" => row.attempts <= row.maxRetries
                 /\ row.status = "dead_letter" => row.attempts > row.maxRetries

\* A committed row may be replaced by a later version.
Follows(old, new) ==
  /\ new.key = old.key
  /\ old.status \in {"completed", "cancelled"} => new = old
  /\ old.status = "dead_letter" /\ new # old => new.status = "queued" /\ new.attempts = 0

BudgetsHold == \A j \in Job : /\ jobs[j] # NoRow => InBudget(jobs[j])
                              /\ draft[j] # NoRow => InBudget(draft[j])

DraftsFollow == \A j \in Job : jobs[j] # NoRow => Follows(jobs[j], draft[j])

\* A transaction holds no row before its first statement, and one that is taking
\* back leases has written only rows that were in a worker's hands.
Untouched(j) == jobs[j] # NoRow /\ (draft[j] = jobs[j] \/ jobs[j].status \in Held)
HoldsWhatItTookBack(s) ==
  /\ txn[s].pc \in {"idle", "begun"} => HeldBy(s) = {}
  /\ txn[s].pc = "reaping" => \A j \in HeldBy(s) : Untouched(j)
ClaimsTakeBack == \A s \in Session : HoldsWhatItTookBack(s)

KeysDiffer ==
  \A i, j \in Job : draft[i] # NoRow /\ draft[j] # NoRow /\ draft[i].key # NoKey
                    /\ draft[i].key = draft[j].key => i = j

RowInv == BudgetsHold /\ DraftsFollow /\ ClaimsTakeBack /\ KeysDiffer

LEMMA RowInit == Init => RowInv
<1> SUFFICES ASSUME Init PROVE RowInv
  OBVIOUS
<1>1. \A j \in Job : jobs[j] = NoRow /\ draft[j] = NoRow /\ lock[j] = NoSession
  BY DEF Init
<1>2. \A s \in Session : HeldBy(s) = {}
  BY <1>1, SessionAssumption DEF HeldBy
<1>3. QED
  BY <1>1, <1>2 DEF RowInv, BudgetsHold, DraftsFollow, ClaimsTakeBack, HoldsWhatItTookBack,
                    KeysDiffer

-------------------------------------------------------------------------------
(* The row transformers                                                        *)

LEMMA NewRowFacts ==
  ASSUME NEW input, NEW created, NEW now
  PROVE  InBudget(NewRow(input, created, now)) /\ NewRow(input, created, now).key = input.key
  BY DEF NewRow, InBudget

LEMMA ReapedFacts ==
  ASSUME NEW row \in Row, NEW now
  PROVE  InBudget(Reaped(row, now)) /\ Reaped(row, now).key = row.key
<1> DEFINE status == IF row.status = "cancel_requested" THEN "cancelled" ELSE "queued"
           new == [Released(row, status) EXCEPT !.available = now]
<1>1. Reaped(row, now) = new
  BY DEF Reaped
<1>2. status \notin {"retrying", "dead_letter"}
  OBVIOUS
<1> HIDE DEF status
<1>3. new.status = status /\ new.key = row.key
  BY DEF Released, Row
<1> HIDE DEF new
<1>4. QED
  BY <1>1, <1>2, <1>3 DEF InBudget

LEMMA LeasedFacts ==
  ASSUME NEW row \in Row, NEW l, NEW until
  PROVE  InBudget(Leased(row, l, until)) /\ Leased(row, l, until).key = row.key
  BY DEF Leased, Row, InBudget

LEMMA RenewedFacts ==
  ASSUME NEW row \in Row, NEW until, row.status = "processing"
  PROVE  InBudget(Renewed(row, until)) /\ Renewed(row, until).key = row.key
  BY DEF Renewed, Row, InBudget

LEMMA CompletedFacts ==
  ASSUME NEW row \in Row
  PROVE  InBudget(Completed(row)) /\ Completed(row).key = row.key
  BY DEF Completed, Released, Row, InBudget

\* fail schedules the job again exactly while it has retries left.
LEMMA FailedFacts ==
  ASSUME NEW row \in Row, NEW now \in Nat
  PROVE  InBudget(Failed(row, now)) /\ Failed(row, now).key = row.key
<1>1. CASE row.status = "cancel_requested"
  BY <1>1 DEF Failed, Released, Row, InBudget
<1>2. CASE row.status # "cancel_requested" /\ row.attempts <= row.maxRetries
  <2> DEFINE when == now + RetryDelay(row.attempts)
             new == [Released(row, "retrying") EXCEPT !.available = when]
  <2>1. Failed(row, now) = new
    BY <1>2 DEF Failed
  <2> HIDE DEF when
  <2>2. /\ new.status = "retrying" /\ new.key = row.key
        /\ new.attempts = row.attempts /\ new.maxRetries = row.maxRetries
    BY DEF Released, Row
  <2> HIDE DEF new
  <2>3. QED
    BY <1>2, <2>1, <2>2 DEF InBudget
<1>3. CASE row.status # "cancel_requested" /\ ~(row.attempts <= row.maxRetries)
  BY <1>3 DEF Failed, Released, Row, InBudget
<1>4. QED
  BY <1>1, <1>2, <1>3

LEMMA CancelledFacts ==
  ASSUME NEW row \in Row
  PROVE  InBudget(Cancelled(row)) /\ Cancelled(row).key = row.key
  BY DEF Cancelled, Row, InBudget

LEMMA RetriedFacts ==
  ASSUME NEW row \in Row, NEW now
  PROVE  /\ InBudget(Retried(row, now)) /\ Retried(row, now).key = row.key
         /\ Retried(row, now).status = "queued" /\ Retried(row, now).attempts = 0
  BY DEF Retried, Row, InBudget

-------------------------------------------------------------------------------
(* Steps inside a transaction                                                  *)

\* A step that leaves the rows alone and locks at most one it may look at.
LEMMA RowMove ==
  ASSUME IInv, RowInv, NEW s \in Session, NEW new,
         txn' = [txn EXCEPT ![s] = new], Committed, UNCHANGED draft,
         \/ UNCHANGED lock
         \/ \E j \in Stored : Unlocked(j) /\ lock' = [lock EXCEPT ![j] = s],
         new.pc \in {"idle", "begun"} =>
           UNCHANGED lock /\ txn[s].pc \in {"idle", "begun"},
         new.pc = "reaping" => txn[s].pc \in {"begun", "reaping"}
  PROVE  RowInv'
<1>1. /\ UNCHANGED <<jobs, draft>>
      /\ \A o \in Session : txn'[o] = IF o = s THEN new ELSE txn[o]
  BY DEF Committed, IInv, TypeInv, TypeOK
<1>2. BudgetsHold' /\ DraftsFollow' /\ KeysDiffer'
  BY <1>1 DEF RowInv, BudgetsHold, DraftsFollow, KeysDiffer
<1>3. \A j \in Job : lock'[j] = lock[j] \/ (lock'[j] = s /\ Unlocked(j) /\ jobs[j] # NoRow)
  BY DEF Stored, IInv, TypeInv, TypeOK
<1>4. \A j \in Job : Unlocked(j) => draft[j] = jobs[j]
  BY DEF IInv, LeaseInv, UnlockedRowsAgree
<1>5. ASSUME NEW o \in Session PROVE HoldsWhatItTookBack(o)'
  <2>1. CASE o # s
    BY <1>1, <1>3, <2>1 DEF RowInv, ClaimsTakeBack, HoldsWhatItTookBack, HeldBy, Untouched
  <2>2. CASE o = s
    <3>1. new.pc \in {"idle", "begun"} => HeldBy(s)' = {}
      BY DEF RowInv, ClaimsTakeBack, HoldsWhatItTookBack, HeldBy
    <3>2. new.pc = "reaping" => \A j \in HeldBy(s)' : Untouched(j)
      BY <1>3, <1>4 DEF RowInv, ClaimsTakeBack, HoldsWhatItTookBack, HeldBy, Untouched
    <3>3. QED
      BY <1>1, <2>2, <3>1, <3>2 DEF HoldsWhatItTookBack, Untouched
  <2>3. QED
    BY <2>1, <2>2
<1>6. QED
  BY <1>2, <1>5 DEF RowInv, ClaimsTakeBack

\* A step that writes row j within its budget, after the committed version, with
\* a key no other row has.
LEMMA RowWrite ==
  ASSUME IInv, RowInv, NEW s \in Session, NEW j \in Job, NEW row, NEW new,
         txn' = [txn EXCEPT ![s] = new], draft' = [draft EXCEPT ![j] = row],
         lock' = [lock EXCEPT ![j] = s], Committed,
         InBudget(row), jobs[j] # NoRow => Follows(jobs[j], row),
         \A i \in Job \ {j} :
           draft[i] # NoRow /\ row.key # NoKey => draft[i].key # row.key,
         \/ new.pc = "ready"
         \/ /\ new.pc = "reaping" /\ txn[s].pc = "reaping"
            /\ jobs[j] # NoRow /\ jobs[j].status \in Held
  PROVE  RowInv'
<1>1. /\ UNCHANGED jobs
      /\ \A o \in Session : txn'[o] = IF o = s THEN new ELSE txn[o]
      /\ \A i \in Job : draft'[i] = IF i = j THEN row ELSE draft[i]
      /\ \A i \in Job : lock'[i] = IF i = j THEN s ELSE lock[i]
  BY DEF Committed, IInv, TypeInv, TypeOK
<1>2. BudgetsHold' /\ DraftsFollow'
  BY <1>1 DEF RowInv, BudgetsHold, DraftsFollow
<1>3. KeysDiffer'
  BY <1>1 DEF RowInv, KeysDiffer
<1>4. ASSUME NEW o \in Session PROVE HoldsWhatItTookBack(o)'
  <2>1. CASE o # s
    BY <1>1, <2>1 DEF RowInv, ClaimsTakeBack, HoldsWhatItTookBack, HeldBy, Untouched
  <2>2. CASE o = s
    <3>1. new.pc \notin {"idle", "begun"}
      OBVIOUS
    <3>2. new.pc = "reaping" => \A i \in HeldBy(s)' : Untouched(i)'
      BY <1>1 DEF RowInv, ClaimsTakeBack, HoldsWhatItTookBack, HeldBy, Untouched
    <3>3. QED
      BY <1>1, <2>2, <3>1, <3>2 DEF HoldsWhatItTookBack
  <2>3. QED
    BY <2>1, <2>2
<1>5. QED
  BY <1>2, <1>3, <1>4 DEF RowInv, ClaimsTakeBack
LEMMA RowGoto ==
  ASSUME IInv, RowInv, NEW s \in Session, NEW pc \in {"ready", "failing"},
         Goto(s, pc), Committed, UNCHANGED draft,
         \/ UNCHANGED lock
         \/ \E j \in Stored : Unlocked(j) /\ lock' = [lock EXCEPT ![j] = s]
  PROVE  RowInv'
<1> DEFINE new == [txn[s] EXCEPT !.pc = pc]
<1>1. txn' = [txn EXCEPT ![s] = new]
  BY DEF Goto
<1>2. new.pc = pc
  BY DEF IInv, TypeInv, TypeOK, Txn
<1> HIDE DEF new
<1>3. QED
  BY <1>1, <1>2, RowMove

LEMMA RowLockOnly ==
  ASSUME IInv, RowInv, NEW s \in Session, NEW pc \in {"ready", "failing"},
         NEW j \in Stored, Unlocked(j), LockOnly(s, j, pc), Committed
  PROVE  RowInv'
  BY RowGoto DEF LockOnly

LEMMA RowRefuse ==
  ASSUME IInv, RowInv, NEW s \in Session, NEW j \in Stored, Refuse(s, j), Committed
  PROVE  RowInv'
  BY RowGoto, RowLockOnly DEF Refuse

\* A statement that writes a row and keeps its key.
LEMMA RowStatement ==
  ASSUME IInv, RowInv, NEW s \in Session, NEW j \in Job, NEW row, NEW es, NEW told,
         Write(s, j, row, es, told), Committed,
         draft[j] # NoRow, row.key = draft[j].key, InBudget(row),
         jobs[j] # NoRow => Follows(jobs[j], row)
  PROVE  RowInv'
<1> DEFINE new == [txn[s] EXCEPT !.pc = "ready", !.events = @ \o es, !.told = told]
<1>1. /\ txn' = [txn EXCEPT ![s] = new] /\ draft' = [draft EXCEPT ![j] = row]
      /\ lock' = [lock EXCEPT ![j] = s]
  BY DEF Write
<1>2. new.pc = "ready"
  BY DEF IInv, TypeInv, TypeOK, Txn
<1>3. \A i \in Job \ {j} : draft[i] # NoRow /\ row.key # NoKey => draft[i].key # row.key
  BY DEF RowInv, KeysDiffer
<1> HIDE DEF new
<1>4. QED
  BY <1>1, <1>2, <1>3, RowWrite

-------------------------------------------------------------------------------
(* The operations                                                              *)

LEMMA BeginRows ==
  ASSUME IInv, RowInv, NEW s \in Session, NEW op \in Operation, Begin(s, op)
  PROVE  RowInv'
<1> DEFINE new == [Idle EXCEPT !.op = op, !.pc = "begun", !.start = clock]
<1>1. txn' = [txn EXCEPT ![s] = new] /\ Committed /\ UNCHANGED draft /\ UNCHANGED lock
  BY DEF Begin
<1>2. new.pc = "begun" /\ txn[s].pc = "idle"
  BY DEF Begin, Idle
<1> HIDE DEF new
<1>3. QED
  BY <1>1, <1>2, RowMove

\* The unique index: a key that is stored answers, a key that is being stored is
\* waited for, so a new row's key is nobody else's (submit, ON CONFLICT).
LEMMA NewKeyIsNew ==
  ASSUME IInv, RowInv, NEW s \in Session, At(s, "submit", "begun"), NEW k,
         KeyFree(s, k), ~(k # NoKey /\ \E j \in Stored : jobs[j].key = k),
         NEW i \in Job, draft[i] # NoRow, k # NoKey
  PROVE  draft[i].key # k
<1>1. CASE jobs[i] # NoRow
  BY <1>1 DEF RowInv, DraftsFollow, Follows, Stored
<1>2. CASE jobs[i] = NoRow
  <2>1. ~Unlocked(i)
    BY <1>2 DEF IInv, LeaseInv, UnlockedRowsAgree
  <2>2. lock[i] \in Session
    BY <2>1 DEF Unlocked, IInv, TypeInv, TypeOK
  <2>3. HeldBy(s) = {}
    BY DEF At, RowInv, ClaimsTakeBack, HoldsWhatItTookBack
  <2>4. lock[i] \in Others(s)
    BY <2>2, <2>3 DEF Others, HeldBy
  <2>5. QED
    BY <1>2, <2>4 DEF KeyFree, Inserting, HeldBy
<1>3. QED
  BY <1>1, <1>2

LEMMA SubmitRows ==
  ASSUME IInv, RowInv, NEW s \in Session, Submit(s) PROVE RowInv'
<1>1. PICK input \in SubmitInputs :
        /\ KeyFree(s, input.key)
        /\ SubmitDuplicate(s, input) \/ SubmitInsert(s, input)
  BY DEF Submit
<1>2. Committed /\ At(s, "submit", "begun") /\ txn[s] \in Txn
  BY DEF Submit, IInv, TypeInv, TypeOK
<1>3. CASE SubmitDuplicate(s, input)
  <2> DEFINE new == [txn[s] EXCEPT !.pc = "ready", !.queue = input.queue]
  <2>1. txn' = [txn EXCEPT ![s] = new] /\ UNCHANGED draft /\ UNCHANGED lock
    BY <1>3 DEF SubmitDuplicate
  <2>2. new.pc = "ready"
    BY <1>2 DEF Txn
  <2> HIDE DEF new
  <2>3. QED
    BY <1>2, <2>1, <2>2, RowMove
<1>4. CASE SubmitInsert(s, input)
  <2>1. PICK j \in Job, n \in CallerNow :
          LET row == NewRow(input, txn[s].start, n) IN
          /\ draft[j] = NoRow
          /\ lock' = [lock EXCEPT ![j] = s]
          /\ draft' = [draft EXCEPT ![j] = row]
          /\ txn' = [txn EXCEPT ![s].pc = "ready", ![s].queue = input.queue,
                       ![s].events = <<Event("submitted", j, "none", row.status)>>]
    BY <1>4 DEF SubmitInsert
  <2> DEFINE row == NewRow(input, txn[s].start, n)
             es == <<Event("submitted", j, "none", row.status)>>
             new == [txn[s] EXCEPT !.pc = "ready", !.queue = input.queue, !.events = es]
  <2>2. InBudget(row) /\ row.key = input.key
    BY NewRowFacts
  <2>3. /\ txn' = [txn EXCEPT ![s] = new] /\ draft' = [draft EXCEPT ![j] = row]
        /\ lock' = [lock EXCEPT ![j] = s] /\ draft[j] = NoRow
    BY <2>1
  <2> HIDE DEF row, es
  <2>4. new.pc = "ready"
    BY <1>2 DEF Txn
  <2> HIDE DEF new
  <2>5. jobs[j] = NoRow
    BY <2>3 DEF IInv, TypeInv, RowsStay
  <2>6. \A i \in Job \ {j} : draft[i] # NoRow /\ row.key # NoKey => draft[i].key # row.key
    BY <1>1, <1>2, <1>4, <2>2, NewKeyIsNew DEF SubmitInsert
  <2>7. QED
    BY <1>2, <2>2, <2>3, <2>4, <2>5, <2>6, RowWrite
<1>5. QED
  BY <1>1, <1>3, <1>4

LEMMA ReapScanRows ==
  ASSUME IInv, RowInv, NEW s \in Session, ReapScan(s) PROVE RowInv'
<1> DEFINE rows == {j \in Stored : Expired(jobs[j], txn[s].start)}
           new == [txn[s] EXCEPT !.pc = "reaping", !.todo = rows]
<1>1. txn' = [txn EXCEPT ![s] = new] /\ Committed /\ UNCHANGED draft /\ UNCHANGED lock
  BY DEF ReapScan
<1> HIDE DEF rows
<1>2. new.pc = "reaping" /\ txn[s].pc = "begun"
  BY DEF ReapScan, At, IInv, TypeInv, TypeOK, Txn
<1> HIDE DEF new
<1>3. QED
  BY <1>1, <1>2, RowMove

LEMMA ReapRowRows ==
  ASSUME IInv, RowInv, NEW s \in Session, NEW j \in Job, ReapRow(s, j)
  PROVE  RowInv'
<1>1. /\ j \in Stored /\ jobs[j] # NoRow /\ jobs[j] \in Row /\ txn[s] \in Txn
      /\ txn[s].pc = "reaping" /\ Unlocked(j) /\ draft[j] = jobs[j]
      /\ lock' = [lock EXCEPT ![j] = s] /\ Committed
  BY DEF ReapRow, At, IInv, TypeInv, TypeOK, RowsStay, Stored, LeaseInv, UnlockedRowsAgree
<1>2. CASE Expired(jobs[j], txn[s].start)
  <2> DEFINE row == Reaped(jobs[j], txn[s].start)
             es == Append(txn[s].events, ReapEvent(j, row.status))
             new == [txn[s] EXCEPT !.todo = @ \ {j}, !.events = es]
  <2>1. draft' = [draft EXCEPT ![j] = row] /\ txn' = [txn EXCEPT ![s] = new]
    BY <1>2 DEF ReapRow, StillExpired
  <2>2. InBudget(row) /\ row.key = jobs[j].key
    BY <1>1, ReapedFacts
  <2> HIDE DEF row, es
  <2>3. new.pc = "reaping"
    BY <1>1 DEF Txn
  <2> HIDE DEF new
  <2>4. jobs[j].status \in Held
    BY <1>2 DEF Expired
  <2>5. Follows(jobs[j], row)
    BY <2>2, <2>4 DEF Follows, Held
  <2>6. \A i \in Job \ {j} : draft[i] # NoRow /\ row.key # NoKey => draft[i].key # row.key
    BY <1>1, <2>2 DEF RowInv, KeysDiffer
  <2>7. QED
    BY <1>1, <2>1, <2>2, <2>3, <2>4, <2>5, <2>6, RowWrite
<1>3. CASE ~Expired(jobs[j], txn[s].start)
  <2> DEFINE new == [txn[s] EXCEPT !.todo = @ \ {j}]
  <2>1. UNCHANGED draft /\ txn' = [txn EXCEPT ![s] = new]
    BY <1>3 DEF ReapRow, StillExpired
  <2>2. new.pc = "reaping"
    BY <1>1 DEF Txn
  <2> HIDE DEF new
  <2>3. QED
    BY <1>1, <2>1, <2>2, RowMove
<1>4. QED
  BY <1>2, <1>3

\* What a claim takes is claimable in its newest version, so the committed one is
\* not final, even when this very claim has just taken it back.
LEMMA ClaimLeaseRows ==
  ASSUME IInv, RowInv, NEW s \in Session, ClaimLease(s) PROVE RowInv'
<1>0. PICK q \in Queue, l \in FreshLease, v \in Duration : \E j \in Best(s, q) :
       Write(s, j, Leased(draft[j], l, txn[s].start + v),
             <<Event("claimed", j, draft[j].status, "processing")>>,
             Tell(l, j, txn[s].start + v))
  BY DEF ClaimLease
<1>1. PICK j \in Best(s, q) :
       Write(s, j, Leased(draft[j], l, txn[s].start + v),
             <<Event("claimed", j, draft[j].status, "processing")>>,
             Tell(l, j, txn[s].start + v))
  BY <1>0
<1>2. /\ j \in Job /\ draft[j] # NoRow /\ draft[j].status \in Claimable
      /\ lock[j] \in {NoSession, s} /\ Committed /\ txn[s].pc = "reaping"
  BY DEF ClaimLease, ReapDone, At, Best, Candidates, Ready
<1>3. draft[j] \in Row
  BY <1>2 DEF IInv, TypeInv, TypeOK
<1> DEFINE row == Leased(draft[j], l, txn[s].start + v)
           es == <<Event("claimed", j, draft[j].status, "processing")>>
           told == Tell(l, j, txn[s].start + v)
<1>4. Write(s, j, row, es, told)
  BY <1>1
<1>5. InBudget(row) /\ row.key = draft[j].key
  BY <1>3, LeasedFacts
<1> HIDE DEF row, es, told
<1>6. jobs[j] # NoRow => Follows(jobs[j], row)
  <2> SUFFICES ASSUME jobs[j] # NoRow PROVE Follows(jobs[j], row)
    OBVIOUS
  <2>1. draft[j] = jobs[j] \/ jobs[j].status \in Held
    <3>1. CASE lock[j] = NoSession
      BY <1>2, <3>1 DEF IInv, LeaseInv, UnlockedRowsAgree, Unlocked
    <3>2. CASE lock[j] = s
      BY <1>2, <3>2 DEF RowInv, ClaimsTakeBack, HoldsWhatItTookBack, HeldBy, Untouched
    <3>3. QED
      BY <1>2, <3>1, <3>2
  <2>2. jobs[j].status \in Held \cup Claimable
    BY <1>2, <2>1
  <2>3. draft[j].key = jobs[j].key
    BY <1>2 DEF RowInv, DraftsFollow, Follows
  <2>4. QED
    BY <1>5, <2>2, <2>3 DEF Follows, Held, Claimable
<1>7. QED
  BY <1>2, <1>4, <1>5, <1>6, RowStatement

\* The calls about one job write the committed row, which is not final.
LEMMA OneJobRows ==
  ASSUME IInv, RowInv, NEW s \in Session, NEW j \in Stored, NEW row, NEW es, NEW told,
         Write(s, j, row, es, told), Committed, Unlocked(j),
         InBudget(row), row.key = jobs[j].key,
         jobs[j].status \notin {"completed", "cancelled"},
         jobs[j].status = "dead_letter" => row.status = "queued" /\ row.attempts = 0
  PROVE  RowInv'
<1>1. j \in Job /\ jobs[j] # NoRow /\ draft[j] = jobs[j]
  BY DEF Stored, IInv, LeaseInv, UnlockedRowsAgree
<1>2. Follows(jobs[j], row)
  BY DEF Follows
<1>3. QED
  BY <1>1, <1>2, RowStatement

LEMMA HeartbeatRows ==
  ASSUME IInv, RowInv, NEW s \in Session, HeartbeatUpdate(s) PROVE RowInv'
<1>1. PICK l \in Lease, j \in Stored, v \in Duration :
        /\ Renewable(jobs[j], l, txn[s].start) /\ Unlocked(j)
        /\ Write(s, j, Renewed(jobs[j], txn[s].start + v),
                 <<Event("heartbeat", j, "processing", "processing")>>,
                 Tell(l, j, txn[s].start + v))
  BY DEF HeartbeatUpdate
<1>2. Committed /\ jobs[j].status = "processing" /\ jobs[j] \in Row
  BY <1>1 DEF HeartbeatUpdate, Renewable, Stored, IInv, TypeInv, TypeOK
<1> DEFINE row == Renewed(jobs[j], txn[s].start + v)
           es == <<Event("heartbeat", j, "processing", "processing")>>
           told == Tell(l, j, txn[s].start + v)
<1>3. Write(s, j, row, es, told)
  BY <1>1
<1>4. InBudget(row) /\ row.key = jobs[j].key
  BY <1>2, RenewedFacts
<1> HIDE DEF row, es, told
<1>5. QED
  BY <1>1, <1>2, <1>3, <1>4, OneJobRows

LEMMA AcknowledgeRows ==
  ASSUME IInv, RowInv, NEW s \in Session, Acknowledge(s) PROVE RowInv'
<1> DEFINE op == txn[s].op
           row(j) == Acknowledged(op, jobs[j], txn[s].start)
<1>1. PICK l \in Lease, j \in Stored, n \in CallerNow :
        /\ Unlocked(j)
        /\ \/ /\ Owned(jobs[j], l, n)
              /\ Write(s, j, row(j), AckEvents(op, j, jobs[j], row(j)), Tell(l, j, 0))
           \/ LockOnly(s, j, "failing")
  BY DEF Acknowledge
<1>2. jobs[j] \in Row /\ Committed /\ txn[s].start \in Nat
  BY DEF Acknowledge, Stored, IInv, TypeInv, TypeOK, Txn
<1>3. CASE LockOnly(s, j, "failing")
  BY <1>1, <1>2, <1>3, RowLockOnly
<1>4. CASE /\ Owned(jobs[j], l, n)
           /\ Write(s, j, row(j), AckEvents(op, j, jobs[j], row(j)), Tell(l, j, 0))
  <2>1. InBudget(row(j)) /\ row(j).key = jobs[j].key
    BY <1>2, CompletedFacts, FailedFacts DEF Acknowledged
  <2>2. jobs[j].status \in Held
    BY <1>4 DEF Owned
  <2> HIDE DEF row, op
  <2>3. QED
    BY <1>1, <1>2, <1>4, <2>1, <2>2, OneJobRows DEF Held
<1>5. QED
  BY <1>1, <1>3, <1>4

LEMMA CancelRows ==
  ASSUME IInv, RowInv, NEW s \in Session, Cancel(s) PROVE RowInv'
<1>1. PICK j \in Stored :
        /\ Unlocked(j)
        /\ CASE jobs[j].status = "cancelled" -> LockOnly(s, j, "ready")
             [] jobs[j].status \in Uncancellable -> LockOnly(s, j, "failing")
             [] OTHER ->
                  LET row == Cancelled(jobs[j]) IN
                  Write(s, j, row, <<Event(row.status, j, jobs[j].status, row.status)>>, Silent)
  BY DEF Cancel
<1> DEFINE row == Cancelled(jobs[j])
           es == <<Event(row.status, j, jobs[j].status, row.status)>>
<1>2. jobs[j] \in Row /\ Committed
  BY DEF Cancel, Stored, IInv, TypeInv, TypeOK
<1>3. \/ LockOnly(s, j, "ready")
      \/ LockOnly(s, j, "failing")
      \/ /\ jobs[j].status \notin Uncancellable \cup {"cancelled"}
         /\ Write(s, j, row, es, Silent)
  BY <1>1
<1>4. InBudget(row) /\ row.key = jobs[j].key
  BY <1>2, CancelledFacts
<1> HIDE DEF row, es
<1>5. QED
  BY <1>1, <1>2, <1>3, <1>4, RowLockOnly, OneJobRows DEF Uncancellable

LEMMA RetryRows ==
  ASSUME IInv, RowInv, NEW s \in Session, RetryUpdate(s) PROVE RowInv'
<1>1. PICK j \in Stored :
        /\ jobs[j].status = "dead_letter" /\ Unlocked(j)
        /\ Write(s, j, Retried(jobs[j], txn[s].start),
                 <<Event("manual_retry", j, "dead_letter", "queued")>>, Silent)
  BY DEF RetryUpdate
<1>2. jobs[j] \in Row /\ Committed
  BY DEF RetryUpdate, Stored, IInv, TypeInv, TypeOK
<1> DEFINE row == Retried(jobs[j], txn[s].start)
           es == <<Event("manual_retry", j, "dead_letter", "queued")>>
<1>3. Write(s, j, row, es, Silent)
  BY <1>1
<1>4. InBudget(row) /\ row.key = jobs[j].key /\ row.status = "queued" /\ row.attempts = 0
  BY <1>2, RetriedFacts
<1> HIDE DEF row, es
<1>5. QED
  BY <1>1, <1>2, <1>3, <1>4, OneJobRows

-------------------------------------------------------------------------------
(* The ends of a transaction                                                   *)

\* The rows' versions after a commit or an undo are versions from before it.
LEMMA EndRows ==
  ASSUME IInv, RowInv, NEW s \in Session, Unlock(s), txn' = [txn EXCEPT ![s] = Idle],
         \A j \in Job : \/ jobs'[j] = jobs[j] /\ draft'[j] = draft[j]
                        \/ lock[j] = s /\ jobs'[j] = draft[j] /\ draft'[j] = draft[j]
                        \/ lock[j] = s /\ jobs'[j] = jobs[j] /\ draft'[j] = jobs[j]
  PROVE  RowInv'
<1>1. \A j \in Job : lock'[j] = IF lock[j] = s THEN NoSession ELSE lock[j]
  BY DEF Unlock
<1>2. \A o \in Session : txn'[o] = IF o = s THEN Idle ELSE txn[o]
  BY DEF IInv, TypeInv, TypeOK
<1>3. BudgetsHold'
  BY DEF RowInv, BudgetsHold
<1>4. DraftsFollow'
  <2> SUFFICES ASSUME NEW j \in Job, jobs'[j] # NoRow PROVE Follows(jobs'[j], draft'[j])
    BY DEF DraftsFollow
  <2>1. CASE jobs'[j] = jobs[j] /\ draft'[j] = draft[j]
    BY <2>1 DEF RowInv, DraftsFollow
  <2>2. CASE jobs'[j] = draft'[j]
    BY <2>2 DEF Follows
  <2>3. QED
    BY <2>1, <2>2
<1>5. KeysDiffer'
  <2>1. \A j \in Job : draft'[j] # NoRow => draft[j] # NoRow /\ draft'[j].key = draft[j].key
    BY DEF RowInv, DraftsFollow, Follows, IInv, TypeInv, RowsStay
  <2>2. QED
    BY <2>1 DEF RowInv, KeysDiffer
<1>6. ASSUME NEW o \in Session PROVE HoldsWhatItTookBack(o)'
  <2>1. CASE o = s
    <3>1. HeldBy(s)' = {}
      BY <1>1, SessionAssumption DEF HeldBy
    <3>2. QED
      BY <1>2, <2>1, <3>1 DEF HoldsWhatItTookBack, Idle
  <2>2. CASE o # s
    <3>1. \A j \in HeldBy(o)' : j \in HeldBy(o) /\ jobs'[j] = jobs[j] /\ draft'[j] = draft[j]
      BY <1>1, <2>2, SessionAssumption DEF HeldBy
    <3>2. QED
      BY <1>2, <2>2, <3>1 DEF RowInv, ClaimsTakeBack, HoldsWhatItTookBack, Untouched
  <2>3. QED
    BY <2>1, <2>2
<1>7. QED
  BY <1>3, <1>4, <1>5, <1>6 DEF RowInv, ClaimsTakeBack

LEMMA CommitRows ==
  ASSUME IInv, RowInv, NEW s \in Session, Commit(s) PROVE RowInv'
<1>1. \A j \in Job : /\ jobs'[j] = IF lock[j] = s THEN draft[j] ELSE jobs[j]
                     /\ draft'[j] = draft[j]
  BY DEF Commit
<1>2. QED
  BY <1>1, EndRows DEF Commit

LEMMA UndoRows ==
  ASSUME IInv, RowInv, NEW s \in Session, Undo(s) PROVE RowInv'
<1>1. \A j \in Job : /\ draft'[j] = IF lock[j] = s THEN jobs[j] ELSE draft[j]
                     /\ jobs'[j] = jobs[j]
  BY DEF Undo, Committed
<1>2. QED
  BY <1>1, EndRows DEF Undo

-------------------------------------------------------------------------------
LEMMA RowStep ==
  ASSUME IInv, RowInv, [Next]_vars PROVE RowInv'
<1>1. CASE UNCHANGED <<jobs, draft, lock, txn>>
  BY <1>1 DEF RowInv, BudgetsHold, DraftsFollow, ClaimsTakeBack, HoldsWhatItTookBack, HeldBy,
              Untouched, KeysDiffer
<1>2. CASE Tick
  BY <1>1, <1>2 DEF Tick
<1>3. ASSUME NEW s \in Session, NEW op \in Operation, Begin(s, op) PROVE RowInv'
  BY <1>3, BeginRows
<1>4. ASSUME NEW s \in Session, Abort(s) PROVE RowInv'
  BY <1>4, UndoRows DEF Abort
<1>5. ASSUME NEW s \in Session, Step(s) PROVE RowInv'
  <2>1. CASE Submit(s)
    BY <2>1, SubmitRows
  <2>2. CASE ReapScan(s)
    BY <2>2, ReapScanRows
  <2>3. ASSUME NEW j \in Job, ReapRow(s, j) PROVE RowInv'
    BY <2>3, ReapRowRows
  <2>4. CASE ClaimLease(s)
    BY <2>4, ClaimLeaseRows
  <2>5. CASE ClaimNothing(s) \/ NotFound(s)
    BY <2>5, RowGoto DEF ClaimNothing, NotFound
  <2>6. CASE HeartbeatRefused(s) \/ RetryRefused(s)
    BY <2>6, RowRefuse DEF HeartbeatRefused, RetryRefused
  <2>7. CASE HeartbeatUpdate(s)
    BY <2>7, HeartbeatRows
  <2>8. CASE Acknowledge(s)
    BY <2>8, AcknowledgeRows
  <2>9. CASE Cancel(s)
    BY <2>9, CancelRows
  <2>10. CASE RetryUpdate(s)
    BY <2>10, RetryRows
  <2>11. CASE Commit(s)
    BY <2>11, CommitRows
  <2>12. CASE Rollback(s)
    BY <2>12, UndoRows DEF Rollback
  <2>13. QED
    BY <1>5, <2>1, <2>2, <2>3, <2>4, <2>5, <2>6, <2>7, <2>8, <2>9, <2>10, <2>11, <2>12
       DEF Step
<1>6. QED
  BY <1>1, <1>2, <1>3, <1>4, <1>5 DEF Next, vars

THEOREM RowInvariant == Spec => [](IInv /\ RowInv)
<1>1. Init => IInv /\ RowInv
  BY TypeInit, LeaseInit, RowInit DEF IInv
<1>2. IInv /\ RowInv /\ [Next]_vars => (IInv /\ RowInv)'
  BY LeaseStep, RowStep
<1>3. QED
  BY <1>1, <1>2, PTL DEF Spec

\* The retry budget decides what a failed attempt becomes, however claims, reaping
\* and failures of any number of workers interleave (fail, claim).
THEOREM RetryBudget == Spec => []RetryBudgetDecides
<1>1. IInv /\ RowInv => RetryBudgetDecides
  BY DEF RowInv, BudgetsHold, InBudget, RetryBudgetDecides, Stored
<1>2. QED
  BY <1>1, RowInvariant, PTL

\* Any number of concurrent submits with one idempotency key store one job (submit).
THEOREM OneJob == Spec => []OneJobPerKey
<1>1. IInv /\ RowInv => OneJobPerKey
  <2> SUFFICES ASSUME IInv, RowInv PROVE OneJobPerKey
    OBVIOUS
  <2>1. \A j \in Stored : j \in Job /\ draft[j] # NoRow /\ draft[j].key = jobs[j].key
    BY DEF Stored, RowInv, DraftsFollow, Follows, IInv, TypeInv, RowsStay
  <2>2. QED
    BY <2>1 DEF OneJobPerKey, RowInv, KeysDiffer
<1>2. QED
  BY <1>1, RowInvariant, PTL

\* A row changes only when a transaction that has written it commits.
LEMMA OnlyCommitsChangeRows ==
  ASSUME IInv, [Next]_vars, NEW j \in Job
  PROVE  jobs'[j] = jobs[j] \/ jobs'[j] = draft[j]
<1>1. CASE \E s \in Session : Commit(s)
  <2>1. PICK s \in Session : Commit(s)
    BY <1>1
  <2>2. QED
    BY <2>1 DEF Commit
<1>2. CASE ~\E s \in Session : Commit(s)
  BY <1>2 DEF Next, vars, Step, Begin, Submit, ReapScan, ReapRow, ClaimLease, ClaimNothing,
              HeartbeatUpdate, HeartbeatRefused, Acknowledge, Cancel, RetryUpdate,
              RetryRefused, NotFound, Rollback, Abort, Undo, Tick, Committed
<1>3. QED
  BY <1>1, <1>2

\* Nothing moves a completed or cancelled job, and a dead-lettered one only starts
\* afresh (complete, fail, cancel, retry, claim).
THEOREM FinalStates == Spec => FinalJobsStay
<1> DEFINE Stays == \A j \in Stored :
       /\ jobs[j].status \in {"completed", "cancelled"} => jobs'[j] = jobs[j]
       /\ jobs[j].status = "dead_letter" /\ jobs'[j] # jobs[j] =>
            jobs'[j].status = "queued" /\ jobs'[j].attempts = 0
<1>1. IInv /\ RowInv /\ [Next]_vars => Stays
  <2> SUFFICES ASSUME IInv, RowInv, [Next]_vars, NEW j \in Stored
               PROVE  /\ jobs[j].status \in {"completed", "cancelled"} => jobs'[j] = jobs[j]
                      /\ jobs[j].status = "dead_letter" /\ jobs'[j] # jobs[j] =>
                           jobs'[j].status = "queued" /\ jobs'[j].attempts = 0
    OBVIOUS
  <2>1. j \in Job /\ jobs[j] # NoRow
    BY DEF Stored
  <2>2. jobs'[j] = jobs[j] \/ jobs'[j] = draft[j]
    BY <2>1, OnlyCommitsChangeRows
  <2>3. QED
    BY <2>1, <2>2 DEF RowInv, DraftsFollow, Follows
<1>2. Spec => [][Stays]_vars
  <2> HIDE DEF Stays
  <2>1. QED
    BY <1>1, RowInvariant, PTL DEF Spec
<1>3. QED
  BY <1>2 DEF FinalJobsStay
==============================================================================
