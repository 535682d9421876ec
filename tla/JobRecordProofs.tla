--------------------------- MODULE JobRecordProofs ---------------------------
(* What the row transformers preserve, for every value of the constants.      *)
EXTENDS JobRecord, TLAPS

\* The retry delay the queue computes is a time, however many attempts: the
\* doubling is cut off at the cap (retryDelayMs in fail).
LEMMA RetryDelayType ==
  ASSUME NEW attempts PROVE RetryDelay(attempts) \in Nat
<1> DEFINE exponent == IF attempts > 1 THEN attempts - 1 ELSE 0
           delay == RetryUnit * 2^exponent
<1>1. RetryDelay(attempts) = IF delay \in 0..RetryCap THEN delay ELSE RetryCap
  BY Zenon DEF RetryDelay
<1> HIDE DEF delay
<1>2. delay \in 0..RetryCap => delay \in Nat
  BY RetryAssumption
<1>3. QED
  BY <1>1, <1>2, RetryAssumption

\* A row is well formed when a job in a worker's hands has a lease and only a job
\* in a worker's hands, or cancelled while it was, still has one.
Shape(row) == /\ row.status \in Held => row.lease # NoLease
              /\ row.lease # NoLease => row.status \in Held \cup {"cancelled"}

\* Every submit call makes a well-formed row without a lease (submit).
LEMMA NewRowType ==
  ASSUME NEW input \in SubmitInput, NEW created \in Nat, NEW now \in Nat
  PROVE  /\ NewRow(input, created, now) \in Row
         /\ Shape(NewRow(input, created, now))
         /\ NewRow(input, created, now).lease = NoLease
         /\ NewRow(input, created, now).status \in Status
<1>1. ResolveAvailableAt(input, now) \in Nat
  BY DEF ResolveAvailableAt, SubmitInput
<1>2. QED
  BY <1>1 DEF NewRow, Row, SubmitInput, Status, Shape, Held

\* Taking a lease back leaves a well-formed row without one (claim, complete, fail).
LEMMA ReleasedType ==
  ASSUME NEW row \in Row, NEW status \in Status \ Held
  PROVE  /\ Released(row, status) \in Row
         /\ Shape(Released(row, status))
         /\ Released(row, status).lease = NoLease
         /\ Released(row, status).status = status
  BY DEF Released, Row, Shape

LEMMA ReapedType ==
  ASSUME NEW row \in Row, NEW now \in Nat
  PROVE  Reaped(row, now) \in Row /\ Shape(Reaped(row, now)) /\ Reaped(row, now).lease = NoLease
<1> DEFINE status == IF row.status = "cancel_requested" THEN "cancelled" ELSE "queued"
<1>1. status \in Status \ Held
  BY DEF Status, Held
<1>2. Reaped(row, now) = [Released(row, status) EXCEPT !.available = now]
  BY DEF Reaped
<1> HIDE DEF status
<1>3. QED
  BY <1>1, <1>2, ReleasedType DEF Row, Shape, Held

\* A claim turns a row without a lease into one that has the new lease (claim).
LEMMA LeasedType ==
  ASSUME NEW row \in Row, NEW l \in Lease, NEW until \in Nat
  PROVE  /\ Leased(row, l, until) \in Row /\ Shape(Leased(row, l, until))
         /\ Leased(row, l, until).lease = l /\ Leased(row, l, until).until = until
<1>1. l # NoLease /\ row.attempts + 1 \in Nat /\ "processing" \in Status
  BY NullAssumption DEF Row, Status
<1>2. Leased(row, l, until) \in Row
  BY <1>1 DEF Leased, Row
<1>3. /\ Leased(row, l, until).lease = l /\ Leased(row, l, until).until = until
      /\ Leased(row, l, until).status = "processing"
  BY DEF Leased, Row
<1>4. QED
  BY <1>1, <1>2, <1>3 DEF Shape, Held

LEMMA RenewedType ==
  ASSUME NEW row \in Row, NEW until \in Nat, Shape(row)
  PROVE  /\ Renewed(row, until) \in Row /\ Shape(Renewed(row, until))
         /\ Renewed(row, until).lease = row.lease /\ Renewed(row, until).until = until
  BY DEF Renewed, Row, Shape

\* An acknowledgement ends the lease whatever it decides (complete, fail).
LEMMA CompletedType ==
  ASSUME NEW row \in Row
  PROVE  /\ Completed(row) \in Row /\ Shape(Completed(row))
         /\ Completed(row).lease = NoLease
<1> DEFINE status == IF row.status = "cancel_requested" THEN "cancelled" ELSE "completed"
<1>1. status \in Status \ Held
  BY DEF Status, Held
<1>2. Completed(row) = Released(row, status)
  BY DEF Completed
<1> HIDE DEF status
<1>3. QED
  BY <1>1, <1>2, ReleasedType

LEMMA FailedType ==
  ASSUME NEW row \in Row, NEW now \in Nat
  PROVE  /\ Failed(row, now) \in Row /\ Shape(Failed(row, now))
         /\ Failed(row, now).lease = NoLease
<1>1. {"cancelled", "retrying", "dead_letter"} \subseteq Status \ Held
  BY DEF Status, Held
<1>2. CASE row.status = "cancel_requested"
  BY <1>1, <1>2, ReleasedType DEF Failed
<1>3. CASE row.status # "cancel_requested" /\ row.attempts <= row.maxRetries
  <2> DEFINE released == Released(row, "retrying")
             when == now + RetryDelay(row.attempts)
  <2>1. Failed(row, now) = [released EXCEPT !.available = when]
    BY <1>3 DEF Failed
  <2>2. when \in Nat
    BY RetryDelayType
  <2>3. released \in Row /\ Shape(released) /\ released.lease = NoLease
    BY <1>1, ReleasedType
  <2> HIDE DEF released, when
  <2>4. QED
    BY <2>1, <2>2, <2>3 DEF Row, Shape
<1>4. CASE row.status # "cancel_requested" /\ ~(row.attempts <= row.maxRetries)
  BY <1>1, <1>4, ReleasedType DEF Failed
<1>5. QED
  BY <1>2, <1>3, <1>4

\* A cancel leaves the lease where it was (cancel).
LEMMA CancelledType ==
  ASSUME NEW row \in Row, Shape(row), row.status \notin Uncancellable
  PROVE  /\ Cancelled(row) \in Row /\ Shape(Cancelled(row))
         /\ Cancelled(row).lease = row.lease /\ Cancelled(row).until = row.until
  BY DEF Cancelled, Row, Shape, Held, Status

LEMMA RetriedType ==
  ASSUME NEW row \in Row, NEW now \in Nat, Shape(row), row.status = "dead_letter"
  PROVE  /\ Retried(row, now) \in Row /\ Shape(Retried(row, now))
         /\ Retried(row, now).lease = row.lease /\ Retried(row, now).until = row.until
  BY DEF Retried, Row, Shape, Held, Status
==============================================================================
