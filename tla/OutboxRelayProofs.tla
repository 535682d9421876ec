-------------------------- MODULE OutboxRelayProofs --------------------------
(* OutboxRelay for any number of jobs, writers, relays and clients, any batch  *)
(* size and any number of events: types, honesty, and the order of one job's   *)
(* events.  The order rests on the row locks, which make a job's transactions  *)
(* commit one after the other, and on every batch being closed downwards.      *)
EXTENDS OutboxRelay, FiniteSetTheorems, SequenceTheorems, TLAPS

\* The outbox ids whose rows can still become visible, or are.
Live == {i \in DOMAIN outbox : i \in committed \/ \E w \in Writer : i \in open[w]}

-------------------------------------------------------------------------------
(* What the writers keep                                                       *)

\* A writer holds the row of every event it has inserted and not committed.
WritersHoldTheirRows ==
  /\ \A w \in Writer : inserted[w] # NoEvent => rowLock[inserted[w].job] = w
  /\ \A w \in Writer : \A i \in open[w] :
       i \in DOMAIN outbox /\ rowLock[outbox[i].job] = w

\* Events have values of the sequence that were given out, each to one event.
EventsAreDistinct ==
  /\ \A i \in DOMAIN outbox : outbox[i].event <= lastEvent
  /\ \A i, k \in DOMAIN outbox : outbox[i].event = outbox[k].event => i = k
  /\ \A w \in Writer : inserted[w].event <= lastEvent
  /\ \A w \in Writer, i \in DOMAIN outbox : outbox[i].event # inserted[w].event
  /\ \A v, w \in Writer : inserted[v] # NoEvent /\ inserted[v].event = inserted[w].event
                          => v = w

\* Within a job, outbox ids follow event ids, and the event to come is the last.
IdsFollowEvents ==
  /\ \A i, k \in Live : outbox[i].job = outbox[k].job /\ i < k
                        => outbox[i].event < outbox[k].event
  /\ \A w \in Writer : inserted[w] # NoEvent =>
       \A i \in Live : outbox[i].job = inserted[w].job
                       => outbox[i].event < inserted[w].event

\* What is still open of a job comes after all that is committed of it.
OpenComesLast ==
  \A w \in Writer : \A k \in open[w] : \A i \in committed :
    outbox[i].job = outbox[k].job => i < k

WriterInv == /\ WritersHoldTheirRows
             /\ EventsAreDistinct
             /\ IdsFollowEvents
             /\ OpenComesLast

-------------------------------------------------------------------------------
(* What the relays keep                                                        *)

\* The earlier events of i's job that are committed are in X.
Preceded(i, X) == \A k \in committed : outbox[k].job = outbox[i].job /\ k < i => k \in X

SentInOrder == \A i \in sent : Preceded(i, sent)

BatchesAreClosed ==
  \A r \in Relay : /\ relay[r].batch \subseteq committed
                   /\ \A i \in relay[r].batch : Preceded(i, sent \cup relay[r].batch)
                   /\ relay[r].pc = "marking" => First(relay[r].batch) \subseteq sent

RelayInv == OutboxIsHonest /\ SentInOrder /\ BatchesAreClosed

IInv == TypeOK /\ WriterInv /\ RelayInv

LEMMA OutboxRows ==
  ASSUME TypeOK
  PROVE  /\ lastEvent \in Nat /\ lastEvent <= MaxEvents
         /\ Len(outbox) \in Nat /\ DOMAIN outbox = 1..Len(outbox)
         /\ DOMAIN outbox \subseteq OutboxId /\ committed \subseteq OutboxId
         /\ \A i \in DOMAIN outbox : outbox[i].job \in Job /\ outbox[i].event \in OutboxId
         /\ \A w \in Writer : inserted[w].event \in Nat
<1>1. /\ lastEvent \in Nat /\ lastEvent <= MaxEvents /\ Len(outbox) <= lastEvent
      /\ outbox \in Seq([event: OutboxId, job: Job]) /\ committed \subseteq DOMAIN outbox
  BY RelayAssumption DEF TypeOK
<1>2. Len(outbox) \in Nat /\ DOMAIN outbox = 1..Len(outbox)
  BY <1>1
<1>3. \A i \in DOMAIN outbox : outbox[i] \in [event: OutboxId, job: Job]
  BY <1>1, <1>2, ElementOfSeq
<1>4. DOMAIN outbox \subseteq OutboxId
  BY <1>1, <1>2, RelayAssumption DEF OutboxId
<1>5. \A w \in Writer : inserted[w].event \in Nat
  BY DEF TypeOK, NoEvent, OutboxId
<1>6. QED
  BY <1>1, <1>2, <1>3, <1>4, <1>5

\* An outbox whose rows carry different events is no longer than the sequence.
LEMMA OutboxIsShort ==
  ASSUME NEW last \in Nat, NEW n \in Nat, NEW f \in [1..n -> 1..last],
         \A i, k \in 1..n : f[i] = f[k] => i = k
  PROVE  n <= last
<1>1. IsFiniteSet(1..n) /\ Cardinality(1..n) = n
  BY FS_Interval
<1>2. IsFiniteSet(1..last) /\ Cardinality(1..last) = last
  BY FS_Interval
<1>3. CASE last < n
  BY <1>1, <1>2, <1>3, FS_PigeonHole
<1>4. QED
  BY <1>3

THEOREM InitIsSafe == Init => IInv
<1> SUFFICES ASSUME Init PROVE IInv
  OBVIOUS
<1>1. TypeOK
  BY RelayAssumption DEF Init, TypeOK, Stopped
<1>2. outbox = <<>> /\ DOMAIN outbox = {} /\ Live = {} /\ committed = {} /\ sent = {}
  BY DEF Init, Live
<1>3. \A w \in Writer : inserted[w] = NoEvent /\ inserted[w].event = 0 /\ open[w] = {}
  BY DEF Init, NoEvent
<1>4. lastEvent = 0
  BY DEF Init
<1>5. WriterInv
  BY <1>2, <1>3, <1>4 DEF WriterInv, WritersHoldTheirRows, EventsAreDistinct,
                          IdsFollowEvents, OpenComesLast
<1>6. \A r \in Relay : relay[r].batch = {} /\ relay[r].pc # "marking"
  BY DEF Init, Stopped
<1>7. RelayInv
  BY <1>2, <1>6 DEF Init, RelayInv, OutboxIsHonest, SentInOrder, BatchesAreClosed
<1>8. QED
  BY <1>1, <1>5, <1>7 DEF IInv

-------------------------------------------------------------------------------
(* The writers' steps                                                          *)

\* What a writer does leaves the relays' invariant alone, if what it commits comes
\* after what its jobs had committed before.
LEMMA WritersKeepRelayInv ==
  ASSUME IInv, UNCHANGED <<published, relay, sent>>, committed \subseteq committed',
         \A i \in DOMAIN outbox : outbox'[i] = outbox[i],
         \A k \in committed' \ committed : \A i \in committed :
           outbox'[k].job = outbox'[i].job => i < k,
         committed' \subseteq OutboxId
  PROVE  RelayInv'
<1>1. committed \subseteq DOMAIN outbox /\ committed \subseteq OutboxId
  BY DEF IInv, TypeOK
<1>2. \A i \in committed : \A X : Preceded(i, X) => Preceded(i, X)'
  <2> SUFFICES ASSUME NEW i \in committed, NEW X, Preceded(i, X), NEW k \in committed',
                      outbox'[k].job = outbox'[i].job, k < i
               PROVE  k \in X
    BY DEF Preceded
  <2>1. k \in OutboxId /\ i \in OutboxId
    BY <1>1
  <2>2. k \in committed
    BY <2>1 DEF OutboxId
  <2>3. QED
    BY <1>1, <2>2 DEF Preceded
<1>3. SentInOrder'
  BY <1>2 DEF IInv, RelayInv, OutboxIsHonest, SentInOrder
<1>4. BatchesAreClosed'
  BY <1>2 DEF IInv, RelayInv, BatchesAreClosed, First
<1>5. QED
  BY <1>3, <1>4 DEF IInv, RelayInv, OutboxIsHonest

LEMMA InsertEventKeeps ==
  ASSUME IInv, NEW w \in Writer, NEW j \in Job, InsertEvent(w, j)
  PROVE  IInv'
<1> DEFINE e == [event |-> lastEvent + 1, job |-> j]
<1>1. /\ lastEvent \in Nat /\ lastEvent' = lastEvent + 1 /\ lastEvent + 1 \in OutboxId
      /\ UNCHANGED <<outbox, open, committed, published, relay, sent>>
  BY RelayAssumption DEF InsertEvent, IInv, TypeOK, OutboxId
<1>2. \A v \in Writer : inserted'[v] = IF v = w THEN e ELSE inserted[v]
  BY DEF InsertEvent, IInv, TypeOK
<1>3. \A i \in Job : rowLock'[i] = IF i = j THEN w ELSE rowLock[i]
  BY DEF InsertEvent, IInv, TypeOK
<1>4. rowLock[j] \in {NoWriter, w} /\ inserted[w] = NoEvent
  BY DEF InsertEvent
<1>5. \A i \in DOMAIN outbox : outbox[i].job \in Job /\ outbox[i].event \in OutboxId
  BY OutboxRows DEF IInv
<1>6. \A v \in Writer : /\ inserted[v].event \in Nat
                        /\ inserted[v] # NoEvent => inserted[v].job \in Job
  BY RelayAssumption DEF IInv, TypeOK, NoEvent, OutboxId
<1>7. TypeOK'
  <2>1. e \in [event: OutboxId, job: Job]
    BY <1>1
  <2>2. inserted' \in [Writer -> [event: OutboxId, job: Job] \cup {NoEvent}]
    BY <2>1 DEF InsertEvent, IInv, TypeOK
  <2>3. rowLock' \in [Job -> Writer \cup {NoWriter}]
    BY DEF InsertEvent, IInv, TypeOK
  <2>4. lastEvent' \in 0..MaxEvents /\ Len(outbox') <= lastEvent'
    BY RelayAssumption DEF InsertEvent, IInv, TypeOK
  <2>5. QED
    BY <2>2, <2>3, <2>4 DEF InsertEvent, IInv, TypeOK
<1>8. \A i \in Job, v \in Writer : rowLock[i] = v => rowLock'[i] = v
  BY <1>3, <1>4, RelayAssumption
<1>9. WritersHoldTheirRows'
  BY <1>1, <1>2, <1>3, <1>5, <1>6, <1>8 DEF IInv, WriterInv, WritersHoldTheirRows
<1>10. EventsAreDistinct'
  <2>1. \A i \in DOMAIN outbox : outbox[i].event <= lastEvent /\ outbox[i].event \in Nat
    BY <1>5 DEF IInv, WriterInv, EventsAreDistinct, OutboxId
  <2>2. \A v \in Writer : inserted[v].event <= lastEvent
    BY DEF IInv, WriterInv, EventsAreDistinct
  <2>3. \A v \in Writer : inserted'[v].event <= lastEvent'
    BY <1>1, <1>2, <1>6, <2>2
  <2>4. \A v \in Writer, i \in DOMAIN outbox : outbox[i].event # inserted'[v].event
    BY <1>1, <1>2, <2>1 DEF IInv, WriterInv, EventsAreDistinct
  <2>5. \A u, v \in Writer : inserted'[u] # NoEvent /\ inserted'[u].event = inserted'[v].event
                             => u = v
    <3> SUFFICES ASSUME NEW u \in Writer, NEW v \in Writer, inserted'[u] # NoEvent,
                        inserted'[u].event = inserted'[v].event
                 PROVE  u = v
      OBVIOUS
    <3>1. inserted[u].event < lastEvent + 1 /\ inserted[v].event < lastEvent + 1
      BY <1>1, <1>6, <2>2
    <3>2. QED
      BY <1>2, <3>1, <1>1 DEF IInv, WriterInv, EventsAreDistinct
  <2>6. QED
    BY <1>1, <2>1, <2>3, <2>4, <2>5 DEF IInv, WriterInv, EventsAreDistinct
<1>11. IdsFollowEvents'
  <2>1. Live' = Live
    BY <1>1 DEF Live
  <2>2. \A i \in Live : outbox[i].event < lastEvent + 1
    BY <1>1, <1>5 DEF IInv, WriterInv, EventsAreDistinct, Live, OutboxId
  <2>3. \A v \in Writer : inserted'[v] # NoEvent =>
          \A i \in Live : outbox[i].job = inserted'[v].job
                          => outbox[i].event < inserted'[v].event
    BY <1>2, <2>2 DEF IInv, WriterInv, IdsFollowEvents
  <2>4. QED
    BY <1>1, <2>1, <2>3 DEF IInv, WriterInv, IdsFollowEvents
<1>12. OpenComesLast'
  BY <1>1 DEF IInv, WriterInv, OpenComesLast
<1>13. RelayInv'
  <2>1. committed \subseteq OutboxId
    BY OutboxRows DEF IInv
  <2>2. QED
    BY <1>1, <2>1, WritersKeepRelayInv
<1>14. QED
  BY <1>7, <1>9, <1>10, <1>11, <1>12, <1>13 DEF IInv, WriterInv

LEMMA InsertOutboxKeeps ==
  ASSUME IInv, NEW w \in Writer, InsertOutbox(w)
  PROVE  IInv'
<1> DEFINE n == Len(outbox) + 1
           e == inserted[w]
<1>1. e \in [event: OutboxId, job: Job] /\ e # NoEvent
  BY DEF InsertOutbox, IInv, TypeOK
<1>2. /\ Len(outbox) \in Nat /\ DOMAIN outbox = 1..Len(outbox)
      /\ outbox' = Append(outbox, e) /\ Len(outbox') = n /\ DOMAIN outbox' = 1..n
      /\ \A i \in DOMAIN outbox : outbox'[i] = outbox[i]
      /\ outbox'[n] = e
  BY DEF InsertOutbox, IInv, TypeOK
<1>3. UNCHANGED <<lastEvent, rowLock, committed, published, relay, sent>>
  BY DEF InsertOutbox
<1>4. \A v \in Writer : /\ inserted'[v] = IF v = w THEN NoEvent ELSE inserted[v]
                        /\ open'[v] = IF v = w THEN open[v] \cup {n} ELSE open[v]
  BY DEF InsertOutbox, IInv, TypeOK
<1>5. \A i \in DOMAIN outbox : outbox[i].job \in Job /\ outbox[i].event \in OutboxId
  BY OutboxRows DEF IInv
<1>6. committed \subseteq DOMAIN outbox /\ \A v \in Writer : open[v] \subseteq DOMAIN outbox
  BY DEF IInv, TypeOK, WriterInv, WritersHoldTheirRows
<1>7. n \notin DOMAIN outbox /\ \A i \in DOMAIN outbox : i \in Nat /\ i < n
  BY <1>2
<1>8. EventsAreDistinct'
  <2>1. \A i \in DOMAIN outbox' : i = n \/ i \in DOMAIN outbox
    BY <1>2
  <2>2. e.event <= lastEvent /\ \A i \in DOMAIN outbox : outbox[i].event # e.event
    BY DEF IInv, WriterInv, EventsAreDistinct
  <2>3. \A i \in DOMAIN outbox' : outbox'[i].event <= lastEvent'
    BY <1>2, <1>3, <2>1, <2>2 DEF IInv, WriterInv, EventsAreDistinct
  <2>4. \A i, k \in DOMAIN outbox' : outbox'[i].event = outbox'[k].event => i = k
    BY <1>2, <2>1, <2>2 DEF IInv, WriterInv, EventsAreDistinct
  <2>5. NoEvent.event = 0 /\ lastEvent \in Nat
    BY RelayAssumption DEF NoEvent, IInv, TypeOK
  <2>6. \A v \in Writer : inserted'[v].event <= lastEvent'
    <3>1. \A v \in Writer : inserted[v].event <= lastEvent
      BY DEF IInv, WriterInv, EventsAreDistinct
    <3>2. 0 <= lastEvent
      BY <2>5
    <3>3. QED
      BY <1>3, <1>4, <2>5, <3>1, <3>2
  <2>7. \A v \in Writer, i \in DOMAIN outbox' : outbox'[i].event # inserted'[v].event
    <3> SUFFICES ASSUME NEW v \in Writer, NEW i \in DOMAIN outbox'
                 PROVE  outbox'[i].event # inserted'[v].event
      OBVIOUS
    <3>1. outbox'[i].event # 0
      BY <1>1, <1>2, <1>5, <2>1 DEF OutboxId
    <3>2. CASE v = w
      BY <1>4, <2>5, <3>1, <3>2
    <3>3. CASE v # w /\ i = n
      <4>1. inserted[w].event # inserted[v].event
        BY <1>1, <3>3 DEF IInv, WriterInv, EventsAreDistinct
      <4>2. outbox'[i] = inserted[w] /\ inserted'[v] = inserted[v]
        BY <1>2, <1>4, <3>3
      <4>3. QED
        BY <4>1, <4>2
    <3>4. CASE v # w /\ i # n
      <4>1. outbox'[i] = outbox[i] /\ inserted'[v] = inserted[v] /\ i \in DOMAIN outbox
        BY <1>2, <1>4, <2>1, <3>4
      <4>2. QED
        BY <4>1 DEF IInv, WriterInv, EventsAreDistinct
    <3>5. QED
      BY <3>2, <3>3, <3>4
  <2>8. \A u, v \in Writer : inserted'[u] # NoEvent /\ inserted'[u].event = inserted'[v].event
                             => u = v
    <3> SUFFICES ASSUME NEW u \in Writer, NEW v \in Writer, inserted'[u] # NoEvent,
                        inserted'[u].event = inserted'[v].event
                 PROVE  u = v
      OBVIOUS
    <3>1. u # w /\ inserted'[u] = inserted[u]
      BY <1>4
    <3>2. inserted[u].event # 0
      BY <3>1 DEF IInv, TypeOK, OutboxId
    <3>3. v # w
      BY <1>4, <2>5, <3>1, <3>2
    <3>4. QED
      BY <1>4, <3>1, <3>3 DEF IInv, WriterInv, EventsAreDistinct
  <2>9. QED
    BY <2>3, <2>4, <2>6, <2>7, <2>8 DEF EventsAreDistinct
<1>9. TypeOK'
  <2> DEFINE f == [i \in 1..n |-> outbox'[i].event]
  <2>1. \A i \in 1..n : outbox'[i].event \in 1..lastEvent
    BY <1>1, <1>2, <1>3, <1>5, <1>8 DEF EventsAreDistinct, OutboxId, IInv, TypeOK
  <2>2. f \in [1..n -> 1..lastEvent]
    BY <2>1
  <2>3. \A i, k \in 1..n : f[i] = f[k] => i = k
    BY <1>2, <1>8 DEF EventsAreDistinct
  <2>4. lastEvent \in Nat /\ n \in Nat
    BY <1>2, RelayAssumption DEF IInv, TypeOK
  <2> HIDE DEF f
  <2>5. n <= lastEvent
    BY <2>2, <2>3, <2>4, OutboxIsShort
  <2>6. n \in OutboxId /\ committed \subseteq DOMAIN outbox'
    <3>1. 1 <= n /\ n <= MaxEvents /\ MaxEvents \in Nat
      BY <1>2, <2>4, <2>5, OutboxRows, RelayAssumption DEF IInv
    <3>2. DOMAIN outbox \subseteq DOMAIN outbox'
      BY <1>2
    <3>3. QED
      BY <1>6, <2>4, <3>1, <3>2 DEF OutboxId
  <2>7. outbox' \in Seq([event: OutboxId, job: Job])
    BY <1>1, <1>2 DEF IInv, TypeOK
  <2>8. /\ inserted' \in [Writer -> [event: OutboxId, job: Job] \cup {NoEvent}]
        /\ open' \in [Writer -> SUBSET OutboxId]
    BY <2>6 DEF InsertOutbox, IInv, TypeOK
  <2>9. QED
    BY <1>2, <1>3, <2>5, <2>6, <2>7, <2>8 DEF InsertOutbox, IInv, TypeOK
<1>10. WritersHoldTheirRows'
  <2>1. \A v \in Writer : inserted'[v] # NoEvent => rowLock'[inserted'[v].job] = v
    BY <1>3, <1>4 DEF IInv, WriterInv, WritersHoldTheirRows
  <2>2. \A v \in Writer : \A i \in open'[v] :
          i \in DOMAIN outbox' /\ rowLock'[outbox'[i].job] = v
    <3> SUFFICES ASSUME NEW v \in Writer, NEW i \in open'[v]
                 PROVE  i \in DOMAIN outbox' /\ rowLock[outbox'[i].job] = v
      BY <1>3
    <3>1. CASE i = n /\ v = w
      BY <1>1, <1>2, <3>1 DEF IInv, WriterInv, WritersHoldTheirRows
    <3>2. CASE i \in open[v]
      BY <1>2, <1>6, <3>2 DEF IInv, WriterInv, WritersHoldTheirRows
    <3>3. QED
      BY <1>4, <3>1, <3>2
  <2>3. QED
    BY <2>1, <2>2 DEF WritersHoldTheirRows
<1>11. \A i \in Live' : i = n \/ i \in Live
  BY <1>2, <1>3, <1>4, <1>6 DEF Live
<1>12. \A i \in Live : i \in Nat /\ i < n /\ outbox'[i] = outbox[i]
  BY <1>2, <1>7 DEF Live
<1>13. IdsFollowEvents'
  <2>1. \A i \in Live : outbox[i].job = e.job => outbox[i].event < e.event
    BY <1>1 DEF IInv, WriterInv, IdsFollowEvents
  <2>2. \A i, k \in Live' : outbox'[i].job = outbox'[k].job /\ i < k
                            => outbox'[i].event < outbox'[k].event
    <3> SUFFICES ASSUME NEW i \in Live', NEW k \in Live',
                        outbox'[i].job = outbox'[k].job, i < k
                 PROVE  outbox'[i].event < outbox'[k].event
      OBVIOUS
    <3>1. i # n
      BY <1>2, <1>11, <1>12
    <3>2. CASE k = n
      BY <1>2, <1>11, <1>12, <2>1, <3>1, <3>2
    <3>3. CASE k # n
      BY <1>11, <1>12, <3>1, <3>3 DEF IInv, WriterInv, IdsFollowEvents
    <3>4. QED
      BY <3>2, <3>3
  <2>3. \A v \in Writer : inserted'[v] # NoEvent =>
          \A i \in Live' : outbox'[i].job = inserted'[v].job
                           => outbox'[i].event < inserted'[v].event
    <3> SUFFICES ASSUME NEW v \in Writer, inserted'[v] # NoEvent, NEW i \in Live',
                        outbox'[i].job = inserted'[v].job
                 PROVE  outbox'[i].event < inserted'[v].event
      OBVIOUS
    <3>1. v # w /\ inserted'[v] = inserted[v]
      BY <1>4
    <3>2. i # n
      BY <1>1, <1>2, <3>1 DEF IInv, WriterInv, WritersHoldTheirRows
    <3>3. QED
      BY <1>11, <1>12, <3>1, <3>2 DEF IInv, WriterInv, IdsFollowEvents
  <2>4. QED
    BY <2>2, <2>3 DEF IdsFollowEvents
<1>14. OpenComesLast'
  <2> SUFFICES ASSUME NEW v \in Writer, NEW k \in open'[v], NEW i \in committed,
                      outbox'[i].job = outbox'[k].job
               PROVE  i < k
    BY <1>3 DEF OpenComesLast
  <2>1. i \in DOMAIN outbox /\ i < n
    BY <1>6, <1>7
  <2>2. CASE k = n
    BY <2>1, <2>2
  <2>3. CASE k \in open[v]
    BY <1>2, <1>6, <2>1, <2>3 DEF IInv, WriterInv, OpenComesLast
  <2>4. QED
    BY <1>4, <2>2, <2>3
<1>15. RelayInv'
  <2>1. committed \subseteq OutboxId
    BY OutboxRows DEF IInv
  <2>2. QED
    BY <1>2, <1>3, <2>1, WritersKeepRelayInv
<1>16. QED
  BY <1>8, <1>9, <1>10, <1>13, <1>14, <1>15 DEF IInv, WriterInv
\* Ending a transaction takes its rows' locks and ids away and nothing else.
LEMMA EndKeeps ==
  ASSUME IInv, NEW w \in Writer, EndTransaction(w),
         committed' \in {committed, committed \cup open[w]},
         committed' # committed => inserted[w] = NoEvent
  PROVE  IInv'
<1>1. /\ UNCHANGED <<lastEvent, outbox, published, relay, sent>>
      /\ committed \subseteq committed' /\ committed' \subseteq committed \cup open[w]
  BY DEF EndTransaction
<1>2. \A v \in Writer : /\ open'[v] = IF v = w THEN {} ELSE open[v]
                        /\ inserted'[v] = IF v = w THEN NoEvent ELSE inserted[v]
  BY DEF EndTransaction, IInv, TypeOK
<1>3. \A j \in Job, v \in Writer : rowLock[j] = v /\ v # w => rowLock'[j] = v
  BY DEF EndTransaction
<1>4. \A i \in DOMAIN outbox : outbox[i].job \in Job /\ outbox[i].event \in OutboxId
  BY OutboxRows DEF IInv
<1>5. open[w] \subseteq DOMAIN outbox /\ committed \subseteq DOMAIN outbox
  BY DEF IInv, TypeOK, WriterInv, WritersHoldTheirRows
<1>6. TypeOK'
  <2>1. /\ inserted' \in [Writer -> [event: OutboxId, job: Job] \cup {NoEvent}]
        /\ open' \in [Writer -> SUBSET OutboxId]
        /\ rowLock' \in [Job -> Writer \cup {NoWriter}]
    BY DEF EndTransaction, IInv, TypeOK
  <2>2. committed' \subseteq DOMAIN outbox
    BY <1>1, <1>5
  <2>3. QED
    BY <2>1, <2>2 DEF EndTransaction, IInv, TypeOK
<1>7. WritersHoldTheirRows'
  <2>1. \A v \in Writer : inserted'[v] # NoEvent => rowLock'[inserted'[v].job] = v
    <3> SUFFICES ASSUME NEW v \in Writer, inserted'[v] # NoEvent
                 PROVE  rowLock'[inserted'[v].job] = v
      OBVIOUS
    <3>1. v # w /\ inserted'[v] = inserted[v]
      BY <1>2
    <3>2. inserted[v].job \in Job
      BY <3>1 DEF IInv, TypeOK
    <3>3. QED
      BY <1>3, <3>1, <3>2 DEF IInv, WriterInv, WritersHoldTheirRows
  <2>2. \A v \in Writer : \A i \in open'[v] :
          i \in DOMAIN outbox /\ rowLock'[outbox[i].job] = v
    BY <1>2, <1>3, <1>4 DEF IInv, WriterInv, WritersHoldTheirRows
  <2>3. QED
    BY <1>1, <2>1, <2>2 DEF WritersHoldTheirRows
<1>8. EventsAreDistinct'
  <2>1. NoEvent.event = 0 /\ 0 <= lastEvent /\ \A i \in DOMAIN outbox : outbox[i].event # 0
    BY <1>4, OutboxRows DEF IInv, NoEvent, OutboxId
  <2>2. \A v \in Writer : inserted'[v].event <= lastEvent
    BY <1>2, <2>1 DEF IInv, WriterInv, EventsAreDistinct
  <2>3. \A v \in Writer, i \in DOMAIN outbox : outbox[i].event # inserted'[v].event
    BY <1>2, <2>1 DEF IInv, WriterInv, EventsAreDistinct
  <2>4. \A u, v \in Writer : inserted'[u] # NoEvent /\ inserted'[u].event = inserted'[v].event
                             => u = v
    <3> SUFFICES ASSUME NEW u \in Writer, NEW v \in Writer, inserted'[u] # NoEvent,
                        inserted'[u].event = inserted'[v].event
                 PROVE  u = v
      OBVIOUS
    <3>1. u # w /\ inserted'[u] = inserted[u]
      BY <1>2
    <3>2. inserted[u].event # 0
      BY <3>1 DEF IInv, TypeOK, OutboxId
    <3>3. v # w
      BY <1>2, <2>1, <3>1, <3>2
    <3>4. QED
      BY <1>2, <3>1, <3>3 DEF IInv, WriterInv, EventsAreDistinct
  <2>5. QED
    BY <1>1, <2>2, <2>3, <2>4 DEF IInv, WriterInv, EventsAreDistinct
<1>9. Live' \subseteq Live
  BY <1>1, <1>2 DEF Live
<1>10. IdsFollowEvents'
  BY <1>1, <1>2, <1>9 DEF IInv, WriterInv, IdsFollowEvents
<1>11. \A v \in Writer \ {w} : \A k \in open[v] : \A i \in open[w] :
         outbox[i].job # outbox[k].job
  BY DEF IInv, WriterInv, WritersHoldTheirRows
<1>12. OpenComesLast'
  BY <1>1, <1>2, <1>11 DEF IInv, WriterInv, OpenComesLast
<1>13. RelayInv'
  <2>1. committed' \subseteq OutboxId
    BY <1>1, <1>5, OutboxRows DEF IInv
  <2>2. \A k \in committed' \ committed : \A i \in committed :
          outbox'[k].job = outbox'[i].job => i < k
    BY <1>1 DEF IInv, WriterInv, OpenComesLast
  <2>3. QED
    BY <1>1, <2>1, <2>2, WritersKeepRelayInv
<1>14. QED
  BY <1>6, <1>7, <1>8, <1>10, <1>12, <1>13 DEF IInv, WriterInv

-------------------------------------------------------------------------------
(* The relays' steps                                                           *)

LEMMA WriterInvStays ==
  ASSUME WriterInv, UNCHANGED writerVars
  PROVE  WriterInv'
  BY DEF WriterInv, writerVars, WritersHoldTheirRows, EventsAreDistinct, IdsFollowEvents,
         OpenComesLast, Live

\* A batch is closed downwards, whatever the limit.
LEMMA BatchIsClosed ==
  ASSUME IInv, NEW i \in Batch PROVE Preceded(i, sent \cup Batch)
<1> SUFFICES ASSUME NEW k \in committed, k < i, k \notin sent PROVE k \in Batch
  BY DEF Preceded
<1>1. k \in Unpublished
  BY DEF Unpublished, IInv, RelayInv, OutboxIsHonest
<1>2. i \in Unpublished /\ Cardinality(Earlier(i)) < BatchLimit
  BY DEF Batch
<1>3. \A n \in Unpublished : n \in Nat /\ n >= 1
  BY OutboxRows DEF IInv, Unpublished, OutboxId
<1>4. Earlier(k) \subseteq Earlier(i)
  BY <1>1, <1>2, <1>3 DEF Earlier
<1>5. IsFiniteSet(Earlier(i))
  <2>1. Earlier(i) \subseteq 1..i
    BY <1>2, <1>3 DEF Earlier
  <2>2. IsFiniteSet(1..i)
    BY <1>2, <1>3, FS_Interval
  <2>3. QED
    BY <2>1, <2>2, FS_Subset
<1>6. /\ IsFiniteSet(Earlier(k))
      /\ Cardinality(Earlier(k)) <= Cardinality(Earlier(i))
  BY <1>4, <1>5, FS_Subset
<1>7. Cardinality(Earlier(k)) \in Nat /\ Cardinality(Earlier(i)) \in Nat
  BY <1>5, <1>6, FS_CardinalityType
<1>8. QED
  BY <1>1, <1>2, <1>6, <1>7, RelayAssumption DEF Batch

\* What one relay does with a batch of its own leaves the others' alone: sent only
\* grows, and by an event whose earlier ones have been sent.
LEMMA RelaysKeep ==
  ASSUME IInv, NEW r \in Relay, NEW batch \in SUBSET committed,
         NEW pc \in {"stopped", "waiting", "publishing", "marking", "recording"},
         SetRelay(r, pc, batch), UNCHANGED <<writerVars, connected>>,
         sent \subseteq sent', sent' \subseteq committed,
         received' \in [Client -> SUBSET OutboxId],
         published' \subseteq sent',
         \A i \in sent' \ sent : Preceded(i, sent),
         \A i \in batch : Preceded(i, sent' \cup batch),
         pc = "marking" => First(batch) \subseteq sent'
  PROVE  IInv'
<1>1. \A o \in Relay : relay'[o] = IF o = r THEN [pc |-> pc, batch |-> batch] ELSE relay[o]
  BY DEF SetRelay, IInv, TypeOK
<1>2. UNCHANGED <<lastEvent, outbox, rowLock, inserted, open, committed>>
  BY DEF writerVars
<1>3. committed \subseteq OutboxId
  BY OutboxRows DEF IInv
<1>4. TypeOK'
  <2>1. relay' \in [Relay -> [pc: {"stopped", "waiting", "publishing", "marking",
                                   "recording"}, batch: SUBSET OutboxId]]
    BY <1>3 DEF SetRelay, IInv, TypeOK
  <2>2. published' \subseteq OutboxId /\ sent' \subseteq OutboxId
    BY <1>3
  <2>3. QED
    BY <1>2, <2>1, <2>2 DEF IInv, TypeOK
<1>5. \A i \in sent' : Preceded(i, sent')
  BY DEF IInv, RelayInv, SentInOrder, Preceded
<1>6. SentInOrder'
  BY <1>2, <1>5 DEF SentInOrder, Preceded
<1>7. BatchesAreClosed'
  <2> SUFFICES ASSUME NEW o \in Relay
               PROVE  /\ relay'[o].batch \subseteq committed
                      /\ \A i \in relay'[o].batch : Preceded(i, sent' \cup relay'[o].batch)
                      /\ relay'[o].pc = "marking" => First(relay'[o].batch) \subseteq sent'
    BY <1>2 DEF BatchesAreClosed, Preceded, First
  <2>1. CASE o = r
    <3>1. relay'[o].batch = batch /\ relay'[o].pc = pc
      BY <1>1, <2>1
    <3>2. QED
      BY <3>1
  <2>2. CASE o # r
    <3>1. relay'[o] = relay[o]
      BY <1>1, <2>2
    <3>2. \A i \in relay[o].batch : Preceded(i, sent' \cup relay[o].batch)
      BY DEF IInv, RelayInv, BatchesAreClosed, Preceded
    <3>3. QED
      BY <3>1, <3>2 DEF IInv, RelayInv, BatchesAreClosed
  <2>3. QED
    BY <2>1, <2>2
<1>8. WriterInv'
  BY WriterInvStays DEF IInv
<1>9. QED
  BY <1>2, <1>4, <1>6, <1>7, <1>8 DEF IInv, RelayInv, OutboxIsHonest

LEMMA IdleKeeps ==
  ASSUME IInv, NEW r \in Relay, NEW pc \in {"stopped", "waiting"},
         SetRelay(r, pc, {}), UNCHANGED <<writerVars, published, sent, connected, received>>
  PROVE  IInv'
<1> DEFINE none == {}
<1>1. none \in SUBSET committed /\ \A i \in none : Preceded(i, sent' \cup none)
  OBVIOUS
<1>2. sent \subseteq committed /\ published \subseteq sent
  BY DEF IInv, RelayInv, OutboxIsHonest
<1>3. received \in [Client -> SUBSET OutboxId]
  BY DEF IInv, TypeOK
<1>4. SetRelay(r, pc, none)
  OBVIOUS
<1> HIDE DEF none
<1>5. QED
  BY <1>1, <1>2, <1>3, <1>4, RelaysKeep

\* The first of a batch may be sent: what comes before it has been.
LEMMA FirstIsNext ==
  ASSUME IInv, NEW r \in Relay, NEW i \in First(relay[r].batch)
  PROVE  i \in committed /\ Preceded(i, sent)
<1>1. i \in relay[r].batch /\ \A k \in relay[r].batch : i <= k
  BY DEF First
<1>2. relay[r].batch \subseteq committed /\ Preceded(i, sent \cup relay[r].batch)
  BY <1>1 DEF IInv, RelayInv, BatchesAreClosed
<1>3. \A k \in committed : k < i => k \notin relay[r].batch
  BY <1>1, <1>2, OutboxRows DEF IInv, OutboxId
<1>4. QED
  BY <1>1, <1>2, <1>3 DEF Preceded

LEMMA DeliverType ==
  ASSUME IInv, NEW i \in committed, Deliver(i)
  PROVE  received' \in [Client -> SUBSET OutboxId] /\ sent' = sent \cup {i}
<1>1. outbox[i].event \in OutboxId
  BY OutboxRows DEF IInv, TypeOK
<1>2. QED
  BY <1>1 DEF Deliver, IInv, TypeOK

LEMMA RelayStepKeeps ==
  ASSUME IInv, NEW r \in Relay, RelayStep(r)
  PROVE  IInv'
<1> DEFINE batch == relay[r].batch
<1>1. /\ batch \subseteq committed
      /\ \A i \in batch : Preceded(i, sent \cup batch)
      /\ sent \subseteq committed /\ published \subseteq sent
      /\ received \in [Client -> SUBSET OutboxId]
  BY DEF IInv, TypeOK, RelayInv, BatchesAreClosed, OutboxIsHonest
<1>2. CASE Flush(r)
  <2>1. /\ SetRelay(r, "publishing", Batch)
        /\ UNCHANGED <<writerVars, published, sent, connected, received>>
    BY <1>2 DEF Flush, clientVars
  <2>2. Batch \subseteq committed
    BY DEF Batch, Unpublished
  <2>3. \A i \in Batch : Preceded(i, sent' \cup Batch)
    BY <2>1, BatchIsClosed
  <2> HIDE DEF batch
  <2>4. QED
    BY <1>1, <2>1, <2>2, <2>3, RelaysKeep
<1>3. CASE Publish(r)
  <2>1. PICK i \in First(batch) : Deliver(i)
    BY <1>3 DEF Publish
  <2>2. SetRelay(r, "marking", batch) /\ UNCHANGED <<writerVars, published, connected>>
    BY <1>3 DEF Publish
  <2>3. i \in committed /\ Preceded(i, sent)
    BY FirstIsNext
  <2>4. received' \in [Client -> SUBSET OutboxId] /\ sent' = sent \cup {i}
    BY <2>1, <2>3, DeliverType
  <2>5. First(batch) = {i}
    BY <1>1, OutboxRows DEF First, IInv, OutboxId
  <2>6. \A k \in batch : Preceded(k, sent' \cup batch)
    BY <1>1, <2>2, <2>4 DEF Preceded
  <2> HIDE DEF batch
  <2>7. QED
    BY <1>1, <2>2, <2>3, <2>4, <2>5, <2>6, RelaysKeep
<1>4. CASE PublishFails(r)
  <2>1. SetRelay(r, "recording", batch) /\ UNCHANGED <<writerVars, published, connected>>
    BY <1>4 DEF PublishFails
  <2>2. CASE UNCHANGED <<sent, received>>
    <3>1. \A k \in batch : Preceded(k, sent' \cup batch)
      BY <1>1, <2>1, <2>2 DEF Preceded
    <3> HIDE DEF batch
    <3>2. QED
      BY <1>1, <2>1, <2>2, <3>1, RelaysKeep
  <2>3. CASE \E i \in First(batch) : Deliver(i)
    <3>1. PICK i \in First(batch) : Deliver(i)
      BY <2>3
    <3>2. i \in committed /\ Preceded(i, sent)
      BY FirstIsNext
    <3>3. received' \in [Client -> SUBSET OutboxId] /\ sent' = sent \cup {i}
      BY <3>1, <3>2, DeliverType
    <3>4. \A k \in batch : Preceded(k, sent' \cup batch)
      BY <1>1, <2>1, <3>3 DEF Preceded
    <3> HIDE DEF batch
    <3>5. QED
      BY <1>1, <2>1, <3>2, <3>3, <3>4, RelaysKeep
  <2>4. QED
    BY <1>4, <2>2, <2>3 DEF PublishFails
<1>5. CASE Mark(r)
  <2>1. PICK i \in First(batch) : published' = published \cup {i} /\ GoOn(r, batch \ {i})
    BY <1>5 DEF Mark
  <2>2. UNCHANGED <<writerVars, sent, connected, received>>
    BY <1>5 DEF Mark, clientVars
  <2>3. i \in sent
    BY <1>5 DEF Mark, IInv, RelayInv, BatchesAreClosed
  <2>4. \A k \in batch \ {i} : Preceded(k, sent' \cup (batch \ {i}))
    BY <1>1, <2>2, <2>3 DEF Preceded
  <2>5. PICK pc \in {"waiting", "publishing"} : SetRelay(r, pc, batch \ {i})
    BY <2>1 DEF GoOn
  <2> HIDE DEF batch
  <2>6. QED
    BY <1>1, <2>1, <2>2, <2>3, <2>4, <2>5, RelaysKeep
<1>6. CASE MarkFails(r)
  <2>1. /\ SetRelay(r, "recording", batch)
        /\ UNCHANGED <<writerVars, sent, connected, received>>
    BY <1>6 DEF MarkFails, clientVars
  <2>2. First(batch) \subseteq sent
    BY <1>6 DEF MarkFails, IInv, RelayInv, BatchesAreClosed
  <2>3. published' \in SUBSET sent
    BY <1>1, <1>6, <2>2 DEF MarkFails
  <2>4. \A k \in batch : Preceded(k, sent' \cup batch)
    BY <1>1, <2>1 DEF Preceded
  <2> HIDE DEF batch
  <2>5. QED
    BY <1>1, <2>1, <2>3, <2>4, RelaysKeep
<1>7. CASE RecordFailure(r)
  <2>1. /\ SetRelay(r, "waiting", {})
        /\ UNCHANGED <<writerVars, published, sent, connected, received>>
    BY <1>7 DEF RecordFailure, clientVars
  <2>2. QED
    BY <2>1, IdleKeeps
<1>8. QED
  BY <1>2, <1>3, <1>4, <1>5, <1>6, <1>7 DEF RelayStep

LEMMA StartOrStopKeeps ==
  ASSUME IInv, NEW r \in Relay, Start(r) \/ Stop(r)
  PROVE  IInv'
<1>1. /\ SetRelay(r, "waiting", {}) \/ SetRelay(r, "stopped", {})
      /\ UNCHANGED <<writerVars, published, sent, connected, received>>
  BY DEF Start, Stop, clientVars
<1>2. QED
  BY <1>1, IdleKeeps

LEMMA RestKeeps ==
  ASSUME IInv, UNCHANGED <<writerVars, published, relay, sent, received>>,
         connected' \subseteq Client
  PROVE  IInv'
<1>1. TypeOK'
  BY DEF IInv, TypeOK, writerVars
<1>2. WriterInv'
  BY WriterInvStays DEF IInv
<1>3. RelayInv'
  BY DEF IInv, RelayInv, OutboxIsHonest, SentInOrder, BatchesAreClosed, Preceded, First,
         writerVars
<1>4. QED
  BY <1>1, <1>2, <1>3 DEF IInv

-------------------------------------------------------------------------------
(* The specification                                                           *)

THEOREM StepIsSafe == IInv /\ [Next]_vars => IInv'
<1> SUFFICES ASSUME IInv, [Next]_vars PROVE IInv'
  OBVIOUS
<1>1. CASE \E w \in Writer, j \in Job : InsertEvent(w, j)
  BY <1>1, InsertEventKeeps
<1>2. CASE \E w \in Writer : InsertOutbox(w)
  BY <1>2, InsertOutboxKeeps
<1>3. CASE \E w \in Writer : Commit(w)
  <2>1. PICK w \in Writer : Commit(w)
    BY <1>3
  <2>2. EndTransaction(w) /\ committed' = committed \cup open[w] /\ inserted[w] = NoEvent
    BY <2>1 DEF Commit
  <2>3. QED
    BY <2>2, EndKeeps
<1>4. CASE \E w \in Writer : Rollback(w)
  <2>1. PICK w \in Writer : Rollback(w)
    BY <1>4
  <2>2. EndTransaction(w) /\ committed' = committed
    BY <2>1 DEF Rollback
  <2>3. QED
    BY <2>2, EndKeeps
<1>5. CASE \E r \in Relay : Start(r) \/ Stop(r)
  BY <1>5, StartOrStopKeeps
<1>6. CASE \E r \in Relay : RelayStep(r)
  BY <1>6, RelayStepKeeps
<1>7. CASE \E c \in Client : Connect(c) \/ Disconnect(c)
  <2>1. /\ connected' \subseteq Client
        /\ UNCHANGED <<writerVars, published, relay, sent, received>>
    BY <1>7 DEF Connect, Disconnect, IInv, TypeOK
  <2>2. QED
    BY <2>1, RestKeeps
<1>8. CASE UNCHANGED vars
  <2>1. connected' \subseteq Client
    BY <1>8 DEF IInv, TypeOK, vars
  <2>2. QED
    BY <1>8, <2>1, RestKeeps DEF vars, writerVars
<1>9. QED
  BY <1>1, <1>2, <1>3, <1>4, <1>5, <1>6, <1>7, <1>8 DEF Next

THEOREM RelayInvariant == Spec => []IInv
  BY InitIsSafe, StepIsSafe, PTL DEF Spec

\* The types hold for any number of writers, relays and events.
THEOREM OutboxTypes == Spec => []TypeOK
<1>1. IInv => TypeOK
  BY DEF IInv
<1>2. QED
  BY <1>1, RelayInvariant, PTL

\* Nothing is announced that was not committed and nothing is marked that was not
\* announced, with any number of relays (OutboxRelay.#flush).
THEOREM OutboxHonesty == Spec => []OutboxIsHonest
<1>1. IInv => OutboxIsHonest
  BY DEF IInv, RelayInv
<1>2. QED
  BY <1>1, RelayInvariant, PTL

\* A step sends at most the first event of a relay's batch.
LEMMA OneIsSent ==
  ASSUME IInv, [Next]_vars, NEW i \in sent' \ sent
  PROVE  i \in committed /\ Preceded(i, sent) /\ outbox' = outbox
<1>1. PICK r \in Relay : Publish(r) \/ PublishFails(r)
  BY DEF Next, vars, InsertEvent, InsertOutbox, Commit, Rollback, EndTransaction, Start,
         RelayStep, Flush, Mark, MarkFails, RecordFailure, Stop, Connect, Disconnect
<1>2. \E k \in First(relay[r].batch) : sent' = sent \cup {k}
  BY <1>1 DEF Publish, PublishFails, Deliver
<1>3. i \in First(relay[r].batch)
  BY <1>2
<1>4. outbox' = outbox
  BY <1>1 DEF Publish, PublishFails, writerVars
<1>5. QED
  BY <1>3, <1>4, FirstIsNext

\* Redis sees the events of one job for the first time in the order they happened,
\* with any number of writers, relays, failures and restarts (insertEvent, #flush).
THEOREM OutboxOrder == Spec => PerJobOrder
<1> DEFINE InOrder == \A i \in sent' \ sent : \A k \in DOMAIN outbox :
                        k \in committed /\ outbox[k].job = outbox[i].job
                        /\ outbox[k].event < outbox[i].event => k \in sent
<1>1. IInv /\ [Next]_vars => InOrder
  <2> SUFFICES ASSUME IInv, [Next]_vars, NEW i \in sent' \ sent, NEW k \in committed,
                      outbox[k].job = outbox[i].job, outbox[k].event < outbox[i].event
               PROVE  k \in sent
    OBVIOUS
  <2>1. i \in committed /\ Preceded(i, sent)
    BY OneIsSent
  <2>2. i \in Live /\ k \in Live /\ i \in Nat /\ k \in Nat
    BY <2>1, OutboxRows DEF IInv, TypeOK, Live, OutboxId
  <2>3. outbox[i].event \in Nat /\ outbox[k].event \in Nat
    BY <2>1, OutboxRows DEF IInv, TypeOK, OutboxId
  <2>4. ~(i < k) /\ i # k
    BY <2>2, <2>3 DEF IInv, WriterInv, IdsFollowEvents
  <2>5. QED
    BY <2>1, <2>2, <2>4 DEF Preceded
<1>2. Spec => [][InOrder]_vars
  <2> HIDE DEF InOrder
  <2>1. QED
    BY <1>1, RelayInvariant, PTL DEF Spec
<1>3. QED
  BY <1>2 DEF PerJobOrder
===============================================================================
