----------------------------- MODULE OutboxRelay -----------------------------
(* From a committed job event to the browsers: the writers of job_events and  *)
(* outbox_events (insertEvent), the relays that publish the outbox, one in    *)
(* every API process, the Redis channel and the SSE streams.  A writer is a   *)
(* transaction of PostgresJobStore, seen only through the rows it locks and   *)
(* the events it inserts; ids come from sequences, which do not wait for      *)
(* commits.  Redis passes a message on to whoever is connected when it        *)
(* arrives and keeps nothing.                                                 *)
EXTENDS Naturals, Sequences, FiniteSets

CONSTANTS Job, Writer, Relay, Client,
          NoWriter, NoJob,
          BatchLimit,  \* LIMIT of the relay's query, 100 in the code
          MaxEvents    \* bound on the events inserted

ASSUME RelayAssumption == /\ NoWriter \notin Writer /\ NoJob \notin Job
                          /\ BatchLimit \in Nat \ {0} /\ MaxEvents \in Nat

VARIABLES lastEvent,  \* last value of the sequence of job_events
          outbox,     \* rows by outbox id, open and rolled-back ones included
          rowLock,    \* the writer that has locked each job row
          inserted,   \* the event a writer has in job_events but not yet in outbox
          open,       \* the outbox ids of each writer's open transaction
          committed,  \* the outbox ids others can see
          published,  \* those with published_at set
          relay,      \* what each relay is doing, and the ids left of its batch
          sent,       \* the outbox ids that have reached Redis
          connected,  \* the clients with an open stream
          received    \* the event ids each client has been sent

writerVars == <<lastEvent, outbox, rowLock, inserted, open, committed>>
clientVars == <<connected, received>>
vars == <<lastEvent, outbox, rowLock, inserted, open, committed, published,
          relay, sent, connected, received>>

OutboxId == 1..MaxEvents
NoEvent == [event |-> 0, job |-> NoJob]
Stopped == [pc |-> "stopped", batch |-> {}]
Waiting == [pc |-> "waiting", batch |-> {}]

Init == /\ lastEvent = 0
        /\ outbox = <<>>
        /\ rowLock = [j \in Job |-> NoWriter]
        /\ inserted = [w \in Writer |-> NoEvent]
        /\ open = [w \in Writer |-> {}]
        /\ committed = {}
        /\ published = {}
        /\ relay = [r \in Relay |-> Stopped]
        /\ sent = {}
        /\ connected = {}
        /\ received = [c \in Client |-> {}]

-------------------------------------------------------------------------------
(* A writer locks the job's row, inserts the event, then its outbox row.      *)
InsertEvent(w, j) ==
  /\ lastEvent < MaxEvents
  /\ inserted[w] = NoEvent
  /\ rowLock[j] \in {NoWriter, w}
  /\ rowLock' = [rowLock EXCEPT ![j] = w]
  /\ lastEvent' = lastEvent + 1
  /\ inserted' = [inserted EXCEPT ![w] = [event |-> lastEvent + 1, job |-> j]]
  /\ UNCHANGED <<outbox, open, committed, published, relay, sent, connected, received>>

\* Mutant: the outbox row does not wait for the event's id.
InsertOutboxEarly(w) ==
  /\ Len(outbox) < MaxEvents
  /\ outbox' = Append(outbox, inserted[w])
  /\ inserted' = [inserted EXCEPT ![w] = NoEvent]
  /\ open' = [open EXCEPT ![w] = @ \cup {Len(outbox) + 1}]
  /\ UNCHANGED <<lastEvent, rowLock, committed, published, relay, sent, connected, received>>

InsertOutbox(w) ==
  /\ inserted[w] # NoEvent
  /\ outbox' = Append(outbox, inserted[w])
  /\ inserted' = [inserted EXCEPT ![w] = NoEvent]
  /\ open' = [open EXCEPT ![w] = @ \cup {Len(outbox) + 1}]
  /\ UNCHANGED <<lastEvent, rowLock, committed, published, relay, sent, connected, received>>

EndTransaction(w) ==
  /\ rowLock' = [j \in Job |-> IF rowLock[j] = w THEN NoWriter ELSE rowLock[j]]
  /\ open' = [open EXCEPT ![w] = {}]
  /\ inserted' = [inserted EXCEPT ![w] = NoEvent]
  /\ UNCHANGED <<lastEvent, outbox, published, relay, sent, connected, received>>

Commit(w) == /\ open[w] # {} /\ inserted[w] = NoEvent
             /\ committed' = committed \cup open[w]
             /\ EndTransaction(w)

Rollback(w) == /\ open[w] # {} \/ inserted[w] # NoEvent
               /\ UNCHANGED committed
               /\ EndTransaction(w)

-------------------------------------------------------------------------------
SetRelay(r, pc, batch) == relay' = [relay EXCEPT ![r] = [pc |-> pc, batch |-> batch]]

Start(r) == /\ relay[r] = Stopped
            /\ SetRelay(r, "waiting", {})
            /\ UNCHANGED <<writerVars, published, sent, clientVars>>

\* Mutant: the relay keeps a cursor instead of published_at.
BeyondTheCursor == {i \in committed : \A k \in published : k < i}

Unpublished == committed \ published

\* The first BatchLimit unpublished ids, which are then published in order.
Earlier(i) == {k \in Unpublished : k < i}
Batch == {i \in Unpublished : Cardinality(Earlier(i)) < BatchLimit}

First(batch) == {i \in batch : \A k \in batch : i <= k}

Flush(r) == /\ relay[r].pc = "waiting" /\ Unpublished # {}
            /\ SetRelay(r, "publishing", Batch)
            /\ UNCHANGED <<writerVars, published, sent, clientVars>>

\* Redis receives the message and every open stream writes it.
Deliver(i) == /\ sent' = sent \cup {i}
              /\ received' = [c \in Client |->
                   IF c \in connected THEN received[c] \cup {outbox[i].event}
                   ELSE received[c]]

Publish(r) == /\ relay[r].pc = "publishing"
              /\ \E i \in First(relay[r].batch) : Deliver(i)
              /\ SetRelay(r, "marking", relay[r].batch)
              /\ UNCHANGED <<writerVars, published, connected>>

\* publish rejects; the message may have arrived all the same.
PublishFails(r) == /\ relay[r].pc = "publishing"
                   /\ \/ \E i \in First(relay[r].batch) : Deliver(i)
                      \/ UNCHANGED <<sent, received>>
                   /\ SetRelay(r, "recording", relay[r].batch)
                   /\ UNCHANGED <<writerVars, published, connected>>

GoOn(r, rest) == SetRelay(r, IF rest = {} THEN "waiting" ELSE "publishing", rest)

Mark(r) == /\ relay[r].pc = "marking"
           /\ \E i \in First(relay[r].batch) :
                published' = published \cup {i} /\ GoOn(r, relay[r].batch \ {i})
           /\ UNCHANGED <<writerVars, sent, clientVars>>

\* The UPDATE is refused, or its answer is lost; it may have been committed then.
MarkFails(r) == /\ relay[r].pc = "marking"
                /\ \/ UNCHANGED published
                   \/ published' = published \cup First(relay[r].batch)
                /\ SetRelay(r, "recording", relay[r].batch)
                /\ UNCHANGED <<writerVars, sent, clientVars>>

\* Mutant: the loop goes on with the rest of the batch after a failure.
RecordFailureAndGoOn(r) ==
  /\ relay[r].pc = "recording"
  /\ \E i \in First(relay[r].batch) : GoOn(r, relay[r].batch \ {i})
  /\ UNCHANGED <<writerVars, published, sent, clientVars>>

\* Mutant: the failed row is marked as published along with its error.
RecordFailureAsPublished(r) ==
  /\ relay[r].pc = "recording"
  /\ SetRelay(r, "waiting", {})
  /\ published' = published \cup First(relay[r].batch)
  /\ UNCHANGED <<writerVars, sent, clientVars>>

\* attempts and last_error are written, the rest of the batch is dropped.
RecordFailure(r) == /\ relay[r].pc = "recording"
                    /\ SetRelay(r, "waiting", {})
                    /\ UNCHANGED <<writerVars, published, sent, clientVars>>

\* The process ends, or stop() is called between two flushes.
Stop(r) == /\ relay[r] # Stopped
           /\ SetRelay(r, "stopped", {})
           /\ UNCHANGED <<writerVars, published, sent, clientVars>>

-------------------------------------------------------------------------------
\* A stream starts with the next event: Last-Event-ID is not read.
Connect(c) == /\ c \notin connected
              /\ connected' = connected \cup {c}
              /\ UNCHANGED <<writerVars, published, relay, sent, received>>

Disconnect(c) == /\ c \in connected
                 /\ connected' = connected \ {c}
                 /\ UNCHANGED <<writerVars, published, relay, sent, received>>

RelayStep(r) == \/ Flush(r) \/ Publish(r) \/ PublishFails(r)
                \/ Mark(r) \/ MarkFails(r) \/ RecordFailure(r)

Next == \/ \E w \in Writer, j \in Job : InsertEvent(w, j)
        \/ \E w \in Writer : InsertOutbox(w)
        \/ \E w \in Writer : Commit(w)
        \/ \E w \in Writer : Rollback(w)
        \/ \E r \in Relay : Start(r)
        \/ \E r \in Relay : RelayStep(r)
        \/ \E r \in Relay : Stop(r)
        \/ \E c \in Client : Connect(c)
        \/ \E c \in Client : Disconnect(c)

Spec == Init /\ [][Next]_vars

\* Relays are started again, poll on, and neither Redis nor the database refuses
\* them for ever.
FairSpec ==
  Spec /\ \A r \in Relay : /\ WF_vars(Start(r)) /\ SF_vars(Flush(r))
                           /\ SF_vars(Publish(r)) /\ SF_vars(Mark(r))
                           /\ WF_vars(RecordFailure(r))

-------------------------------------------------------------------------------
TypeOK == /\ lastEvent \in 0..MaxEvents
          /\ outbox \in Seq([event: OutboxId, job: Job])
          /\ Len(outbox) <= lastEvent
          /\ rowLock \in [Job -> Writer \cup {NoWriter}]
          /\ inserted \in [Writer -> [event: OutboxId, job: Job] \cup {NoEvent}]
          /\ open \in [Writer -> SUBSET OutboxId]
          /\ committed \subseteq DOMAIN outbox
          /\ published \subseteq OutboxId /\ sent \subseteq OutboxId
          /\ relay \in [Relay -> [pc: {"stopped", "waiting", "publishing", "marking",
                                       "recording"},
                                  batch: SUBSET OutboxId]]
          /\ connected \subseteq Client
          /\ received \in [Client -> SUBSET OutboxId]

\* Nothing is announced that was not committed, and nothing is marked as
\* published that never reached Redis, whatever fails between publish and mark
\* and however many relays work on the same rows (README.md:18, 192).
OutboxIsHonest == published \subseteq sent /\ sent \subseteq committed

\* The events of one job reach Redis for the first time in the order they
\* happened, with several relays, failures and restarts: repeats may come later.
PerJobOrder ==
  [][\A i \in sent' \ sent : \A k \in DOMAIN outbox :
       k \in committed /\ outbox[k].job = outbox[i].job
       /\ outbox[k].event < outbox[i].event => k \in sent]_vars

\* A committed event is published in the end (README.md:86).
EveryEventIsSent == \A i \in OutboxId : i \in committed ~> i \in sent

-------------------------------------------------------------------------------
(* Claims that the documents make and the code does not keep.                 *)

\* "SSE streams ordered events with monotonic ID" (docs/EXPLAIN.md:126).
StreamIsOrdered ==
  [][\A c \in Client : \A e \in received'[c] \ received[c] :
       \A d \in received[c] : d < e]_vars
===============================================================================
