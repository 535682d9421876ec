------------------------------- MODULE ApiServer -------------------------------
(* One API process on PostgreSQL: the connections of its clients, the routes   *)
(* that call the store, the event streams, and the life of the process from    *)
(* bootstrap to shutdown.  The store is any that keeps the contract; a client  *)
(* also stands for whoever else uses it, the demo worker and other processes.  *)
(* A connection may break at any time: the client does not learn whether its   *)
(* call took effect and may send it again, while the handler of the broken     *)
(* request still runs.                                                         *)
EXTENDS JobRecord, FiniteSets

CONSTANTS Client, NoCall,
          Call,         \* the requests clients make in this instance
          SubmitInputs,
          Visibility,   \* visibilityTimeoutMs and extendByMs
          MaxTime,      \* bound on the store's clock
          MaxOrphans    \* bound on the handlers whose client has gone

CallRecord ==
  [op: {"submit"}, input: SubmitInput] \cup [op: {"claim"}, queue: Queue]
  \cup [op: {"heartbeat", "complete", "fail"}, job: Job, lease: Lease]
  \cup [op: {"cancel", "retry", "read"}, job: Job]
  \cup [op: {"invalid", "stream", "start", "stop"}]

ASSUME ApiAssumption == /\ Call \subseteq CallRecord /\ NoCall \notin CallRecord
                        /\ SubmitInputs \subseteq SubmitInput
                        /\ {Visibility, MaxTime, MaxOrphans} \subseteq Nat

VARIABLES jobs, issued, clock,  \* the store
          phase,    \* how far bootstrap or shutdown() has got
          loop,     \* the demo worker and the outbox relay
          conn,     \* the connection of each client
          request,  \* the request it carries
          orphans,  \* the requests still being handled whose connection has gone
          told      \* the calls of Acted that clients know have succeeded

storeVars == <<jobs, issued, clock>>
processVars == <<phase, loop>>
vars == <<jobs, issued, clock, phase, loop, conn, request, orphans, told>>

Store == INSTANCE JobStore WITH Duration <- {Visibility}, MaxSkew <- 0, Lag <- Nat
Stored == Store!Stored

Loop == {"worker", "relay"}

\* The process has not been started yet.
Init == /\ Store!Init
        /\ phase = "down"
        /\ loop = [b \in Loop |-> "off"]
        /\ conn = [c \in Client |-> "closed"]
        /\ request = [c \in Client |-> NoCall]
        /\ orphans = {}
        /\ told = {}

-------------------------------------------------------------------------------
(* The routes.  Each calls the store once and answers; the client may hear     *)
(* the answer or not: its connection has gone, or the store throws after the   *)
(* change because the answer to COMMIT is lost.  What clients go on to rely on is recorded.     *)
Acted == {"submit", "claim", "complete"}
Answers(k, job, lease, heard) ==
  told' \in {told} \cup
    IF heard /\ k.op \in Acted
    THEN {told \cup {[call |-> k, job |-> job, lease |-> lease]}} ELSE {}

\* 4xx and 5xx, and the 204 of a claim that finds no job.
AnswersNothing == UNCHANGED told

\* Mutant: the route forgets to pass the idempotency key on.
SubmitWithoutKey(k, heard) ==
  \E j \in Job : /\ Store!Submit(j, [k.input EXCEPT !.key = NoKey])
                 /\ Answers(k, j, NoLease, heard)

SubmitRoute(k, heard) ==
  \/ \E j \in Job : /\ Store!Submit(j, k.input)
                    /\ Answers(k, j, NoLease, heard)
  \/ \E j \in Stored : /\ k.input.key # NoKey /\ jobs[j].key = k.input.key
                       /\ Answers(k, j, NoLease, heard)
                       /\ UNCHANGED storeVars

ClaimRoute(k, heard) ==
  \E R \in SUBSET Stored, t \in Store!TimeRead :
    \/ Store!ClaimNothing(R, t) /\ AnswersNothing
    \/ \E j \in Stored, l \in Lease : /\ jobs[j].queue = k.queue
                                      /\ Store!Claim(R, t, j, l, Visibility)
                                      /\ Answers(k, j, l, heard)

\* throwLeaseError, assertOwned: the error handler answers 409.
LeaseRefused(k) == UNCHANGED storeVars /\ AnswersNothing

LeaseRoute(k, heard) ==
  \/ /\ \/ /\ k.op = "heartbeat"
           /\ \E t \in Store!TimeRead : Store!Heartbeat(k.job, k.lease, t, Visibility)
        \/ k.op = "complete" /\ Store!Complete(k.job, k.lease)
        \/ k.op = "fail" /\ \E t \in Store!TimeRead : Store!Fail(k.job, k.lease, t)
     /\ Answers(k, k.job, k.lease, heard)
  \/ ~Owned(jobs[k.job], k.lease, clock) /\ LeaseRefused(k)

CancelRoute(k, heard) ==
  \/ Store!Cancel(k.job) /\ Answers(k, k.job, NoLease, heard)
  \/ jobs[k.job].status \in Uncancellable /\ UNCHANGED storeVars /\ AnswersNothing

RetryRoute(k, heard) ==
  \/ /\ \E t \in Store!TimeRead : Store!Retry(k.job, t)
     /\ Answers(k, k.job, NoLease, heard)
  \/ jobs[k.job].status # "dead_letter" /\ UNCHANGED storeVars /\ AnswersNothing

\* GET of a job and of its events; no job is ever deleted, so the two reads agree.
ReadRoute(k, heard) == UNCHANGED storeVars /\ Answers(k, k.job, NoLease, heard)

OfOneJob == {"heartbeat", "complete", "fail", "cancel", "retry", "read"}
StoreOp == {"submit", "claim"} \cup OfOneJob

OneJobRoute(k, heard) ==
  \/ k.job \notin Stored /\ UNCHANGED storeVars /\ AnswersNothing
  \/ /\ k.job \in Stored
     /\ \/ k.op \in {"heartbeat", "complete", "fail"} /\ LeaseRoute(k, heard)
        \/ k.op = "cancel" /\ CancelRoute(k, heard)
        \/ k.op = "retry" /\ RetryRoute(k, heard)
        \/ k.op = "read" /\ ReadRoute(k, heard)

\* A pool that has been ended throws; one that is ending still serves the calls
\* that have their connection.  Any call may throw before it changes anything.
StoreRoute(k, heard) ==
  \/ /\ phase \in {"serving", "closing", "ending"}
     /\ \/ k.op = "submit" /\ SubmitRoute(k, heard)
        \/ k.op = "claim" /\ ClaimRoute(k, heard)
        \/ k.op \in OfOneJob /\ OneJobRoute(k, heard)
  \/ k.op \in StoreOp /\ UNCHANGED storeVars /\ AnswersNothing

-------------------------------------------------------------------------------
(* Connections.                                                               *)
\* Mutant: a request that comes in is not kept.
SetConnOnly(c, state, k) == /\ conn' = [conn EXCEPT ![c] = state]
                            /\ request' = [request EXCEPT ![c] = NoCall]

SetConn(c, state, k) == /\ conn' = [conn EXCEPT ![c] = state]
                        /\ request' = [request EXCEPT ![c] = k]

\* Mutant: the server goes on accepting connections while it closes.
OpenWhileClosing(c) ==
  /\ phase \in {"serving", "closing"} /\ conn[c] = "closed"
  /\ SetConn(c, "idle", NoCall)
  /\ UNCHANGED <<storeVars, processVars, orphans, told>>

Open(c) ==
  /\ phase = "serving" /\ conn[c] = "closed"
  /\ SetConn(c, "idle", NoCall)
  /\ UNCHANGED <<storeVars, processVars, orphans, told>>

\* Workers use the leases that a claim has told them.
Knows(k) == k.op \in {"heartbeat", "complete", "fail"} =>
              \E x \in told : x.job = k.job /\ x.lease = k.lease

\* A new call, or one whose answer did not arrive once more.
Send(c, k) ==
  /\ conn[c] = "idle" /\ Knows(k)
  /\ SetConn(c, "request", k)
  /\ UNCHANGED <<storeVars, processVars, orphans, told>>

Handle(c) ==
  /\ conn[c] = "request"
  /\ StoreRoute(request[c], TRUE)
  /\ SetConn(c, "idle", NoCall)
  /\ UNCHANGED <<processVars, orphans>>

\* The body is refused, with 400, before the store is called.
HandleInvalid(c) ==
  /\ conn[c] = "request" /\ request[c].op = "invalid"
  /\ SetConn(c, "idle", NoCall)
  /\ UNCHANGED <<storeVars, processVars, orphans, told>>

\* The stream subscribes to the broker and stays open.
HandleStream(c) ==
  /\ conn[c] = "request" /\ request[c].op = "stream"
  /\ SetConn(c, "stream", NoCall)
  /\ UNCHANGED <<storeVars, processVars, orphans, told>>

\* stop() clears the timer; a tick or a flush that is under way goes on to its
\* end.  start() does not wait for it.
Halted(state) == IF state = "on" THEN {"off", "stopping"} ELSE {state}

\* The routes that start and stop the demo worker.
HandleWorker(c) ==
  /\ conn[c] = "request" /\ request[c].op \in {"start", "stop"}
  /\ \E state \in IF request[c].op = "start" THEN {"on"} ELSE Halted(loop["worker"]) :
       loop' = [loop EXCEPT !["worker"] = state]
  /\ SetConn(c, "idle", NoCall)
  /\ UNCHANGED <<storeVars, phase, orphans, told>>

HandleOrphan(k) ==
  /\ k \in orphans
  /\ StoreRoute(k, FALSE)
  /\ orphans' = orphans \ {k}
  /\ UNCHANGED <<processVars, conn, request>>

\* The client leaves, the network fails, or an idle connection times out.  A
\* request that has arrived is handled all the same.
Close(c) ==
  /\ conn[c] # "closed"
  /\ SetConn(c, "closed", NoCall)
  /\ \/ UNCHANGED orphans
     \/ /\ conn[c] = "request" /\ request[c].op \in StoreOp
        /\ Cardinality(orphans) < MaxOrphans
        /\ orphans' = orphans \cup {request[c]}
  /\ UNCHANGED <<storeVars, processVars, told>>

-------------------------------------------------------------------------------
(* The process.                                                               *)
\* The tick or the flush that was under way ends, by an exception if the pool or
\* the broker has gone.
LoopEnds(b) == /\ loop[b] = "stopping"
               /\ loop' = [loop EXCEPT ![b] = "off"]
               /\ UNCHANGED <<storeVars, phase, conn, request, orphans, told>>

Exited == phase = "down" /\ orphans = {} /\ \A b \in Loop : loop[b] = "off"

\* The relay always starts, the worker unless DEMO_WORKER_AUTO_START is "false".
Bootstrap ==
  /\ Exited
  /\ phase' = "serving"
  /\ loop' \in {[b \in Loop |-> "on"], [loop EXCEPT !["relay"] = "on"]}
  /\ UNCHANGED <<storeVars, conn, request, orphans, told>>

\* SIGINT or SIGTERM: worker.stop, relay.stop and server.close, which closes the
\* idle connections.  A second signal finds shuttingDown set.
Shutdown ==
  /\ phase = "serving"
  /\ phase' = "closing"
  /\ loop' \in [Loop -> {"on", "stopping", "off"}]
  /\ \A b \in Loop : loop'[b] \in Halted(loop[b])
  /\ conn' = [c \in Client |-> IF conn[c] = "idle" THEN "closed" ELSE conn[c]]
  /\ UNCHANGED <<storeVars, request, orphans, told>>

GoOn(from, to) == /\ phase = from
                  /\ phase' = to
                  /\ UNCHANGED <<storeVars, loop, conn, request, orphans, told>>

\* Mutant: the pool is ended without waiting for the connections.
ServerClosedAtOnce == GoOn("closing", "ending")

\* server.close calls back when the last connection has gone, then store.close
\* ends the pool.
ServerClosed == (\A c \in Client : conn[c] = "closed") /\ GoOn("closing", "ending")

\* Then broker.close.
PoolEnded == GoOn("ending", "quitting")

BrokerClosed == GoOn("quitting", "down")

\* The process is killed: connections, timers and handlers go with it.
Crash == /\ ~Exited
         /\ phase' = "down"
         /\ loop' = [b \in Loop |-> "off"]
         /\ conn' = [c \in Client |-> "closed"]
         /\ request' = [c \in Client |-> NoCall]
         /\ orphans' = {}
         /\ UNCHANGED <<storeVars, told>>

Tick == /\ clock < MaxTime /\ Store!Tick
        /\ UNCHANGED <<processVars, conn, request, orphans, told>>

Handler(c) == Handle(c) \/ HandleInvalid(c) \/ HandleStream(c) \/ HandleWorker(c)

Next == \/ \E c \in Client : Open(c)
        \/ \E c \in Client, k \in Call : Send(c, k)
        \/ \E c \in Client : Handle(c)
        \/ \E c \in Client : HandleInvalid(c)
        \/ \E c \in Client : HandleStream(c)
        \/ \E c \in Client : HandleWorker(c)
        \/ \E k \in Call : HandleOrphan(k)
        \/ \E c \in Client : Close(c)
        \/ \E b \in Loop : LoopEnds(b)
        \/ Bootstrap
        \/ Shutdown
        \/ ServerClosed
        \/ PoolEnded
        \/ BrokerClosed
        \/ Crash
        \/ Tick

Spec == Init /\ [][Next]_vars

\* Handlers, ticks, flushes and the calls of shutdown() come to their end, and the
\* server drops a connection that stays idle.
Fairness ==
  /\ WF_vars(ServerClosed) /\ WF_vars(PoolEnded) /\ WF_vars(BrokerClosed)
  /\ \A c \in Client : WF_vars(Handler(c)) /\ WF_vars(conn[c] = "idle" /\ Close(c))
  /\ \A k \in Call : WF_vars(HandleOrphan(k))
  /\ \A b \in Loop : WF_vars(LoopEnds(b))

FairSpec == Spec /\ Fairness

-------------------------------------------------------------------------------
Success == [call: Call, job: Job, lease: Lease \cup {NoLease}]

TypeOK == /\ jobs \in [Job -> Row \cup {NoRow}]
          /\ issued \in [Lease -> Store!Issue]
          /\ clock \in Nat
          /\ phase \in {"serving", "closing", "ending", "quitting", "down"}
          /\ loop \in [Loop -> {"on", "stopping", "off"}]
          /\ conn \in [Client -> {"closed", "idle", "request", "stream"}]
          /\ request \in [Client -> Call \cup {NoCall}]
          /\ \A c \in Client : conn[c] = "request" => request[c] \in Call
          /\ orphans \subseteq Call
          /\ told \subseteq Success

\* shutdown() does not take the pool away from a client that waits for an answer:
\* the store is closed after the last connection, whatever clients do meanwhile.
PoolOutlivesRequests ==
  \A c \in Client : conn[c] = "request" => phase \in {"serving", "closing"}

\* "A successful completion is terminal and cannot be overwritten by a late
\* worker" (PLAN.md:169): once any client was told 200, through lost answers,
\* repeated calls, orphaned handlers, expired leases, crashes and restarts.
CompletionIsTerminal ==
  \A x \in told : x.call.op = "complete" =>
    jobs[x.job] # NoRow /\ jobs[x.job].status \in {"completed", "cancelled"}

\* Clients that repeat a submit with one idempotency key until they are answered
\* are all told of the same job (PLAN.md:170), also when two copies of the call
\* are being handled, or the process crashed between the change and the answer.
KeyedSubmitsAgree ==
  \A x, y \in told :
    /\ x.call.op = "submit" /\ y.call.op = "submit"
    /\ x.call.input.key # NoKey /\ x.call.input.key = y.call.input.key
    => x.job = y.job

\* Clients do not keep a connection for ever, and nobody starts the worker again
\* while the server closes.
ClientsLeave == \A c \in Client : []<>(conn[c] = "closed")
WorkerIsLeftAlone ==
  [](phase = "closing" => \A c \in Client : conn[c] = "request" => request[c].op # "start")

\* Then a signal ends the process: every connection, tick and flush that was under
\* way comes to its end, and shutdown() gets past server.close.
ShutdownEnds ==
  ClientsLeave /\ WorkerIsLeftAlone => (phase = "closing" ~> Exited)

-------------------------------------------------------------------------------
(* Claims that the documents make and the code does not keep.                 *)

\* The process "handles SIGINT/SIGTERM graceful shutdown" (docs/EXPLAIN.md:144):
\* after the signal, shutdown() comes to its end.
GracefulShutdown == phase = "closing" ~> phase = "down"
===============================================================================
