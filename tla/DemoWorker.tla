------------------------------ MODULE DemoWorker ------------------------------
(* The demo worker against a store that keeps the contract.  Its timers and    *)
(* its ticks are those of one Node process: the code between two awaits is one *)
(* step, and a tick stands still at every call of the store while the routes   *)
(* of /v1/demo/worker start it, stop it and arm it, and while other clients    *)
(* use the store.  setTimeout promises only that the delay passes first, so a  *)
(* timer, and the wait that stands for the work, ends at any later moment.     *)
EXTENDS JobRecord, FiniteSets

CONSTANTS TickId,     \* ticks that could be under way at once
          Visibility, \* the lease claim() takes by default, 30_000 ms
          SubmitInputs,
          MaxTime,    \* bound on the store's clock
          MaxLeaked   \* bound on the pending timers that #timer no longer names

ASSUME WorkerAssumption == /\ SubmitInputs \subseteq SubmitInput
                           /\ Visibility \in Nat
                           /\ MaxTime \in Nat /\ MaxLeaked \in Nat

VARIABLES jobs, issued, clock,   \* the store
          running, busy,         \* #running, #busy
          timer,                 \* whether the timer that #timer names is pending
          leaked,                \* how many other timers are pending
          tick,                  \* the ticks under way and what each waits for
          activeJob,             \* #activeJobId
          failNext,              \* #failNext
          completed, failed      \* the counters of /metrics

storeVars == <<jobs, issued, clock>>
timerVars == <<timer, leaked>>
counters == <<completed, failed>>
vars == <<jobs, issued, clock, running, busy, timer, leaked, tick, activeJob,
          failNext, completed, failed>>

Store == INSTANCE JobStore WITH Duration <- {Visibility}, MaxSkew <- 0, Lag <- Nat

NoTick == [pc |-> "none", queues |-> {}, job |-> NoJob, lease |-> NoLease]

Init == /\ Store!Init
        /\ running = FALSE /\ busy = FALSE
        /\ timer = FALSE /\ leaked = 0
        /\ tick = [k \in TickId |-> NoTick]
        /\ activeJob = NoJob
        /\ failNext = FALSE
        /\ completed = 0 /\ failed = 0

\* schedule(): #timer is overwritten, a timer it still named stays pending.
Schedule == /\ timer' = TRUE
            /\ leaked' = IF timer THEN leaked + 1 ELSE leaked

Start == /\ leaked < MaxLeaked
         /\ IF running THEN UNCHANGED <<running, timer, leaked>>
            ELSE running' = TRUE /\ Schedule
         /\ UNCHANGED <<storeVars, busy, tick, activeJob, failNext, counters>>

Stop == /\ running' = FALSE
        /\ timer' = FALSE
        /\ UNCHANGED <<storeVars, busy, leaked, tick, activeJob, failNext, counters>>

FailNext == /\ failNext' = TRUE
            /\ UNCHANGED <<storeVars, running, busy, timerVars, tick, activeJob, counters>>

\* A pending timer fires and calls tick().
TakeTimer == \/ timer /\ timer' = FALSE /\ UNCHANGED leaked
             \/ leaked > 0 /\ leaked' = leaked - 1 /\ UNCHANGED timer

\* Mutant: a tick does not look at #busy.
EnteringWhileBusy == running

Entering == running /\ ~busy

TickBegins(k) ==
  /\ tick[k] = NoTick
  /\ TakeTimer
  /\ Entering
  /\ busy' = TRUE
  /\ tick' = [tick EXCEPT ![k].pc = "listing"]
  /\ UNCHANGED <<storeVars, running, activeJob, failNext, counters>>

\* Mutant: a tick that may not run waits for its turn in another timer.
TickRefusedAgain ==
  /\ timer \/ leaked > 0
  /\ ~Entering
  /\ UNCHANGED vars

TickRefused ==
  /\ TakeTimer
  /\ ~Entering
  /\ UNCHANGED <<storeVars, running, busy, tick, activeJob, failNext, counters>>

\* Mutant: the status goes on naming the job that was worked on last.
FinishKeepsActive(k) ==
  /\ busy' = FALSE
  /\ tick' = [tick EXCEPT ![k] = NoTick]
  /\ IF running THEN Schedule ELSE UNCHANGED timerVars
  /\ UNCHANGED <<running, activeJob>>

\* The finally block of tick().
Finish(k) ==
  /\ activeJob' = NoJob
  /\ busy' = FALSE
  /\ tick' = [tick EXCEPT ![k] = NoTick]
  /\ IF running THEN Schedule ELSE UNCHANGED timerVars
  /\ UNCHANGED running

\* queues() returns the queues of the jobs there are; the order is left open.
List(k) ==
  LET found == {jobs[j].queue : j \in Store!Stored} IN
  /\ tick[k].pc = "listing"
  /\ UNCHANGED <<storeVars, failNext, counters>>
  /\ IF found = {} THEN Finish(k)
     ELSE /\ tick' = [tick EXCEPT ![k].pc = "claiming", ![k].queues = found]
          /\ UNCHANGED <<running, busy, timerVars, activeJob>>

\* claim(queue) returns a job: #activeJobId is set and the work begins.
ClaimJob(k) ==
  /\ tick[k].pc = "claiming"
  /\ \E R \in SUBSET Store!Stored, t \in Store!TimeRead, j \in Store!Stored, l \in Lease :
       /\ jobs[j].queue \in tick[k].queues
       /\ Store!Claim(R, t, j, l, Visibility)
       /\ tick' = [tick EXCEPT ![k] = [pc |-> "working", queues |-> {},
                                       job |-> j, lease |-> l]]
       /\ activeJob' = j
  /\ UNCHANGED <<running, busy, timerVars, failNext, counters>>

\* claim(queue) returns nothing: the loop goes on to the next queue, if any.
ClaimNothing(k) ==
  /\ tick[k].pc = "claiming"
  /\ UNCHANGED <<failNext, counters>>
  /\ \E R \in SUBSET Store!Stored, t \in Store!TimeRead : Store!ClaimNothing(R, t)
  /\ \E q \in tick[k].queues :
       IF tick[k].queues = {q} THEN Finish(k)
       ELSE /\ tick' = [tick EXCEPT ![k].queues = @ \ {q}]
            /\ UNCHANGED <<running, busy, timerVars, activeJob>>

\* The work is over; the armed failure is used up before fail() is answered.
Decide(k) ==
  /\ tick[k].pc = "working"
  /\ tick' = [tick EXCEPT ![k].pc = IF failNext THEN "failing" ELSE "completing"]
  /\ failNext' = FALSE
  /\ UNCHANGED <<storeVars, running, busy, timerVars, activeJob, counters>>

Complete(k) ==
  /\ tick[k].pc = "completing"
  /\ Store!Complete(tick[k].job, tick[k].lease)
  /\ completed' = completed + 1
  /\ Finish(k)
  /\ UNCHANGED <<failNext, failed>>

Fail(k) ==
  /\ tick[k].pc = "failing"
  /\ \E t \in Store!TimeRead : Store!Fail(tick[k].job, tick[k].lease, t)
  /\ failed' = failed + 1
  /\ Finish(k)
  /\ UNCHANGED <<failNext, completed>>

\* Mutant: the next tick is not scheduled after an exception.
CallThrowsUnscheduled(k) ==
  /\ tick[k].pc \in {"listing", "claiming", "completing", "failing"}
  /\ activeJob' = NoJob /\ busy' = FALSE
  /\ tick' = [tick EXCEPT ![k] = NoTick]
  /\ UNCHANGED <<storeVars, running, timerVars, failNext, counters>>

\* Mutant: #busy is not reset after an exception.
CallThrowsBusy(k) ==
  /\ tick[k].pc \in {"listing", "claiming", "completing", "failing"}
  /\ activeJob' = NoJob
  /\ tick' = [tick EXCEPT ![k] = NoTick]
  /\ IF running THEN Schedule ELSE UNCHANGED timerVars
  /\ UNCHANGED <<storeVars, running, busy, failNext, counters>>

\* A call of the store throws: a lease lost meanwhile, or any other error.
CallThrows(k) ==
  /\ tick[k].pc \in {"listing", "claiming", "completing", "failing"}
  /\ Finish(k)
  /\ UNCHANGED <<storeVars, failNext, counters>>

\* Everyone else who uses the store.
Others == /\ Store!Next /\ clock' <= MaxTime
          /\ UNCHANGED <<running, busy, timerVars, tick, activeJob, failNext, counters>>

TickStep(k) == \/ List(k) \/ ClaimJob(k) \/ ClaimNothing(k) \/ Decide(k)
               \/ Complete(k) \/ Fail(k) \/ CallThrows(k)

Next == \/ Start
        \/ Stop
        \/ FailNext
        \/ \E k \in TickId : TickBegins(k)
        \/ TickRefused
        \/ \E k \in TickId : TickStep(k)
        \/ Others

Spec == Init /\ [][Next]_vars

TimerFires == TickRefused \/ \E k \in TickId : TickBegins(k)

\* Timers fire, the work ends, and the store answers every call.
FairSpec == Spec /\ WF_vars(TimerFires) /\ \A k \in TickId : WF_vars(TickStep(k))

-------------------------------------------------------------------------------
Active == {k \in TickId : tick[k] # NoTick}

TypeOK == /\ jobs \in [Job -> Row \cup {NoRow}]
          /\ issued \in [Lease -> Store!Issue]
          /\ clock \in 0..MaxTime
          /\ {running, busy, timer, failNext} \subseteq BOOLEAN
          /\ leaked \in 0..MaxLeaked
          /\ \A k \in TickId :
               /\ tick[k].pc \in {"none", "listing", "claiming", "working",
                                 "completing", "failing"}
               /\ tick[k].queues \subseteq Queue
               /\ tick[k].job \in Job \cup {NoJob}
               /\ tick[k].lease \in Lease \cup {NoLease}
          /\ activeJob \in Job \cup {NoJob}
          /\ completed \in Nat /\ failed \in Nat

\* However start and stop race with a tick under way, and however many timers
\* that leaves pending, at most one tick is under way and #busy says so.
OneTickAtATime == Cardinality(Active) = IF busy THEN 1 ELSE 0

\* A worker that shows as running will look for work again: it is in a tick or a
\* timer is pending, also after a store call threw or a timer came while busy.
NeverWedged == running => busy \/ timer \/ leaked > 0

\* The job that the status names is the one a tick has claimed and not yet
\* acknowledged, and while the lease of that tick lasts the store agrees.
ActiveJobIsHeld ==
  /\ activeJob # NoJob => \E k \in Active : tick[k].job = activeJob
  /\ \A k \in Active : tick[k].job # NoJob =>
       /\ activeJob = tick[k].job
       /\ issued[tick[k].lease].until > clock =>
            jobs[tick[k].job].lease = tick[k].lease

\* While it runs, the worker looks for work again and again.
KeepsPolling == <>[]running => []<>(\E k \in TickId : tick[k].pc = "listing")

\* A worker that stays stopped ends its tick and its last timer goes.
StopsInTheEnd == <>[]~running => <>[](Active = {} /\ ~timer /\ leaked = 0)
===============================================================================
