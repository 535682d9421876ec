------------------------------- MODULE Dashboard -------------------------------
(* One page of the dashboard (web/src/App.tsx, web/src/api.ts) against a store *)
(* that goes on changing.  The page refreshes its snapshot on a timer, on every *)
(* event of its stream and after its own actions, and fetches the history of   *)
(* the selected job; requests overlap, are answered in any order or fail, and  *)
(* a stream that breaks loses what was sent meanwhile.  Every change of a job  *)
(* comes with one event, so its state and its history are a number of changes. *)
(* A call of the page changes the store as anyone's would: it is one of the    *)
(* changes, and its answer comes at some later time.  Banners are left out.    *)
EXTENDS Integers

CONSTANTS Job, NoJob,
          Slot,        \* bound on the requests of the page under way at one time
          NoRequest, NotRead, NoList,
          MaxChanges   \* bound on the changes of each job

ASSUME DashboardAssumption == NoJob \notin Job /\ NotRead \notin Nat /\ MaxChanges \in [Job -> Nat]

VARIABLES
  store,      \* the changes of each job so far, 0 before it is submitted
  unsent,     \* events the stream has not delivered yet
  link,       \* the EventSource of the page, connected or not
  requests,   \* what each request under way has read so far
  shown,      \* the snapshot: the jobs and the recent events
  selected,   \* selectedJobId
  listed      \* the history in the inspector: of which job, how many events

serverVars == <<store, unsent>>
pageVars == <<shown, selected, listed>>
vars == <<serverVars, link, requests, pageVars>>

Nothing == [j \in Job |-> 0]
GetSnapshot == [kind |-> "snapshot", jobs |-> NotRead, events |-> NotRead]
GetHistory(j) == [kind |-> "history", job |-> j, upto |-> NotRead]

\* Jobs have been submitted already.  The page has just been mounted: its first
\* refresh and its stream are under way.
Init == /\ store = [j \in Job |-> 1]
        /\ unsent = 0
        /\ link = "down"
        /\ \E s \in Slot :
             requests = [r \in Slot |-> IF r = s THEN GetSnapshot ELSE NoRequest]
        /\ shown = [jobs |-> Nothing, events |-> Nothing]
        /\ selected = NoJob
        /\ listed = NoList

-------------------------------------------------------------------------------
(* The server.                                                                *)
\* An action of the page, a worker, another client.
Change(j) == /\ store[j] < MaxChanges[j]
             /\ store' = [store EXCEPT ![j] = @ + 1]
             /\ unsent' = unsent + 1
             /\ UNCHANGED <<link, requests, pageVars>>

IsRequest(s, kind) == requests[s] # NoRequest /\ requests[s].kind = kind

\* The queries of a snapshot run one after the other or on connections of their
\* own; the queue counts are not shown by the page.
ReadJobs(s) == /\ IsRequest(s, "snapshot") /\ requests[s].jobs = NotRead
               /\ requests' = [requests EXCEPT ![s].jobs = store]
               /\ UNCHANGED <<serverVars, link, pageVars>>

ReadEvents(s) == /\ IsRequest(s, "snapshot") /\ requests[s].events = NotRead
                 /\ requests' = [requests EXCEPT ![s].events = store]
                 /\ UNCHANGED <<serverVars, link, pageVars>>

ReadHistory(s) == /\ IsRequest(s, "history") /\ requests[s].upto = NotRead
                  /\ requests' = [requests EXCEPT ![s].upto = store[requests[s].job]]
                  /\ UNCHANGED <<serverVars, link, pageVars>>

-------------------------------------------------------------------------------
(* Refreshes, and the effect that fetches the history of the selected job.     *)
Free == {s \in Slot : requests[s] = NoRequest}

Refresh == \E s \in Free : requests' = [requests EXCEPT ![s] = GetSnapshot]

\* Mutant: there is no poll, the stream drives every refresh.
PollNever == FALSE /\ UNCHANGED vars

Poll == Refresh /\ UNCHANGED <<serverVars, link, pageVars>>

Answered(s) == /\ IsRequest(s, "snapshot")
               /\ NotRead \notin {requests[s].jobs, requests[s].events}
               /\ UNCHANGED <<serverVars, link, selected>>

Show(s) == shown' = [jobs |-> requests[s].jobs, events |-> requests[s].events]
NoEffect(s) == requests' = [requests EXCEPT ![s] = NoRequest] /\ UNCHANGED listed

\* Mutant: the effect depends on selectedJobId alone.
EffectOfSelection(s) == NoEffect(s)

\* The effect runs again because generatedAt has changed.
SnapshotEffect(s) ==
  IF selected = NoJob
  THEN requests' = [requests EXCEPT ![s] = NoRequest] /\ listed' = NoList
  ELSE requests' = [requests EXCEPT ![s] = GetHistory(selected)] /\ UNCHANGED listed

RefreshEnds(s) == Answered(s) /\ Show(s) /\ SnapshotEffect(s)

\* Two snapshots may be generated in the same millisecond.
RefreshOfSameInstant(s) == Answered(s) /\ Show(s) /\ NoEffect(s)

\* The page keeps what it shows.
RefreshFails(s) == Answered(s) /\ NoEffect(s) /\ UNCHANGED shown

\* Mutant: the answer is used before it has been read.
HistoryAnsweredUnread(s) == /\ IsRequest(s, "history")
                            /\ requests' = [requests EXCEPT ![s] = NoRequest]
                            /\ UNCHANGED <<serverVars, link, shown, selected>>

HistoryAnswered(s) == /\ IsRequest(s, "history") /\ requests[s].upto # NotRead
                      /\ requests' = [requests EXCEPT ![s] = NoRequest]
                      /\ UNCHANGED <<serverVars, link, shown, selected>>

\* setEvents does not ask whether the job is still the selected one.
HistoryEnds(s) == /\ HistoryAnswered(s)
                  /\ listed' = [job |-> requests[s].job, upto |-> requests[s].upto]

HistoryFails(s) == HistoryAnswered(s) /\ listed' = NoList

-------------------------------------------------------------------------------
(* The user: selecting a job, and acting on one.                              *)
Visible == {j \in Job : shown.jobs[j] > 0 \/ shown.events[j] > 0}

\* The effect does not wait for an earlier fetch and does not drop its answer.
Select(j) ==
  /\ j \in Visible /\ selected # j
  /\ selected' = j
  /\ \E s \in Free : requests' = [requests EXCEPT ![s] = GetHistory(j)]
  /\ UNCHANGED <<serverVars, link, shown, listed>>

Close == /\ selected # NoJob
         /\ selected' = NoJob
         /\ listed' = NoList
         /\ UNCHANGED <<serverVars, link, requests, shown>>

\* perform() of a cancel, a retry or a worker command has been answered.
Performed == Refresh /\ UNCHANGED <<serverVars, link, pageVars>>

\* onCreated selects the job that was submitted, which the snapshot may not have.
Created(j) ==
  /\ store[j] > 0 /\ selected # j
  /\ selected' = j
  /\ \E s, r \in Free : /\ s # r
                        /\ requests' = [requests EXCEPT ![s] = GetSnapshot, ![r] = GetHistory(j)]
  /\ UNCHANGED <<serverVars, link, shown, listed>>

-------------------------------------------------------------------------------
(* The event stream.                                                          *)
\* A stream starts with the next event: Last-Event-ID is sent and not read, and
\* the page does not refresh.
Connect == /\ link = "down" /\ link' = "live"
           /\ UNCHANGED <<serverVars, requests, pageVars>>

\* The browser connects again, or never, if it is answered with an HTTP error.
Disconnect == /\ link = "live" /\ link' = "down"
              /\ UNCHANGED <<serverVars, requests, pageVars>>

EventArrives == /\ link = "live" /\ unsent > 0
                /\ unsent' = unsent - 1
                /\ Refresh
                /\ UNCHANGED <<store, link, pageVars>>

EventIsLost == /\ link = "down" /\ unsent > 0
               /\ unsent' = unsent - 1
               /\ UNCHANGED <<store, link, requests, pageVars>>

-------------------------------------------------------------------------------
Next == \/ \E j \in Job : Change(j)
        \/ \E s \in Slot : ReadJobs(s)
        \/ \E s \in Slot : ReadEvents(s)
        \/ \E s \in Slot : ReadHistory(s)
        \/ Poll
        \/ \E s \in Slot : RefreshEnds(s)
        \/ \E s \in Slot : RefreshOfSameInstant(s)
        \/ \E s \in Slot : RefreshFails(s)
        \/ \E s \in Slot : HistoryEnds(s)
        \/ \E s \in Slot : HistoryFails(s)
        \/ \E j \in Job : Select(j)
        \/ Close
        \/ Performed
        \/ \E j \in Job : Created(j)
        \/ Connect
        \/ Disconnect
        \/ EventArrives
        \/ EventIsLost

Spec == Init /\ [][Next]_vars

\* The poll timer fires, whatever other requests take up the slots, and requests
\* are answered, now and then with success and with snapshots of different times,
\* since polls are five seconds apart.
FairSpec == /\ Spec
            /\ SF_vars(Poll)
            /\ \A s \in Slot :
                 /\ WF_vars(ReadJobs(s)) /\ WF_vars(ReadEvents(s)) /\ WF_vars(ReadHistory(s))
                 /\ SF_vars(RefreshEnds(s)) /\ SF_vars(HistoryEnds(s))

-------------------------------------------------------------------------------
Versions == [Job -> Nat]

TypeOK ==
  /\ store \in Versions /\ unsent \in Nat
  /\ link \in {"live", "down"}
  /\ requests \in [Slot -> {NoRequest}
       \cup [kind: {"snapshot"}, jobs: Versions \cup {NotRead}, events: Versions \cup {NotRead}]
       \cup [kind: {"history"}, job: Job, upto: Nat \cup {NotRead}]]
  /\ shown \in [jobs: Versions, events: Versions]
  /\ selected \in Job \cup {NoJob}
  /\ listed \in {NoList} \cup [job: Job, upto: Nat]

\* Once the store comes to rest the page comes to show it, jobs and events alike:
\* torn snapshots, overtaken answers and events lost with the stream are made good.
PageCatchesUp == <>[](shown = [jobs |-> store, events |-> store])

\* A user who stays with one job is shown its whole history again and again, even
\* when the answer to an earlier selection came last.
InspectorCatchesUp ==
  \A j \in Job : <>[](selected = j) => []<>(listed = [job |-> j, upto |-> store[j]])

===============================================================================
