---------------------------- MODULE DashboardProofs ----------------------------
(* What a request of the page has read is of the kind it asked for before its  *)
(* answer is used, for any number of jobs and overlapping requests.            *)
EXTENDS Dashboard, TLAPS

SnapshotRequest == [kind: {"snapshot"}, jobs: Versions \cup {NotRead},
                    events: Versions \cup {NotRead}]
HistoryRequest == [kind: {"history"}, job: Job, upto: Nat \cup {NotRead}]
Request == {NoRequest} \cup SnapshotRequest \cup HistoryRequest

LEMMA RequestKinds ==
  ASSUME TypeOK, NEW s \in Slot
  PROVE  /\ IsRequest(s, "snapshot") => requests[s] \in SnapshotRequest
         /\ IsRequest(s, "history") => requests[s] \in HistoryRequest
  BY DEF TypeOK, IsRequest, SnapshotRequest, HistoryRequest

LEMMA NewRequests ==
  /\ GetSnapshot \in SnapshotRequest
  /\ \A j \in Job : GetHistory(j) \in HistoryRequest
  BY DEF GetSnapshot, GetHistory, SnapshotRequest, HistoryRequest

\* A step that changes one request, or two, keeps their type.
LEMMA RequestsType ==
  ASSUME TypeOK, NEW r \in Request, NEW s \in Slot, requests' = [requests EXCEPT ![s] = r]
  PROVE  requests' \in [Slot -> Request]
  BY DEF TypeOK, Request, SnapshotRequest, HistoryRequest

LEMMA RefreshType ==
  ASSUME TypeOK, Refresh
  PROVE  requests' \in [Slot -> Request]
<1>1. PICK s \in Slot : requests' = [requests EXCEPT ![s] = GetSnapshot]
  BY DEF Refresh, Free
<1>2. QED
  BY <1>1, NewRequests, RequestsType DEF Request

\* What is left to show once the requests keep their type.
LEMMA KeepTypes ==
  ASSUME requests' \in [Slot -> Request], store' \in Versions, unsent' \in Nat,
         link' \in {"live", "down"}, shown' \in [jobs: Versions, events: Versions],
         selected' \in Job \cup {NoJob}, listed' \in {NoList} \cup [job: Job, upto: Nat]
  PROVE  TypeOK'
  BY DEF TypeOK, Request, SnapshotRequest, HistoryRequest

LEMMA Unchanged ==
  ASSUME TypeOK
  PROVE  /\ requests \in [Slot -> Request] /\ store \in Versions /\ unsent \in Nat
         /\ link \in {"live", "down"} /\ shown \in [jobs: Versions, events: Versions]
         /\ selected \in Job \cup {NoJob} /\ listed \in {NoList} \cup [job: Job, upto: Nat]
  BY DEF TypeOK, Request, SnapshotRequest, HistoryRequest

-------------------------------------------------------------------------------
LEMMA ServerTypes ==
  ASSUME TypeOK,
         \/ \E j \in Job : Change(j)
         \/ \E s \in Slot : ReadJobs(s) \/ ReadEvents(s) \/ ReadHistory(s)
  PROVE  TypeOK'
<1>1. ASSUME NEW j \in Job, Change(j) PROVE TypeOK'
  <2>1. store' \in Versions /\ unsent' \in Nat
    BY <1>1 DEF Change, TypeOK, Versions
  <2>2. QED
    BY <1>1, <2>1, Unchanged, KeepTypes DEF Change, pageVars
<1>2. ASSUME NEW s \in Slot, ReadJobs(s) \/ ReadEvents(s) \/ ReadHistory(s) PROVE TypeOK'
  <2>1. PICK r \in Request : requests' = [requests EXCEPT ![s] = r]
    <3>1. CASE ReadJobs(s)
      <4>1. [requests[s] EXCEPT !.jobs = store] \in SnapshotRequest
        BY <3>1, RequestKinds, Unchanged DEF ReadJobs, SnapshotRequest
      <4>2. QED
        BY <3>1, <4>1, Unchanged DEF ReadJobs, Request
    <3>2. CASE ReadEvents(s)
      <4>1. [requests[s] EXCEPT !.events = store] \in SnapshotRequest
        BY <3>2, RequestKinds, Unchanged DEF ReadEvents, SnapshotRequest
      <4>2. QED
        BY <3>2, <4>1, Unchanged DEF ReadEvents, Request
    <3>3. CASE ReadHistory(s)
      <4>1. requests[s] \in HistoryRequest
        BY <3>3, RequestKinds DEF ReadHistory
      <4>2. store[requests[s].job] \in Nat
        BY <4>1, Unchanged DEF HistoryRequest, Versions
      <4>3. [requests[s] EXCEPT !.upto = store[requests[s].job]] \in HistoryRequest
        BY <4>1, <4>2 DEF HistoryRequest
      <4>4. QED
        BY <3>3, <4>3, Unchanged DEF ReadHistory, Request
    <3>4. QED
      BY <1>2, <3>1, <3>2, <3>3
  <2>2. UNCHANGED <<serverVars, link, pageVars>>
    BY <1>2 DEF ReadJobs, ReadEvents, ReadHistory
  <2>3. requests' \in [Slot -> Request]
    BY <2>1, RequestsType
  <2>4. QED
    BY <2>2, <2>3, Unchanged, KeepTypes DEF serverVars, pageVars
<1>3. QED
  BY <1>1, <1>2

\* An answer replaces what the page shows only when it has been read.
LEMMA AnswerTypes ==
  ASSUME TypeOK, NEW s \in Slot,
         \/ RefreshEnds(s) \/ RefreshOfSameInstant(s) \/ RefreshFails(s)
         \/ HistoryEnds(s) \/ HistoryFails(s)
  PROVE  TypeOK'
<1>1. CASE RefreshEnds(s) \/ RefreshOfSameInstant(s) \/ RefreshFails(s)
  <2>1. Answered(s)
    BY <1>1 DEF RefreshEnds, RefreshOfSameInstant, RefreshFails
  <2>2. requests[s].jobs \in Versions /\ requests[s].events \in Versions
    BY <2>1, RequestKinds DEF Answered, SnapshotRequest
  <2>3. shown' \in [jobs: Versions, events: Versions]
    BY <1>1, <2>2, Unchanged DEF RefreshEnds, RefreshOfSameInstant, RefreshFails, Show
  <2>4. PICK r \in Request : requests' = [requests EXCEPT ![s] = r]
    <3>1. NoRequest \in Request
      BY DEF Request
    <3>2. selected # NoJob => GetHistory(selected) \in Request
      BY NewRequests, Unchanged DEF Request
    <3>3. QED
      BY <1>1, <3>1, <3>2
      DEF RefreshEnds, RefreshOfSameInstant, RefreshFails, SnapshotEffect, NoEffect
  <2>5. listed' \in {NoList} \cup [job: Job, upto: Nat]
    BY <1>1, Unchanged
    DEF RefreshEnds, RefreshOfSameInstant, RefreshFails, SnapshotEffect, NoEffect
  <2>6. requests' \in [Slot -> Request]
    BY <2>4, RequestsType
  <2>7. UNCHANGED <<store, unsent, link, selected>>
    BY <2>1 DEF Answered, serverVars
  <2>8. QED
    BY <2>3, <2>5, <2>6, <2>7, Unchanged, KeepTypes
<1>2. CASE HistoryEnds(s) \/ HistoryFails(s)
  <2>1. HistoryAnswered(s)
    BY <1>2 DEF HistoryEnds, HistoryFails
  <2>2. requests[s].job \in Job /\ requests[s].upto \in Nat
    BY <2>1, RequestKinds DEF HistoryAnswered, HistoryRequest
  <2>3. listed' \in {NoList} \cup [job: Job, upto: Nat]
    BY <1>2, <2>2 DEF HistoryEnds, HistoryFails
  <2>4. requests' \in [Slot -> Request]
    BY <2>1, RequestsType DEF HistoryAnswered, Request
  <2>5. UNCHANGED <<store, unsent, link, shown, selected>>
    BY <2>1 DEF HistoryAnswered, serverVars
  <2>6. QED
    BY <2>3, <2>4, <2>5, Unchanged, KeepTypes
<1>3. QED
  BY <1>1, <1>2

LEMMA UserTypes ==
  ASSUME TypeOK,
         Poll \/ Performed \/ Close \/ \E j \in Job : Select(j) \/ Created(j)
  PROVE  TypeOK'
<1>1. CASE Poll \/ Performed
  <2>1. Refresh /\ UNCHANGED <<serverVars, link, pageVars>>
    BY <1>1 DEF Poll, Performed
  <2>2. QED
    BY <2>1, RefreshType, Unchanged, KeepTypes DEF serverVars, pageVars
<1>2. CASE Close
  BY <1>2, Unchanged, KeepTypes DEF Close, serverVars
<1>3. ASSUME NEW j \in Job, Select(j) PROVE TypeOK'
  <2>1. PICK s \in Slot : requests' = [requests EXCEPT ![s] = GetHistory(j)]
    BY <1>3 DEF Select, Free
  <2>2. requests' \in [Slot -> Request]
    BY <2>1, NewRequests, RequestsType DEF Request
  <2>3. QED
    BY <1>3, <2>2, Unchanged, KeepTypes DEF Select, serverVars
<1>4. ASSUME NEW j \in Job, Created(j) PROVE TypeOK'
  <2>1. PICK s \in Slot, r \in Slot :
          requests' = [requests EXCEPT ![s] = GetSnapshot, ![r] = GetHistory(j)]
    BY <1>4 DEF Created, Free
  <2>2. GetSnapshot \in Request /\ GetHistory(j) \in Request
    BY NewRequests DEF Request
  <2>3. requests' \in [Slot -> Request]
    BY <2>1, <2>2, Unchanged
  <2>4. QED
    BY <1>4, <2>3, Unchanged, KeepTypes DEF Created, serverVars
<1>5. QED
  BY <1>1, <1>2, <1>3, <1>4

LEMMA StreamTypes ==
  ASSUME TypeOK, Connect \/ Disconnect \/ EventArrives \/ EventIsLost
  PROVE  TypeOK'
<1>1. CASE Connect \/ Disconnect
  BY <1>1, Unchanged, KeepTypes DEF Connect, Disconnect, serverVars, pageVars
<1>2. CASE EventArrives
  <2>1. requests' \in [Slot -> Request] /\ unsent' \in Nat
    BY <1>2, RefreshType, Unchanged DEF EventArrives
  <2>2. QED
    BY <1>2, <2>1, Unchanged, KeepTypes DEF EventArrives, pageVars
<1>3. CASE EventIsLost
  <2>1. unsent' \in Nat
    BY <1>3, Unchanged DEF EventIsLost
  <2>2. QED
    BY <1>3, <2>1, Unchanged, KeepTypes DEF EventIsLost, pageVars
<1>4. QED
  BY <1>1, <1>2, <1>3

LEMMA TypesInit == Init => TypeOK
<1> SUFFICES ASSUME Init PROVE TypeOK
  OBVIOUS
<1>1. PICK s \in Slot :
        requests = [r \in Slot |-> IF r = s THEN GetSnapshot ELSE NoRequest]
  BY DEF Init
<1>2. requests \in [Slot -> Request]
  BY <1>1, NewRequests DEF Request
<1>3. QED
  BY <1>2 DEF Init, TypeOK, Nothing, Versions, Request, SnapshotRequest, HistoryRequest

\* Whatever requests overlap, fail or answer late, the page shows what some request
\* has read in full: never an answer of the other kind or a part of one.
THEOREM DashboardTypes == Spec => []TypeOK
<1>1. TypeOK /\ [Next]_vars => TypeOK'
  <2> SUFFICES ASSUME TypeOK, [Next]_vars PROVE TypeOK'
    OBVIOUS
  <2>1. CASE UNCHANGED vars
    BY <2>1, Unchanged, KeepTypes DEF vars, serverVars, pageVars
  <2>2. CASE Next
    BY <2>2, ServerTypes, AnswerTypes, UserTypes, StreamTypes DEF Next
  <2>3. QED
    BY <2>1, <2>2
<1>2. QED
  BY <1>1, TypesInit, PTL DEF Spec
===============================================================================
