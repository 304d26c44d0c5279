----------------------- MODULE HostActionQueueProofs -----------------------
(***************************************************************************)
(* Safety of the host-action queue for every number of requests, kills,    *)
(* reboots and failed writes: type correctness, and that a disruptive      *)
(* action is started at most once, a convergent one at most MAX_ATTEMPTS   *)
(* times, wherever the script dies and whoever appends meanwhile.          *)
(***************************************************************************)
EXTENDS HostActionQueue, FiniteSetTheorems, TLAPS

\* Requests are issued before they are anywhere; what is queued never started.
QueueFresh ==
    /\ \A r \in queue : r <= issued /\ starts[r] = 0
    /\ \A r \in Reqs : r > issued => starts[r] = 0
    /\ inflight.r <= issued

\* Between reading the head of the queue and rewriting the file, what was read
\* is still there: others only append.
HeadCurrent == pc \in {"decide", "claim"} => cur \in queue /\ rest \subseteq queue \ {cur}

\* The record in flight counts every start of its request, and an action that
\* may not be repeated has only one attempt.
RecordCounts ==
    /\ inflight.att = 0 => inflight.r = 0
    /\ inflight.r # 0 => /\ inflight.k = kind[inflight.r]
                         /\ starts[inflight.r] <= inflight.att
    /\ inflight.k \notin RetrySafe => inflight.att <= 1

\* What is being claimed is the record in flight; what is about to run is off
\* the queue and has an attempt left that was not started.
ClaimInFlight == pc = "claim" => inflight.r = cur /\ inflight.att = 1
RunPaidFor ==
    pc = "run" /\ inflight.r # 0 =>
        inflight.r \notin queue /\ starts[inflight.r] < inflight.att

Counted == QueueFresh /\ HeadCurrent /\ RecordCounts /\ ClaimInFlight /\ RunPaidFor

\* The inductive invariant.
IInv == TypeOK /\ Counted /\ StartsBounded

----------------------------------------------------------------------------
(* Facts about the types.                                                  *)

\* The queue is finite and no longer than the number of requests.
LEMMA QueueLength == ASSUME TypeOK PROVE Cardinality(queue) \in 0..MaxReq
<1>1. IsFiniteSet(1..MaxReq) /\ Cardinality(1..MaxReq) = MaxReq
  BY FS_Interval, QueueBounds
<1>2. queue \subseteq 1..MaxReq
  BY DEF TypeOK, Reqs
<1>3. IsFiniteSet(queue) /\ Cardinality(queue) <= MaxReq
  BY <1>1, <1>2, FS_Subset
<1> QED BY <1>3, FS_CardinalityType, QueueBounds

\* Stamping yields time stamps, whatever the backlog.
LEMMA StampsType == ASSUME TypeOK, NEW b PROVE Stamps(b) \in [Reqs -> None..MaxTime]
BY QueueBounds DEF TypeOK, Stamps, None

\* The script that ends leaves locals of the right types.
LEMMA QuitType ==
    Quit => /\ pc' \in PCs /\ mode' \in {"drain", "direct"}
            /\ cur' \in 0..MaxReq /\ rest' \in SUBSET Reqs /\ op' \in Kinds \cup {NoKind}
            /\ after' \in {"idle", "head", "recovered"} /\ backlog' \in 0..MaxReq
            /\ rc' \in {"ok", "host", "update", "fail"} /\ out' \in {"ok", "failed"}
BY QueueBounds DEF Quit, PCs

\* A failed write stays within its bound.
LEMMA WriteFaultType == TypeOK /\ WriteFault => wfaults' \in 0..MaxWriteFaults
BY QueueBounds DEF TypeOK, WriteFault

\* An appended request has its types.
LEMMA EnqueueType ==
    ASSUME TypeOK, NEW k \in Kinds, Enqueue(k)
    PROVE  /\ queue' \in SUBSET Reqs /\ mtime' \in 0..MaxTime /\ issued' \in 0..MaxReq
           /\ kind' \in [Reqs -> Kinds \cup {NoKind}] /\ asked' \in [Reqs -> 0..MaxTime]
BY QueueBounds DEF TypeOK, Enqueue, Reqs

\* A report adds outcomes of requests.
LEMMA ReportType ==
    ASSUME TypeOK, NEW r \in 0..MaxReq, NEW s \in Outcomes
    PROVE  Report(r, s) \in SUBSET (Reqs \X Outcomes)
BY QueueBounds DEF TypeOK, Report, Reqs

\* In the beginning there is nothing to count.
LEMMA InitIInv == Init => IInv
<1> SUFFICES ASSUME Init PROVE IInv
  OBVIOUS
<1> USE QueueBounds, QueueLimits DEF Init
<1>1. /\ seen \in [Reqs -> None..MaxTime] /\ kind \in [Reqs -> Kinds \cup {NoKind}]
      /\ asked \in [Reqs -> 0..MaxTime] /\ starts \in [Reqs -> 0..MaxAttempts]
  BY DEF None
<1>2. inflight \in [r : 0..MaxReq, k : Kinds \cup {NoKind}, att : 0..MaxAttempts]
  BY DEF NoRecord
<1>3. queue \in SUBSET Reqs /\ history \in SUBSET (Reqs \X Outcomes) /\ ended \in SUBSET Reqs
      /\ rest \in SUBSET Reqs /\ updating \in BOOLEAN /\ rebooting \in BOOLEAN
  OBVIOUS
<1>4. TypeOK
  BY <1>1, <1>2, <1>3 DEF TypeOK, PCs
<1>5. Counted /\ StartsBounded
  BY DEF Counted, QueueFresh, HeadCurrent, RecordCounts, ClaimInFlight, RunPaidFor,
         StartsBounded, NoRecord, Reqs
<1> QED BY <1>4, <1>5 DEF IInv

----------------------------------------------------------------------------
(* Type correctness, action by action.                                     *)

\* Every action keeps every variable in its type.
LEMMA TypeStep == TypeOK /\ HeadCurrent /\ RunPaidFor /\ [Next]_vars => TypeOK'
<1> SUFFICES ASSUME TypeOK, HeadCurrent, RunPaidFor, [Next]_vars PROVE TypeOK'
  OBVIOUS
<1> USE QueueBounds, QueueLimits, WriteFaultType
    DEF TypeOK, PCs, Goto, files, locals, world, asks, runs
<1>1. ASSUME CheckinStarts PROVE TypeOK'
  BY <1>1 DEF CheckinStarts
<1>2. ASSUME PreStamp PROVE TypeOK'
  BY <1>2, StampsType, QueueLength DEF PreStamp, Stamp, StampFails
<1>3. ASSUME NEW k \in Kinds, Receive(k) PROVE TypeOK'
  BY <1>3, EnqueueType DEF Receive
<1>4. ASSUME ReceiveUpdate PROVE TypeOK'
  BY <1>4 DEF ReceiveUpdate
<1>5. ASSUME NEW b \in BOOLEAN, CheckinEnds(b) PROVE TypeOK'
  BY <1>5 DEF CheckinEnds
<1>6. ASSUME PostStamp PROVE TypeOK'
  BY <1>6, StampsType DEF PostStamp, Stamp, StampFails
<1>7. ASSUME Dispatch PROVE TypeOK'
  BY <1>7, QuitType DEF Dispatch
<1>8. ASSUME LeaveStamp PROVE TypeOK'
  BY <1>8, StampsType, QuitType DEF LeaveStamp, Stamp, StampFails
<1>9. ASSUME OperatorDrain PROVE TypeOK'
  BY <1>9 DEF OperatorDrain
<1>10. ASSUME NEW k \in Kinds, OperatorRuns(k) PROVE TypeOK'
  BY <1>10 DEF OperatorRuns
<1>11. ASSUME DrainStamp PROVE TypeOK'
  BY <1>11, StampsType DEF DrainStamp, Stamp, StampFails
<1>12. ASSUME NothingToRecover PROVE TypeOK'
  BY <1>12 DEF NothingToRecover
<1>13. ASSUME ForgetUnclaimed PROVE TypeOK'
  BY <1>13 DEF ForgetUnclaimed, NoRecord
<1>14. ASSUME ReportInterrupted PROVE TypeOK'
  BY <1>14, ReportType DEF ReportInterrupted, Outcomes
<1>15. ASSUME Retry PROVE TypeOK'
  BY <1>15 DEF Retry, Retries
<1>16. ASSUME Recovered PROVE TypeOK'
  BY <1>16, QuitType DEF Recovered
<1>17. ASSUME RecordDirect PROVE TypeOK'
  BY <1>17 DEF RecordDirect, Record
<1>18. ASSUME DirectNotRecorded PROVE TypeOK'
  BY <1>18, QuitType DEF DirectNotRecorded
<1>19. ASSUME ReadHead PROVE TypeOK'
  <2>1. cur' \in 0..MaxReq /\ rest' \in SUBSET Reqs
    <3>1. CASE UNCHANGED <<cur, rest>>
      BY <3>1
    <3>2. ASSUME NEW r \in Reqs, cur' = r, rest' = queue \ {r} PROVE cur' \in 0..MaxReq /\ rest' \subseteq Reqs
      BY <3>2 DEF Reqs
    <3> QED BY <1>19, <3>1, <3>2 DEF ReadHead
  <2>2. pc' \in PCs
    BY <1>19 DEF ReadHead
  <2> QED BY <1>19, <2>1, <2>2 DEF ReadHead
<1>20. ASSUME Expire PROVE TypeOK'
  BY <1>20 DEF Expire, SetQueue
<1>21. ASSUME ReportExpired PROVE TypeOK'
  BY <1>21, ReportType DEF ReportExpired, Outcomes
<1>22. ASSUME ClaimRecord PROVE TypeOK'
  <2>1. cur \in Reqs
    BY <1>22 DEF ClaimRecord, HeadCurrent
  <2>2. Record(cur, kind[cur], 1) \in [r : 0..MaxReq, k : Kinds \cup {NoKind}, att : 0..MaxAttempts]
    BY <2>1 DEF Record, Reqs
  <2> QED BY <1>22, <2>2 DEF ClaimRecord
<1>23. ASSUME Claim PROVE TypeOK'
  BY <1>23 DEF Claim, SetQueue
<1>24. ASSUME ClaimFails PROVE TypeOK'
  BY <1>24 DEF ClaimFails, NoRecord
<1>25. ASSUME Start PROVE TypeOK'
  <2>1. starts[inflight.r] + 1 \in 0..MaxAttempts \/ inflight.r \notin Reqs
    BY <1>25 DEF Start, RunPaidFor, Reqs
  <2>2. starts' \in [Reqs -> 0..MaxAttempts]
    BY <1>25, <2>1 DEF Start
  <2> QED BY <1>25, <2>2 DEF Start
<1>26. ASSUME ActionEnds PROVE TypeOK'
  BY <1>26 DEF ActionEnds, Reqs
<1>27. ASSUME ReportOutcome PROVE TypeOK'
  BY <1>27, ReportType DEF ReportOutcome, Outcomes
<1>28. ASSUME ClearRecord PROVE TypeOK'
  BY <1>28, QuitType DEF ClearRecord, NoRecord
<1>29. ASSUME FinalStamp PROVE TypeOK'
  BY <1>29, StampsType, QuitType DEF FinalStamp, Stamp, StampFails
<1>30. ASSUME TimePasses PROVE TypeOK'
  BY <1>30 DEF TimePasses
<1>31. ASSUME Killed PROVE TypeOK'
  BY <1>31, QuitType DEF Killed
<1>32. ASSUME Rebooted PROVE TypeOK'
  <2>1. updating' \in BOOLEAN /\ rebooting' \in BOOLEAN
    BY <1>32 DEF Rebooted
  <2>2. kills' \in 0..MaxKills
    BY <1>32 DEF Rebooted
  <2> QED BY <1>32, <2>1, <2>2, QuitType DEF Rebooted
<1>33. ASSUME UpdateEnds PROVE TypeOK'
  <2>1. updating' \in BOOLEAN
    BY <1>33 DEF UpdateEnds
  <2>2. UNCHANGED <<files, locals, now, rebooting, kills, updates, wfaults, asks, runs>>
    BY <1>33, Zenon DEF UpdateEnds
  <2> QED BY <2>1, <2>2 DEF locals
<1>34. ASSUME NEW k \in Kinds, UnlockedAppend(k) PROVE TypeOK'
  BY <1>34, EnqueueType DEF UnlockedAppend
<1>35. ASSUME UNCHANGED vars PROVE TypeOK'
  BY <1>35 DEF vars
<1> QED
  BY <1>1, <1>2, <1>3, <1>4, <1>5, <1>6, <1>7, <1>8, <1>9, <1>10, <1>11, <1>12, <1>13, <1>14, <1>15, <1>16, <1>17, <1>18, <1>19, <1>20, <1>21, <1>22, <1>23, <1>24, <1>25, <1>26, <1>27, <1>28, <1>29, <1>30, <1>31, <1>32, <1>33, <1>34, <1>35
     DEF Next, Checkin, Drain, Dashboard, Operator, World

----------------------------------------------------------------------------
(* The inductive invariant, action by action.                              *)

\* Appending a request, at any time and beside any script, leaves the counts:
\* its number is new, and whoever read the queue before finds what it read.
LEMMA EnqueueCounts ==
    ASSUME TypeOK, Counted, StartsBounded, NEW k \in Kinds, Enqueue(k),
           UNCHANGED <<inflight, cur, rest, starts>>, pc' = pc
    PROVE  Counted' /\ StartsBounded'
<1> USE QueueBounds, QueueLimits DEF TypeOK, Counted, Enqueue, Reqs
<1>1. \A r \in Reqs : r # issued + 1 => kind'[r] = kind[r]
  OBVIOUS
<1>2. QueueFresh'
  <2>1. issued' = issued + 1 /\ queue' = queue \cup {issued + 1} /\ issued \in Nat
    OBVIOUS
  <2>2. \A r \in queue' : r <= issued' /\ starts'[r] = 0
    BY <2>1 DEF QueueFresh
  <2>3. \A r \in Reqs : r > issued' => starts'[r] = 0
    BY <2>1 DEF QueueFresh
  <2>4. inflight'.r <= issued'
    BY <2>1 DEF QueueFresh
  <2> QED BY <2>2, <2>3, <2>4 DEF QueueFresh
<1>3. HeadCurrent' /\ ClaimInFlight'
  BY DEF HeadCurrent, ClaimInFlight
<1>4. RecordCounts'
  BY <1>1 DEF RecordCounts, QueueFresh
<1>5. RunPaidFor'
  BY DEF RunPaidFor, QueueFresh
<1>6. StartsBounded'
  BY <1>1 DEF StartsBounded, QueueFresh
<1> QED BY <1>2, <1>3, <1>4, <1>5, <1>6

\* Every action keeps the counts: Claim and ForgetUnclaimed need that what was
\* read is still queued, Retry that the record counts every start, Start that
\* there is an attempt left; a kill anywhere forgets nothing but the locals.
LEMMA CountStep == IInv /\ [Next]_vars => Counted' /\ StartsBounded'
<1> DEFINE Goal == Counted' /\ StartsBounded'
<1> SUFFICES ASSUME TypeOK, Counted, StartsBounded, [Next]_vars PROVE Goal
  BY DEF IInv
<1> USE QueueBounds, QueueLimits
    DEF TypeOK, Counted, QueueFresh, HeadCurrent, RecordCounts, ClaimInFlight, RunPaidFor,
        StartsBounded, Goto, files, locals, world, asks, runs, Reqs
<1>1. ASSUME CheckinStarts PROVE Goal
  BY <1>1 DEF CheckinStarts
<1>2. ASSUME PreStamp PROVE Goal
  BY <1>2 DEF PreStamp
<1>3. ASSUME NEW k \in Kinds, Receive(k) PROVE Goal
  BY <1>3, EnqueueCounts DEF Receive
<1>4. ASSUME ReceiveUpdate PROVE Goal
  BY <1>4 DEF ReceiveUpdate
<1>5. ASSUME NEW b \in BOOLEAN, CheckinEnds(b) PROVE Goal
  BY <1>5 DEF CheckinEnds
<1>6. ASSUME PostStamp PROVE Goal
  BY <1>6 DEF PostStamp
<1>7. ASSUME Dispatch PROVE Goal
  BY <1>7 DEF Dispatch, Quit
<1>8. ASSUME LeaveStamp PROVE Goal
  BY <1>8 DEF LeaveStamp, Quit
<1>9. ASSUME OperatorDrain PROVE Goal
  BY <1>9 DEF OperatorDrain
<1>10. ASSUME NEW k \in Kinds, OperatorRuns(k) PROVE Goal
  BY <1>10 DEF OperatorRuns
<1>11. ASSUME DrainStamp PROVE Goal
  BY <1>11 DEF DrainStamp
<1>12. ASSUME NothingToRecover PROVE Goal
  BY <1>12 DEF NothingToRecover
<1>13. ASSUME ForgetUnclaimed PROVE Goal
  <2>1. pc' = "recovered" /\ UNCHANGED <<queue, issued, starts, kind, cur, rest>>
    BY <1>13 DEF ForgetUnclaimed
  <2>2. CASE UNCHANGED inflight
    BY <2>1, <2>2
  <2>3. CASE inflight' = NoRecord
    <3>1. inflight'.r = 0 /\ inflight'.k = NoKind /\ inflight'.att = 0
      BY <2>3 DEF NoRecord
    <3>2. QueueFresh' /\ HeadCurrent' /\ ClaimInFlight' /\ RunPaidFor'
      BY <2>1, <3>1
    <3>3. RecordCounts' /\ StartsBounded'
      BY <2>1, <3>1
    <3> QED BY <3>2, <3>3
  <2> QED BY <1>13, <2>2, <2>3 DEF ForgetUnclaimed
<1>14. ASSUME ReportInterrupted PROVE Goal
  BY <1>14 DEF ReportInterrupted
<1>15. ASSUME Retry PROVE Goal
  <2>1. CASE UNCHANGED inflight /\ pc' = "recovered"
    BY <1>15, <2>1 DEF Retry
  <2>2. CASE inflight' = [inflight EXCEPT !.att = @ + 1] /\ pc' = "run"
    <3>1. /\ inflight'.r = inflight.r /\ inflight'.k = inflight.k
          /\ inflight'.att = inflight.att + 1
      BY <2>2
    <3>2. inflight.k \in RetrySafe /\ inflight.r \notin queue
      BY <1>15 DEF Retry, Retries, StillQueued, InFlight
    <3>3. UNCHANGED <<queue, issued, starts, kind>>
      BY <1>15 DEF Retry
    <3>4. QueueFresh'
      BY <3>1, <3>3
    <3>5. HeadCurrent' /\ ClaimInFlight'
      BY <2>2
    <3>9. /\ inflight.att \in Nat /\ inflight.att # 0
          /\ inflight.r # 0 => starts[inflight.r] \in Nat /\ starts[inflight.r] <= inflight.att
                               /\ inflight.k = kind[inflight.r]
      BY <1>15 DEF Retry, Retries, InFlight
    <3>6. RecordCounts'
      BY <3>1, <3>2, <3>3, <3>9
    <3>10. inflight.r # 0 => starts[inflight.r] < inflight.att + 1
      BY <3>9
    <3>7. RunPaidFor'
      BY <3>1, <3>2, <3>3, <3>10
    <3>8. StartsBounded'
      BY <3>3
    <3> QED BY <3>4, <3>5, <3>6, <3>7, <3>8
  <2> QED BY <1>15, <2>1, <2>2 DEF Retry
<1>16. ASSUME Recovered PROVE Goal
  BY <1>16 DEF Recovered, Quit
<1>17. ASSUME RecordDirect PROVE Goal
  BY <1>17 DEF RecordDirect, Record
<1>18. ASSUME DirectNotRecorded PROVE Goal
  BY <1>18 DEF DirectNotRecorded, Quit
<1>19. ASSUME ReadHead PROVE Goal
  BY <1>19 DEF ReadHead, IsOldest
<1>20. ASSUME Expire PROVE Goal
  BY <1>20 DEF Expire, SetQueue
<1>21. ASSUME ReportExpired PROVE Goal
  BY <1>21 DEF ReportExpired
<1>22. ASSUME ClaimRecord PROVE Goal
  <2>1. cur \in queue /\ cur \in Reqs /\ starts[cur] = 0
    BY <1>22 DEF ClaimRecord
  <2>2. CASE UNCHANGED inflight /\ pc' = "final"
    BY <1>22, <2>2 DEF ClaimRecord
  <2>3. CASE inflight' = Record(cur, kind[cur], 1) /\ pc' = "claim"
    <3>1. inflight'.r = cur /\ inflight'.k = kind[cur] /\ inflight'.att = 1
      BY <2>3 DEF Record
    <3>2. UNCHANGED <<queue, cur, rest, issued, starts, kind>> /\ pc = "decide"
      BY <1>22 DEF ClaimRecord
    <3>3. QueueFresh'
      BY <2>1, <3>1, <3>2
    <3>4. HeadCurrent' /\ ClaimInFlight' /\ RunPaidFor'
      BY <2>3, <3>1, <3>2
    <3>5. RecordCounts'
      BY <2>1, <3>1, <3>2
    <3>6. StartsBounded'
      BY <3>2
    <3> QED BY <3>3, <3>4, <3>5, <3>6
  <2> QED BY <1>22, <2>2, <2>3 DEF ClaimRecord
<1>23. ASSUME Claim PROVE Goal
  BY <1>23 DEF Claim, SetQueue
<1>24. ASSUME ClaimFails PROVE Goal
  BY <1>24 DEF ClaimFails, NoRecord
<1>25. ASSUME Start PROVE Goal
  BY <1>25 DEF Start
<1>26. ASSUME ActionEnds PROVE Goal
  BY <1>26 DEF ActionEnds
<1>27. ASSUME ReportOutcome PROVE Goal
  BY <1>27 DEF ReportOutcome
<1>28. ASSUME ClearRecord PROVE Goal
  <2>1. pc' \in {"idle", "head", "recovered"}
    BY <1>28 DEF ClearRecord, Quit
  <2>2. CASE UNCHANGED inflight
    BY <1>28, <2>1, <2>2 DEF ClearRecord
  <2>3. CASE inflight' = NoRecord
    <3>1. inflight'.r = 0 /\ inflight'.att = 0
      BY <2>3 DEF NoRecord
    <3> QED BY <1>28, <2>1, <3>1 DEF ClearRecord
  <2> QED BY <1>28, <2>2, <2>3 DEF ClearRecord
<1>29. ASSUME FinalStamp PROVE Goal
  BY <1>29 DEF FinalStamp, Quit
<1>30. ASSUME TimePasses PROVE Goal
  BY <1>30 DEF TimePasses
<1>31. ASSUME Killed PROVE Goal
  BY <1>31 DEF Killed, Quit
<1>32. ASSUME Rebooted PROVE Goal
  BY <1>32 DEF Rebooted, Quit
<1>33. ASSUME UpdateEnds PROVE Goal
  BY <1>33 DEF UpdateEnds
<1>34. ASSUME NEW k \in Kinds, UnlockedAppend(k) PROVE Goal
  BY <1>34, EnqueueCounts DEF UnlockedAppend, locals
<1>35. ASSUME UNCHANGED vars PROVE Goal
  BY <1>35 DEF vars
<1> QED
  BY <1>1, <1>2, <1>3, <1>4, <1>5, <1>6, <1>7, <1>8, <1>9, <1>10, <1>11, <1>12, <1>13, <1>14, <1>15, <1>16, <1>17, <1>18, <1>19, <1>20, <1>21, <1>22, <1>23, <1>24, <1>25, <1>26, <1>27, <1>28, <1>29, <1>30, <1>31, <1>32, <1>33, <1>34, <1>35
     DEF Next, Checkin, Drain, Dashboard, Operator, World

\* The types and the counts are an inductive invariant.
THEOREM Inductive == Spec => []IInv
<1>1. IInv /\ [Next]_vars => IInv'
  BY TypeStep, CountStep DEF IInv, Counted
<1> QED BY InitIInv, <1>1, PTL DEF Spec

----------------------------------------------------------------------------
(* The properties.                                                         *)

\* No script, no failure of one and nobody beside it leaves the types.
THEOREM TypeCorrect == Spec => []TypeOK
BY Inductive, PTL DEF IInv

\* host-action.sh starts a disruptive action at most once and a convergent one
\* at most MAX_ATTEMPTS times, for any number of kills, reboots, failed writes,
\* check-ins without the lock and actions of an operator in between.
THEOREM AtMostSoOften == Spec => []StartsBounded
BY Inductive, PTL DEF IInv

----------------------------------------------------------------------------
(* The order of the actions, and their age.                                *)

\* Whatever was started, or is claimed for good, is older than all that is queued;
\* a record in hand is among the lines that were read, if it is queued.
LineKept ==
    /\ pc \in {"decide", "claim"} =>
          /\ \A g \in queue : cur <= g
          /\ inflight.r \in queue => inflight.r \in rest \cup {cur}
    /\ \A r \in Reqs : starts[r] > 0 \/ (inflight.r = r /\ r \notin queue) =>
          \A g \in queue : r < g

\* While no write has failed: what was started and did not end is in flight until it
\* is reported, and the next is claimed only when nothing is.
OwedHeld ==
    /\ \A g \in Reqs : starts[g] > 0 /\ g \notin ended /\ ~Settled(g) => inflight.r = g
    /\ pc \in {"recovered", "direct", "head", "decide", "expired"} => ~InFlight
    /\ pc = "clear" => inflight.r = 0 \/ Settled(inflight.r)

\* While no write has failed, and nobody appends without the lock: a time stamp is the
\* time of the request; one without a stamp was appended when the file was written
\* last; and the drain rewrites the file only once all of it is dated.
AllDated == \A r \in queue : seen[r] # None
Draining ==
    \/ pc \in {"head", "decide", "claim", "expired"}
    \/ pc \in {"recover", "recovered"} /\ mode = "drain"
    \/ pc \in {"run", "running", "report", "clear"} /\ (mode = "drain" \/ after = "head")
Dated ==
    /\ backlog = 0
    /\ \A r \in Reqs : seen[r] # None => seen[r] = asked[r] /\ r <= issued
    /\ \A r \in queue : seen[r] = None => asked[r] = mtime
    /\ pc = "exec" => \A r \in queue : seen[r] = None => asked[r] = now /\ rc # "ok"
    /\ Draining => AllDated
    /\ pc = "direct" => mode = "direct"
    /\ pc = "claim" => now - asked[cur] <= Limit(kind[cur])
    /\ pc = "run" /\ inflight.r # 0 /\ kind[inflight.r] \notin RetrySafe =>
          now - asked[inflight.r] <= ShortLimit

InLine ==
    /\ LineKept
    /\ wfaults = 0 => OwedHeld
    /\ wfaults = 0 /\ ~MayUnlock => Dated

\* A record that goes, or stays, leaves the line.
LEMMA LineCalm ==
    ASSUME TypeOK, LineKept, UNCHANGED <<queue, starts>>, inflight'.r \in {0, inflight.r},
           pc' \notin {"decide", "claim"}
    PROVE  LineKept'
BY QueueBounds DEF LineKept, TypeOK, Reqs

\* A request that is appended is behind all others.
LEMMA LineExtended ==
    ASSUME TypeOK, Counted, LineKept, queue' = queue \cup {issued + 1},
           UNCHANGED <<pc, cur, rest, inflight, starts>>
    PROVE  LineKept'
<1>1. issued \in Nat /\ pc \in {"decide", "claim"} => cur <= issued
  BY QueueBounds DEF TypeOK, Counted, HeadCurrent, QueueFresh, Reqs
<1>2. /\ issued \in Nat
      /\ \A r \in Reqs : starts[r] > 0 \/ inflight.r = r => r <= issued
  BY QueueBounds DEF TypeOK, Counted, QueueFresh, RecordCounts, ClaimInFlight, RunPaidFor, Reqs
<1>3. pc \in {"decide", "claim"} =>
        /\ \A g \in queue' : cur <= g
        /\ inflight.r \in queue' => inflight.r \in rest \cup {cur}
  BY <1>1, <1>2, QueueBounds DEF LineKept, TypeOK, Reqs
<1>4. ASSUME NEW r \in Reqs, starts[r] > 0 \/ (inflight.r = r /\ r \notin queue'), NEW g \in queue'
      PROVE  r < g
  BY <1>2, <1>4, QueueBounds DEF LineKept, TypeOK, Reqs
<1> QED BY <1>3, <1>4 DEF LineKept

\* Every action keeps the line: requests are appended behind all others, and taken off
\* from the front.
LEMMA LineStep == IInv /\ LineKept /\ [Next]_vars => LineKept'
<1> SUFFICES ASSUME TypeOK, Counted, LineKept, [Next]_vars PROVE LineKept'
  BY DEF IInv
<1> USE QueueBounds
    DEF TypeOK, Counted, QueueFresh, HeadCurrent, ClaimInFlight, RunPaidFor, LineKept,
        Goto, files, locals, world, asks, runs, Reqs
<1>1. ASSUME CheckinStarts PROVE LineKept'
  BY <1>1 DEF CheckinStarts
<1>2. ASSUME PreStamp PROVE LineKept'
  BY <1>2 DEF PreStamp
<1>3. ASSUME NEW k \in Kinds, Receive(k) PROVE LineKept'
  <2>1. /\ queue' = queue \cup {issued + 1}
        /\ UNCHANGED <<pc, cur, rest, inflight, starts>>
    BY <1>3 DEF Receive, Enqueue
  <2> QED BY <2>1, LineExtended DEF IInv
<1>4. ASSUME ReceiveUpdate PROVE LineKept'
  BY <1>4 DEF ReceiveUpdate
<1>5. ASSUME NEW b \in BOOLEAN, CheckinEnds(b) PROVE LineKept'
  BY <1>5 DEF CheckinEnds
<1>6. ASSUME PostStamp PROVE LineKept'
  BY <1>6 DEF PostStamp
<1>7. ASSUME Dispatch PROVE LineKept'
  BY <1>7 DEF Dispatch, Quit
<1>8. ASSUME LeaveStamp PROVE LineKept'
  BY <1>8 DEF LeaveStamp, Quit
<1>9. ASSUME OperatorDrain PROVE LineKept'
  BY <1>9 DEF OperatorDrain
<1>10. ASSUME NEW k \in Kinds, OperatorRuns(k) PROVE LineKept'
  BY <1>10 DEF OperatorRuns
<1>11. ASSUME DrainStamp PROVE LineKept'
  BY <1>11 DEF DrainStamp
<1>12. ASSUME NothingToRecover PROVE LineKept'
  BY <1>12 DEF NothingToRecover
<1>13. ASSUME ForgetUnclaimed PROVE LineKept'
  <2>1. inflight'.r \in {0, inflight.r}
    BY <1>13 DEF ForgetUnclaimed, NoRecord
  <2> QED BY <1>13, <2>1, LineCalm DEF ForgetUnclaimed
<1>14. ASSUME ReportInterrupted PROVE LineKept'
  BY <1>14 DEF ReportInterrupted
<1>15. ASSUME Retry PROVE LineKept'
  BY <1>15 DEF Retry, Retries, StillQueued, InFlight
<1>16. ASSUME Recovered PROVE LineKept'
  BY <1>16 DEF Recovered, Quit
<1>17. ASSUME RecordDirect PROVE LineKept'
  BY <1>17 DEF RecordDirect, Record
<1>18. ASSUME DirectNotRecorded PROVE LineKept'
  BY <1>18 DEF DirectNotRecorded, Quit
<1>19. ASSUME ReadHead PROVE LineKept'
  BY <1>19 DEF ReadHead, IsOldest
<1>20. ASSUME Expire PROVE LineKept'
  <2>1. CASE SetQueue /\ pc' = "expired"
    <3>1. /\ queue' = rest /\ cur \in queue /\ rest \subseteq queue \ {cur}
          /\ UNCHANGED <<inflight, starts>> /\ pc = "decide"
      BY <1>20, <2>1 DEF Expire, SetQueue
    <3>2. ASSUME NEW r \in Reqs, starts[r] > 0 \/ (inflight.r = r /\ r \notin rest), NEW g \in rest
          PROVE  r < g
      <4>1. CASE starts[r] > 0 \/ r \notin queue
        BY <3>1, <3>2, <4>1
      <4>2. CASE inflight.r = r /\ r \in queue
        BY <3>1, <3>2, <4>2
      <4> QED BY <3>2, <4>1, <4>2
    <3> QED BY <2>1, <3>1, <3>2
  <2>2. CASE UNCHANGED queue /\ pc' = "final"
    BY <1>20, <2>2 DEF Expire
  <2> QED BY <1>20, <2>1, <2>2 DEF Expire
<1>21. ASSUME ReportExpired PROVE LineKept'
  BY <1>21 DEF ReportExpired
<1>22. ASSUME ClaimRecord PROVE LineKept'
  <2>1. CASE inflight' = Record(cur, kind[cur], 1) /\ pc' = "claim"
    <3>1. inflight'.r = cur /\ cur \in queue /\ pc = "decide" /\ UNCHANGED <<queue, cur, rest, starts>>
      BY <1>22, <2>1 DEF ClaimRecord, Record
    <3> QED BY <2>1, <3>1
  <2>2. CASE UNCHANGED inflight /\ pc' = "final"
    BY <1>22, <2>2 DEF ClaimRecord
  <2> QED BY <1>22, <2>1, <2>2 DEF ClaimRecord
<1>23. ASSUME Claim PROVE LineKept'
  <2>1. /\ queue' = rest /\ cur \in queue /\ rest \subseteq queue \ {cur} /\ inflight.r = cur
        /\ UNCHANGED <<inflight, starts>> /\ pc = "claim" /\ pc' = "run"
    BY <1>23 DEF Claim, SetQueue
  <2>2. ASSUME NEW r \in Reqs, starts[r] > 0 \/ r = cur, NEW g \in rest PROVE r < g
    BY <2>1, <2>2
  <2> QED BY <2>1, <2>2
<1>24. ASSUME ClaimFails PROVE LineKept'
  <2>1. inflight'.r \in {0, inflight.r}
    BY <1>24 DEF ClaimFails, NoRecord
  <2> QED BY <1>24, <2>1, LineCalm DEF ClaimFails
<1>25. ASSUME Start PROVE LineKept'
  <2>1. /\ pc = "run" /\ pc' = "running" /\ UNCHANGED <<queue, inflight>>
        /\ \A r \in Reqs : starts'[r] = IF r = inflight.r THEN starts[r] + 1 ELSE starts[r]
    BY <1>25 DEF Start
  <2>2. ASSUME NEW r \in Reqs, r = inflight.r PROVE r \notin queue
    BY <2>1, <2>2
  <2>3. \A r \in Reqs : starts'[r] > 0 => starts[r] > 0 \/ (inflight.r = r /\ r \notin queue)
    BY <2>1, <2>2
  <2> QED BY <2>1, <2>3
<1>26. ASSUME ActionEnds PROVE LineKept'
  BY <1>26 DEF ActionEnds
<1>27. ASSUME ReportOutcome PROVE LineKept'
  BY <1>27 DEF ReportOutcome
<1>28. ASSUME ClearRecord PROVE LineKept'
  <2>1. inflight'.r \in {0, inflight.r}
    BY <1>28 DEF ClearRecord, NoRecord
  <2> QED BY <1>28, <2>1, LineCalm DEF ClearRecord, Quit
<1>29. ASSUME FinalStamp PROVE LineKept'
  BY <1>29 DEF FinalStamp, Quit
<1>30. ASSUME TimePasses PROVE LineKept'
  BY <1>30 DEF TimePasses
<1>31. ASSUME Killed PROVE LineKept'
  BY <1>31 DEF Killed, Quit
<1>32. ASSUME Rebooted PROVE LineKept'
  BY <1>32 DEF Rebooted, Quit
<1>33. ASSUME UpdateEnds PROVE LineKept'
  BY <1>33 DEF UpdateEnds
<1>34. ASSUME NEW k \in Kinds, UnlockedAppend(k) PROVE LineKept'
  <2>1. /\ queue' = queue \cup {issued + 1}
        /\ UNCHANGED <<pc, cur, rest, inflight, starts>>
    BY <1>34 DEF UnlockedAppend, Enqueue, locals
  <2> QED BY <2>1, LineExtended DEF IInv
<1>35. ASSUME UNCHANGED vars PROVE LineKept'
  BY <1>35 DEF vars
<1> QED
  BY <1>1, <1>2, <1>3, <1>4, <1>5, <1>6, <1>7, <1>8, <1>9, <1>10, <1>11, <1>12, <1>13, <1>14, <1>15, <1>16, <1>17, <1>18, <1>19, <1>20, <1>21, <1>22, <1>23, <1>24, <1>25, <1>26, <1>27, <1>28, <1>29, <1>30, <1>31, <1>32, <1>33, <1>34, <1>35
     DEF Next, Checkin, Drain, Dashboard, Operator, World

\* Faults are not forgotten.
LEMMA NoFault ==
    ASSUME TypeOK, [Next]_vars, wfaults' = 0
    PROVE  wfaults = 0 /\ ~WriteFault
<1>a. ~WriteFault
  BY DEF WriteFault, TypeOK
<1>b. \A n : Stamp(n) \/ StampFails(n) => wfaults' = wfaults
  BY <1>a DEF Stamp, StampFails
<1> USE <1>a DEF files, locals, world, asks, runs
<1>1. ASSUME CheckinStarts PROVE wfaults' = wfaults
  BY <1>1 DEF CheckinStarts
<1>2. ASSUME PreStamp PROVE wfaults' = wfaults
  BY <1>2, <1>b DEF PreStamp
<1>3. ASSUME NEW k \in Kinds, Receive(k) PROVE wfaults' = wfaults
  BY <1>3 DEF Receive
<1>4. ASSUME ReceiveUpdate PROVE wfaults' = wfaults
  BY <1>4 DEF ReceiveUpdate
<1>5. ASSUME NEW b \in BOOLEAN, CheckinEnds(b) PROVE wfaults' = wfaults
  BY <1>5 DEF CheckinEnds
<1>6. ASSUME PostStamp PROVE wfaults' = wfaults
  BY <1>6, <1>b DEF PostStamp
<1>7. ASSUME Dispatch PROVE wfaults' = wfaults
  BY <1>7 DEF Dispatch
<1>8. ASSUME LeaveStamp PROVE wfaults' = wfaults
  BY <1>8, <1>b DEF LeaveStamp
<1>9. ASSUME OperatorDrain PROVE wfaults' = wfaults
  BY <1>9 DEF OperatorDrain
<1>10. ASSUME NEW k \in Kinds, OperatorRuns(k) PROVE wfaults' = wfaults
  BY <1>10 DEF OperatorRuns
<1>11. ASSUME DrainStamp PROVE wfaults' = wfaults
  BY <1>11, <1>b DEF DrainStamp
<1>12. ASSUME NothingToRecover PROVE wfaults' = wfaults
  BY <1>12 DEF NothingToRecover
<1>13. ASSUME ForgetUnclaimed PROVE wfaults' = wfaults
  BY <1>13 DEF ForgetUnclaimed
<1>14. ASSUME ReportInterrupted PROVE wfaults' = wfaults
  BY <1>14 DEF ReportInterrupted
<1>15. ASSUME Retry PROVE wfaults' = wfaults
  BY <1>15 DEF Retry
<1>16. ASSUME Recovered PROVE wfaults' = wfaults
  BY <1>16 DEF Recovered
<1>17. ASSUME RecordDirect PROVE wfaults' = wfaults
  BY <1>17 DEF RecordDirect
<1>18. ASSUME DirectNotRecorded PROVE wfaults' = wfaults
  BY <1>18 DEF DirectNotRecorded
<1>19. ASSUME ReadHead PROVE wfaults' = wfaults
  BY <1>19 DEF ReadHead
<1>20. ASSUME Expire PROVE wfaults' = wfaults
  BY <1>20 DEF Expire
<1>21. ASSUME ReportExpired PROVE wfaults' = wfaults
  BY <1>21 DEF ReportExpired
<1>22. ASSUME ClaimRecord PROVE wfaults' = wfaults
  BY <1>22 DEF ClaimRecord
<1>23. ASSUME Claim PROVE wfaults' = wfaults
  BY <1>23 DEF Claim
<1>24. ASSUME ClaimFails PROVE wfaults' = wfaults
  BY <1>24 DEF ClaimFails
<1>25. ASSUME Start PROVE wfaults' = wfaults
  BY <1>25 DEF Start
<1>26. ASSUME ActionEnds PROVE wfaults' = wfaults
  BY <1>26 DEF ActionEnds
<1>27. ASSUME ReportOutcome PROVE wfaults' = wfaults
  BY <1>27 DEF ReportOutcome
<1>28. ASSUME ClearRecord PROVE wfaults' = wfaults
  BY <1>28 DEF ClearRecord
<1>29. ASSUME FinalStamp PROVE wfaults' = wfaults
  BY <1>29, <1>b DEF FinalStamp
<1>30. ASSUME TimePasses PROVE wfaults' = wfaults
  BY <1>30 DEF TimePasses
<1>31. ASSUME Killed PROVE wfaults' = wfaults
  BY <1>31 DEF Killed
<1>32. ASSUME Rebooted PROVE wfaults' = wfaults
  BY <1>32 DEF Rebooted
<1>33. ASSUME UpdateEnds PROVE wfaults' = wfaults
  BY <1>33 DEF UpdateEnds
<1>34. ASSUME NEW k \in Kinds, UnlockedAppend(k) PROVE wfaults' = wfaults
  BY <1>34 DEF UnlockedAppend, Enqueue
<1>35. ASSUME UNCHANGED vars PROVE wfaults' = wfaults
  BY <1>35 DEF vars
<1>36. wfaults' = wfaults
  BY <1>1, <1>2, <1>3, <1>4, <1>5, <1>6, <1>7, <1>8, <1>9, <1>10, <1>11, <1>12, <1>13, <1>14, <1>15, <1>16, <1>17, <1>18, <1>19, <1>20, <1>21, <1>22, <1>23, <1>24, <1>25, <1>26, <1>27, <1>28, <1>29, <1>30, <1>31, <1>32, <1>33, <1>34, <1>35
     DEF Next, Checkin, Drain, Dashboard, Operator, World
<1> QED BY <1>36

\* What is recorded, reported or ended stays so.
LEMMA OwedCalm ==
    ASSUME OwedHeld, UNCHANGED <<inflight, starts>>, history \subseteq history', ended \subseteq ended',
           pc' \in {"recovered", "direct", "head", "decide", "expired"} =>
               pc \in {"recovered", "direct", "head", "decide", "expired"},
           pc' = "clear" => pc = "clear"
    PROVE  OwedHeld'
BY DEF OwedHeld, Settled, InFlight

\* Every action keeps what is owed on record: only a record of nothing that is owed makes
\* way for another.
LEMMA OwedStep ==
    IInv /\ (wfaults = 0 => OwedHeld) /\ [Next]_vars => (wfaults = 0 => OwedHeld)'
<1> SUFFICES ASSUME TypeOK, Counted, OwedHeld, [Next]_vars, ~WriteFault
             PROVE  OwedHeld'
  BY NoFault DEF IInv
<1> USE QueueBounds DEF Counted, Goto, files, locals, world, asks, runs
<1>1. ASSUME CheckinStarts PROVE OwedHeld'
  BY <1>1, OwedCalm DEF CheckinStarts
<1>2. ASSUME PreStamp PROVE OwedHeld'
  BY <1>2, OwedCalm DEF PreStamp
<1>3. ASSUME NEW k \in Kinds, Receive(k) PROVE OwedHeld'
  BY <1>3, OwedCalm DEF Receive
<1>4. ASSUME ReceiveUpdate PROVE OwedHeld'
  BY <1>4, OwedCalm DEF ReceiveUpdate
<1>5. ASSUME NEW b \in BOOLEAN, CheckinEnds(b) PROVE OwedHeld'
  BY <1>5, OwedCalm DEF CheckinEnds
<1>6. ASSUME PostStamp PROVE OwedHeld'
  BY <1>6, OwedCalm DEF PostStamp
<1>7. ASSUME Dispatch PROVE OwedHeld'
  BY <1>7, OwedCalm DEF Dispatch, Quit
<1>8. ASSUME LeaveStamp PROVE OwedHeld'
  BY <1>8, OwedCalm DEF LeaveStamp, Quit
<1>9. ASSUME OperatorDrain PROVE OwedHeld'
  BY <1>9, OwedCalm DEF OperatorDrain
<1>10. ASSUME NEW k \in Kinds, OperatorRuns(k) PROVE OwedHeld'
  BY <1>10, OwedCalm DEF OperatorRuns
<1>11. ASSUME DrainStamp PROVE OwedHeld'
  BY <1>11, OwedCalm DEF DrainStamp
<1>12. ASSUME NothingToRecover PROVE OwedHeld'
  BY <1>12 DEF NothingToRecover, OwedHeld, Settled, InFlight
<1>13. ASSUME ForgetUnclaimed PROVE OwedHeld'
  <2>1. /\ inflight.r \in queue /\ inflight' = NoRecord
        /\ UNCHANGED <<history, starts, ended>> /\ pc' = "recovered"
    BY <1>13 DEF ForgetUnclaimed, StillQueued
  <2>2. inflight.r \in Reqs => starts[inflight.r] = 0
    BY <2>1 DEF QueueFresh
  <2>3. \A g \in Reqs : starts[g] > 0 => inflight.r # g
    BY <2>2
  <2> QED BY <2>1, <2>3 DEF OwedHeld, Settled, InFlight, NoRecord
<1>14. ASSUME ReportInterrupted PROVE OwedHeld'
  <2>1. /\ inflight.r = 0 \/ \E s \in Outcomes : <<inflight.r, s>> \in history'
        /\ history \subseteq history' /\ UNCHANGED <<inflight, starts, ended>> /\ pc' = "clear"
    BY <1>14 DEF ReportInterrupted, Report, Outcomes
  <2> QED BY <2>1 DEF OwedHeld, Settled, InFlight
<1>15. ASSUME Retry PROVE OwedHeld'
  <2>1. inflight'.r = inflight.r /\ UNCHANGED <<history, starts, ended>> /\ pc' = "run"
    BY <1>15 DEF Retry, TypeOK
  <2> QED BY <2>1 DEF OwedHeld, Settled, InFlight
<1>16. ASSUME Recovered PROVE OwedHeld'
  BY <1>16, OwedCalm DEF Recovered, Quit
<1>17. ASSUME RecordDirect PROVE OwedHeld'
  <2>1. /\ inflight.r = 0 /\ UNCHANGED <<history, starts, ended>>
        /\ pc' = "run"
    BY <1>17 DEF RecordDirect, OwedHeld, RecordCounts, InFlight
  <2> QED BY <2>1 DEF OwedHeld, Settled, InFlight, Reqs
<1>18. ASSUME DirectNotRecorded PROVE OwedHeld'
  BY <1>18, OwedCalm DEF DirectNotRecorded, Quit
<1>19. ASSUME ReadHead PROVE OwedHeld'
  BY <1>19, OwedCalm DEF ReadHead
<1>20. ASSUME Expire PROVE OwedHeld'
  BY <1>20, OwedCalm DEF Expire
<1>21. ASSUME ReportExpired PROVE OwedHeld'
  BY <1>21, OwedCalm DEF ReportExpired, Report
<1>22. ASSUME ClaimRecord PROVE OwedHeld'
  <2>1. /\ inflight.r = 0 /\ UNCHANGED <<history, starts, ended>>
        /\ pc' = "claim"
    BY <1>22 DEF ClaimRecord, OwedHeld, RecordCounts, InFlight
  <2> QED BY <2>1 DEF OwedHeld, Settled, InFlight, Reqs
<1>23. ASSUME Claim PROVE OwedHeld'
  BY <1>23, OwedCalm DEF Claim
<1>24. ASSUME ClaimFails PROVE OwedHeld'
  BY <1>24 DEF ClaimFails
<1>25. ASSUME Start PROVE OwedHeld'
  <2>1. /\ UNCHANGED <<inflight, history, ended>> /\ pc' = "running"
        /\ \A g \in Reqs : g # inflight.r => starts'[g] = starts[g]
    BY <1>25 DEF Start, TypeOK
  <2> QED BY <2>1 DEF OwedHeld, Settled, InFlight
<1>26. ASSUME ActionEnds PROVE OwedHeld'
  BY <1>26, OwedCalm DEF ActionEnds
<1>27. ASSUME ReportOutcome PROVE OwedHeld'
  <2>0. out \in Outcomes
    BY DEF TypeOK, Outcomes
  <2>1. /\ inflight.r = 0 \/ \E s \in Outcomes : <<inflight.r, s>> \in history'
        /\ history \subseteq history' /\ UNCHANGED <<inflight, starts, ended>> /\ pc' = "clear"
    BY <1>27, <2>0 DEF ReportOutcome, Report
  <2> QED BY <2>1 DEF OwedHeld, Settled, InFlight
<1>28. ASSUME ClearRecord PROVE OwedHeld'
  <2>1. /\ inflight' = NoRecord /\ (inflight.r = 0 \/ Settled(inflight.r))
        /\ UNCHANGED <<history, starts, ended>> /\ pc' \in {"idle", "head", "recovered"}
    BY <1>28 DEF ClearRecord, OwedHeld, Quit, TypeOK
  <2> QED BY <2>1 DEF OwedHeld, Settled, InFlight, NoRecord, Reqs
<1>29. ASSUME FinalStamp PROVE OwedHeld'
  BY <1>29, OwedCalm DEF FinalStamp, Quit
<1>30. ASSUME TimePasses PROVE OwedHeld'
  BY <1>30, OwedCalm DEF TimePasses
<1>31. ASSUME Killed PROVE OwedHeld'
  BY <1>31, OwedCalm DEF Killed, Quit
<1>32. ASSUME Rebooted PROVE OwedHeld'
  BY <1>32, OwedCalm DEF Rebooted, Quit
<1>33. ASSUME UpdateEnds PROVE OwedHeld'
  BY <1>33, OwedCalm DEF UpdateEnds
<1>34. ASSUME NEW k \in Kinds, UnlockedAppend(k) PROVE OwedHeld'
  BY <1>34, OwedCalm DEF UnlockedAppend
<1>35. ASSUME UNCHANGED vars PROVE OwedHeld'
  BY <1>35, OwedCalm DEF vars
<1> QED
  BY <1>1, <1>2, <1>3, <1>4, <1>5, <1>6, <1>7, <1>8, <1>9, <1>10, <1>11, <1>12, <1>13, <1>14, <1>15, <1>16, <1>17, <1>18, <1>19, <1>20, <1>21, <1>22, <1>23, <1>24, <1>25, <1>26, <1>27, <1>28, <1>29, <1>30, <1>31, <1>32, <1>33, <1>34, <1>35
     DEF Next, Checkin, Drain, Dashboard, Operator, World

\* With no line counted as old, stamping dates every request, to when the file was written.
LEMMA StampDates ==
    ASSUME TypeOK, QueueFresh, Dated, Stamp(0)
    PROVE  /\ \A r \in queue : seen'[r] # None
           /\ \A r \in Reqs : seen'[r] # None => seen'[r] = asked[r] /\ r <= issued
<1>1. ASSUME NEW r \in queue PROVE ~(Line(r) <= 0)
  <2> DEFINE S == {g \in queue : g <= r}
  <2>1. IsFiniteSet(1..MaxReq)
    BY FS_Interval, QueueBounds
  <2>a. queue \subseteq 1..MaxReq /\ r \in Nat
    BY QueueBounds DEF TypeOK, Reqs
  <2>2. S \subseteq 1..MaxReq
    BY <2>a
  <2>b. r <= r
    BY <2>a
  <2>c. r \in S
    BY <2>b
  <2>3. IsFiniteSet(S)
    BY <2>1, <2>2, FS_Subset
  <2>4. Cardinality(S) \in Nat /\ Cardinality(S) # 0
    BY <2>c, <2>3, FS_CardinalityType, FS_EmptySet
  <2> QED BY <2>4 DEF Line
<1>2. \A r \in Reqs : seen'[r] = IF r \in queue
                                THEN IF seen[r] # None THEN seen[r] ELSE IF Line(r) <= 0 THEN 0 ELSE mtime
                                ELSE IF inflight.r = r THEN seen[r] ELSE None
  BY DEF Stamp, Stamps
<1>3. mtime # None
  BY QueueBounds DEF TypeOK, None
<1>4. ASSUME NEW r \in queue PROVE seen'[r] # None /\ seen'[r] = asked[r] /\ r <= issued
  BY <1>1, <1>2, <1>3, <1>4 DEF TypeOK, Dated, QueueFresh
<1> QED BY <1>2, <1>4 DEF TypeOK, Dated

\* A step that neither dates nor appends, nor goes on to start anything.
LEMMA DatedCalm ==
    ASSUME Dated, UNCHANGED <<queue, mtime, seen, issued, asked, now>>, backlog' \in {0, backlog},
           pc' \notin {"exec", "claim", "run"}, Draining' => Draining,
           pc' = "direct" => mode' = "direct"
    PROVE  Dated'
BY DEF Dated, AllDated

\* Every action keeps the dates: what is appended is dated before the file is written
\* again, and what is claimed is young enough until it starts.
LEMMA DatedStep ==
    ASSUME ~MayUnlock
    PROVE  IInv /\ (wfaults = 0 => Dated) /\ [Next]_vars => (wfaults = 0 => Dated)'
<1> SUFFICES ASSUME TypeOK, Counted, Dated, [Next]_vars, ~WriteFault
             PROVE  Dated'
  BY NoFault DEF IInv
<1> USE DEF Counted, Goto, files, world, asks, runs
<1>1. ASSUME CheckinStarts PROVE Dated'
  BY <1>1 DEF CheckinStarts, Dated, AllDated, Draining
<1>2. ASSUME PreStamp PROVE Dated'
  <2>1. Stamp(0) /\ UNCHANGED <<queue, mtime, issued, asked, backlog>> /\ pc' = "exec"
    BY <1>2 DEF PreStamp, StampFails
  <2>2. /\ \A r \in queue : seen'[r] # None
        /\ \A r \in Reqs : seen'[r] # None => seen'[r] = asked[r] /\ r <= issued
    BY <2>1, StampDates
  <2> QED BY <2>1, <2>2 DEF Dated, Draining
<1>3. ASSUME NEW k \in Kinds, Receive(k) PROVE Dated'
  <2>1. /\ pc = "exec" /\ pc' = "exec" /\ rc' # "ok" /\ issued' = issued + 1 /\ issued < MaxReq
        /\ queue' = queue \cup {issued + 1} /\ mtime' = now /\ now' = now
        /\ asked' = [asked EXCEPT ![issued + 1] = now] /\ UNCHANGED <<seen, backlog>>
    BY <1>3 DEF Receive, Enqueue, TypeOK
  <2>2. issued + 1 \in Reqs /\ issued + 1 \notin queue /\ inflight.r # issued + 1
    BY <2>1, QueueBounds DEF TypeOK, QueueFresh, Reqs
  <2>3. \A r \in Reqs : asked'[r] = IF r = issued + 1 THEN now ELSE asked[r]
    BY <2>1, <2>2 DEF TypeOK
  <2>4. seen[issued + 1] = None
    BY <2>1, <2>2, QueueBounds DEF Dated, TypeOK
  <2>5. ASSUME NEW r \in Reqs, seen[r] # None PROVE seen[r] = asked'[r] /\ r <= issued + 1
    <3>1. seen[r] = asked[r] /\ r <= issued /\ r # issued + 1
      BY <2>4, <2>5 DEF Dated
    <3> QED BY <2>2, <2>3, <3>1, QueueBounds DEF Reqs, TypeOK
  <2>6. ASSUME NEW r \in queue', seen[r] = None PROVE asked'[r] = now
    BY <2>1, <2>2, <2>3, <2>6 DEF Dated, TypeOK
  <2> QED BY <2>1, <2>5, <2>6 DEF Dated, Draining
<1>4. ASSUME ReceiveUpdate PROVE Dated'
  <2>1. pc = "exec" /\ pc' = "exec" /\ rc' # "ok" /\ UNCHANGED <<queue, mtime, seen, issued, asked, now, backlog>>
    BY <1>4 DEF ReceiveUpdate
  <2> QED BY <2>1 DEF Dated, Draining
<1>5. ASSUME NEW b \in BOOLEAN, CheckinEnds(b) PROVE Dated'
  <2>1. /\ UNCHANGED <<queue, mtime, seen, issued, asked, now>> /\ backlog' \in {0, backlog}
        /\ pc' \notin {"exec", "claim", "run"} /\ (Draining' => Draining)
        /\ pc' = "direct" => mode' = "direct"
    BY <1>5 DEF CheckinEnds, Draining, TypeOK
  <2> QED BY <2>1, DatedCalm
<1>6. ASSUME PostStamp PROVE Dated'
  <2>0. /\ Stamp(0) \/ (queue = {} /\ UNCHANGED seen)
        /\ UNCHANGED <<queue, mtime, issued, asked>> /\ backlog' \in {0, backlog} /\ pc' = "dispatch"
    BY <1>6 DEF PostStamp, StampFails, Dated
  <2>1. CASE Stamp(0)
    <3>1. /\ \A r \in queue : seen'[r] # None
          /\ \A r \in Reqs : seen'[r] # None => seen'[r] = asked[r] /\ r <= issued
      BY <2>0, <2>1, StampDates
    <3> QED BY <2>0, <3>1 DEF Dated, AllDated, Draining
  <2>2. CASE queue = {} /\ UNCHANGED seen
    BY <2>0, <2>2 DEF Dated, AllDated, Draining
  <2> QED BY <2>0, <2>1, <2>2
<1>7. ASSUME Dispatch PROVE Dated'
  <2>1. /\ UNCHANGED <<queue, mtime, seen, issued, asked, now>> /\ backlog' \in {0, backlog}
        /\ pc' \notin {"exec", "claim", "run"} /\ (Draining' => Draining)
        /\ pc' = "direct" => mode' = "direct"
    BY <1>7 DEF Dispatch, Quit, Draining, TypeOK
  <2> QED BY <2>1, DatedCalm
<1>8. ASSUME LeaveStamp PROVE Dated'
  <2>0. /\ Stamp(0) \/ (queue = {} /\ UNCHANGED seen)
        /\ UNCHANGED <<queue, mtime, issued, asked>> /\ backlog' \in {0, backlog} /\ pc' = "idle"
    BY <1>8 DEF LeaveStamp, Quit, StampFails, Dated
  <2>1. CASE Stamp(0)
    <3>1. /\ \A r \in queue : seen'[r] # None
          /\ \A r \in Reqs : seen'[r] # None => seen'[r] = asked[r] /\ r <= issued
      BY <2>0, <2>1, StampDates
    <3> QED BY <2>0, <3>1 DEF Dated, AllDated, Draining
  <2>2. CASE queue = {} /\ UNCHANGED seen
    BY <2>0, <2>2 DEF Dated, AllDated, Draining
  <2> QED BY <2>0, <2>1, <2>2
<1>9. ASSUME OperatorDrain PROVE Dated'
  <2>1. /\ UNCHANGED <<queue, mtime, seen, issued, asked, now>> /\ backlog' \in {0, backlog}
        /\ pc' \notin {"exec", "claim", "run"} /\ (Draining' => Draining)
        /\ pc' = "direct" => mode' = "direct"
    BY <1>9 DEF OperatorDrain, Draining, TypeOK
  <2> QED BY <2>1, DatedCalm
<1>10. ASSUME NEW k \in Kinds, OperatorRuns(k) PROVE Dated'
  <2>1. /\ UNCHANGED <<queue, mtime, seen, issued, asked, now>> /\ backlog' \in {0, backlog}
        /\ pc' \notin {"exec", "claim", "run"} /\ (Draining' => Draining)
        /\ pc' = "direct" => mode' = "direct"
    BY <1>10 DEF OperatorRuns, Draining, TypeOK
  <2> QED BY <2>1, DatedCalm
<1>11. ASSUME DrainStamp PROVE Dated'
  <2>0. /\ Stamp(0) \/ (queue = {} /\ UNCHANGED seen)
        /\ UNCHANGED <<queue, mtime, issued, asked>> /\ backlog' \in {0, backlog} /\ pc' = "recover"
    BY <1>11 DEF DrainStamp, StampFails, Dated
  <2>1. CASE Stamp(0)
    <3>1. /\ \A r \in queue : seen'[r] # None
          /\ \A r \in Reqs : seen'[r] # None => seen'[r] = asked[r] /\ r <= issued
      BY <2>0, <2>1, StampDates
    <3> QED BY <2>0, <3>1 DEF Dated, AllDated
  <2>2. CASE queue = {} /\ UNCHANGED seen
    BY <2>0, <2>2 DEF Dated, AllDated
  <2> QED BY <2>0, <2>1, <2>2
<1>12. ASSUME NothingToRecover PROVE Dated'
  <2>1. /\ UNCHANGED <<queue, mtime, seen, issued, asked, now>> /\ backlog' \in {0, backlog}
        /\ pc' \notin {"exec", "claim", "run"} /\ (Draining' => Draining)
        /\ pc' = "direct" => mode' = "direct"
    BY <1>12 DEF NothingToRecover, Draining, TypeOK
  <2> QED BY <2>1, DatedCalm
<1>13. ASSUME ForgetUnclaimed PROVE Dated'
  <2>1. /\ UNCHANGED <<queue, mtime, seen, issued, asked, now>> /\ backlog' \in {0, backlog}
        /\ pc' \notin {"exec", "claim", "run"} /\ (Draining' => Draining)
        /\ pc' = "direct" => mode' = "direct"
    BY <1>13 DEF ForgetUnclaimed, Draining, TypeOK
  <2> QED BY <2>1, DatedCalm
<1>14. ASSUME ReportInterrupted PROVE Dated'
  <2>1. /\ UNCHANGED <<queue, mtime, seen, issued, asked, now>> /\ backlog' \in {0, backlog}
        /\ pc' \notin {"exec", "claim", "run"} /\ (Draining' => Draining)
        /\ pc' = "direct" => mode' = "direct"
    BY <1>14 DEF ReportInterrupted, Draining, TypeOK
  <2> QED BY <2>1, DatedCalm
<1>15. ASSUME Retry PROVE Dated'
  <2>1. /\ UNCHANGED <<queue, mtime, seen, issued, asked, now, backlog, mode>> /\ pc = "recover"
        /\ inflight.k \in RetrySafe /\ kind' = kind
        /\ inflight'.r = inflight.r /\ pc' = "run" /\ after' = "recovered"
    BY <1>15 DEF Retry, Retries, TypeOK
  <2>2. Draining' => Draining
    BY <2>1 DEF Draining
  <2>3. inflight.r # 0 => kind[inflight.r] \in RetrySafe
    BY <2>1 DEF RecordCounts
  <2> QED BY <2>1, <2>2, <2>3 DEF Dated, AllDated
<1>16. ASSUME Recovered PROVE Dated'
  <2>1. /\ UNCHANGED <<queue, mtime, seen, issued, asked, now>> /\ backlog' \in {0, backlog}
        /\ pc' \notin {"exec", "claim", "run"} /\ (Draining' => Draining)
        /\ pc' = "direct" => mode' = "direct"
    BY <1>16 DEF Recovered, Quit, Draining, TypeOK
  <2> QED BY <2>1, DatedCalm
<1>17. ASSUME RecordDirect PROVE Dated'
  <2>1. /\ UNCHANGED <<queue, mtime, seen, issued, asked, now, backlog>> /\ mode' = "direct"
        /\ inflight'.r = 0 /\ pc' = "run" /\ after' = "idle"
    BY <1>17 DEF RecordDirect, Record, Dated
  <2> QED BY <2>1 DEF Dated, Draining
<1>18. ASSUME DirectNotRecorded PROVE Dated'
  <2>1. /\ UNCHANGED <<queue, mtime, seen, issued, asked, now>> /\ backlog' \in {0, backlog}
        /\ pc' \notin {"exec", "claim", "run"} /\ (Draining' => Draining)
        /\ pc' = "direct" => mode' = "direct"
    BY <1>18 DEF DirectNotRecorded, Quit, Draining, TypeOK
  <2> QED BY <2>1, DatedCalm
<1>19. ASSUME ReadHead PROVE Dated'
  <2>1. /\ UNCHANGED <<queue, mtime, seen, issued, asked, now>> /\ backlog' \in {0, backlog}
        /\ pc' \notin {"exec", "claim", "run"} /\ (Draining' => Draining)
        /\ pc' = "direct" => mode' = "direct"
    BY <1>19 DEF ReadHead, Draining, TypeOK
  <2> QED BY <2>1, DatedCalm
<1>20. ASSUME Expire PROVE Dated'
  <2>1. /\ queue' = rest /\ rest \subseteq queue /\ pc = "decide" /\ pc' = "expired"
        /\ UNCHANGED <<seen, issued, asked, backlog>>
    BY <1>20 DEF Expire, SetQueue, HeadCurrent
  <2>2. AllDated'
    BY <2>1 DEF Dated, Draining, AllDated
  <2> QED BY <2>1, <2>2 DEF Dated, AllDated
<1>21. ASSUME ReportExpired PROVE Dated'
  <2>1. /\ UNCHANGED <<queue, mtime, seen, issued, asked, now>> /\ backlog' \in {0, backlog}
        /\ pc' \notin {"exec", "claim", "run"} /\ (Draining' => Draining)
        /\ pc' = "direct" => mode' = "direct"
    BY <1>21 DEF ReportExpired, Draining, TypeOK
  <2> QED BY <2>1, DatedCalm
<1>22. ASSUME ClaimRecord PROVE Dated'
  <2>1. /\ UNCHANGED <<queue, mtime, seen, issued, asked, now, backlog, cur, kind>> /\ pc = "decide"
        /\ pc' = "claim" /\ ~TooOld(cur)
    BY <1>22 DEF ClaimRecord
  <2>a. cur \in Reqs /\ seen[cur] \in None..MaxTime /\ now \in Nat /\ Limit(kind[cur]) \in Nat
    BY <2>1, QueueBounds, QueueLimits DEF HeadCurrent, TypeOK, Limit
  <2>b. seen[cur] # None /\ now - seen[cur] <= Limit(kind[cur])
    BY <2>1, <2>a, QueueBounds DEF TooOld, None
  <2>2. now - asked[cur] <= Limit(kind[cur])
    BY <2>a, <2>b DEF Dated
  <2>3. Limit(kind[cur])' = Limit(kind[cur])
    BY <2>1 DEF Limit
  <2>4. AllDated' /\ Draining'
    BY <2>1 DEF Dated, Draining, AllDated
  <2> QED BY <2>1, <2>2, <2>3, <2>4 DEF Dated
<1>23. ASSUME Claim PROVE Dated'
  <2>1. /\ queue' = rest /\ rest \subseteq queue /\ pc = "claim" /\ pc' = "run" /\ inflight.r = cur
        /\ UNCHANGED <<seen, issued, asked, now, backlog, inflight, kind>>
    BY <1>23 DEF Claim, SetQueue, HeadCurrent, ClaimInFlight
  <2>2. AllDated'
    BY <2>1 DEF Dated, Draining, AllDated
  <2>3. kind[cur] \notin RetrySafe => now - asked[cur] <= ShortLimit
    BY <2>1 DEF Dated, Limit
  <2> QED BY <2>1, <2>2, <2>3 DEF Dated, AllDated
<1>24. ASSUME ClaimFails PROVE Dated'
  <2>1. /\ UNCHANGED <<queue, mtime, seen, issued, asked, now>> /\ backlog' \in {0, backlog}
        /\ pc' \notin {"exec", "claim", "run"} /\ (Draining' => Draining)
        /\ pc' = "direct" => mode' = "direct"
    BY <1>24 DEF ClaimFails, Draining, TypeOK
  <2> QED BY <2>1, DatedCalm
<1>25. ASSUME Start PROVE Dated'
  <2>1. /\ UNCHANGED <<queue, mtime, seen, issued, asked, now>> /\ backlog' \in {0, backlog}
        /\ pc' \notin {"exec", "claim", "run"} /\ (Draining' => Draining)
        /\ pc' = "direct" => mode' = "direct"
    BY <1>25 DEF Start, Draining, TypeOK
  <2> QED BY <2>1, DatedCalm
<1>26. ASSUME ActionEnds PROVE Dated'
  <2>1. /\ UNCHANGED <<queue, mtime, seen, issued, asked, now>> /\ backlog' \in {0, backlog}
        /\ pc' \notin {"exec", "claim", "run"} /\ (Draining' => Draining)
        /\ pc' = "direct" => mode' = "direct"
    BY <1>26 DEF ActionEnds, Draining, TypeOK
  <2> QED BY <2>1, DatedCalm
<1>27. ASSUME ReportOutcome PROVE Dated'
  <2>1. /\ UNCHANGED <<queue, mtime, seen, issued, asked, now>> /\ backlog' \in {0, backlog}
        /\ pc' \notin {"exec", "claim", "run"} /\ (Draining' => Draining)
        /\ pc' = "direct" => mode' = "direct"
    BY <1>27 DEF ReportOutcome, Draining, TypeOK
  <2> QED BY <2>1, DatedCalm
<1>28. ASSUME ClearRecord PROVE Dated'
  <2>1. /\ UNCHANGED <<queue, mtime, seen, issued, asked, now>> /\ backlog' \in {0, backlog}
        /\ pc' \notin {"exec", "claim", "run"} /\ (Draining' => Draining)
        /\ pc' = "direct" => mode' = "direct"
    BY <1>28 DEF ClearRecord, Quit, Draining, TypeOK
  <2> QED BY <2>1, DatedCalm
<1>29. ASSUME FinalStamp PROVE Dated'
  <2>0. /\ Stamp(0) \/ (queue = {} /\ UNCHANGED seen)
        /\ UNCHANGED <<queue, mtime, issued, asked>> /\ backlog' \in {0, backlog} /\ pc' = "idle"
    BY <1>29 DEF FinalStamp, Quit, StampFails, Dated
  <2>1. CASE Stamp(0)
    <3>1. /\ \A r \in queue : seen'[r] # None
          /\ \A r \in Reqs : seen'[r] # None => seen'[r] = asked[r] /\ r <= issued
      BY <2>0, <2>1, StampDates
    <3> QED BY <2>0, <3>1 DEF Dated, AllDated, Draining
  <2>2. CASE queue = {} /\ UNCHANGED seen
    BY <2>0, <2>2 DEF Dated, AllDated, Draining
  <2> QED BY <2>0, <2>1, <2>2
<1>30. ASSUME TimePasses PROVE Dated'
  <2>1. /\ UNCHANGED <<queue, mtime, seen, issued, asked, backlog, pc, mode, after, rc>>
        /\ pc \notin {"claim", "run"} /\ (pc = "exec" => rc = "ok")
    BY <1>30 DEF TimePasses, locals
  <2>2. Draining' = Draining
    BY <2>1 DEF Draining
  <2> QED BY <2>1, <2>2 DEF Dated, AllDated
<1>31. ASSUME Killed PROVE Dated'
  <2>1. /\ UNCHANGED <<queue, mtime, seen, issued, asked, now>> /\ backlog' \in {0, backlog}
        /\ pc' \notin {"exec", "claim", "run"} /\ (Draining' => Draining)
        /\ pc' = "direct" => mode' = "direct"
    BY <1>31 DEF Killed, Quit, Draining, TypeOK
  <2> QED BY <2>1, DatedCalm
<1>32. ASSUME Rebooted PROVE Dated'
  <2>1. /\ UNCHANGED <<queue, mtime, seen, issued, asked, now>> /\ backlog' \in {0, backlog}
        /\ pc' \notin {"exec", "claim", "run"} /\ (Draining' => Draining)
        /\ pc' = "direct" => mode' = "direct"
    BY <1>32 DEF Rebooted, Quit, Draining, TypeOK
  <2> QED BY <2>1, DatedCalm
<1>33. ASSUME UpdateEnds PROVE Dated'
  <2>1. UNCHANGED <<queue, mtime, seen, issued, asked, now, backlog, pc, mode, after, rc, cur, kind, inflight>>
    BY <1>33 DEF UpdateEnds, locals
  <2>2. Draining' = Draining
    BY <2>1 DEF Draining
  <2> QED BY <2>1, <2>2 DEF Dated, AllDated, Limit
<1>34. ASSUME NEW k \in Kinds, UnlockedAppend(k) PROVE Dated'
  BY <1>34 DEF UnlockedAppend
<1>35. ASSUME UNCHANGED vars PROVE Dated'
  <2>1. UNCHANGED <<queue, mtime, seen, issued, asked, now, backlog, pc, mode, after, rc, cur, kind, inflight>>
    BY <1>35 DEF vars
  <2>2. Draining' = Draining
    BY <2>1 DEF Draining
  <2> QED BY <2>1, <2>2 DEF Dated, AllDated, Limit
<1> QED
  BY <1>1, <1>2, <1>3, <1>4, <1>5, <1>6, <1>7, <1>8, <1>9, <1>10, <1>11, <1>12, <1>13, <1>14, <1>15, <1>16, <1>17, <1>18, <1>19, <1>20, <1>21, <1>22, <1>23, <1>24, <1>25, <1>26, <1>27, <1>28, <1>29, <1>30, <1>31, <1>32, <1>33, <1>34, <1>35
     DEF Next, Checkin, Drain, Dashboard, Operator, World

\* Line, debts and dates stay with the types and the counts.
THEOREM InLineInductive == Spec => [](IInv /\ InLine)
<1>1. Init => IInv /\ InLine
  <2> SUFFICES ASSUME Init PROVE InLine
    BY InitIInv
  <2>1. LineKept
    BY DEF Init, LineKept, NoRecord
  <2>2. OwedHeld
    BY DEF Init, OwedHeld, NoRecord
  <2>3. Dated
    BY DEF Init, Dated, Draining, None
  <2> QED BY <2>1, <2>2, <2>3 DEF InLine
<1>2. IInv /\ InLine /\ [Next]_vars => IInv' /\ InLine'
  <2> SUFFICES ASSUME IInv, InLine, [Next]_vars PROVE IInv' /\ InLine'
    OBVIOUS
  <2>1. IInv'
    BY TypeStep, CountStep DEF IInv, Counted
  <2>2. LineKept' /\ (wfaults = 0 => OwedHeld)'
    BY LineStep, OwedStep DEF InLine
  <2>3. ASSUME ~MayUnlock PROVE (wfaults = 0 => Dated)'
    BY <2>3, DatedStep DEF InLine
  <2> QED BY <2>1, <2>2, <2>3 DEF InLine
<1> QED BY <1>1, <1>2, PTL DEF Spec

\* An action starts in one place only.
LEMMA OnlyStartStarts ==
    ASSUME TypeOK, [Next]_vars, NEW r \in Reqs, starts'[r] > starts[r]
    PROVE  /\ pc = "run" /\ inflight.r = r /\ UNCHANGED <<queue, inflight, kind, now, asked>>
<1>0. Start \/ starts' = starts
  BY DEF Next, Checkin, Drain, Dashboard, Operator, World, vars, runs, CheckinStarts, PreStamp,
         PostStamp, Dispatch, LeaveStamp, CheckinEnds, DrainStamp, NothingToRecover, ForgetUnclaimed,
         ReportInterrupted, Retry, Recovered, RecordDirect, DirectNotRecorded, ReadHead, Expire,
         ReportExpired, ClaimRecord, Claim, ClaimFails, ActionEnds, ReportOutcome, ClearRecord,
         FinalStamp, Receive, ReceiveUpdate, OperatorDrain, OperatorRuns, TimePasses, Killed,
         Rebooted, UpdateEnds, UnlockedAppend
<1>1. starts[r] \in Nat
  BY QueueLimits DEF TypeOK
<1>2. starts' # starts
  BY <1>1
<1>3. Start
  BY <1>0, <1>2
<1>4. inflight.r = r
  BY <1>1, <1>3 DEF Start
<1> QED BY <1>3, <1>4 DEF Start, files, world, asks

\* StartsInOrder (drain_queue, recover_interrupted): while writes succeed, wherever the
\* script is killed and whoever appends beside it, no action starts before an older one
\* that waits, or that was interrupted and is not reported.
THEOREM StartsKeepOrder ==
    ASSUME MaxWriteFaults = 0
    PROVE  Spec => StartsInOrder
<1> DEFINE InOrder == \A r \in Reqs : starts'[r] > starts[r] => \A g \in 1..(r - 1) : ~Owed(g)
<1>1. IInv /\ InLine /\ [Next]_vars => InOrder
  <2> SUFFICES ASSUME IInv, InLine, [Next]_vars, NEW r \in Reqs, starts'[r] > starts[r],
                      NEW g \in 1..(r - 1)
               PROVE  ~Owed(g)
    OBVIOUS
  <2>1. TypeOK /\ wfaults = 0 /\ LineKept /\ OwedHeld /\ RunPaidFor
    BY DEF IInv, Counted, TypeOK, InLine
  <2>2. pc = "run" /\ inflight.r = r
    BY <2>1, OnlyStartStarts
  <2>3. g \in Reqs /\ g < r /\ r \in Reqs
    BY QueueBounds DEF Reqs
  <2>4. r \notin queue
    BY <2>1, <2>2, <2>3 DEF RunPaidFor, Reqs
  <2>5. g \notin queue
    BY <2>1, <2>2, <2>3, <2>4 DEF LineKept, Reqs
  <2>6. ~(starts[g] > 0 /\ g \notin ended /\ ~Settled(g))
    BY <2>1, <2>2, <2>3 DEF OwedHeld
  <2> QED BY <2>5, <2>6 DEF Owed
<1>2. IInv /\ InLine /\ [Next]_vars => [InOrder]_vars
  BY <1>1
<1> QED BY <1>2, InLineInductive, PTL DEF Spec, StartsInOrder

\* NoStaleDisruption (_stamp_queue and the limits of drain_queue): while writes succeed and
\* nobody appends without the lock, a disruptive action starts within its limit from when
\* it was asked for, however often the file it waits in was rewritten.
THEOREM DisruptionIsFresh ==
    ASSUME MaxWriteFaults = 0, ~MayUnlock
    PROVE  Spec => NoStaleDisruption
<1> DEFINE Fresh == \A r \in Reqs : starts'[r] > starts[r] /\ kind[r] \notin RetrySafe
                        => now - asked[r] <= ShortLimit
<1>1. IInv /\ InLine /\ [Next]_vars => Fresh
  <2> SUFFICES ASSUME IInv, InLine, [Next]_vars, NEW r \in Reqs, starts'[r] > starts[r],
                      kind[r] \notin RetrySafe
               PROVE  now - asked[r] <= ShortLimit
    OBVIOUS
  <2>1. TypeOK /\ Dated
    BY DEF IInv, TypeOK, InLine
  <2>2. pc = "run" /\ inflight.r = r /\ r # 0
    BY <2>1, OnlyStartStarts DEF Reqs
  <2> QED BY <2>1, <2>2 DEF Dated
<1>2. IInv /\ InLine /\ [Next]_vars => [Fresh]_vars
  BY <1>1
<1> QED BY <1>2, InLineInductive, PTL DEF Spec, NoStaleDisruption

\* RecordKept (recover_interrupted, run_tracked): while writes succeed, the record of an
\* action in flight goes only once its outcome is written, or if it is still queued: a
\* kill between two writes leaves no action that nobody knows of.
THEOREM RecordIsKept ==
    ASSUME MaxWriteFaults = 0
    PROVE  Spec => RecordKept
<1> DEFINE Kept == \A r \in Reqs :
        inflight.r = r /\ inflight'.r # r /\ pc # "clear" => r \in queue
<1>1. IInv /\ InLine /\ [Next]_vars => Kept
  <2> SUFFICES ASSUME IInv, InLine, [Next]_vars, NEW r \in Reqs,
                      inflight.r = r, inflight'.r # r, pc # "clear"
               PROVE  r \in queue
    OBVIOUS
  <2>1. TypeOK /\ wfaults = 0 /\ OwedHeld /\ RecordCounts /\ ~WriteFault
    BY DEF IInv, Counted, TypeOK, InLine, WriteFault
  <2>2. pc \notin {"direct", "decide"}
    BY <2>1 DEF OwedHeld, RecordCounts, InFlight, Reqs
  <2>3. ForgetUnclaimed \/ inflight'.r = inflight.r
    BY <2>1, <2>2
       DEF Next, Checkin, Drain, Dashboard, Operator, World, vars, files, CheckinStarts, PreStamp,
           PostStamp, Dispatch, LeaveStamp, CheckinEnds, DrainStamp, NothingToRecover,
           ReportInterrupted, Retry, Recovered, RecordDirect, DirectNotRecorded, ReadHead, Expire,
           ReportExpired, ClaimRecord, Claim, ClaimFails, Start, ActionEnds, ReportOutcome, ClearRecord,
           FinalStamp, Receive, ReceiveUpdate, OperatorDrain, OperatorRuns, TimePasses, Killed,
           Rebooted, UpdateEnds, UnlockedAppend, TypeOK
  <2> QED BY <2>3 DEF ForgetUnclaimed, StillQueued
<1>2. IInv /\ InLine /\ [Next]_vars => [Kept]_vars
  BY <1>1
<1> QED BY <1>2, InLineInductive, PTL DEF Spec, RecordKept

============================================================================
