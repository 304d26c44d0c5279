------------------------ MODULE BundlePipelineProofs ------------------------
(***************************************************************************)
(* Safety of the bundle pipeline for every number of hours, scans, faults  *)
(* and upload-nows, whatever the limits: type correctness, that "uploaded" *)
(* is never said of an hour no bundle of which was shipped, and that two   *)
(* builders never put an older bundle over a newer one.  And, while nobody *)
(* runs upload-now: that the pipeline implements HourDelivery, that no     *)
(* bundle is lost, and that no work is thrown away.                        *)
(***************************************************************************)
EXTENDS MCBundlePipeline, FiniteSetTheorems, TLAPS

\* At these labels a process works on the hour in cur.
AtHour(p) == pc[p] \in {"write", "record", "missing", "put", "mark", "nack"}

\* So cur is an hour there.
CurInHours == \A p \in Procs : AtHour(p) => cur[p] \in Hours

\* The advisory lock: at most one builder per file name.
OneBuilder ==
    \A p, q \in Procs : pc[p] \in {"write", "record"} /\ pc[q] \in {"write", "record"}
                        /\ cur[p] = cur[q] => p = q

\* What a builder is about to write is no older than what is on disk, and is
\* not more than there is.
SnapFresh ==
    \A p \in Procs : pc[p] = "write" =>
        snap[p] > 0 /\ snap[p] <= scans[cur[p]] /\ zip[cur[p]] <= snap[p]

\* What is on the wire came from a file; what was acknowledged is there.
WireReal ==
    /\ \A p \in Procs : pc[p] = "put" => snap[p] > 0 /\ snap[p] <= scans[cur[p]]
    /\ \A p \in Procs : pc[p] = "mark" => depot[cur[p]] # 0

\* What the pipeline is safe for, as far as one state tells.
Safe == /\ CurInHours /\ OneBuilder /\ SnapFresh /\ WireReal
        /\ UploadedWasShipped /\ NothingInvented

\* The inductive invariant.
IInv == TypeOK /\ Safe

----------------------------------------------------------------------------
(* Facts about the operators.                                              *)

\* The catch-up cap (sorted(..)[-MAX:]) picks hours of the set it is given.
LEMMA NewestSubset ==
    ASSUME NEW S, NEW k PROVE Newest(S, k) \subseteq S
BY DEF Newest

\* What _catch_up_missed_hours owes are hours.
LEMMA OwedHours == Owed \subseteq Hours
BY DEF Owed

\* The next tick of _run_scheduler_loop never lies beyond the last hour of the model.
LEMMA NextTickType == TypeOK => NextTick \in Hours
BY BoundsAssumption DEF TypeOK, NextTick, Hours

\* The clock is an hour, and "never" (0) is a value of every time field.
LEMMA HourType == TypeOK => hour \in 0..MaxHour /\ 0 \in 0..MaxHour
BY BoundsAssumption DEF TypeOK, Hours

\* Hours are numbers from 1 on.
LEMMA HoursNat == Hours \subseteq 0..MaxHour /\ 1 \in Hours
BY BoundsAssumption DEF Hours

\* A fault stays within its bound.
LEMMA FaultType == TypeOK /\ Fault => faults' \in 0..MaxFaults
BY BoundsAssumption DEF TypeOK, Fault

\* The updates of a bundles row in db.py yield rows.
LEMMA RowUpdateTypes ==
    ASSUME TypeOK, NEW r \in Row
    PROVE  /\ Rebuilt(r) \in Row /\ Uploaded(r) \in Row /\ Failed(r) \in Row
           /\ GivenUp(r) \in Row /\ Swept(r) \in Row
<1>1. hour \in 0..MaxHour /\ 0 \in 0..MaxHour
  BY HourType
<1>2. r.retry + 1 \in Nat
  BY DEF Row
<1>3. \A n \in Nat : [r EXCEPT !.last = hour, !.retry = n] \in Row
  BY <1>1 DEF Row
<1>4. Failed(r) \in Row
  BY <1>2, <1>3 DEF Failed
<1>5. Swept(r) \in Row
  BY DEF Swept, Row
<1> QED BY <1>1, <1>4, <1>5 DEF Rebuilt, Uploaded, GivenUp, Row

\* A killed process is back in its initial locals.
LEMMA KilledType ==
    Killed => /\ pc' \in [Procs -> PCs] /\ todo' \in [Procs -> SUBSET Hours]
              /\ cur' \in [Procs -> 0..MaxHour] /\ snap' \in [Procs -> 0..MaxScans]
              /\ queue' \in [Procs -> SUBSET Entry] /\ dead' \in [Procs -> SUBSET Hours]
              /\ saw' \in [Procs -> BOOLEAN]
              /\ tries' \in [Procs -> Nat] /\ streak' \in [Procs -> Nat]
BY BoundsAssumption DEF Killed, PCs

\* The invariant holds of an empty database and an idle container.
LEMMA InitIInv == Init => IInv
BY BoundsAssumption, SwitchAssumption
   DEF Init, IdleLocals, IInv, Safe, TypeOK, CurInHours, AtHour, OneBuilder, SnapFresh, WireReal,
       UploadedWasShipped, NothingInvented, Hours, Procs, PCs, NoRow, Row, Entry

----------------------------------------------------------------------------
(* Type correctness, action by action.                                     *)

\* Every action keeps every variable in its type.
LEMMA TypeStep == TypeOK /\ CurInHours /\ [Next]_vars => TypeOK'
<1> SUFFICES ASSUME TypeOK, CurInHours, [Next]_vars PROVE TypeOK'
  OBVIOUS
<1> USE BoundsAssumption, SwitchAssumption
<1>1. ASSUME ScanCompletes PROVE TypeOK'
  BY <1>1 DEF ScanCompletes, TypeOK, store, env, locals
<1>2. ASSUME Purge PROVE TypeOK'
  BY <1>2 DEF Purge, TypeOK, store, env, locals
<1>3. ASSUME AdvanceHour PROVE TypeOK'
  <2>1. hour' \in Hours
    BY <1>3 DEF AdvanceHour, TypeOK, Hours
  <2>2. faults' \in 0..MaxFaults
    BY <1>3, FaultType DEF AdvanceHour, TypeOK
  <2> QED BY <1>3, <2>1, <2>2 DEF AdvanceHour, TypeOK, store, env, locals, box
<1>4. ASSUME Crash PROVE TypeOK'
  BY <1>4, KilledType, FaultType DEF Crash, TypeOK, store, box
<1>5. ASSUME Restart PROVE TypeOK'
  BY <1>5 DEF Restart, TypeOK, store, box, locals
<1>6. ASSUME Unmount PROVE TypeOK'
  BY <1>6, FaultType DEF Unmount, TypeOK, box, locals, env
<1>7. ASSUME NEW b \in BOOLEAN, WatchdogList(b) PROVE TypeOK'
  BY <1>7 DEF WatchdogList, TypeOK, box, store, locals, env
<1>8. ASSUME NEW h \in Hours, WatchdogRemove(h) PROVE TypeOK'
  BY <1>8 DEF WatchdogRemove, TypeOK, box, locals, env
<1>9. ASSUME StallRestart PROVE TypeOK'
  BY <1>9, KilledType, FaultType DEF StallRestart, TypeOK, box, store
<1>10. ASSUME Tick PROVE TypeOK'
  BY <1>10, NewestSubset, OwedHours DEF Tick, Goto, TypeOK, box, store, env, PCs
<1>11. ASSUME UploadNow PROVE TypeOK'
  <2>1. Newest({h \in Hours : Runs(h) > 0}, 1) \subseteq Hours
    BY NewestSubset
  <2>2. todo' \in [Procs -> SUBSET Hours]
    BY <1>11, <2>1 DEF UploadNow, TypeOK
  <2>3. manuals' \in 0..MaxManuals
    BY <1>11 DEF UploadNow, TypeOK
  <2> QED BY <1>11, <2>2, <2>3 DEF UploadNow, Goto, TypeOK, box, store, env, PCs
<1>12. ASSUME NEW p \in Procs, NEW h \in Hours, BuildBegin(p, h) PROVE TypeOK'
  <2>1. Runs(h) \in 0..MaxScans
    BY DEF Runs, TypeOK
  <2>2. h \in 0..MaxHour
    BY HoursNat
  <2> QED BY <1>12, <2>1, <2>2 DEF BuildBegin, Goto, TypeOK, box, store, env, PCs
<1>13. ASSUME NEW p \in Procs, BuildWrite(p) PROVE TypeOK'
  BY <1>13 DEF BuildWrite, Goto, TypeOK, box, env, PCs
<1>14. ASSUME NEW p \in Procs, BuildRecord(p) PROVE TypeOK'
  <2>1. row' \in [Hours -> Row]
    BY <1>14, RowUpdateTypes DEF BuildRecord, TypeOK
  <2> QED BY <1>14, <2>1 DEF BuildRecord, Goto, TypeOK, box, env, PCs
<1>15. ASSUME BuildFail PROVE TypeOK'
  BY <1>15, FaultType DEF BuildFail, Goto, TypeOK, box, store, env, PCs, Procs
<1>16. ASSUME SavedOnly PROVE TypeOK'
  BY <1>16, NextTickType DEF SavedOnly, Finish, TypeOK, box, store, PCs, Procs
<1>17. ASSUME NEW p \in Procs, Sweep(p) PROVE TypeOK'
  <2>1. \A h \in Hours : row[h] \in Row
    BY DEF TypeOK
  <2>2. row' \in [Hours -> Row]
    BY <1>17, <2>1, RowUpdateTypes DEF Sweep
  <2>3. dead' \in [Procs -> SUBSET Hours] /\ pc' \in [Procs -> PCs]
    BY <1>17 DEF Sweep, Goto, TypeOK, PCs
  <2> QED BY <1>17, <2>2, <2>3 DEF Sweep, TypeOK, box, env
<1>18. ASSUME NEW p \in Procs, NEW h \in Hours, SweepUnlink(p, h) PROVE TypeOK'
  BY <1>18 DEF SweepUnlink, TypeOK, box, env
<1>19. ASSUME NEW p \in Procs, ListPending(p) PROVE TypeOK'
  <2>1. \A h \in Hours : EntryOf(h) \in Entry
    BY DEF EntryOf, Entry, TypeOK, Row
  <2> QED BY <1>19, <2>1 DEF ListPending, Goto, TypeOK, box, store, env, PCs
<1>20. ASSUME NEW p \in Procs, SweepFails(p) PROVE TypeOK'
  BY <1>20, FaultType DEF SweepFails, Goto, TypeOK, box, store, env, PCs
<1>21. ASSUME NEW p \in Procs, NEW e \in queue[p], SkipBackoff(p, e) PROVE TypeOK'
  BY <1>21 DEF SkipBackoff, Drop, TypeOK, box, store, env
<1>22. ASSUME NEW p \in Procs, NEW e \in queue[p], FindMissing(p, e) PROVE TypeOK'
  <2>1. e.h \in 0..MaxHour
    BY DEF TypeOK, Entry, Hours
  <2> QED BY <1>22, <2>1 DEF FindMissing, Drop, Goto, TypeOK, box, store, env, PCs
<1>23. ASSUME NEW p \in Procs, GiveUpMissing(p) PROVE TypeOK'
  <2>1. row' \in [Hours -> Row]
    BY <1>23, RowUpdateTypes DEF GiveUpMissing, TypeOK
  <2> QED BY <1>23, <2>1, HourType DEF GiveUpMissing, Goto, TypeOK, box, env, PCs
<1>24. ASSUME NEW p \in Procs, NEW e \in queue[p], OpenBundle(p, e) PROVE TypeOK'
  <2>1. e.h \in Hours /\ e.h \in 0..MaxHour
    <3>1. e \in Entry
      BY DEF TypeOK
    <3>2. e.h \in Hours
      BY <3>1 DEF Entry
    <3> QED BY <3>2, HoursNat
  <2>2. zip[e.h] \in 0..MaxScans
    BY <2>1 DEF TypeOK
  <2>3. tries' \in [Procs -> Nat]
    BY <1>24 DEF OpenBundle, TypeOK
  <2>4. cur' \in [Procs -> 0..MaxHour] /\ snap' \in [Procs -> 0..MaxScans]
    BY <1>24, <2>1, <2>2 DEF OpenBundle, TypeOK
  <2>5. queue' \in [Procs -> SUBSET Entry]
    BY <1>24 DEF OpenBundle, Drop, TypeOK
  <2>6. pc' \in [Procs -> PCs]
    BY <1>24 DEF OpenBundle, Goto, TypeOK, PCs
  <2> QED BY <1>24, <2>3, <2>4, <2>5, <2>6 DEF OpenBundle, TypeOK, box, store, env
<1>25. ASSUME NEW p \in Procs, PutOk(p) PROVE TypeOK'
  <2>1. depot' \in [Hours -> 0..MaxScans]
    BY <1>25 DEF PutOk, TypeOK
  <2>2. snap' \in [Procs -> 0..MaxScans]
    <3>1. 0 \in 0..MaxScans
      OBVIOUS
    <3> QED BY <1>25, <3>1 DEF PutOk, TypeOK
  <2> QED BY <1>25, <2>1, <2>2 DEF PutOk, Goto, TypeOK, box, store, env, PCs
<1>26. ASSUME NEW p \in Procs, MarkUploaded(p) PROVE TypeOK'
  <2>1. row' \in [Hours -> Row]
    BY <1>26, RowUpdateTypes DEF MarkUploaded, TypeOK
  <2> QED BY <1>26, <2>1, HourType DEF MarkUploaded, Goto, TypeOK, box, env, PCs
<1>27. ASSUME NEW p \in Procs, PutFail(p) PROVE TypeOK'
  BY <1>27 DEF PutFail, Goto, TypeOK, box, store, env, PCs
<1>28. ASSUME NEW p \in Procs, MarkFailed(p) PROVE TypeOK'
  <2>1. row' \in [Hours -> Row]
    BY <1>28, RowUpdateTypes DEF MarkFailed, TypeOK
  <2> QED BY <1>28, <2>1, HourType DEF MarkFailed, Goto, TypeOK, box, env, PCs
<1>29. ASSUME NEW p \in Procs, Prune(p) PROVE TypeOK'
  BY <1>29, NextTickType DEF Prune, Finish, TypeOK, box, PCs
<1>30. ASSUME NEW p \in Procs, Aborted(p) PROVE TypeOK'
  BY <1>30, NextTickType, FaultType DEF Aborted, Finish, TypeOK, box, store, PCs
<1>31. ASSUME UNCHANGED vars PROVE TypeOK'
  BY <1>31 DEF vars, TypeOK
<1> QED
  BY <1>1, <1>2, <1>3, <1>4, <1>5, <1>6, <1>7, <1>8, <1>9, <1>10, <1>11, <1>12,
     <1>13, <1>14, <1>15, <1>16, <1>17, <1>18, <1>19, <1>20, <1>21, <1>22, <1>23,
     <1>24, <1>25, <1>26, <1>27, <1>28, <1>29, <1>30, <1>31
     DEF Next, Environment, Watchdog, Process, Faulty

----------------------------------------------------------------------------
(* The inductive invariant, action by action.                              *)

\* Every step keeps the lock, what is about to be written and what is on the
\* wire as they should be: BuildBegin needs the lock, BuildWrite and PutOk carry
\* on what BuildBegin and OpenBundle read, MarkUploaded what PutOk shipped.
LEMMA SafeStep == IInv /\ [Next]_vars => Safe'
<1> SUFFICES ASSUME TypeOK, Safe, [Next]_vars PROVE Safe'
  BY DEF IInv
<1> USE DEF TypeOK, Safe, CurInHours, AtHour, OneBuilder, SnapFresh, WireReal,
            UploadedWasShipped, NothingInvented, store, box, locals, env
<1>1. ASSUME ScanCompletes PROVE Safe'
  BY <1>1 DEF ScanCompletes
<1>2. ASSUME Purge PROVE Safe'
  BY <1>2 DEF Purge
<1>3. ASSUME AdvanceHour PROVE Safe'
  BY <1>3 DEF AdvanceHour
<1>4. ASSUME Crash PROVE Safe'
  BY <1>4 DEF Crash, Killed
<1>5. ASSUME Restart PROVE Safe'
  BY <1>5 DEF Restart
<1>6. ASSUME Unmount PROVE Safe'
  BY <1>6 DEF Unmount
<1>7. ASSUME NEW b \in BOOLEAN, WatchdogList(b) PROVE Safe'
  BY <1>7 DEF WatchdogList
<1>8. ASSUME NEW h \in Hours, WatchdogRemove(h) PROVE Safe'
  BY <1>8 DEF WatchdogRemove
<1>9. ASSUME StallRestart PROVE Safe'
  BY <1>9 DEF StallRestart, Killed
<1>10. ASSUME Tick PROVE Safe'
  BY <1>10 DEF Tick, Goto
<1>11. ASSUME UploadNow PROVE Safe'
  BY <1>11 DEF UploadNow, Goto
<1>12. ASSUME NEW p \in Procs, NEW h \in Hours, BuildBegin(p, h) PROVE Safe'
  BY <1>12 DEF BuildBegin, Goto, Free, Holds, Runs
<1>13. ASSUME NEW p \in Procs, BuildWrite(p) PROVE Safe'
  BY <1>13 DEF BuildWrite, Goto
<1>14. ASSUME NEW p \in Procs, BuildRecord(p) PROVE Safe'
  BY <1>14 DEF BuildRecord, Goto, Rebuilt
<1>15. ASSUME BuildFail PROVE Safe'
  BY <1>15 DEF BuildFail, Goto
<1>16. ASSUME SavedOnly PROVE Safe'
  BY <1>16 DEF SavedOnly, Finish
<1>17. ASSUME NEW p \in Procs, Sweep(p) PROVE Safe'
  BY <1>17 DEF Sweep, Swept, Goto
<1>18. ASSUME NEW p \in Procs, NEW h \in Hours, SweepUnlink(p, h) PROVE Safe'
  BY <1>18 DEF SweepUnlink
<1>19. ASSUME NEW p \in Procs, ListPending(p) PROVE Safe'
  BY <1>19 DEF ListPending, Goto
<1>20. ASSUME NEW p \in Procs, SweepFails(p) PROVE Safe'
  BY <1>20 DEF SweepFails, Goto
<1>21. ASSUME NEW p \in Procs, NEW e \in queue[p], SkipBackoff(p, e) PROVE Safe'
  BY <1>21 DEF SkipBackoff
<1>22. ASSUME NEW p \in Procs, NEW e \in queue[p], FindMissing(p, e) PROVE Safe'
  <2>1. e.h \in Hours
    BY DEF Entry
  <2>2. \/ pc' = [pc EXCEPT ![p] = "missing"] /\ cur' = [cur EXCEPT ![p] = e.h]
        \/ UNCHANGED <<pc, cur>>
    BY <1>22 DEF FindMissing, Goto
  <2>3. UNCHANGED <<row, zip, depot, scans, snap, purged>> /\ pc[p] = "send"
    BY <1>22 DEF FindMissing, Next1
  <2>4. CurInHours'
    BY <2>1, <2>2, <2>3
  <2>5. OneBuilder'
    BY <2>1, <2>2, <2>3
  <2>6. SnapFresh' /\ WireReal'
    BY <2>1, <2>2, <2>3
  <2>7. UploadedWasShipped' /\ NothingInvented'
    BY <2>1, <2>2, <2>3
  <2> QED BY <2>4, <2>5, <2>6, <2>7
<1>23. ASSUME NEW p \in Procs, GiveUpMissing(p) PROVE Safe'
  BY <1>23 DEF GiveUpMissing, Goto, GivenUp
<1>24. ASSUME NEW p \in Procs, NEW e \in queue[p], OpenBundle(p, e) PROVE Safe'
  BY <1>24 DEF OpenBundle, Goto, Visible, Next1, Entry
<1>25. ASSUME NEW p \in Procs, PutOk(p) PROVE Safe'
  BY <1>25 DEF PutOk, Goto
<1>26. ASSUME NEW p \in Procs, MarkUploaded(p) PROVE Safe'
  BY <1>26 DEF MarkUploaded, Goto, Uploaded
<1>27. ASSUME NEW p \in Procs, PutFail(p) PROVE Safe'
  BY <1>27 DEF PutFail, Goto
<1>28. ASSUME NEW p \in Procs, MarkFailed(p) PROVE Safe'
  BY <1>28 DEF MarkFailed, Goto, Failed
<1>29. ASSUME NEW p \in Procs, Prune(p) PROVE Safe'
  BY <1>29 DEF Prune, Finish
<1>30. ASSUME NEW p \in Procs, Aborted(p) PROVE Safe'
  BY <1>30 DEF Aborted, Finish
<1>31. ASSUME UNCHANGED vars PROVE Safe'
  BY <1>31 DEF vars
<1> QED
  BY <1>1, <1>2, <1>3, <1>4, <1>5, <1>6, <1>7, <1>8, <1>9, <1>10, <1>11, <1>12,
     <1>13, <1>14, <1>15, <1>16, <1>17, <1>18, <1>19, <1>20, <1>21, <1>22, <1>23,
     <1>24, <1>25, <1>26, <1>27, <1>28, <1>29, <1>30, <1>31
     DEF Next, Environment, Watchdog, Process, Faulty

\* The conjunction of the types and of Safe is an inductive invariant.
THEOREM Inductive == Spec => []IInv
<1>1. IInv /\ [Next]_vars => IInv'
  BY TypeStep, SafeStep DEF IInv, Safe
<1> QED BY InitIInv, <1>1, PTL DEF Spec

----------------------------------------------------------------------------
(* The properties.                                                         *)

\* No action of the pipeline, its watchdog or its environment leaves the types.
THEOREM TypeCorrect == Spec => []TypeOK
BY Inductive, PTL DEF IInv

\* A row is marked uploaded only after some bundle of its hour was shipped,
\* whatever crashes, lost answers and concurrent flushes there were.
THEOREM UploadedIsShipped == Spec => []UploadedWasShipped
<1>1. IInv => UploadedWasShipped
  BY DEF IInv, Safe
<1> QED BY Inductive, <1>1, PTL

\* Neither the disk nor the depot holds scans that the box did not finish.
THEOREM NothingIsInvented == Spec => []NothingInvented
<1>1. IInv => NothingInvented
  BY DEF IInv, Safe
<1> QED BY Inductive, <1>1, PTL

\* One step never replaces a bundle by an older one: only BuildWrite makes a
\* file, and by SnapFresh what it writes is no older than what it replaces.
LEMMA ZipStep ==
    ASSUME IInv, [Next]_vars, NEW h \in Hours, zip'[h] # 0
    PROVE  zip'[h] >= zip[h]
<1> USE DEF IInv, Safe, TypeOK
<1>1. ASSUME NEW p \in Procs, BuildWrite(p) PROVE zip'[h] >= zip[h]
  BY <1>1 DEF BuildWrite, SnapFresh
<1>2. ASSUME UNCHANGED zip PROVE zip'[h] >= zip[h]
  BY <1>2
<1>3. ASSUME NEW g \in Hours, WatchdogRemove(g) PROVE zip'[h] >= zip[h]
  BY <1>3 DEF WatchdogRemove
<1>4. ASSUME NEW p \in Procs, NEW g \in Hours, SweepUnlink(p, g) PROVE zip'[h] >= zip[h]
  BY <1>4 DEF SweepUnlink
<1>5. ASSUME NEW p \in Procs, Prune(p) PROVE zip'[h] >= zip[h]
  BY <1>5 DEF Prune
<1>6. CASE Environment
  BY <1>6, <1>2 DEF Environment, ScanCompletes, Purge, AdvanceHour, Crash, Restart, Unmount, store
<1>7. CASE Watchdog
  BY <1>7, <1>2, <1>3 DEF Watchdog, WatchdogList, StallRestart, store
<1>8. CASE Tick \/ UploadNow \/ SavedOnly \/ BuildFail
  BY <1>8, <1>2 DEF Tick, UploadNow, SavedOnly, BuildFail, store
<1>9. ASSUME NEW p \in Procs, Process(p) PROVE zip'[h] >= zip[h]
  <2>1. \/ UNCHANGED zip \/ BuildWrite(p) \/ Prune(p)
        \/ \E g \in Hours : SweepUnlink(p, g)
    BY <1>9 DEF Process, BuildBegin, BuildRecord, Sweep, ListPending, SkipBackoff,
                FindMissing, OpenBundle, GiveUpMissing, PutOk, MarkUploaded, PutFail,
                MarkFailed, store
  <2> QED BY <2>1, <1>1, <1>2, <1>4, <1>5
<1>10. ASSUME NEW p \in Procs, Faulty(p) PROVE zip'[h] >= zip[h]
  BY <1>10, <1>2 DEF Faulty, SweepFails, Aborted, store
<1>11. CASE UNCHANGED vars
  BY <1>11, <1>2 DEF vars
<1> QED BY <1>6, <1>7, <1>8, <1>9, <1>10, <1>11 DEF Next

\* However two builders of one hour interleave, the file never loses scans.
THEOREM ZipNeverGoesBack == Spec => ZipNeverOlder
<1>1. IInv /\ [Next]_vars => \A h \in Hours : zip'[h] # 0 => zip'[h] >= zip[h]
  BY ZipStep
<1>2. IInv /\ [Next]_vars => [\A h \in Hours : zip'[h] # 0 => zip'[h] >= zip[h]]_vars
  BY <1>1
<1> QED BY Inductive, <1>2, PTL DEF Spec, ZipNeverOlder

----------------------------------------------------------------------------
(* The automation alone: nobody runs upload-now, so that only the thread   *)
(* of the scheduler builds, ships and gives up bundles.                    *)

AloneNext ==
    \/ Environment \/ Watchdog \/ Tick \/ BuildFail
    \/ Process("sched") \/ Faulty("sched") \/ UNCHANGED vars

Building == {"write", "record"}
Sending  == {"send", "missing", "put", "mark", "nack"}

\* Rows are those of closed hours, built after the hour had closed.
RowsClosed ==
    \A h \in Hours : /\ HasRow(h) => h < hour /\ Complete(h)
                     /\ row[h].up # 0 \/ row[h].gave => HasRow(h)

\* A file holds all of its hour.
FilesWhole == \A h \in Hours : zip[h] # 0 => h < hour /\ zip[h] = scans[h]

\* What the tick builds has no row yet, and is whole.
BuildsNew ==
    /\ \A h \in todo["sched"] : h < hour /\ ~HasRow(h)
    /\ pc["sched"] \in Building =>
         /\ cur["sched"] < hour /\ ~HasRow(cur["sched"]) /\ cur["sched"] \notin todo["sched"]
         /\ snap["sched"] # 0 /\ snap["sched"] = scans[cur["sched"]]

\* The snapshot of the flush is not stale: each bundle in it is still pending, and is
\* there once; and so is the one in hand.
SendsPending ==
    /\ pc["sched"] \in Sending =>
         \A e \in queue["sched"] : Pending(e.h) /\ \A f \in queue["sched"] : e.h = f.h => e = f
    /\ pc["sched"] \in Sending \ {"send"} =>
         Pending(cur["sched"]) /\ \A e \in queue["sched"] : e.h # cur["sched"]

\* What is on the wire is all of its hour, and so is what was acknowledged.
WireWhole ==
    /\ pc["sched"] = "put" => snap["sched"] = scans[cur["sched"]]
    /\ pc["sched"] = "mark" => depot[cur["sched"]] = scans[cur["sched"]]

\* Inductive together with IInv.
Alone ==
    /\ pc["manual"] = "idle"
    /\ RowsClosed /\ FilesWhole /\ BuildsNew /\ SendsPending /\ WireWhole

\* What is about to be deleted is settled, by the watchdog or by the sweep; what is about
\* to be recorded is on disk, and so is what is pending.
DeletesDone ==
    /\ \A h \in doomed : row[h].up # 0
    /\ \A p \in Procs : \A h \in dead[p] : row[h].gave
    /\ pc["sched"] = "record" => zip[cur["sched"]] # 0
    /\ PendingHasFile

\* With the volume in place, a file the flush did not find is not there.
NeverHidden == hidden = {} /\ (pc["sched"] = "missing" => zip[cur["sched"]] = 0)

\* A closed hour with scans and no bundle.
Missed(h) == h < hour /\ scans[h] > 0 /\ ~HasRow(h)

\* The scheduler sleeps until the next hour.
Asleep == alive /\ pc["sched"] = "idle" /\ due > hour

\* The running tick will build the hour, or is building it.
InTick(h) == h \in todo["sched"] \/ (pc["sched"] \in Building /\ h = cur["sched"])

\* No hour has been missing for longer than there were faults, and one more
\* hour while the tick that is to build it is due or at work.
Timely(h) ==
    /\ hour - h <= faults + 1
    /\ Asleep => hour - h <= faults
    /\ pc["sched"] # "idle" => hour - h <= faults \/ InTick(h)

\* The automation keeps up. A missing hour is not purged: the purge is slower.
CaughtUp ==
    /\ on /\ due <= hour + 1
    /\ \A h \in purged : h < hour /\ ~Missed(h)
    /\ \A h \in Hours : Missed(h) => Timely(h)
    /\ pc["sched"] \notin {"idle", "catchup", "write", "record"} => todo["sched"] = {}

\* Fewer faults (crashes, failed builds, hours that pass under a due tick) than the catch-up
\* reaches back, builds in one tick, and than the scans are kept.
FewFaults ==
    /\ Transports = {TRUE}
    /\ MaxFaults < Horizon /\ MaxFaults < BuildCap /\ MaxFaults < ScanRetention

\* With no upload-now allowed, the other process never leaves its idle state.
LEMMA OnlySched ==
    ASSUME MaxManuals = 0, TypeOK, pc["manual"] = "idle", [Next]_vars
    PROVE  AloneNext
<1>1. ~UploadNow
  BY DEF UploadNow, TypeOK
<1>2. ~SavedOnly
  BY DEF SavedOnly
<1>3. ~Process("manual") /\ ~Faulty("manual")
  BY DEF Process, Faulty, BuildBegin, SweepUnlink, BuildWrite, BuildRecord, Sweep, ListPending,
         SkipBackoff, FindMissing, OpenBundle, GiveUpMissing, PutOk, MarkUploaded, PutFail,
         MarkFailed, Prune, SweepFails, Aborted, Next1
<1> QED BY <1>1, <1>2, <1>3 DEF Next, AloneNext, Procs

\* An empty table and an idle scheduler: nothing to be kept yet.
LEMMA AloneInit == Init => Alone
BY BoundsAssumption DEF Init, IdleLocals, Alone, RowsClosed, FilesWhole, BuildsNew, SendsPending,
                        WireWhole,
   HasRow, NoRow, Procs, Sending, Building

\* A row that is there keeps its date, and a new one is dated by the open hour.
LEMMA RowsStayClosed ==
    ASSUME TypeOK, RowsClosed, hour' = hour,
           \A g \in Hours : \/ row'[g] = row[g]
                            \/ HasRow(g) /\ row'[g].builtAt = row[g].builtAt
                            \/ g < hour /\ row'[g].builtAt = hour
    PROVE  RowsClosed'
<1> SUFFICES ASSUME NEW g \in Hours
             PROVE  /\ row'[g].builtAt # 0 => g < hour /\ row'[g].builtAt > g
                    /\ row'[g].up # 0 \/ row'[g].gave => row'[g].builtAt # 0
  BY DEF RowsClosed, HasRow, Complete
<1>1. /\ row[g].builtAt # 0 => g < hour /\ row[g].builtAt > g
      /\ row[g].up # 0 \/ row[g].gave => row[g].builtAt # 0
  BY DEF RowsClosed, HasRow, Complete
<1>2. hour \in Nat /\ g \in Nat /\ hour # 0
  BY BoundsAssumption DEF TypeOK, Hours
<1> QED BY <1>1, <1>2 DEF HasRow

\* A step of the flush that touches one row leaves the rest of its snapshot pending.
LEMMA OthersStayPending ==
    ASSUME TypeOK, SendsPending, NEW h, pc["sched"] \in Sending, pc'["sched"] = "send",
           queue' = queue, \A e \in queue["sched"] : e.h # h,
           \A g \in Hours : g # h => row'[g] = row[g]
    PROVE  SendsPending'
<1>1. \A e \in queue["sched"] : e.h \in Hours
  BY DEF TypeOK, Entry, Procs
<1>2. \A e \in queue["sched"] : Pending(e.h)' /\ \A f \in queue["sched"] : e.h = f.h => e = f
  BY <1>1 DEF SendsPending, Pending, HasRow
<1> QED BY <1>2 DEF SendsPending, Sending

\* The scheduler records the bundle it has built: the first row of a closed hour.
LEMMA RecordKeepsAlone == ASSUME IInv, Alone, BuildRecord("sched") PROVE Alone'
<1>0. PICK b : b = cur["sched"]
  OBVIOUS
<1>1. /\ TypeOK /\ RowsClosed /\ FilesWhole /\ pc["manual"] = "idle" /\ b \in Hours /\ b < hour
      /\ \A h \in todo["sched"] : h \in Hours /\ h < hour /\ ~HasRow(h) /\ h # b
  BY <1>0 DEF BuildRecord, IInv, Safe, TypeOK, CurInHours, AtHour, Alone, BuildsNew, Building, Procs
<1>2. /\ row' = [row EXCEPT ![b] = Rebuilt(row[b])]
      /\ pc'["sched"] = "catchup" /\ pc'["manual"] = pc["manual"]
      /\ UNCHANGED <<hour, scans, zip, depot, todo, queue>>
  BY <1>0, <1>1 DEF BuildRecord, Goto, TypeOK, Procs, box
<1>3. row'[b].builtAt = hour /\ \A g \in Hours : g # b => row'[g] = row[g]
  BY <1>1, <1>2 DEF Rebuilt, TypeOK, Row
<1>4. RowsClosed'
  BY <1>1, <1>2, <1>3, RowsStayClosed
<1>5. BuildsNew'
  BY <1>1, <1>2, <1>3 DEF BuildsNew, Building, HasRow
<1> QED BY <1>1, <1>2, <1>4, <1>5 DEF Alone, FilesWhole, SendsPending, WireWhole, Sending

\* A sweep dates no row and begins no flush.
LEMMA SweepKeepsAlone == ASSUME IInv, Alone, Sweep("sched") PROVE Alone'
<1>1. /\ TypeOK /\ RowsClosed /\ FilesWhole /\ pc["manual"] = "idle"
      /\ \A h \in todo["sched"] : h \in Hours /\ h < hour /\ ~HasRow(h)
  BY DEF IInv, TypeOK, Alone, BuildsNew, Procs
<1>2. /\ row' = [h \in Hours |-> IF Hopeless(h) THEN Swept(row[h]) ELSE row[h]]
      /\ pc'["sched"] = "sweep" /\ pc'["manual"] = pc["manual"]
      /\ UNCHANGED <<hour, scans, zip, depot, todo, queue>>
  BY <1>1 DEF Sweep, Goto, TypeOK, Procs, box
<1>3. ASSUME NEW h \in Hours
      PROVE  row'[h].builtAt = row[h].builtAt /\ (row'[h] = row[h] \/ HasRow(h))
  <2>1. CASE Hopeless(h)
    BY <1>1, <1>2, <2>1 DEF Hopeless, Pending, Swept, TypeOK, Row
  <2>2. CASE ~Hopeless(h)
    BY <1>2, <2>2
  <2> QED BY <2>1, <2>2
<1>4. RowsClosed'
  BY <1>1, <1>2, <1>3, RowsStayClosed
<1>5. BuildsNew'
  BY <1>1, <1>2, <1>3 DEF BuildsNew, Building, HasRow
<1> QED BY <1>1, <1>2, <1>4, <1>5 DEF Alone, FilesWhole, SendsPending, WireWhole, Sending

\* The flush marks the bundle it had in hand; the others are still pending.
LEMMA MarksKeepAlone ==
    ASSUME IInv, Alone, GiveUpMissing("sched") \/ MarkUploaded("sched") \/ MarkFailed("sched")
    PROVE  Alone'
<1>0. PICK b : b = cur["sched"]
  OBVIOUS
<1>1. /\ TypeOK /\ RowsClosed /\ FilesWhole /\ SendsPending /\ pc["manual"] = "idle"
      /\ b \in Hours /\ Pending(b) /\ HasRow(b) /\ pc["sched"] \in Sending
      /\ \A e \in queue["sched"] : e.h # b
      /\ \A h \in todo["sched"] : h \in Hours /\ h < hour /\ ~HasRow(h)
  BY <1>0 DEF GiveUpMissing, MarkUploaded, MarkFailed, IInv, Safe, TypeOK, CurInHours, AtHour,
              Alone,
              BuildsNew, SendsPending, Sending, Pending, Procs
<1>2. /\ \/ row' = [row EXCEPT ![b] = GivenUp(row[b])]
         \/ row' = [row EXCEPT ![b] = Uploaded(row[b])]
         \/ row' = [row EXCEPT ![b] = Failed(row[b])]
      /\ pc'["sched"] = "send" /\ pc'["manual"] = pc["manual"]
      /\ UNCHANGED <<hour, scans, zip, depot, todo, queue>>
  BY <1>0, <1>1 DEF GiveUpMissing, MarkUploaded, MarkFailed, Goto, TypeOK, Procs, box
<1>3. row'[b].builtAt = row[b].builtAt /\ \A g \in Hours : g # b => row'[g] = row[g]
  <2>1. row \in [Hours -> Row] /\ row[b] \in Row
    BY <1>1 DEF TypeOK
  <2>2. \/ row'[b] = GivenUp(row[b]) \/ row'[b] = Uploaded(row[b]) \/ row'[b] = Failed(row[b])
    BY <1>1, <1>2, <2>1
  <2>3. \A g \in Hours : g # b => row'[g] = row[g]
    BY <1>2, <2>1
  <2> QED BY <2>1, <2>2, <2>3 DEF GivenUp, Uploaded, Failed, Row
<1>4. RowsClosed'
  BY <1>1, <1>2, <1>3, RowsStayClosed
<1>5. SendsPending'
  BY <1>1, <1>2, <1>3, OthersStayPending
<1>6. BuildsNew'
  BY <1>1, <1>2, <1>3 DEF BuildsNew, Building, HasRow
<1> QED BY <1>1, <1>2, <1>4, <1>5, <1>6 DEF Alone, FilesWhole, WireWhole

\* The snapshot of the flush holds what is pending, once.
LEMMA ListKeepsAlone == ASSUME IInv, Alone, ListPending("sched") PROVE Alone'
<1>1. /\ RowsClosed /\ FilesWhole /\ BuildsNew /\ pc["manual"] = "idle"
      /\ pc \in [Procs -> PCs] /\ queue \in [Procs -> SUBSET Entry]
  BY DEF IInv, TypeOK, Alone
<1>2. /\ queue'["sched"] = {EntryOf(h) : h \in {g \in Hours : Pending(g)}}
      /\ pc'["sched"] = "send" /\ pc'["manual"] = pc["manual"]
      /\ UNCHANGED <<hour, scans, row, zip, depot, todo>>
  BY <1>1 DEF ListPending, Goto, Procs, box, store
<1>3. ASSUME NEW e \in queue'["sched"] PROVE Pending(e.h) /\ e = EntryOf(e.h)
  <2>1. PICK h \in Hours : Pending(h) /\ e = EntryOf(h)
    BY <1>2, <1>3
  <2>2. e.h = h
    BY <2>1 DEF EntryOf
  <2> QED BY <2>1, <2>2
<1>4. \A e \in queue'["sched"] : Pending(e.h)'
  BY <1>2, <1>3 DEF Pending, HasRow
<1>5. \A e, f \in queue'["sched"] : e.h = f.h => e = f
  BY <1>3
<1>6. SendsPending'
  BY <1>2, <1>4, <1>5 DEF SendsPending, Sending
<1>7. RowsClosed' /\ FilesWhole' /\ BuildsNew' /\ WireWhole'
  BY <1>1, <1>2 DEF RowsClosed, FilesWhole, BuildsNew, WireWhole, Building, HasRow, Complete
<1> QED BY <1>1, <1>2, <1>6, <1>7 DEF Alone

\* Every step of the automation keeps it: BuildBegin takes an hour that was owed, hence closed
\* and without a row, ListPending what is pending, and no one else moves them.
LEMMA AloneStep == ASSUME IInv, Alone, AloneNext PROVE Alone'
<1> USE DEF IInv, Safe, TypeOK, Alone, RowsClosed, FilesWhole, BuildsNew, SendsPending, WireWhole,
            HasRow, Complete, Pending, Sending, Building, Row, Entry, Hours, Procs,
            CurInHours, AtHour, box, store, locals, env
<1>1. ASSUME ScanCompletes PROVE Alone'
  <2>1. hour \in Int /\ \A h \in Hours : h < hour => scans'[h] = scans[h]
    BY <1>1 DEF ScanCompletes
  <2>2. UNCHANGED <<hour, row, zip, depot, pc, todo, cur, snap, queue>>
    BY <1>1 DEF ScanCompletes
  <2>3. RowsClosed' /\ FilesWhole'
    BY <2>1, <2>2
  <2>4. BuildsNew'
    BY <2>1, <2>2
  <2>5. pc["sched"] \in {"put", "mark"} => cur["sched"] \in Hours /\ cur["sched"] < hour
    OBVIOUS
  <2>6. WireWhole' /\ SendsPending'
    BY <2>1, <2>2, <2>5
  <2> QED BY <2>2, <2>3, <2>4, <2>6
<1>2. ASSUME Purge PROVE Alone'
  BY <1>2 DEF Purge
<1>3. ASSUME AdvanceHour PROVE Alone'
  BY <1>3 DEF AdvanceHour, Fault
<1>4. ASSUME Crash PROVE Alone'
  BY <1>4 DEF Crash, Killed, Fault
<1>5. ASSUME Restart PROVE Alone'
  BY <1>5 DEF Restart
<1>6. ASSUME Unmount PROVE Alone'
  BY <1>6 DEF Unmount, Fault
<1>7. ASSUME NEW b \in BOOLEAN, WatchdogList(b) PROVE Alone'
  BY <1>7 DEF WatchdogList, Deletable
<1>8. ASSUME NEW h \in Hours, WatchdogRemove(h) PROVE Alone'
  BY <1>8 DEF WatchdogRemove
<1>9. ASSUME StallRestart PROVE Alone'
  BY <1>9 DEF StallRestart, Killed, Fault
<1>10. ASSUME Tick PROVE Alone'
  BY <1>10 DEF Tick, Goto, Owed, Newest
<1>11. ASSUME NEW h \in Hours, BuildBegin("sched", h) PROVE Alone'
  <2>1. h \in todo["sched"] /\ h < hour /\ ~HasRow(h) /\ pc["sched"] = "catchup"
    BY <1>11 DEF BuildBegin
  <2>2. todo'["sched"] = todo["sched"] \ {h} /\ todo' = [todo EXCEPT !["sched"] = @ \ {h}]
        /\ UNCHANGED <<hour, scans, row, zip, depot, queue>> /\ pc'["manual"] = pc["manual"]
    BY <1>11 DEF BuildBegin, Goto
  <2>3. \/ /\ pc'["sched"] = "write" /\ cur'["sched"] = h
           /\ snap'["sched"] = scans[h] /\ scans[h] # 0
        \/ pc'["sched"] = "catchup"
    <3>1. Runs(h) > 0 => Runs(h) = scans[h] /\ scans[h] # 0
      BY DEF Runs
    <3>2. \/ /\ Runs(h) > 0 /\ pc'["sched"] = "write"
             /\ cur'["sched"] = h /\ snap'["sched"] = Runs(h)
          \/ pc' = pc
      BY <1>11 DEF BuildBegin, Goto
    <3> QED BY <2>1, <3>1, <3>2
  <2>4. BuildsNew'
    BY <2>1, <2>2, <2>3
  <2> QED BY <2>1, <2>2, <2>3, <2>4
<1>12. ASSUME BuildWrite("sched") PROVE Alone'
  BY <1>12 DEF BuildWrite, Goto
<1>13. ASSUME BuildRecord("sched") PROVE Alone'
  BY <1>13, RecordKeepsAlone
<1>14. ASSUME BuildFail PROVE Alone'
  BY <1>14 DEF BuildFail, Goto, Fault
<1>15. ASSUME Sweep("sched") PROVE Alone'
  BY <1>15, SweepKeepsAlone
<1>16. ASSUME NEW h \in Hours, SweepUnlink("sched", h) PROVE Alone'
  BY <1>16 DEF SweepUnlink
<1>17. ASSUME ListPending("sched") PROVE Alone'
  BY <1>17, ListKeepsAlone
<1>18. ASSUME SweepFails("sched") PROVE Alone'
  BY <1>18 DEF SweepFails, Goto, Fault
<1>19. ASSUME NEW e \in queue["sched"], SkipBackoff("sched", e) PROVE Alone'
  BY <1>19 DEF SkipBackoff, Drop, Next1
<1>20. ASSUME NEW e \in queue["sched"], FindMissing("sched", e) PROVE Alone'
  <2>1. /\ pc["sched"] = "send" /\ e \in queue["sched"] /\ e.h \in Hours
        /\ queue'["sched"] = queue["sched"] \ {e}
        /\ \/ pc'["sched"] = "missing" /\ cur'["sched"] = e.h
           \/ pc'["sched"] = "send"
        /\ pc'["manual"] = pc["manual"] /\ UNCHANGED <<hour, scans, row, zip, depot, todo>>
    BY <1>20 DEF FindMissing, Drop, Goto, Next1
  <2>2. SendsPending'
    BY <2>1
  <2> QED BY <2>1, <2>2
<1>21. ASSUME GiveUpMissing("sched") PROVE Alone'
  BY <1>21, MarksKeepAlone
<1>22. ASSUME NEW e \in queue["sched"], OpenBundle("sched", e) PROVE Alone'
  BY <1>22 DEF OpenBundle, Drop, Goto, Next1, Visible
<1>23. ASSUME PutOk("sched") PROVE Alone'
  BY <1>23 DEF PutOk, Goto
<1>24. ASSUME MarkUploaded("sched") PROVE Alone'
  BY <1>24, MarksKeepAlone
<1>25. ASSUME PutFail("sched") PROVE Alone'
  BY <1>25 DEF PutFail, Goto
<1>26. ASSUME MarkFailed("sched") PROVE Alone'
  BY <1>26, MarksKeepAlone
<1>27. ASSUME Prune("sched") PROVE Alone'
  BY <1>27 DEF Prune, Finish
<1>28. ASSUME Aborted("sched") PROVE Alone'
  BY <1>28 DEF Aborted, Finish, Fault
<1>29. ASSUME UNCHANGED vars PROVE Alone'
  BY <1>29 DEF vars
<1> QED
  BY <1>1, <1>2, <1>3, <1>4, <1>5, <1>6, <1>7, <1>8, <1>9, <1>10, <1>11, <1>12,
     <1>13, <1>14, <1>15, <1>16, <1>17, <1>18, <1>19, <1>20, <1>21, <1>22, <1>23,
     <1>24, <1>25, <1>26, <1>27, <1>28, <1>29
     DEF AloneNext, Environment, Watchdog, Process, Faulty

\* While nobody runs upload-now, no hour is built twice or in part, and the flush works
\* on bundles that are pending still.
THEOREM AloneInductive == ASSUME MaxManuals = 0 PROVE Spec => [](IInv /\ Alone)
<1>1. Init => Alone
  BY AloneInit
<1>2. IInv /\ Alone /\ [Next]_vars => Alone'
  <2> SUFFICES ASSUME IInv, Alone, [Next]_vars PROVE Alone'
    OBVIOUS
  <2>1. AloneNext
    BY OnlySched DEF IInv, Alone
  <2> QED BY <2>1, AloneStep
<1> QED BY Inductive, <1>1, <1>2, PTL DEF Spec

----------------------------------------------------------------------------
\* A step that leaves the fates and the depot is a stuttering step of HourDelivery.
LEMMA FateCalm ==
    ASSUME UNCHANGED <<hour, scans, depot>>, \A h \in Hours : Fate(h)' = Fate(h)
    PROVE  UNCHANGED Delivery!vars
BY DEF Delivery!vars

\* In particular one that leaves the table and the depot.
LEMMA RowCalm ==
    ASSUME UNCHANGED <<hour, scans, depot, row>>
    PROVE  UNCHANGED Delivery!vars
BY FateCalm DEF Fate, HasRow

\* A step that changes the row of one hour changes one fate.
LEMMA FateMoves ==
    ASSUME NEW b \in Hours, NEW f, Fate(b)' = f, \A g \in Hours : g # b => Fate(g)' = Fate(g)
    PROVE  [h \in Hours |-> Fate(h)]' = [[h \in Hours |-> Fate(h)] EXCEPT ![b] = f]
<1> DEFINE F(h) == Fate(h)
           G(h) == Fate(h)'
<1>1. G(b) = f /\ \A g \in Hours : g # b => G(g) = F(g)
  OBVIOUS
<1> HIDE DEF F, G
<1>2. [h \in Hours |-> G(h)] = [[h \in Hours |-> F(h)] EXCEPT ![b] = f]
  BY <1>1
<1> QED BY <1>2 DEF F, G

\* Every step of the automation is a step of HourDelivery, or stutters: recording bundles
\* the hour, the PUT ships it whole, the mark delivers it, sweep and missing file give up.
LEMMA Refines == ASSUME IInv, Alone, AloneNext PROVE [Delivery!Next]_(Delivery!vars)
<1> USE DEF Delivery!Hours, Hours
<1>1. CASE ScanCompletes
  <2>1. Delivery!Scan
    BY <1>1 DEF ScanCompletes, Delivery!Scan, store, Fate, HasRow
  <2> QED BY <2>1 DEF Delivery!Next
<1>2. CASE AdvanceHour
  <2>1. Delivery!HourPasses
    BY <1>2 DEF AdvanceHour, Delivery!HourPasses, box, store, Fate, HasRow
  <2> QED BY <2>1 DEF Delivery!Next
<1>3. CASE BuildRecord("sched")
  <2>0. PICK b : b = cur["sched"]
    OBVIOUS
  <2>1. /\ b \in Hours /\ b < hour /\ scans[b] > 0 /\ ~HasRow(b) /\ row \in [Hours -> Row]
        /\ Fate(b) = "unbundled" /\ hour # 0
    BY <1>3, <2>0 DEF BuildRecord, IInv, Safe, TypeOK, CurInHours, AtHour, Alone, BuildsNew,
                      Building,
                RowsClosed, Fate, Procs
  <2>2. /\ row' = [row EXCEPT ![b] = Rebuilt(row[b])]
        /\ UNCHANGED <<hour, scans, depot>>
    BY <1>3, <2>0 DEF BuildRecord, box
  <2>3. Fate(b)' = "bundled"
    <3>1. row'[b] = Rebuilt(row[b]) /\ row[b] \in Row
      BY <2>1, <2>2
    <3>2. row'[b].up = 0 /\ ~row'[b].gave /\ row'[b].builtAt = hour
      BY <3>1 DEF Rebuilt, Row
    <3> QED BY <2>1, <3>2 DEF Fate, HasRow
  <2>4. \A g \in Hours : g # b => Fate(g)' = Fate(g)
    BY <2>1, <2>2 DEF Fate, HasRow
  <2>5. Delivery!Bundle(b)
    BY <2>1, <2>2, <2>3, <2>4, FateMoves DEF Delivery!Bundle
  <2> QED BY <2>1, <2>5 DEF Delivery!Next
<1>4. CASE Sweep("sched")
  <2> DEFINE S == {h \in Hours : Hopeless(h)}
  <2>1. row \in [Hours -> Row] /\ S \in SUBSET Hours
    BY DEF IInv, TypeOK
  <2>2. UNCHANGED <<hour, scans, depot>>
    BY <1>4 DEF Sweep, box
  <2>3. \A h \in S : Fate(h) = "bundled"
    BY <2>1 DEF Hopeless, Pending, Fate
  <2>4. \A h \in Hours : Fate(h)' = IF h \in S THEN "given_up" ELSE Fate(h)
    <3> TAKE h \in Hours
    <3>1. CASE h \in S
      <4>1. row'[h] = [row[h] EXCEPT !.gave = TRUE] /\ row[h].up = 0 /\ row[h] \in Row
        BY <1>4, <2>1, <3>1 DEF Sweep, Swept, Hopeless, Pending
      <4>2. row'[h].up = 0 /\ row'[h].gave
        BY <4>1 DEF Row
      <4> QED BY <3>1, <4>2 DEF Fate
    <3>2. CASE h \notin S
      <4>1. row'[h] = row[h]
        BY <1>4, <3>2 DEF Sweep
      <4> QED BY <3>2, <4>1 DEF Fate, HasRow
    <3> QED BY <3>1, <3>2
  <2> HIDE DEF S
  <2>5. Delivery!GiveUp(S)
    BY <2>1, <2>2, <2>3, <2>4 DEF Delivery!GiveUp
  <2> QED BY <2>1, <2>5 DEF Delivery!Next
<1>5. CASE GiveUpMissing("sched")
  <2>0. PICK b : b = cur["sched"]
    OBVIOUS
  <2>1. /\ b \in Hours /\ Pending(b) /\ row \in [Hours -> Row] /\ Fate(b) = "bundled"
    BY <1>5, <2>0 DEF GiveUpMissing, IInv, Safe, TypeOK, CurInHours, AtHour, Alone, SendsPending,
                      Sending,
                Pending, Fate, Procs
  <2>2. /\ row' = [row EXCEPT ![b] = GivenUp(row[b])]
        /\ UNCHANGED <<hour, scans, depot>>
    BY <1>5, <2>0, <2>1 DEF GiveUpMissing, box
  <2>3. Fate(b)' = "given_up"
    <3>1. row'[b] = GivenUp(row[b]) /\ row[b] \in Row /\ row[b].up = 0
      BY <2>1, <2>2 DEF Pending
    <3>2. row'[b].up = 0 /\ row'[b].gave
      BY <3>1 DEF GivenUp, Row
    <3> QED BY <3>2 DEF Fate
  <2>4. \A g \in Hours : g # b => Fate(g)' = Fate(g)
    BY <2>1, <2>2 DEF Fate, HasRow
  <2>5. \A g \in Hours : Fate(g)' = IF g \in {b} THEN "given_up" ELSE Fate(g)
    BY <2>3, <2>4
  <2>6. Delivery!GiveUp({b})
    BY <2>1, <2>2, <2>5 DEF Delivery!GiveUp
  <2> QED BY <2>1, <2>6 DEF Delivery!Next
<1>6. CASE PutOk("sched") \/ PutFail("sched")
  <2>0. PICK b : b = cur["sched"]
    OBVIOUS
  <2>1. /\ b \in Hours /\ Fate(b) = "bundled" /\ snap["sched"] = scans[b]
    BY <1>6, <2>0 DEF PutOk, PutFail, IInv, Safe, CurInHours, AtHour, Alone, SendsPending, Sending,
                Pending, WireWhole, Fate, Procs
  <2>2. /\ depot' = [depot EXCEPT ![b] = scans[b]] \/ UNCHANGED depot
        /\ UNCHANGED <<hour, scans, row>>
    BY <1>6, <2>0, <2>1 DEF PutOk, PutFail, box, store
  <2>3. \A g \in Hours : Fate(g)' = Fate(g)
    BY <2>2 DEF Fate, HasRow
  <2>4. CASE UNCHANGED depot
    BY <2>2, <2>4, RowCalm
  <2>5. CASE depot' = [depot EXCEPT ![b] = scans[b]]
    <3>1. Delivery!Ship(b)
      BY <2>1, <2>2, <2>3, <2>5 DEF Delivery!Ship
    <3> QED BY <2>1, <3>1 DEF Delivery!Next
  <2> QED BY <2>2, <2>4, <2>5
<1>7. CASE MarkUploaded("sched")
  <2>0. PICK b : b = cur["sched"]
    OBVIOUS
  <2>1. /\ b \in Hours /\ row \in [Hours -> Row] /\ Fate(b) = "bundled" /\ depot[b] = scans[b]
        /\ hour # 0
    BY <1>7, <2>0 DEF MarkUploaded, IInv, Safe, TypeOK, CurInHours, AtHour, Alone, SendsPending,
                      Sending,
                WireWhole, Pending, Fate, Procs
  <2>2. /\ row' = [row EXCEPT ![b] = Uploaded(row[b])]
        /\ UNCHANGED <<hour, scans, depot>>
    BY <1>7, <2>0, <2>1 DEF MarkUploaded, box
  <2>3. Fate(b)' = "delivered"
    <3>1. row'[b] = Uploaded(row[b]) /\ row[b] \in Row
      BY <2>1, <2>2
    <3>2. row'[b].up # 0
      BY <2>1, <3>1 DEF Uploaded, Row
    <3> QED BY <3>2 DEF Fate
  <2>4. \A g \in Hours : g # b => Fate(g)' = Fate(g)
    BY <2>1, <2>2 DEF Fate, HasRow
  <2>5. Delivery!Deliver(b)
    BY <2>1, <2>2, <2>3, <2>4, FateMoves DEF Delivery!Deliver
  <2> QED BY <2>1, <2>5 DEF Delivery!Next
<1>8. CASE MarkFailed("sched")
  <2>0. PICK b : b = cur["sched"]
    OBVIOUS
  <2>1. b \in Hours /\ row \in [Hours -> Row]
    BY <1>8, <2>0 DEF MarkFailed, IInv, Safe, TypeOK, CurInHours, AtHour, Procs
  <2>2. /\ row' = [row EXCEPT ![b] = Failed(row[b])]
        /\ UNCHANGED <<hour, scans, depot>>
    BY <1>8, <2>0, <2>1 DEF MarkFailed, box
  <2>3. \A g \in Hours : Fate(g)' = Fate(g)
    BY <2>1, <2>2 DEF Failed, Fate, HasRow, Row
  <2> QED BY <2>2, <2>3, FateCalm
<1>9. CASE UNCHANGED <<hour, scans, depot, row>>
  BY <1>9, RowCalm
<1>10. \/ ScanCompletes \/ AdvanceHour \/ BuildRecord("sched") \/ Sweep("sched")
       \/ GiveUpMissing("sched") \/ PutOk("sched") \/ PutFail("sched") \/ MarkUploaded("sched")
       \/ MarkFailed("sched") \/ UNCHANGED <<hour, scans, depot, row>>
  BY DEF AloneNext, Environment, Watchdog, Process, Faulty, Purge, Crash, Restart, Unmount,
         WatchdogList, WatchdogRemove, StallRestart, Tick, BuildFail, BuildBegin, BuildWrite,
         SweepUnlink, ListPending, SkipBackoff, FindMissing, OpenBundle, Prune, SweepFails,
         Aborted, vars, box, store
<1> QED BY <1>1, <1>2, <1>3, <1>4, <1>5, <1>6, <1>7, <1>8, <1>9, <1>10

\* ImplementsHourDelivery for all constants: the automation bundles each closed hour once and
\* whole, marks it uploaded only after all of it is in the depot, and both ends are final.
THEOREM HoursAreDelivered == ASSUME MaxManuals = 0 PROVE Spec => ImplementsHourDelivery
<1>1. Init => Delivery!Init
  BY DEF Init, Delivery!Init, Fate, HasRow, NoRow, Hours, Delivery!Hours
<1>2. IInv /\ Alone /\ [Next]_vars => [Delivery!Next]_(Delivery!vars)
  BY OnlySched, Refines DEF IInv, Alone
<1> QED BY AloneInductive, <1>1, <1>2, PTL DEF Spec, ImplementsHourDelivery, Delivery!Spec

----------------------------------------------------------------------------
\* The statements that write bundle_uploads.
LEMMA RowSteps ==
    ASSUME IInv, Alone, AloneNext
    PROVE  \/ row' = row
           \/ BuildRecord("sched") \/ Sweep("sched") \/ GiveUpMissing("sched")
           \/ MarkUploaded("sched") \/ MarkFailed("sched")
BY DEF AloneNext, Environment, Watchdog, Process, Faulty, ScanCompletes, AdvanceHour, Purge, Crash,
       Restart, Unmount, WatchdogList, WatchdogRemove, StallRestart, Tick, BuildFail, BuildBegin,
       BuildWrite, SweepUnlink, ListPending, SkipBackoff, FindMissing, OpenBundle, PutOk, PutFail,
       Prune, SweepFails, Aborted, vars, box, store

\* The automation deletes and resurrects no row, its only new pending bundle is the one it
\* records, and it gives up what is hopeless or was found missing.
LEMMA RowsFinal ==
    ASSUME IInv, Alone, AloneNext, NEW h \in Hours
    PROVE  /\ HasRow(h) => HasRow(h)'
           /\ row[h].up # 0 => row'[h].up # 0
           /\ row[h].gave => row'[h].gave
           /\ Pending(h)' => Pending(h) \/ (BuildRecord("sched") /\ h = cur["sched"])
           /\ ~row[h].gave /\ row'[h].gave =>
                \/ Hopeless(h)
                \/ GiveUpMissing("sched") /\ h = cur["sched"] /\ Pending(h)
<1>0. /\ row \in [Hours -> Row] /\ row[h] \in Row /\ hour # 0
      /\ row[h].up # 0 \/ row[h].gave => HasRow(h)
  <2>1. row \in [Hours -> Row] /\ hour \in Hours
    BY DEF IInv, TypeOK
  <2>2. hour # 0
    BY <2>1 DEF Hours
  <2> QED BY <2>1, <2>2 DEF Alone, RowsClosed
<1>1. CASE row' = row
  BY <1>1 DEF HasRow, Pending
<1>2. CASE BuildRecord("sched")
  <2>1. ~HasRow(cur["sched"])
    BY <1>2 DEF BuildRecord, Alone, BuildsNew, Building
  <2>2. CASE h = cur["sched"]
    <3>1. row'[h] = Rebuilt(row[h])
      BY <1>0, <1>2, <2>2 DEF BuildRecord
    <3>2. row'[h].builtAt = hour /\ row'[h].up = 0 /\ ~row'[h].gave
      BY <1>0, <3>1 DEF Rebuilt, Row
    <3> QED BY <1>0, <1>2, <2>1, <2>2, <3>2 DEF HasRow
  <2>3. CASE h # cur["sched"]
    <3>1. row'[h] = row[h]
      BY <1>0, <1>2, <2>3 DEF BuildRecord
    <3> QED BY <3>1 DEF HasRow, Pending
  <2> QED BY <2>2, <2>3
<1>3. CASE Sweep("sched")
  <2>1. CASE Hopeless(h)
    <3>1. row'[h] = Swept(row[h])
      BY <1>3, <2>1 DEF Sweep
    <3>2. row'[h].builtAt = row[h].builtAt /\ row'[h].up = row[h].up /\ row'[h].gave
      BY <1>0, <3>1 DEF Swept, Row
    <3> QED BY <2>1, <3>2 DEF HasRow, Pending
  <2>2. CASE ~Hopeless(h)
    <3>1. row'[h] = row[h]
      BY <1>3, <2>2 DEF Sweep
    <3> QED BY <3>1 DEF HasRow, Pending
  <2> QED BY <2>1, <2>2
<1>4. CASE GiveUpMissing("sched")
  <2>1. CASE h = cur["sched"] /\ Pending(h)
    <3>1. row'[h] = GivenUp(row[h])
      BY <1>0, <1>4, <2>1 DEF GiveUpMissing
    <3>2. row'[h].builtAt = row[h].builtAt /\ row'[h].up = row[h].up /\ row'[h].gave
      BY <1>0, <3>1 DEF GivenUp, Row
    <3> QED BY <1>4, <2>1, <3>2 DEF HasRow, Pending
  <2>2. CASE ~(h = cur["sched"] /\ Pending(h))
    <3>1. row'[h] = row[h]
      BY <1>0, <1>4, <2>2 DEF GiveUpMissing
    <3> QED BY <3>1 DEF HasRow, Pending
  <2> QED BY <2>1, <2>2
<1>5. CASE MarkUploaded("sched")
  <2>1. CASE h = cur["sched"]
    <3>1. row'[h] = Uploaded(row[h])
      BY <1>0, <1>5, <2>1 DEF MarkUploaded
    <3>2. row'[h].builtAt = row[h].builtAt /\ row'[h].up = hour /\ row'[h].gave = row[h].gave
      BY <1>0, <3>1 DEF Uploaded, Row
    <3> QED BY <1>0, <3>2 DEF HasRow, Pending
  <2>2. CASE h # cur["sched"]
    <3>1. row'[h] = row[h]
      BY <1>0, <1>5, <2>2 DEF MarkUploaded
    <3> QED BY <3>1 DEF HasRow, Pending
  <2> QED BY <2>1, <2>2
<1>6. CASE MarkFailed("sched")
  <2>1. CASE h = cur["sched"]
    <3>1. row'[h] = Failed(row[h])
      BY <1>0, <1>6, <2>1 DEF MarkFailed
    <3>2. /\ row'[h].builtAt = row[h].builtAt /\ row'[h].up = row[h].up
          /\ row'[h].gave = row[h].gave
      BY <1>0, <3>1 DEF Failed, Row
    <3> QED BY <3>2 DEF HasRow, Pending
  <2>2. CASE h # cur["sched"]
    <3>1. row'[h] = row[h]
      BY <1>0, <1>6, <2>2 DEF MarkFailed
    <3> QED BY <3>1 DEF HasRow, Pending
  <2> QED BY <2>1, <2>2
<1> QED BY <1>1, <1>2, <1>3, <1>4, <1>5, <1>6, RowSteps

\* Only files of settled bundles disappear: the watchdog's, the sweep's, the prune's.
LEMMA FileSteps ==
    ASSUME IInv, Alone, AloneNext, DeletesDone, NEW h \in Hours
    PROVE  zip'[h] # 0 \/ zip'[h] = zip[h] \/ row[h].up # 0 \/ row[h].gave
<1>0. zip \in [Hours -> 0..MaxScans]
  BY DEF IInv, TypeOK
<1>1. CASE BuildWrite("sched")
  BY <1>0, <1>1 DEF BuildWrite, Alone, BuildsNew, Building
<1>2. ASSUME NEW g \in Hours, WatchdogRemove(g) PROVE zip'[h] = zip[h] \/ row[h].up # 0
  BY <1>0, <1>2 DEF WatchdogRemove, DeletesDone
<1>3. ASSUME NEW g \in Hours, SweepUnlink("sched", g) PROVE zip'[h] = zip[h] \/ row[h].gave
  BY <1>0, <1>3 DEF SweepUnlink, DeletesDone, Procs
<1>4. CASE Prune("sched")
  BY <1>0, <1>4 DEF Prune
<1>5. \/ UNCHANGED zip \/ BuildWrite("sched") \/ Prune("sched")
      \/ (\E g \in Hours : WatchdogRemove(g)) \/ (\E g \in Hours : SweepUnlink("sched", g))
  BY DEF AloneNext, Environment, Watchdog, Process, Faulty, ScanCompletes, AdvanceHour, Purge,
         Crash,
         Restart, Unmount, WatchdogList, StallRestart, Tick, BuildFail, BuildBegin, BuildRecord,
         Sweep, ListPending, SkipBackoff, FindMissing, OpenBundle, GiveUpMissing, PutOk, PutFail,
         MarkUploaded, MarkFailed, SweepFails, Aborted, vars, store
<1> QED BY <1>1, <1>2, <1>3, <1>4, <1>5

\* The watchdog lists what is uploaded.
LEMMA DoomedSteps ==
    ASSUME IInv, AloneNext, NEW h \in doomed'
    PROVE  h \in doomed \/ (h \in Hours /\ row[h].up # 0)
<1>1. CASE \E b \in BOOLEAN : WatchdogList(b)
  BY <1>1 DEF WatchdogList, Deletable
<1>2. CASE \E g \in Hours : WatchdogRemove(g)
  BY <1>2 DEF WatchdogRemove
<1>3. \/ UNCHANGED doomed
      \/ (\E b \in BOOLEAN : WatchdogList(b)) \/ (\E g \in Hours : WatchdogRemove(g))
  BY DEF AloneNext, Environment, Watchdog, Process, Faulty, ScanCompletes, AdvanceHour, Purge,
         Crash,
         Restart, Unmount, StallRestart, Tick, BuildFail, BuildBegin, BuildWrite, BuildRecord,
         Sweep, SweepUnlink, ListPending, SkipBackoff, FindMissing, OpenBundle, GiveUpMissing,
         PutOk,
         PutFail, MarkUploaded, MarkFailed, SweepFails, Aborted, Prune, vars
<1> QED BY <1>1, <1>2, <1>3

\* The sweep unlinks what it has just tombstoned.
LEMMA DeadSteps ==
    ASSUME IInv, AloneNext, NEW p \in Procs, NEW h \in dead'[p]
    PROVE  h \in dead[p] \/ (h \in Hours /\ row'[h].gave)
<1>0. dead \in [Procs -> SUBSET Hours] /\ row \in [Hours -> Row]
  BY DEF IInv, TypeOK
<1>1. CASE Crash \/ StallRestart
  BY <1>1 DEF Crash, StallRestart, Killed
<1>2. CASE Prune("sched") \/ Aborted("sched")
  BY <1>0, <1>2 DEF Prune, Aborted, Finish, Procs
<1>3. ASSUME NEW g \in Hours, SweepUnlink("sched", g) PROVE h \in dead[p]
  BY <1>0, <1>3 DEF SweepUnlink, Procs
<1>4. CASE Sweep("sched")
  <2>1. h \in dead[p] \/ (h \in Hours /\ Hopeless(h))
    BY <1>0, <1>4 DEF Sweep, Procs
  <2>2. h \in Hours /\ Hopeless(h) => row'[h] = Swept(row[h]) /\ row[h] \in Row
    BY <1>0, <1>4 DEF Sweep
  <2> QED BY <2>1, <2>2 DEF Swept, Row
<1>5. \/ UNCHANGED dead \/ Crash \/ StallRestart \/ Prune("sched") \/ Aborted("sched")
      \/ Sweep("sched") \/ (\E g \in Hours : SweepUnlink("sched", g))
  BY DEF AloneNext, Environment, Watchdog, Process, Faulty, ScanCompletes, AdvanceHour, Purge,
         Restart, Unmount, WatchdogList, WatchdogRemove, Tick, BuildFail, BuildBegin, BuildWrite,
         BuildRecord, ListPending, SkipBackoff, FindMissing, OpenBundle, GiveUpMissing, PutOk,
         PutFail, MarkUploaded, MarkFailed, SweepFails, vars, locals
<1> QED BY <1>1, <1>2, <1>3, <1>4, <1>5

\* Recording follows writing.
LEMMA RecordSteps ==
    ASSUME IInv, AloneNext, pc'["sched"] = "record"
    PROVE  \/ BuildWrite("sched")
           \/ pc["sched"] = "record" /\ cur'["sched"] = cur["sched"]
<1>0. pc \in [Procs -> PCs]
  BY DEF IInv, TypeOK
<1>1. CASE Environment
  BY <1>1 DEF Environment, ScanCompletes, AdvanceHour, Purge, Crash, Restart, Unmount, Killed,
              locals, Procs
<1>2. CASE Watchdog
  BY <1>2 DEF Watchdog, WatchdogList, WatchdogRemove, StallRestart, Killed, locals, Procs
<1>3. CASE Tick \/ BuildFail \/ UNCHANGED vars
  BY <1>0, <1>3 DEF Tick, BuildFail, Goto, vars, Procs
<1>4. CASE Process("sched")
  BY <1>0, <1>4 DEF Process, BuildBegin, BuildRecord, Sweep, SweepUnlink, ListPending, SkipBackoff,
                    FindMissing, OpenBundle, GiveUpMissing, PutOk, PutFail, MarkUploaded,
                    MarkFailed, Prune, Finish, Goto, Procs, Next1
<1>5. CASE Faulty("sched")
  BY <1>0, <1>5 DEF Faulty, SweepFails, Aborted, Finish, Goto, Procs
<1> QED BY <1>1, <1>2, <1>3, <1>4, <1>5 DEF AloneNext

\* So no step takes the file of a pending bundle.
LEMMA DeletesStep == ASSUME IInv, Alone, DeletesDone, AloneNext PROVE DeletesDone'
<1>0. /\ doomed \subseteq Hours /\ \A p \in Procs : dead[p] \subseteq Hours
      /\ pc["sched"] = "record" => cur["sched"] \in Hours /\ ~HasRow(cur["sched"])
      /\ \A h \in Hours : row[h].up # 0 \/ row[h].gave => HasRow(h)
  BY DEF IInv, Safe, TypeOK, CurInHours, AtHour, Alone, BuildsNew, Building, RowsClosed, Procs
<1>1. \A h \in doomed' : row'[h].up # 0
  BY <1>0, DoomedSteps, RowsFinal DEF DeletesDone
<1>2. \A p \in Procs : \A h \in dead'[p] : row'[h].gave
  BY <1>0, DeadSteps, RowsFinal DEF DeletesDone
<1>3. ASSUME pc'["sched"] = "record" PROVE zip'[cur'["sched"]] # 0
  <2>1. CASE BuildWrite("sched")
    <3>1. /\ cur["sched"] \in Hours /\ snap["sched"] # 0 /\ zip \in [Hours -> 0..MaxScans]
      BY <2>1 DEF BuildWrite, IInv, Safe, TypeOK, CurInHours, AtHour, Alone, BuildsNew, Building,
                  Procs
    <3> QED BY <2>1, <3>1 DEF BuildWrite
  <2>2. CASE pc["sched"] = "record" /\ cur'["sched"] = cur["sched"]
    BY <1>0, <2>2, FileSteps DEF DeletesDone
  <2> QED BY <1>3, <2>1, <2>2, RecordSteps
<1>4. ASSUME NEW h \in Hours, Pending(h)' PROVE zip'[h] # 0
  <2>1. CASE Pending(h)
    BY <2>1, FileSteps DEF DeletesDone, PendingHasFile, Pending
  <2>2. CASE BuildRecord("sched") /\ h = cur["sched"]
    BY <2>2 DEF BuildRecord, DeletesDone
  <2> QED BY <1>4, <2>1, <2>2, RowsFinal
<1> QED BY <1>1, <1>2, <1>3, <1>4 DEF DeletesDone, PendingHasFile

\* With no unmount a file stays missing, once found missing, until its row is tombstoned.
LEMMA HiddenStep ==
    ASSUME MayUnmount = FALSE, IInv, Alone, NeverHidden, AloneNext
    PROVE  NeverHidden'
<1>0. /\ pc \in [Procs -> PCs] /\ cur \in [Procs -> 0..MaxHour] /\ zip \in [Hours -> 0..MaxScans]
      /\ \A e \in queue["sched"] : e.h \in Hours
      /\ pc["sched"] = "missing" => cur["sched"] \in Hours
  BY DEF IInv, Safe, TypeOK, CurInHours, AtHour, Entry, Procs
<1> USE <1>0 DEF NeverHidden
<1>1. CASE Environment
  BY <1>1 DEF Environment, ScanCompletes, AdvanceHour, Purge, Crash, Restart, Unmount, Killed,
              locals, store, Procs
<1>2. CASE Watchdog
  <2>1. UNCHANGED hidden
    BY <1>2 DEF Watchdog, WatchdogList, WatchdogRemove, StallRestart, store
  <2>2. ASSUME NEW g \in Hours, WatchdogRemove(g) PROVE NeverHidden'
    BY <2>1, <2>2 DEF WatchdogRemove, locals
  <2>3. ASSUME NEW b \in BOOLEAN, WatchdogList(b) PROVE NeverHidden'
    BY <2>1, <2>3 DEF WatchdogList, locals, store
  <2>4. ASSUME StallRestart PROVE NeverHidden'
    BY <2>1, <2>4 DEF StallRestart, Killed, Procs
  <2> QED BY <1>2, <2>2, <2>3, <2>4 DEF Watchdog
<1>3. CASE Tick \/ BuildFail \/ UNCHANGED vars
  BY <1>3 DEF Tick, BuildFail, Goto, vars, Procs, store
<1>4. CASE Process("sched")
  <2>1. ASSUME NEW e \in queue["sched"], FindMissing("sched", e) PROVE NeverHidden'
    <3>1. zip[e.h] = 0 /\ e.h \in Hours
      BY <2>1 DEF FindMissing, Visible
    <3> QED BY <2>1, <3>1 DEF FindMissing, Goto, Next1, Procs, store
  <2>2. CASE \/ \E h \in Hours : BuildBegin("sched", h) \/ SweepUnlink("sched", h)
             \/ BuildWrite("sched") \/ BuildRecord("sched")
             \/ Sweep("sched") \/ ListPending("sched")
    BY <2>2 DEF BuildBegin, SweepUnlink, BuildWrite, BuildRecord, Sweep, ListPending, Goto, Procs,
                store
  <2>3. CASE \/ \E e \in queue["sched"] : SkipBackoff("sched", e) \/ OpenBundle("sched", e)
             \/ GiveUpMissing("sched") \/ PutOk("sched") \/ MarkUploaded("sched")
             \/ PutFail("sched") \/ MarkFailed("sched") \/ Prune("sched")
    BY <2>3 DEF SkipBackoff, OpenBundle, GiveUpMissing, PutOk, MarkUploaded, PutFail, MarkFailed,
                Prune, Finish, Next1, Goto, Procs, store
  <2> QED BY <1>4, <2>1, <2>2, <2>3 DEF Process
<1>5. CASE Faulty("sched")
  BY <1>5 DEF Faulty, SweepFails, Aborted, Finish, Goto, Procs, store
<1> QED BY <1>1, <1>2, <1>3, <1>4, <1>5 DEF AloneNext

----------------------------------------------------------------------------
\* sorted(..)[-cap:] of at most cap hours is all of them.
LEMMA NewestIsAll ==
    ASSUME NEW S, NEW n \in Nat, NEW k \in Nat, NEW m \in Int, n <= k, S \subseteq (m - n)..(m - 1)
    PROVE  Newest(S, k) = S
<1>1. ASSUME NEW h \in S PROVE Cardinality({g \in S : g > h}) < k
  <2>1. h \in Int /\ m - n <= h /\ h <= m - 1
    BY <1>1
  <2>2. {g \in S : g > h} \subseteq (h + 1)..(m - 1)
    <3> SUFFICES ASSUME NEW g \in S, g > h PROVE g \in (h + 1)..(m - 1)
      OBVIOUS
    <3>1. g \in (m - n)..(m - 1)
      OBVIOUS
    <3> QED BY <2>1, <3>1
  <2>3. IsFiniteSet((h + 1)..(m - 1)) /\ Cardinality((h + 1)..(m - 1)) <= (m - 1) - h
    <3> DEFINE a == h + 1
               b == m - 1
    <3>1. a \in Int /\ b \in Int /\ a <= b + 1 /\ b - a + 1 = (m - 1) - h
      BY <2>1
    <3> HIDE DEF a, b
    <3>2. IsFiniteSet(a..b) /\ Cardinality(a..b) = IF a > b THEN 0 ELSE b - a + 1
      BY <3>1, FS_Interval
    <3>3. Cardinality(a..b) = b - a + 1
      BY <3>1, <3>2
    <3>4. IsFiniteSet(a..b) /\ Cardinality(a..b) <= (m - 1) - h
      BY <2>1, <3>1, <3>2, <3>3
    <3> QED BY <3>4 DEF a, b
  <2>4. Cardinality({g \in S : g > h}) <= Cardinality((h + 1)..(m - 1))
    BY <2>2, <2>3, FS_Subset
  <2>5. /\ Cardinality({g \in S : g > h}) \in Nat
        /\ Cardinality((h + 1)..(m - 1)) \in Nat
    BY <2>2, <2>3, FS_Subset, FS_CardinalityType
  <2> QED BY <2>1, <2>3, <2>4, <2>5
<1> QED BY <1>1 DEF Newest

\* The only hour newly missed is the one that closes.
LEMMA MissedSteps ==
    ASSUME IInv, Alone, AloneNext, NEW h \in Hours, Missed(h)'
    PROVE  Missed(h) \/ (AdvanceHour /\ h = hour)
<1>0. hour \in Int /\ h \in Int /\ scans \in [Hours -> 0..MaxScans]
  BY DEF IInv, TypeOK, Hours
<1>1. ~HasRow(h)
  BY RowsFinal DEF Missed
<1>2. CASE AdvanceHour
  BY <1>0, <1>1, <1>2 DEF AdvanceHour, Missed, box
<1>3. CASE ScanCompletes
  BY <1>0, <1>1, <1>3 DEF ScanCompletes, Missed
<1>4. UNCHANGED <<hour, scans>> \/ AdvanceHour \/ ScanCompletes
  BY DEF AloneNext, Environment, Watchdog, Process, Faulty, Crash, Purge, Restart, Unmount,
         WatchdogList, WatchdogRemove, StallRestart, Tick, BuildFail, BuildBegin, BuildWrite,
         BuildRecord, Sweep, SweepUnlink, ListPending, SkipBackoff, FindMissing, OpenBundle,
         GiveUpMissing, PutOk, PutFail, MarkUploaded, MarkFailed, Prune, SweepFails, Aborted, vars,
         box
<1> QED BY <1>1, <1>2, <1>3, <1>4 DEF Missed

\* A tick sees every missed hour: none is purged, none beyond the horizon, and there are
\* no more of them than it may build.
LEMMA TickTakesAll ==
    ASSUME FewFaults, IInv, Alone, CaughtUp, Tick
    PROVE  \A h \in Hours : Missed(h) => h \in todo'["sched"]
<1>0. /\ hour \in Nat /\ faults \in Nat /\ faults <= MaxFaults
      /\ MaxFaults \in Nat /\ Horizon \in Nat /\ BuildCap \in Nat
      /\ faults < Horizon /\ faults + 1 <= BuildCap
      /\ row \in [Hours -> Row] /\ scans \in [Hours -> 0..MaxScans]
      /\ todo \in [Procs -> SUBSET Hours]
  BY BoundsAssumption, LimitsAssumption DEF IInv, TypeOK, Hours, FewFaults
<1>1. ASSUME NEW h \in Hours, Missed(h) PROVE h \in Owed
  <2>1. h \in Nat /\ h < hour /\ hour - h <= faults + 1
    BY <1>1 DEF CaughtUp, Timely, Missed, Hours
  <2>2. h >= hour - Horizon
    BY <1>0, <2>1
  <2>3. h \notin purged
    BY <1>1 DEF CaughtUp
  <2>4. Runs(h) > 0 /\ ~row[h].gave /\ ~Complete(h)
    BY <1>1, <2>1, <2>3 DEF Runs, Missed, Alone, RowsClosed, HasRow, Complete
  <2> QED BY <1>1, <2>1, <2>2, <2>4 DEF Owed
<1>2. Owed \subseteq (hour - (faults + 1))..(hour - 1)
  <2> SUFFICES ASSUME NEW h \in Owed PROVE h \in (hour - (faults + 1))..(hour - 1)
    OBVIOUS
  <2>1. h \in Hours /\ h \in Nat /\ h < hour /\ Runs(h) > 0 /\ ~Complete(h)
    BY DEF Owed, Hours
  <2>2. Missed(h)
    BY <1>0, <2>1 DEF Runs, Missed, Alone, RowsClosed
  <2>3. hour - h <= faults + 1
    BY <2>1, <2>2 DEF CaughtUp, Timely
  <2> QED BY <1>0, <2>1, <2>3
<1>3. Newest(Owed, BuildCap) = Owed
  <2> DEFINE n == faults + 1
  <2>1. n \in Nat /\ n <= BuildCap /\ hour \in Int /\ Owed \subseteq (hour - n)..(hour - 1)
    BY <1>0, <1>2
  <2> HIDE DEF n
  <2> QED BY <1>0, <2>1, NewestIsAll
<1>4. todo'["sched"] = Owed
  BY <1>0, <1>3 DEF Tick, Procs
<1> QED BY <1>1, <1>4

\* Every step keeps up: what lets an hour go by, or drops one that is to be built, is a fault.
LEMMA CaughtUpStep ==
    ASSUME FewFaults, IInv, Alone, CaughtUp, AloneNext
    PROVE  CaughtUp'
<1>0. /\ hour \in Nat /\ faults \in Nat /\ due \in Nat /\ \A h \in Hours : h \in Nat
      /\ pc \in [Procs -> PCs] /\ todo \in [Procs -> SUBSET Hours]
      /\ cur \in [Procs -> 0..MaxHour] /\ purged \subseteq Hours
      /\ \A h \in Hours : Missed(h)' => Missed(h) \/ (AdvanceHour /\ h = hour)
  <2>1. \A h \in Hours : Missed(h)' => Missed(h) \/ (AdvanceHour /\ h = hour)
    BY MissedSteps
  <2> QED BY <2>1, BoundsAssumption DEF IInv, TypeOK, Hours
<1>1. ASSUME UNCHANGED hour, faults' = faults + 1, UNCHANGED <<on, purged>>,
             due' <= hour + 1,
             pc'["sched"] \notin {"idle", "catchup", "write", "record"} => todo'["sched"] = {}
      PROVE  CaughtUp'
  <2>1. \A h \in Hours : Missed(h)' => Missed(h)
    BY <1>0, <1>1 DEF AdvanceHour
  <2>2. \A h \in Hours : Missed(h)' => Timely(h)'
    BY <1>0, <1>1, <2>1 DEF CaughtUp, Timely
  <2> QED BY <1>0, <1>1, <2>1, <2>2 DEF CaughtUp
<1>2. ASSUME UNCHANGED <<hour, faults, on, purged>>, due' <= hour + 1,
             pc'["sched"] \notin {"idle", "catchup", "write", "record"} => todo'["sched"] = {},
             \A h \in Hours : Missed(h) /\ Missed(h)' /\ Timely(h) =>
                /\ Asleep' => hour - h <= faults
                /\ pc'["sched"] # "idle" => hour - h <= faults \/ InTick(h)'
      PROVE  CaughtUp'
  <2>1. \A h \in Hours : Missed(h)' => Missed(h)
    BY <1>0, <1>2 DEF AdvanceHour
  <2>2. \A h \in Hours : Missed(h)' => Timely(h)'
    BY <1>0, <1>2, <2>1 DEF CaughtUp, Timely
  <2> QED BY <1>0, <1>2, <2>1, <2>2 DEF CaughtUp
<1>3. CASE AdvanceHour
  <2>1. hour' = hour + 1 /\ UNCHANGED <<purged, scans, row, on, due, alive, pc, todo, cur>>
    BY <1>3 DEF AdvanceHour, box, store, env, locals
  <2>2. IF Asleep THEN faults' = faults ELSE faults' = faults + 1
    BY <1>3 DEF AdvanceHour, OnTime, Asleep, CaughtUp, Fault
  <2>3. ASSUME NEW h \in Hours, Missed(h)' PROVE Timely(h)'
    <3>1. ~Asleep'
      BY <1>0, <2>1 DEF Asleep, CaughtUp
    <3>2. CASE Missed(h)
      BY <1>0, <2>1, <2>2, <3>1, <3>2 DEF CaughtUp, Timely, InTick, Asleep
    <3>3. CASE h = hour
      BY <1>0, <2>1, <2>2, <3>1, <3>3 DEF Timely, Asleep
    <3> QED BY <1>0, <2>3, <3>2, <3>3
  <2>4. \A h \in purged : ~Missed(h)'
    BY <1>0, <2>1 DEF CaughtUp, Missed, HasRow
  <2> QED BY <1>0, <2>1, <2>3, <2>4 DEF CaughtUp
<1>4. CASE Crash \/ Unmount \/ StallRestart \/ BuildFail \/ Faulty("sched")
  <2>1. UNCHANGED hour /\ faults' = faults + 1 /\ UNCHANGED <<on, purged>>
    BY <1>4 DEF Crash, Unmount, StallRestart, BuildFail, Faulty, SweepFails, Aborted, Fault, box,
                env
  <2>2. due' = due \/ due' = hour \/ due' = NextTick
    BY <1>4 DEF Crash, Unmount, StallRestart, BuildFail, Faulty, SweepFails, Aborted, Finish, env,
                Procs
  <2>3. due' <= hour + 1
    BY <1>0, <2>2, BoundsAssumption DEF CaughtUp, NextTick
  <2>4. pc'["sched"] \notin {"idle", "catchup", "write", "record"} => todo'["sched"] = {}
    BY <1>0, <1>4 DEF CaughtUp, Crash, Unmount, StallRestart, BuildFail, Faulty, SweepFails,
                      Aborted,
                      Finish, Killed, Goto, locals, Procs
  <2> QED BY <1>1, <2>1, <2>3, <2>4
<1>5. CASE Tick
  <2>1. /\ UNCHANGED <<hour, faults, on, purged, due>> /\ pc'["sched"] = "catchup"
    BY <1>0, <1>5 DEF Tick, Goto, box, env, Procs
  <2>2. \A h \in Hours : Missed(h) => InTick(h)'
    BY <1>5, TickTakesAll DEF InTick
  <2> QED BY <1>2, <2>1, <2>2 DEF Asleep, CaughtUp
<1>6. ASSUME NEW g \in Hours, BuildBegin("sched", g) PROVE CaughtUp'
  <2>1. /\ UNCHANGED <<hour, faults, on, purged, due, alive, scans, row>>
        /\ pc["sched"] = "catchup" /\ todo'["sched"] = todo["sched"] \ {g}
        /\ \/ Runs(g) > 0 /\ pc'["sched"] = "write" /\ cur'["sched"] = g
           \/ Runs(g) = 0 /\ pc'["sched"] = "catchup"
    BY <1>0, <1>6 DEF BuildBegin, Goto, box, store, env, Procs
  <2>2. ASSUME NEW h \in Hours, Missed(h), Timely(h) PROVE hour - h <= faults \/ InTick(h)'
    <3>1. hour - h <= faults \/ h \in todo["sched"]
      BY <2>1, <2>2 DEF Timely, InTick, Building
    <3>2. CASE h = g
      <4>1. Runs(g) # 0
        BY <1>0, <2>2, <3>2 DEF CaughtUp, Missed, Runs
      <4> QED BY <2>1, <3>2, <4>1 DEF InTick, Building
    <3>3. CASE h # g
      BY <2>1, <3>1, <3>3 DEF InTick
    <3> QED BY <3>2, <3>3
  <2> QED BY <1>2, <2>1, <2>2 DEF Asleep, CaughtUp
<1>7. CASE BuildWrite("sched")
  <2>1. /\ UNCHANGED <<hour, faults, on, purged, due, todo, cur>>
        /\ pc["sched"] = "write" /\ pc'["sched"] = "record"
    BY <1>0, <1>7 DEF BuildWrite, Goto, box, env, Procs
  <2> QED BY <1>2, <2>1 DEF Asleep, CaughtUp, Timely, InTick, Building
<1>8. CASE BuildRecord("sched")
  <2>1. /\ UNCHANGED <<hour, faults, on, purged, due, todo>>
        /\ pc["sched"] = "record" /\ pc'["sched"] = "catchup"
        /\ row' = [row EXCEPT ![cur["sched"]] = Rebuilt(@)]
    BY <1>0, <1>8 DEF BuildRecord, Goto, box, env, Procs
  <2>2. ASSUME NEW h \in Hours, Missed(h)' PROVE h # cur["sched"]
    <3> SUFFICES ASSUME h = cur["sched"] PROVE FALSE
      OBVIOUS
    <3>1. row'[h] = Rebuilt(row[h]) /\ row[h] \in Row /\ hour # 0
      BY <2>1 DEF IInv, TypeOK, Hours
    <3>2. row'[h].builtAt # 0
      BY <3>1 DEF Rebuilt, Row
    <3> QED BY <2>2, <3>2 DEF Missed, HasRow
  <2> QED BY <1>2, <2>1, <2>2 DEF Asleep, CaughtUp, Timely, InTick, Building
<1>9. CASE Prune("sched")
  <2>1. /\ UNCHANGED <<hour, faults, on, purged>> /\ due' = NextTick
        /\ pc["sched"] = "send" /\ pc'["sched"] = "idle"
    BY <1>0, <1>9 DEF Prune, Finish, box, Procs
  <2>2. due' <= hour + 1
    BY <1>0, <2>1, BoundsAssumption DEF NextTick
  <2>3. \A h \in Hours : Timely(h) => hour - h <= faults
    BY <2>1 DEF CaughtUp, Timely, InTick, Building
  <2> QED BY <1>2, <2>1, <2>2, <2>3
<1>10. CASE Restart
  <2>1. /\ UNCHANGED <<hour, faults, purged, pc, todo, cur>> /\ due' = hour /\ on'
    BY <1>10 DEF Restart, FewFaults, box, locals
  <2>2. UNCHANGED on
    BY <2>1 DEF CaughtUp, IInv, TypeOK
  <2>3. due' <= hour + 1 /\ ~Asleep'
    BY <1>0, <2>1 DEF Asleep
  <2> QED BY <1>2, <2>1, <2>2, <2>3 DEF CaughtUp, Timely, InTick
<1>11. CASE Purge
  <2>1. UNCHANGED <<hour, faults, on, due, alive, pc, todo, cur, scans, row>>
    BY <1>11 DEF Purge, env, locals, store
  <2>2. \A h \in Hours : Missed(h)' <=> Missed(h)
    BY <2>1 DEF Missed, HasRow
  <2>3. \A h \in Hours : Timely(h)' <=> Timely(h)
    BY <2>1 DEF Timely, InTick, Asleep
  <2>4. ASSUME NEW h \in purged' PROVE h < hour /\ ~Missed(h)
    <3>1. CASE h \in purged
      BY <3>1 DEF CaughtUp
    <3>2. CASE h \in Hours /\ hour - h > ScanRetention
      <4>1. ScanRetention \in Nat /\ MaxFaults \in Nat /\ faults + 1 <= ScanRetention
        BY <1>0, BoundsAssumption, LimitsAssumption DEF FewFaults, IInv, TypeOK
      <4>2. h < hour /\ ~(hour - h <= faults + 1)
        BY <1>0, <3>2, <4>1
      <4> QED BY <3>2, <4>2 DEF CaughtUp, Timely
    <3> QED BY <1>11, <2>4, <3>1, <3>2 DEF Purge
  <2>5. purged' \subseteq Hours
    BY <1>0, <1>11 DEF Purge
  <2> QED BY <2>1, <2>2, <2>3, <2>4, <2>5 DEF CaughtUp
<1>12. CASE \/ ScanCompletes \/ (\E b \in BOOLEAN : WatchdogList(b))
            \/ (\E h \in Hours : WatchdogRemove(h)) \/ UNCHANGED vars
  <2>1. UNCHANGED <<hour, faults, on, purged, due, alive, pc, todo, cur>>
    BY <1>12 DEF ScanCompletes, WatchdogList, WatchdogRemove, vars, env, locals, box
  <2> QED BY <1>2, <2>1 DEF Asleep, CaughtUp, Timely, InTick
<1>13. CASE \/ Sweep("sched") \/ ListPending("sched") \/ GiveUpMissing("sched") \/ PutOk("sched")
            \/ MarkUploaded("sched") \/ PutFail("sched") \/ MarkFailed("sched")
            \/ \E h \in Hours : SweepUnlink("sched", h)
            \/ \E e \in queue["sched"] : \/ SkipBackoff("sched", e) \/ FindMissing("sched", e)
                                         \/ OpenBundle("sched", e)
  <2>1. UNCHANGED <<hour, faults, on, purged, due, todo>>
    BY <1>13 DEF Sweep, ListPending, GiveUpMissing, PutOk, MarkUploaded, PutFail, MarkFailed,
                 SweepUnlink, SkipBackoff, FindMissing, OpenBundle, env, box
  <2>2. /\ pc["sched"] \notin {"idle", "write", "record"} /\ todo["sched"] = {}
        /\ pc'["sched"] # "idle"
    BY <1>0, <1>13 DEF Sweep, ListPending, GiveUpMissing, PutOk, MarkUploaded, PutFail, MarkFailed,
                 SweepUnlink, SkipBackoff, FindMissing, OpenBundle, Goto, Next1, CaughtUp, Procs
  <2> QED BY <1>2, <2>1, <2>2 DEF Asleep, CaughtUp, Timely, InTick, Building
<1> QED
  BY <1>3, <1>4, <1>5, <1>6, <1>7, <1>8, <1>9, <1>10, <1>11, <1>12, <1>13
     DEF AloneNext, Environment, Watchdog, Process

----------------------------------------------------------------------------
\* PendingHasFile for all constants: a bundle waiting for its upload has its file, whatever
\* crashes, unmounts and watchdog cleanups there are.
THEOREM PendingIsOnDisk == ASSUME MaxManuals = 0 PROVE Spec => []PendingHasFile
<1>1. Init => DeletesDone
  BY DEF Init, IdleLocals, DeletesDone, PendingHasFile, Pending, HasRow, NoRow, Procs
<1>2. IInv /\ Alone /\ DeletesDone /\ [Next]_vars => DeletesDone'
  BY OnlySched, DeletesStep DEF IInv, Alone
<1>3. DeletesDone => PendingHasFile
  BY DEF DeletesDone
<1> QED BY AloneInductive, <1>1, <1>2, <1>3, PTL DEF Spec

\* NothingLost for all constants: with fewer faults than the catch-up can make good, every
\* closed hour with scans has its bundle recorded before it leaves the horizon.
THEOREM NothingIsLost ==
    ASSUME MaxManuals = 0, FewFaults
    PROVE  Spec => []NothingLost
<1>1. Init => CaughtUp
  BY BoundsAssumption DEF Init, IdleLocals, CaughtUp, Missed, FewFaults, Hours, Procs
<1>2. IInv /\ Alone /\ CaughtUp /\ [Next]_vars => CaughtUp'
  BY OnlySched, CaughtUpStep DEF IInv, Alone
<1>3. IInv /\ CaughtUp => NoSilentLoss
  <2> SUFFICES ASSUME IInv, CaughtUp, NEW h \in Hours, scans[h] > 0, hour - h > Horizon + 1
               PROVE  HasRow(h)
    BY DEF NoSilentLoss
  <2>1. /\ hour \in Nat /\ h \in Nat /\ faults \in Nat /\ faults < Horizon /\ Horizon \in Nat
    BY BoundsAssumption, LimitsAssumption DEF IInv, TypeOK, Hours, FewFaults
  <2>2. h < hour /\ ~(hour - h <= faults + 1)
    BY <2>1
  <2> QED BY <2>2 DEF CaughtUp, Missed, Timely
<1>4. PendingHasFile /\ NoSilentLoss => NothingLost
  BY DEF NothingLost
<1>5. Spec => []PendingHasFile
  BY PendingIsOnDisk
<1> QED BY AloneInductive, <1>1, <1>2, <1>3, <1>4, <1>5, PTL DEF Spec

\* NothingWasted for all constants: the automation never rebuilds a complete hour, gives up a
\* bundle only for age, retries or a file that is gone, and the watchdog deletes what is settled.
THEOREM NothingIsWasted ==
    ASSUME MaxManuals = 0, MayUnmount = FALSE
    PROVE  Spec => NothingWasted
<1>1. Init => DeletesDone /\ NeverHidden
  BY DEF Init, IdleLocals, DeletesDone, PendingHasFile, Pending, HasRow, NoRow, Procs, NeverHidden
<1>2. IInv /\ Alone /\ DeletesDone /\ [Next]_vars => DeletesDone'
  BY OnlySched, DeletesStep DEF IInv, Alone
<1>3. IInv /\ Alone /\ NeverHidden /\ [Next]_vars => NeverHidden'
  BY OnlySched, HiddenStep DEF IInv, Alone
<1>4. IInv /\ Alone /\ [Next]_vars => [BuildWrite("sched") => ~Complete(cur["sched"])]_vars
  <2> SUFFICES ASSUME IInv, Alone, BuildWrite("sched") PROVE ~Complete(cur["sched"])
    OBVIOUS
  <2>1. cur["sched"] \in Hours /\ ~HasRow(cur["sched"])
    BY DEF BuildWrite, IInv, Safe, CurInHours, AtHour, Alone, BuildsNew, Building, Procs
  <2> QED BY <2>1 DEF HasRow, Complete, Hours
<1>5. IInv /\ Alone /\ NeverHidden /\ [Next]_vars =>
        [\A h \in Hours : ~row[h].gave /\ row'[h].gave
            => hour - row[h].builtAt > GiveUpAge
               \/ row[h].retry >= GiveUpRetries \/ zip[h] = 0]_vars
  <2> SUFFICES ASSUME IInv, Alone, NeverHidden, AloneNext, NEW h \in Hours,
                      ~row[h].gave, row'[h].gave
               PROVE  \/ hour - row[h].builtAt > GiveUpAge
                      \/ row[h].retry >= GiveUpRetries \/ zip[h] = 0
    BY OnlySched DEF IInv, Alone
  <2>1. Hopeless(h) \/ (GiveUpMissing("sched") /\ h = cur["sched"])
    BY RowsFinal
  <2> QED BY <2>1 DEF Hopeless, GiveUpMissing, NeverHidden
<1>6. IInv /\ DeletesDone /\ [Next]_vars =>
        [\A h \in Hours : WatchdogRemove(h) => ~Pending(h)]_vars
  BY DEF DeletesDone, WatchdogRemove, Pending
<1>7. Spec => NeverAutoRebuild
  BY AloneInductive, <1>4, PTL DEF Spec, NeverAutoRebuild
<1>8. Spec => OnlyHopelessGivenUp
  BY AloneInductive, <1>1, <1>3, <1>5, PTL DEF Spec, OnlyHopelessGivenUp
<1>9. Spec => WatchdogSparesPending
  BY AloneInductive, <1>1, <1>2, <1>6, PTL DEF Spec, WatchdogSparesPending
<1> QED BY <1>7, <1>8, <1>9 DEF NothingWasted
=============================================================================
