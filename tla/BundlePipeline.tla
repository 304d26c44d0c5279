--------------------------- MODULE BundlePipeline ---------------------------
(***************************************************************************)
(* The hourly bundle pipeline of the collector: finished scans are zipped  *)
(* per hour, recorded in the table bundle_uploads, shipped to the depot,   *)
(* and pruned.  Two processes run the same code (uploader.py): the         *)
(* scheduler thread of the collector ("sched") and an operator's or the    *)
(* dashboard's upload-now ("manual").  Around them run the poller's scan   *)
(* retention, the host watchdog, container restarts and the clock.         *)
(*                                                                         *)
(* An hour is a natural number; `hour' is the hour still open.  A bundle   *)
(* is the number of scans it holds: scans only ever join an open hour, so  *)
(* two bundles of one hour differ exactly when their numbers do.           *)
(***************************************************************************)
EXTENDS Integers, FiniteSets

CONSTANTS
    MaxHour,         \* bound: the clock stops here (ticks go on)
    MaxScans,        \* bound: scans finished per hour
    MaxFaults,       \* bound: crashes, errors, late or missed hours
    MaxManuals,      \* bound: upload-now invocations
    Horizon,         \* CATCHUP_HORIZON_HOURS
    BuildCap,        \* CATCHUP_MAX_BUILDS_PER_PASS
    AttemptCap,      \* UPLOAD_MAX_ATTEMPTS_PER_TICK
    Breaker,         \* UPLOAD_BREAKER_CONSECUTIVE_FAILURES
    GiveUpAge,       \* BUNDLE_GIVE_UP_DAYS, in hours
    GiveUpRetries,   \* BUNDLE_GIVE_UP_RETRIES
    FastRetries,     \* retries without backoff
    SlowRetries,     \* from here on the long backoff
    ShortDelay, LongDelay,
    ScanRetention,   \* local_retention_days, in hours
    BundleRetention, \* LOCAL_BUNDLE_RETENTION_DAYS, in hours
    StallHours,      \* watchdog: UPLOAD_STALL_HOURS
    Transports,      \* the values bundle_transport may take (TRUE = "blob")
    MayUnmount       \* whether the bundle volume may go away

ASSUME BoundsAssumption ==
    /\ MaxHour \in Nat \ {0} /\ MaxScans \in Nat \ {0}
    /\ MaxFaults \in Nat /\ MaxManuals \in Nat
ASSUME LimitsAssumption ==
    /\ Horizon \in Nat /\ BuildCap \in Nat /\ AttemptCap \in Nat
    /\ Breaker \in Nat /\ GiveUpAge \in Nat /\ GiveUpRetries \in Nat
    /\ FastRetries \in Nat /\ SlowRetries \in Nat
    /\ ShortDelay \in Nat /\ LongDelay \in Nat
    /\ ScanRetention \in Nat /\ BundleRetention \in Nat
    /\ StallHours \in Nat
ASSUME SwitchAssumption ==
    Transports \subseteq BOOLEAN /\ Transports # {} /\ MayUnmount \in BOOLEAN

Hours == 1..MaxHour
Procs == {"sched", "manual"}

VARIABLES
    hour,     \* the open hour
    scans,    \* scans[h]: error-free scans whose completed_at lies in hour h
    purged,   \* hours whose scans the retention purge deleted
    row,      \* bundle_uploads, one row per file name, i.e. per hour
    zip,      \* zip[h]: the ZIP on disk, as its number of scans (0: no file)
    hidden,   \* files on a volume that is not mounted any more
    dir,      \* the bundle directory exists
    depot,    \* depot[h]: the blob the depot holds for hour h (0: none)
    alive,    \* the collector container runs
    on,       \* the transport the container was created with is "blob"
    due,      \* the scheduler's next tick fires at the start of this hour
    pc, todo, cur, snap, queue, dead, saw, tries, streak, \* locals of a process
    doomed,   \* the watchdog's list of files to delete
    faults, manuals  \* used budgets

box    == <<scans, purged>>
store  == <<row, zip, hidden, dir>>
locals == <<pc, todo, cur, snap, queue, dead, saw, tries, streak>>
env    == <<alive, on, due>>
vars   == <<hour, scans, purged, row, zip, hidden, dir, depot, alive, on, due,
            pc, todo, cur, snap, queue, dead, saw, tries, streak, doomed,
            faults, manuals>>

----------------------------------------------------------------------------
(* The table bundle_uploads.  builtAt = 0 stands for "no row"; up is the   *)
(* hour of uploaded_at, last the hour of last_attempt_at, 0 for NULL.      *)

Row   == [builtAt : 0..MaxHour, up : 0..MaxHour, gave : BOOLEAN,
          retry : Nat, last : 0..MaxHour]
NoRow == [builtAt |-> 0, up |-> 0, gave |-> FALSE, retry |-> 0, last |-> 0]

Entry == [h : Hours, builtAt : 0..MaxHour, retry : Nat, last : 0..MaxHour]

HasRow(h)   == row[h].builtAt # 0
Complete(h) == row[h].builtAt > h      \* built after its hour had closed
Pending(h)  == HasRow(h) /\ row[h].up = 0 /\ ~row[h].gave
Visible(h)  == zip[h] # 0 /\ h \notin hidden

RunsBothEnds(h) ==  \* mutant: the window takes in the scans of its end, too
    IF h \in purged THEN 0
    ELSE scans[h] + (IF h + 1 \in Hours THEN scans[h + 1] ELSE 0)
Runs(h) == IF h \in purged THEN 0 ELSE scans[h]

RetryDelay(n) == IF n < FastRetries THEN 0
                 ELSE IF n < SlowRetries THEN ShortDelay ELSE LongDelay

Newest(S, k) == {h \in S : Cardinality({g \in S : g > h}) < k}

OwedNoCatchup ==    \* mutant: only the hour that has just closed
    {h \in Hours : h = hour - 1 /\ Runs(h) > 0 /\ ~row[h].gave /\ ~Complete(h)}
OwedOpen ==         \* mutant: the open hour counts as missed
    {h \in Hours : /\ h <= hour /\ h >= hour - Horizon /\ Runs(h) > 0
                   /\ ~row[h].gave /\ ~Complete(h)}

\* The closed hours inside the horizon that owe a bundle: none was built, or
\* a partial one was; a given-up hour is terminal for the automation.
Owed == {h \in Hours : /\ h < hour /\ h >= hour - Horizon /\ Runs(h) > 0
                       /\ ~row[h].gave /\ ~Complete(h)}

\* Every fault, and every hour that passes while a tick is due or running or
\* the container is down, uses up the budget.
Fault == faults < MaxFaults /\ faults' = faults + 1

Holds(q, h) == pc[q] \in {"write", "record"} /\ cur[q] = h

FreeUnlocked(h) == TRUE  \* mutant: the advisory lock is not taken
Free(h) == \A q \in Procs : ~Holds(q, h)

NextTick == IF hour = MaxHour THEN MaxHour ELSE hour + 1

----------------------------------------------------------------------------
IdleLocals ==
    /\ pc = [p \in Procs |-> "idle"]     /\ todo = [p \in Procs |-> {}]
    /\ cur = [p \in Procs |-> 0]         /\ snap = [p \in Procs |-> 0]
    /\ queue = [p \in Procs |-> {}]      /\ dead = [p \in Procs |-> {}]
    /\ saw = [p \in Procs |-> FALSE]     /\ tries = [p \in Procs |-> 0]
    /\ streak = [p \in Procs |-> 0]

Init ==
    /\ hour = 1
    /\ scans = [h \in Hours |-> 0]
    /\ purged = {}
    /\ row = [h \in Hours |-> NoRow]
    /\ zip = [h \in Hours |-> 0]
    /\ hidden = {}
    /\ dir = TRUE
    /\ depot = [h \in Hours |-> 0]
    /\ alive = TRUE
    /\ on \in Transports
    /\ due = 1
    /\ IdleLocals
    /\ doomed = {}
    /\ faults = 0
    /\ manuals = 0

\* A process that ends, or whose tick ends, forgets its locals; the loop then
\* sleeps until the next hour boundary, counted from now.
Finish(p) ==
    /\ pc' = [pc EXCEPT ![p] = "idle"]
    /\ todo' = [todo EXCEPT ![p] = {}]
    /\ cur' = [cur EXCEPT ![p] = 0]
    /\ snap' = [snap EXCEPT ![p] = 0]
    /\ queue' = [queue EXCEPT ![p] = {}]
    /\ dead' = [dead EXCEPT ![p] = {}]
    /\ saw' = [saw EXCEPT ![p] = FALSE]
    /\ tries' = [tries EXCEPT ![p] = 0]
    /\ streak' = [streak EXCEPT ![p] = 0]
    /\ due' = IF p = "sched" THEN NextTick ELSE due

Goto(p, label) == pc' = [pc EXCEPT ![p] = label]

----------------------------------------------------------------------------
(* The environment of the pipeline.                                        *)

\* complete_scan_run: a scan of the poller or the CLI ends in the open hour.
ScanCompletes ==
    /\ alive
    /\ scans[hour] < MaxScans
    /\ scans' = [scans EXCEPT ![hour] = @ + 1]
    /\ UNCHANGED <<hour, purged, store, depot, env, locals, doomed, faults, manuals>>

\* purge_old_scans, at most daily, from the poller's tick.
Purge ==
    /\ alive
    /\ purged' = purged \cup {h \in Hours : hour - h > ScanRetention}
    /\ purged' # purged
    /\ UNCHANGED <<hour, scans, store, depot, env, locals, doomed, faults, manuals>>

OnTime == alive /\ (on => pc["sched"] = "idle" /\ due > hour)

AdvanceHour ==
    /\ hour < MaxHour
    /\ hour' = hour + 1
    /\ IF OnTime THEN UNCHANGED faults ELSE Fault
    /\ UNCHANGED <<box, store, depot, env, locals, doomed, manuals>>

\* The container dies with every process in it: a crash, an update, a
\* config push that recreates it, a reboot.
Killed ==
    /\ pc' = [p \in Procs |-> "idle"]    /\ todo' = [p \in Procs |-> {}]
    /\ cur' = [p \in Procs |-> 0]        /\ snap' = [p \in Procs |-> 0]
    /\ queue' = [p \in Procs |-> {}]     /\ dead' = [p \in Procs |-> {}]
    /\ saw' = [p \in Procs |-> FALSE]    /\ tries' = [p \in Procs |-> 0]
    /\ streak' = [p \in Procs |-> 0]

Crash ==
    /\ alive
    /\ alive' = FALSE
    /\ Fault
    /\ Killed
    /\ UNCHANGED <<hour, box, store, depot, on, due, doomed, manuals>>

\* main starts the scheduler, whose first tick is the startup catch-up; the
\* transport is read from the environment the container was created with.
Restart ==
    /\ ~alive
    /\ alive' = TRUE
    /\ on' \in Transports
    /\ due' = hour
    /\ UNCHANGED <<hour, box, store, depot, locals, doomed, faults, manuals>>

\* The bundle volume is unmounted or a deploy loses the mount: the directory
\* and the files in it are gone from the collector's view.
Unmount ==
    /\ MayUnmount
    /\ dir
    /\ dir' = FALSE
    /\ hidden' = {h \in Hours : zip[h] # 0}
    /\ Fault
    /\ UNCHANGED <<hour, box, row, zip, depot, env, locals, doomed, manuals>>

----------------------------------------------------------------------------
(* The host watchdog.                                                      *)

\* prune_old_uploaded lists uploaded bundles past the retention; under disk
\* pressure emergency_cleanup_if_pressured lists every uploaded one.
DeletableAnyAge(h, pressure) ==  \* mutant: pressure spares nothing
    /\ HasRow(h) /\ Visible(h)
    /\ pressure \/ (row[h].up # 0 /\ hour - row[h].builtAt > BundleRetention)
Deletable(h, pressure) ==
    /\ HasRow(h) /\ row[h].up # 0 /\ Visible(h)
    /\ pressure \/ hour - row[h].builtAt > BundleRetention

WatchdogList(pressure) ==
    /\ doomed = {}
    /\ doomed' = {h \in Hours : Deletable(h, pressure)}
    /\ doomed' # {}
    /\ UNCHANGED <<hour, box, store, depot, env, locals, faults, manuals>>

WatchdogRemove(h) ==
    /\ h \in doomed
    /\ doomed' = doomed \ {h}
    /\ zip' = [zip EXCEPT ![h] = IF h \in hidden THEN @ ELSE 0]
    /\ UNCHANGED <<hour, box, row, hidden, dir, depot, env, locals, faults, manuals>>

LastUpload == LET ups == {row[h].up : h \in Hours} \ {0}
              IN  IF ups = {} THEN 0 - StallHours
                  ELSE CHOOSE u \in ups : \A v \in ups : v <= u

\* check_upload_stall: no upload for StallHours and rows without uploaded_at.
StallRestart ==
    /\ alive
    /\ hour - LastUpload >= StallHours
    /\ \E h \in Hours : HasRow(h) /\ row[h].up = 0
    /\ Fault
    /\ Killed
    /\ due' = hour
    /\ UNCHANGED <<hour, box, store, depot, alive, on, doomed, manuals>>

----------------------------------------------------------------------------
(* Building: _tick, upload-now, _catch_up_missed_hours, _build_hour.       *)

\* The scheduler's tick reads which hours owe a bundle and takes the newest.
Tick ==
    /\ alive /\ on
    /\ pc["sched"] = "idle"
    /\ hour >= due
    /\ todo' = [todo EXCEPT !["sched"] = Newest(Owed, BuildCap)]
    /\ Goto("sched", "catchup")
    /\ UNCHANGED <<hour, box, store, depot, env, cur, snap, queue, dead, saw, tries,
                   streak, doomed, faults, manuals>>

\* upload-now builds the hour of the most recent completed scan, even when
\* that hour is open, already bundled or given up.
UploadNow ==
    /\ alive
    /\ pc["manual"] = "idle"
    /\ manuals < MaxManuals
    /\ manuals' = manuals + 1
    /\ LET have == {h \in Hours : Runs(h) > 0}
       IN  have # {} /\ todo' = [todo EXCEPT !["manual"] = Newest(have, 1)]
    /\ Goto("manual", "catchup")
    /\ UNCHANGED <<hour, box, store, depot, env, cur, snap, queue, dead, saw, tries,
                   streak, doomed, faults>>

\* Under the advisory lock of the file name the builder queries the hour.
BuildBegin(p, h) ==
    /\ pc[p] = "catchup"
    /\ h \in todo[p] /\ \A g \in todo[p] : g <= h
    /\ Free(h)
    /\ todo' = [todo EXCEPT ![p] = @ \ {h}]
    /\ \/ /\ Runs(h) > 0
          /\ cur' = [cur EXCEPT ![p] = h]
          /\ snap' = [snap EXCEPT ![p] = Runs(h)]
          /\ Goto(p, "write")
       \/ /\ Runs(h) = 0
          /\ UNCHANGED <<cur, snap, pc>>
    /\ UNCHANGED <<hour, box, store, depot, env, queue, dead, saw, tries, streak,
                   doomed, faults, manuals>>

\* build_hourly_bundle: mkdir -p, then the finished ZIP replaces the file.
BuildWrite(p) ==
    /\ pc[p] = "write"
    /\ zip' = [zip EXCEPT ![cur[p]] = snap[p]]
    /\ hidden' = hidden \ {cur[p]}
    /\ dir' = TRUE
    /\ Goto(p, "record")
    /\ UNCHANGED <<hour, box, row, depot, env, todo, cur, snap, queue, dead, saw,
                   tries, streak, doomed, faults, manuals>>

\* record_bundle_built: the upsert dates the row NOW() and resurrects it.
Rebuilt(r) == [r EXCEPT !.builtAt = hour, !.up = 0, !.gave = FALSE, !.retry = 0]

BuildRecord(p) ==
    /\ pc[p] = "record"
    /\ row' = [row EXCEPT ![cur[p]] = Rebuilt(@)]
    /\ cur' = [cur EXCEPT ![p] = 0]
    /\ snap' = [snap EXCEPT ![p] = 0]
    /\ Goto(p, "catchup")
    /\ UNCHANGED <<hour, box, zip, hidden, dir, depot, env, todo, queue, dead, saw,
                   tries, streak, doomed, faults, manuals>>

\* One hour that cannot be built does not stop the scheduler's others.
BuildFail ==
    /\ pc["sched"] \in {"write", "record"}
    /\ Fault
    /\ cur' = [cur EXCEPT !["sched"] = 0]
    /\ snap' = [snap EXCEPT !["sched"] = 0]
    /\ Goto("sched", "catchup")
    /\ UNCHANGED <<hour, box, store, depot, env, todo, queue, dead, saw, tries,
                   streak, doomed, manuals>>

\* With no transport upload-now stops after the build ("saved_only").
SavedOnly ==
    /\ pc["manual"] = "catchup" /\ todo["manual"] = {}
    /\ ~on
    /\ Finish("manual")
    /\ UNCHANGED <<hour, box, store, depot, alive, on, doomed, faults, manuals>>

----------------------------------------------------------------------------
(* Shipping: _flush_pending and _prune_old_uploaded_bundles.               *)

Hopeless(h) == Pending(h) /\ (\/ hour - row[h].builtAt > GiveUpAge
                              \/ row[h].retry >= GiveUpRetries)

Swept(r) == [r EXCEPT !.gave = TRUE]

\* mark_bundles_gave_up: one UPDATE tombstones every hopeless bundle.
Sweep(p) ==
    /\ on
    /\ pc[p] = "catchup" /\ todo[p] = {}
    /\ dead' = [dead EXCEPT ![p] = {h \in Hours : Hopeless(h)}]
    /\ row' = [h \in Hours |-> IF Hopeless(h) THEN Swept(row[h]) ELSE row[h]]
    /\ Goto(p, "sweep")
    /\ UNCHANGED <<hour, box, zip, hidden, dir, depot, env, todo, cur, snap,
                   queue, saw, tries, streak, doomed, faults, manuals>>

\* Then their ZIPs are unlinked, one by one.
SweepUnlink(p, h) ==
    /\ pc[p] = "sweep"
    /\ h \in dead[p]
    /\ dead' = [dead EXCEPT ![p] = @ \ {h}]
    /\ zip' = [zip EXCEPT ![h] = IF h \in hidden THEN @ ELSE 0]
    /\ UNCHANGED <<hour, box, row, hidden, dir, depot, env, pc, todo, cur, snap,
                   queue, saw, tries, streak, doomed, faults, manuals>>

EntryOf(h) == [h |-> h, builtAt |-> row[h].builtAt, retry |-> row[h].retry,
               last |-> row[h].last]

\* list_pending_bundles: the flush works from this snapshot of the table, and
\* saw remembers whether the bundle directory was there when it was taken.
ListPending(p) ==
    /\ pc[p] = "sweep" /\ dead[p] = {}
    /\ queue' = [queue EXCEPT ![p] = {EntryOf(h) : h \in {g \in Hours : Pending(g)}}]
    /\ saw' = [saw EXCEPT ![p] = dir]
    /\ Goto(p, "send")
    /\ UNCHANGED <<hour, box, store, depot, env, todo, cur, snap, dead, tries,
                   streak, doomed, faults, manuals>>

\* A failed sweep is logged and the flush goes on.
SweepFails(p) ==
    /\ on
    /\ pc[p] = "catchup" /\ todo[p] = {}
    /\ Fault
    /\ Goto(p, "sweep")
    /\ UNCHANGED <<hour, box, store, depot, env, todo, cur, snap, queue, dead,
                   saw, tries, streak, doomed, manuals>>

\* The loop over the snapshot, oldest bundle first, until one of the bounds.
Exhausted(p) ==
    queue[p] = {} \/ tries[p] >= AttemptCap \/ streak[p] >= Breaker
Next1(p, e) ==
    /\ pc[p] = "send"
    /\ ~Exhausted(p)
    /\ e \in queue[p] /\ \A f \in queue[p] : e.builtAt <= f.builtAt
InBackoff(e) == e.last # 0 /\ hour - e.last < RetryDelay(e.retry)
Drop(p, e) == queue' = [queue EXCEPT ![p] = @ \ {e}]

SkipBackoff(p, e) ==
    /\ Next1(p, e)
    /\ InBackoff(e)
    /\ Drop(p, e)
    /\ UNCHANGED <<hour, box, store, depot, env, pc, todo, cur, snap, dead, saw,
                   tries, streak, doomed, faults, manuals>>

\* The file is not on disk: no attempt is burnt; the bundle is given up, but
\* not when the whole directory was missing.
FindMissing(p, e) ==
    /\ Next1(p, e)
    /\ ~InBackoff(e)
    /\ ~Visible(e.h)
    /\ Drop(p, e)
    /\ IF saw[p] THEN Goto(p, "missing") /\ cur' = [cur EXCEPT ![p] = e.h]
                 ELSE UNCHANGED <<pc, cur>>
    /\ UNCHANGED <<hour, box, store, depot, env, todo, snap, dead, saw, tries,
                   streak, doomed, faults, manuals>>

\* mark_bundle_gave_up: only a row still pending is tombstoned.
GivenUp(r) == [r EXCEPT !.gave = TRUE, !.last = hour]

GiveUpMissing(p) ==
    /\ pc[p] = "missing"
    /\ row' = [row EXCEPT ![cur[p]] =
                  IF Pending(cur[p]) THEN GivenUp(@) ELSE @]
    /\ cur' = [cur EXCEPT ![p] = 0]
    /\ Goto(p, "send")
    /\ UNCHANGED <<hour, box, zip, hidden, dir, depot, env, todo, snap, queue,
                   dead, saw, tries, streak, doomed, faults, manuals>>

\* upload_file_blob opens the file; a later replacement or unlink does not
\* change what this upload sends.
OpenBundle(p, e) ==
    /\ Next1(p, e)
    /\ ~InBackoff(e)
    /\ Visible(e.h)
    /\ Drop(p, e)
    /\ tries' = [tries EXCEPT ![p] = @ + 1]
    /\ cur' = [cur EXCEPT ![p] = e.h]
    /\ snap' = [snap EXCEPT ![p] = zip[e.h]]
    /\ Goto(p, "put")
    /\ UNCHANGED <<hour, box, store, depot, env, todo, dead, saw, streak, doomed,
                   faults, manuals>>

PutOk(p) ==
    /\ pc[p] = "put"
    /\ depot' = [depot EXCEPT ![cur[p]] = snap[p]]
    /\ snap' = [snap EXCEPT ![p] = 0]
    /\ Goto(p, "mark")
    /\ UNCHANGED <<hour, box, store, env, todo, cur, queue, dead, saw, tries,
                   streak, doomed, faults, manuals>>

\* record_bundle_uploaded updates the row by file name, whatever it says now.
Uploaded(r) == [r EXCEPT !.up = hour, !.last = hour]

MarkUploaded(p) ==
    /\ pc[p] = "mark"
    /\ row' = [row EXCEPT ![cur[p]] = Uploaded(@)]
    /\ cur' = [cur EXCEPT ![p] = 0]
    /\ streak' = [streak EXCEPT ![p] = 0]
    /\ Goto(p, "send")
    /\ UNCHANGED <<hour, box, zip, hidden, dir, depot, env, todo, snap, queue,
                   dead, saw, tries, doomed, faults, manuals>>

\* The PUT fails, or its answer is lost after the blob arrived.
PutFail(p) ==
    /\ pc[p] = "put"
    /\ \/ UNCHANGED depot
       \/ depot' = [depot EXCEPT ![cur[p]] = snap[p]]
    /\ snap' = [snap EXCEPT ![p] = 0]
    /\ Goto(p, "nack")
    /\ UNCHANGED <<hour, box, store, env, todo, cur, queue, dead, saw, tries,
                   streak, doomed, faults, manuals>>

\* record_bundle_upload_failure.
FailedAsUploaded(r) == [r EXCEPT !.up = hour, !.last = hour]  \* mutant
Failed(r) == [r EXCEPT !.last = hour, !.retry = @ + 1]

MarkFailed(p) ==
    /\ pc[p] = "nack"
    /\ row' = [row EXCEPT ![cur[p]] = Failed(@)]
    /\ cur' = [cur EXCEPT ![p] = 0]
    /\ streak' = [streak EXCEPT ![p] = @ + 1]
    /\ Goto(p, "send")
    /\ UNCHANGED <<hour, box, zip, hidden, dir, depot, env, todo, snap, queue,
                   dead, saw, tries, doomed, faults, manuals>>

\* _prune_old_uploaded_bundles ends the tick and upload-now.
Prune(p) ==
    /\ pc[p] = "send" /\ Exhausted(p)
    /\ zip' = [h \in Hours |->
                 IF row[h].up # 0 /\ hour - row[h].up > BundleRetention
                    /\ h \notin hidden THEN 0 ELSE zip[h]]
    /\ Finish(p)
    /\ UNCHANGED <<hour, box, row, hidden, dir, depot, alive, on, doomed, faults, manuals>>

\* A database call raises: the scheduler's loop logs it and waits for the next
\* hour, upload-now ends; an operator may also interrupt upload-now anywhere.
Aborted(p) ==
    /\ \/ pc[p] \in {"catchup", "sweep", "missing", "mark", "nack"}
       \/ p = "manual" /\ pc[p] # "idle"
    /\ Fault
    /\ Finish(p)
    /\ UNCHANGED <<hour, box, store, depot, alive, on, doomed, manuals>>

----------------------------------------------------------------------------
Process(p) ==
    \/ \E h \in Hours : BuildBegin(p, h) \/ SweepUnlink(p, h)
    \/ BuildWrite(p) \/ BuildRecord(p)
    \/ Sweep(p) \/ ListPending(p)
    \/ \E e \in queue[p] : SkipBackoff(p, e) \/ FindMissing(p, e) \/ OpenBundle(p, e)
    \/ GiveUpMissing(p) \/ PutOk(p) \/ MarkUploaded(p) \/ PutFail(p) \/ MarkFailed(p)
    \/ Prune(p)

Faulty(p) == SweepFails(p) \/ Aborted(p)

Watchdog ==
    \/ \E pressure \in BOOLEAN : WatchdogList(pressure)
    \/ \E h \in Hours : WatchdogRemove(h)
    \/ StallRestart

Environment ==
    ScanCompletes \/ Purge \/ AdvanceHour \/ Crash \/ Restart \/ Unmount

Next ==
    \/ Environment
    \/ Watchdog
    \/ Tick \/ UploadNow \/ SavedOnly \/ BuildFail
    \/ \E p \in Procs : Process(p) \/ Faulty(p)

Spec == Init /\ [][Next]_vars

\* The clock runs, the restart policy brings the container back, the
\* scheduler thread keeps being scheduled, and upload-now does not hang in the
\* middle of a build (it would keep the lock).  Nothing says that a PUT works.
Fairness ==
    /\ WF_vars(AdvanceHour)
    /\ WF_vars(Restart)
    /\ WF_vars(Tick)
    /\ \A p \in Procs : WF_vars(Process(p))

FairSpec == Spec /\ Fairness

----------------------------------------------------------------------------
(* What the pipeline promises.                                             *)

PCs == {"idle", "catchup", "write", "record", "sweep", "send", "missing",
        "put", "mark", "nack"}

\* Every variable stays in its type.
TypeOK ==
    /\ hour \in Hours
    /\ scans \in [Hours -> 0..MaxScans]
    /\ purged \in SUBSET Hours
    /\ row \in [Hours -> Row]
    /\ zip \in [Hours -> 0..MaxScans]
    /\ hidden \in SUBSET Hours
    /\ dir \in BOOLEAN
    /\ depot \in [Hours -> 0..MaxScans]
    /\ alive \in BOOLEAN /\ on \in BOOLEAN
    /\ due \in Hours
    /\ pc \in [Procs -> PCs]
    /\ todo \in [Procs -> SUBSET Hours]
    /\ cur \in [Procs -> 0..MaxHour]
    /\ snap \in [Procs -> 0..MaxScans]
    /\ queue \in [Procs -> SUBSET Entry]
    /\ dead \in [Procs -> SUBSET Hours]
    /\ saw \in [Procs -> BOOLEAN]
    /\ tries \in [Procs -> Nat] /\ streak \in [Procs -> Nat]
    /\ doomed \in SUBSET Hours
    /\ faults \in 0..MaxFaults /\ manuals \in 0..MaxManuals

\* A builder never overwrites a bundle with an older snapshot of its hour,
\* however the two builders interleave: the query runs inside the lock.
ZipNeverOlder ==
    [][\A h \in Hours : zip'[h] # 0 => zip'[h] >= zip[h]]_vars

\* A row says "uploaded" only if some bundle of that hour reached the depot.
UploadedWasShipped == \A h \in Hours : row[h].up # 0 => depot[h] # 0

\* The depot never holds more than the box has scanned, and the disk neither.
NothingInvented == \A h \in Hours : zip[h] <= scans[h] /\ depot[h] <= scans[h]

\* No hour with scans leaves the catch-up horizon without a bundle having
\* been recorded for it: once outside, nothing would ever build it.
NoSilentLoss ==
    \A h \in Hours : scans[h] > 0 /\ hour - h > Horizon + 1 => HasRow(h)

\* Once no builder is at work on it, a row marked uploaded stands for the file
\* that is on disk: what was uploaded is what the last build wrote.
UploadedIsCurrent ==
    \A h \in Hours : row[h].up # 0 /\ zip[h] # 0 /\ (\A p \in Procs : ~Holds(p, h))
        => depot[h] = zip[h]

\* The automation never rebuilds an hour whose row is already complete.
NeverAutoRebuild ==
    [][BuildWrite("sched") => ~Complete(cur["sched"])]_vars

\* A bundle waiting for its upload is on disk.
PendingHasFile == \A h \in Hours : Pending(h) => zip[h] # 0

\* Bundles are given up for age, for retries, or because their file is gone.
OnlyHopelessGivenUp ==
    [][\A h \in Hours : ~row[h].gave /\ row'[h].gave
            => hour - row[h].builtAt > GiveUpAge
               \/ row[h].retry >= GiveUpRetries \/ zip[h] = 0]_vars

\* Whatever the watchdog deletes has been uploaded.
WatchdogSparesPending ==
    [][\A h \in Hours : WatchdogRemove(h) => ~Pending(h)]_vars

\* Nothing is lost while the automation is alone with crashes, late ticks and the
\* watchdog: neither an hour without a bundle nor a bundle without a file.
NothingLost == NoSilentLoss /\ PendingHasFile

\* And no work is thrown away: no complete hour is built again, no bundle given up
\* early, none deleted before it is uploaded.
NothingWasted == NeverAutoRebuild /\ OnlyHopelessGivenUp /\ WatchdogSparesPending
=============================================================================
