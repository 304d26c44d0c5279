----------------------------- MODULE ScanCadence -----------------------------
(***************************************************************************)
(* When networks are scanned (poller.py, run_scan of scan.py, the lock and *)
(* the gates of db.py).                                                    *)
(*                                                                         *)
(* The poller plans a tick from the scan_runs table and runs the plan one  *)
(* network after the other; a manual scan may come at any time.  A scan    *)
(* takes the advisory lock or gives up, checks the cooldown, inserts its   *)
(* row, measures, writes everything in one transaction and completes the   *)
(* row in another.  A process that dies frees the lock and leaves its row. *)
(***************************************************************************)
EXTENDS Integers, FiniteSets, SequencesExt

CONSTANTS
    Nets,            \* networks the box is on
    Rescan,          \* rescan_interval
    CapturePass,     \* capture_interval, 0 for none
    ScanCooldown,    \* cooldown_seconds
    BulkInterval,    \* snmp_bulk_interval
    HeavyRetention,  \* snmp_bulk_retention_days
    MaxScanTime,     \* bound: time
    MaxScans,        \* bound: scanRows inserted
    MaxForced,       \* bound: manual scans
    MaxScanKills     \* bound: scanning processes killed

ASSUME ScanBounds ==
    /\ {CapturePass, ScanCooldown, BulkInterval, MaxScanTime, MaxScans, MaxForced, MaxScanKills}
           \subseteq Nat
    /\ Rescan \in Nat \ {0} /\ HeavyRetention \in Nat /\ IsFiniteSet(Nets)

VARIABLES
    clock,
    scanRows,       \* scan_runs: what each scan is, when it began, how it ended, what it wrote
    scanLock,   \* the advisory lock
    phase,      \* where the poller and the manual scan are
    job,        \* the scan each of them is at
    plan,       \* the rest of the poller's tick
    ticked,     \* when the last tick was planned, and whether the lock was busy since (history)
    forced, scanKills

scanVars == <<clock, scanRows, scanLock, phase, job, plan, ticked, forced, scanKills>>

Scanners == {"poller", "manual"}
Triggers == {"periodic", "capture", "manual"}
Absent == -1
NoJob == [net |-> "none", trigger |-> "manual", row |-> 0]

ScanInit ==
    /\ clock = 0 /\ scanRows = <<>> /\ scanLock = "free"
    /\ phase = [s \in Scanners |-> "idle"] /\ job = [s \in Scanners |-> NoJob]
    /\ plan = <<>> /\ ticked = [at |-> -1, busy |-> FALSE] /\ forced = 0 /\ scanKills = 0

Goes(s, p) == phase' = [phase EXCEPT ![s] = p]

----------------------------------------------------------------------------
(* The gates: queries over scan_runs and the tables that hang on it. *)

Begun(n) == {i \in DOMAIN scanRows : scanRows[i].net = n}
Ok(i) == scanRows[i].end = "ok"

CountsCaptures(n, d) ==    \* mutant: a capture pass counts as a full scan
    \E i \in Begun(n) : Ok(i) /\ scanRows[i].start > clock - d
\* recent_network_scan with exclude_capture, plain, and with require_success = False.
RecentFull(n, d) ==
    \E i \in Begun(n) : Ok(i) /\ scanRows[i].start > clock - d /\ scanRows[i].trigger # "capture"
RecentAny(n, d) == \E i \in Begun(n) : Ok(i) /\ scanRows[i].start > clock - d
CountsSuccess(n) ==        \* mutant: the cooldown counts successful scans only
    \E i \in Begun(n) : Ok(i) /\ scanRows[i].start > clock - ScanCooldown
InCooldown(n) == \E i \in Begun(n) : scanRows[i].start > clock - ScanCooldown

\* _snmp_bulk_due looks for scanRows of a walk, whatever became of their scan; _dns_due
\* looks at the whole box.
BulkDue(n) ==
    \A i \in Begun(n) : scanRows[i].bulk # Absent => clock - scanRows[i].start >= BulkInterval
DnsDue(n) == \A i \in DOMAIN scanRows : scanRows[i].dns # Absent => clock - scanRows[i].start >= Rescan

----------------------------------------------------------------------------
(* The poller. *)

\* tick: purge, then the whole plan: a full scan where one is due, else a capture pass,
\* one network after the other.
PlanFor(n) ==
    LET entry(t) == {[net |-> n, trigger |-> t, row |-> 0]}
    IN  IF ~RecentFull(n, Rescan) THEN entry("periodic")
        ELSE IF CapturePass > 0 /\ ~RecentAny(n, CapturePass) THEN entry("capture") ELSE {}
Tick ==
    /\ phase["poller"] = "idle" /\ ticked.at < clock
    /\ plan' \in SetToSeqs(UNION {PlanFor(n) : n \in Nets})
    /\ ticked' = [at |-> clock, busy |-> FALSE]
    /\ Goes("poller", "next")
    /\ \E purge \in BOOLEAN :     \* _maybe_purge: at most once a day and after a restart
          scanRows' = IF ~purge THEN scanRows
                  ELSE [i \in DOMAIN scanRows |-> IF scanRows[i].start < clock - HeavyRetention
                                              THEN [scanRows[i] EXCEPT !.bulk = Absent] ELSE scanRows[i]]
    /\ UNCHANGED <<clock, scanLock, job, forced, scanKills>>
NextJob ==
    /\ phase["poller"] = "next"
    /\ IF plan = <<>> THEN Goes("poller", "idle") /\ UNCHANGED <<job, plan>>
       ELSE /\ job' = [job EXCEPT !["poller"] = Head(plan)] /\ plan' = Tail(plan)
            /\ Goes("poller", "lock")
    /\ UNCHANGED <<clock, scanRows, scanLock, ticked, forced, scanKills>>

\* A scan by hand: the CLI, the dashboard or a console.
ManualScan(n) ==
    /\ phase["manual"] = "idle" /\ forced < MaxForced /\ forced' = forced + 1
    /\ job' = [job EXCEPT !["manual"] = [net |-> n, trigger |-> "manual", row |-> 0]]
    /\ Goes("manual", "lock")
    /\ UNCHANGED <<clock, scanRows, scanLock, plan, ticked, scanKills>>

----------------------------------------------------------------------------
(* run_scan, for either of them. *)

Back(s) == IF s = "poller" THEN "next" ELSE "idle"

\* try_scan_lock
TryLock(s) ==
    /\ phase[s] = "lock"
    /\ IF scanLock = "free" THEN scanLock' = s /\ Goes(s, "begin") /\ UNCHANGED ticked
       ELSE Goes(s, Back(s)) /\ UNCHANGED scanLock
            /\ ticked' = [ticked EXCEPT !.busy = @ \/ s = "poller"]
    /\ UNCHANGED <<clock, scanRows, job, plan, forced, scanKills>>

\* _run_scan_locked up to its row: the interface may have no usable address; the
\* cooldown holds for everything that is not forced.
Skip(s) ==
    /\ phase[s] = "begin" /\ s # "manual" /\ InCooldown(job[s].net)
    /\ scanLock' = "free" /\ Goes(s, Back(s))
    /\ UNCHANGED <<clock, scanRows, job, plan, ticked, forced, scanKills>>
InsertRow(s) ==
    /\ phase[s] = "begin" /\ (s = "manual" \/ ~InCooldown(job[s].net)) /\ Len(scanRows) < MaxScans
    /\ scanRows' = Append(scanRows, [net |-> job[s].net, trigger |-> job[s].trigger, start |-> clock,
                             end |-> "open", bulk |-> Absent, dns |-> Absent])
    /\ job' = [job EXCEPT ![s].row = Len(scanRows) + 1]
    /\ Goes(s, "measure")
    /\ UNCHANGED <<clock, scanLock, plan, ticked, forced, scanKills>>

\* The measurements: a capture pass skips the heavy ones, a forced scan makes them
\* all, the others follow their cadence.  _persist writes all or nothing; a required
\* step that raises leaves an error instead.
MeasureNet(s) ==
    /\ phase[s] = "measure"
    /\ LET i == job[s].row
           heavy(due) == IF job[s].trigger # "capture" /\ (s = "manual" \/ due)
                         THEN clock ELSE Absent
       IN  \/ /\ scanRows' = [scanRows EXCEPT ![i].bulk = heavy(BulkDue(job[s].net)),
                                      ![i].dns = heavy(DnsDue(job[s].net))]
              /\ Goes(s, "completeOk")
           \/ Goes(s, "completeError") /\ UNCHANGED scanRows
    /\ UNCHANGED <<clock, scanLock, job, plan, ticked, forced, scanKills>>

\* complete_scan_run, then the lock is let go.
Complete(s) ==
    /\ phase[s] \in {"completeOk", "completeError"}
    /\ scanRows' = [scanRows EXCEPT ![job[s].row].end = IF phase[s] = "completeOk" THEN "ok" ELSE "error"]
    /\ scanLock' = "free" /\ Goes(s, Back(s)) /\ job' = [job EXCEPT ![s] = NoJob]
    /\ UNCHANGED <<clock, plan, ticked, forced, scanKills>>

ScannerKilled(s) ==
    /\ phase[s] # "idle" /\ scanKills < MaxScanKills /\ scanKills' = scanKills + 1
    /\ Goes(s, "idle") /\ scanLock' = IF scanLock = s THEN "free" ELSE scanLock
    /\ plan' = (IF s = "poller" THEN <<>> ELSE plan)
    /\ ticked' = IF s = "poller" THEN [at |-> -1, busy |-> FALSE] ELSE ticked
    /\ job' = [job EXCEPT ![s] = NoJob]
    /\ UNCHANGED <<clock, scanRows, forced>>

\* Time goes by between ticks and while a scan measures.
ClockTicks ==
    /\ clock < MaxScanTime /\ clock' = clock + 1
    /\ \A s \in Scanners : phase[s] \in {"idle", "measure"}
    /\ UNCHANGED <<scanRows, scanLock, phase, job, plan, ticked, forced, scanKills>>

ScanNext ==
    \/ Tick \/ NextJob \/ (\E n \in Nets : ManualScan(n)) \/ ClockTicks
    \/ \E s \in Scanners : TryLock(s) \/ Skip(s) \/ InsertRow(s) \/ MeasureNet(s) \/ Complete(s)
                           \/ ScannerKilled(s)

ScanSpec == ScanInit /\ [][ScanNext]_scanVars

----------------------------------------------------------------------------
Times == 0..MaxScanTime \cup {Absent}
Jobs == [net : Nets \cup {"none"}, trigger : Triggers, row : 0..MaxScans]
ScanTypeOK ==
    /\ clock \in 0..MaxScanTime
    /\ scanRows \in Seq([net : Nets, trigger : Triggers, start : 0..MaxScanTime,
                     end : {"open", "ok", "error"}, bulk : Times, dns : Times])
    /\ scanLock \in Scanners \cup {"free"}
    /\ phase \in [Scanners -> {"idle", "next", "lock", "begin", "measure", "completeOk",
                               "completeError"}]
    /\ job \in [Scanners -> Jobs] /\ plan \in Seq(Jobs)
    /\ ticked \in [at : -1..MaxScanTime, busy : BOOLEAN]
    /\ forced \in 0..MaxForced /\ scanKills \in 0..MaxScanKills

\* Scans never overlap, and one that nobody forced begins a cooldown after the last
\* attempt on its network, however that one ended.
ScansSpaced ==
    /\ \A s, u \in Scanners :
          phase[s] \in {"measure", "completeOk", "completeError"} /\
          phase[u] \in {"measure", "completeOk", "completeError"} => s = u
    /\ \A i, j \in DOMAIN scanRows :
          i < j /\ scanRows[i].net = scanRows[j].net /\ scanRows[j].trigger # "manual" =>
              scanRows[j].start - scanRows[i].start >= ScanCooldown

\* A tick that has run leaves each network with a full scan of the last interval, or
\* with an attempt since it was planned or within the cooldown, unless another scan
\* held the lock.
TickLeavesFresh ==
    phase["poller"] = "idle" /\ ticked.at >= 0 /\ ~ticked.busy =>
        \A n \in Nets : \E i \in Begun(n) :
            \/ Ok(i) /\ scanRows[i].trigger # "capture" /\ scanRows[i].start > ticked.at - Rescan
            \/ scanRows[i].start >= ticked.at \/ scanRows[i].start > ticked.at - ScanCooldown

\* The heavy walk of a network and the resolver probes of the whole box keep their
\* cadence except where a scan is forced.
CadencesHold ==
    \A i, j \in DOMAIN scanRows :
        i < j /\ scanRows[j].trigger # "manual" =>
            /\ scanRows[i].bulk # Absent /\ scanRows[j].bulk # Absent /\ scanRows[i].net = scanRows[j].net =>
                   scanRows[j].bulk - scanRows[i].start >= BulkInterval
            /\ scanRows[i].dns # Absent /\ scanRows[j].dns # Absent =>
                   scanRows[j].dns - scanRows[i].start >= Rescan

\* The spacing of scans and of what they do less often than every time.
ScansPaced == ScanTypeOK /\ ScansSpaced /\ CadencesHold
=============================================================================
