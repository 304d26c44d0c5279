------------------------------- MODULE WanPath -------------------------------
(***************************************************************************)
(* When WAN-path captures are taken and delivered (checkin.py; the         *)
(* wan-path command of __main__.py; the files of wan_path.py).             *)
(*                                                                         *)
(* A check-in decides from state.json and starts the ladder as a detached  *)
(* child, then saves state.json; the child of a recovery loads and saves   *)
(* the same file once its capture is on disk.  A restart of the container  *)
(* kills every child.  Captures are named by the clock and delivered in    *)
(* the order of their names, up to a marker.                               *)
(***************************************************************************)
EXTENDS Integers, FiniteSetsExt, Functions

CONSTANTS
    DailyCap,       \* wan_path_daily_cap
    MinGap,         \* wan_path_min_interval_sec
    BaselineEvery,  \* wan_path_baseline_interval_sec
    PerRun,         \* WAN_PATH_REPORT_PER_RUN
    CaptureMax,     \* CAPTURE_MAX
    MaxPathTicks,   \* bound: check-ins
    DayTicks,       \* check-ins in a day
    MaxCaptures,    \* bound: captures saved
    MaxChildren,    \* bound: children at once
    MaxPathFaults   \* bound: killed containers, marker writes that fail

ASSUME PathBounds ==
    /\ {DailyCap, MinGap, BaselineEvery, MaxPathTicks, MaxCaptures, MaxPathFaults} \subseteq Nat
    /\ {PerRun, CaptureMax, DayTicks, MaxChildren} \subseteq Nat \ {0}

VARIABLES
    tick,         \* check-ins so far: the time
    pathState,    \* state.json
    measured,     \* baseline.json: when it was last updated
    kids,         \* the children: what each is at, and what a recovery has loaded
    kept,         \* captures/: the kind of each capture, by name
    named,        \* names given so far
    mark,         \* reported.json: the newest capture accepted
    at,           \* where the check-in is
    held,         \* the state it has loaded, and the reason it wants a capture for
    answers,      \* captures the dashboard has taken (external)
    evicted,      \* captures evicted at the cap (history)
    owed,         \* an outage ladder was started and no recovery saved since (history)
    clobbered,    \* check-in and child saved state.json into each other (history)
    starts,       \* <<reason, when>> of the ladders started (history)
    pathFaults

pathVars == <<tick, pathState, measured, kids, kept, named, mark, at, held, answers, evicted,
              owed, clobbered, starts, pathFaults>>
pathHistory == <<owed, clobbered, starts>>

Reasons == {"outage", "recovery", "baseline"}
Kinds == {"good", "refused", "unreadable"}
Long == -(MinGap + BaselineEvery)
Today == tick \div DayTicks

PathInit ==
    /\ tick = 0 /\ measured = Long /\ kids = {} /\ kept = <<>> /\ named = 0 /\ mark = 0
    /\ pathState = [day |-> -1, runs |-> 0, last |-> Long, degraded |-> FALSE]
    /\ at = "idle" /\ held = [reason |-> "baseline", state |-> pathState]
    /\ answers = {} /\ evicted = {} /\ owed = FALSE /\ clobbered = FALSE /\ starts = {}
    /\ pathFaults = 0

PathFault == pathFaults < MaxPathFaults /\ pathFaults' = pathFaults + 1

----------------------------------------------------------------------------
\* _wan_path_on_failure: only a request that never completed is a network fault.
CheckinFails ==
    /\ at = "idle" /\ tick < MaxPathTicks /\ tick' = tick + 1
    /\ held' = [reason |-> "outage", state |-> pathState] /\ at' = "decide"
    /\ UNCHANGED <<pathState, measured, kids, kept, named, mark, answers, evicted,
                   pathHistory, pathFaults>>
\* A check-in that was answered delivers first.
CheckinAnswered ==
    /\ at = "idle" /\ tick < MaxPathTicks /\ tick' = tick + 1
    /\ at' = "deliver"
    /\ UNCHANGED <<pathState, measured, kids, kept, named, mark, held, answers, evicted,
                   pathHistory, pathFaults>>

\* _report_wan_path: the first PerRun captures after the marker, in order, up to the
\* first that gets no final answer; unreadable and refused ones are stepped over.
\* done are those of them that the network lets through.
Waiting == {n \in DOMAIN kept : n > mark}
Batch == {n \in Waiting : Cardinality({m \in Waiting : m < n}) < PerRun}
StepsOn(done) ==      \* mutant: the marker passes what could not be delivered
    /\ at = "deliver" /\ \A n \in Batch, m \in done : n < m => n \in done
    /\ answers' = answers \cup {n \in done : kept[n] = "good"}
    /\ mark' = Max({mark} \cup Batch) /\ at' = "success"
    /\ UNCHANGED <<tick, pathState, measured, kids, kept, named, held, evicted, pathHistory,
                   pathFaults>>
Deliver(done) ==
    /\ at = "deliver" /\ \A n \in Batch, m \in done : n < m => n \in done
    /\ LET left == Batch \ done
           lost == IF left = {} THEN {} ELSE {Min(left)}
       IN  /\ \A n \in lost : kept[n] # "unreadable"
           /\ \E taken \in SUBSET lost :     \* taken, but the answer is lost
                 answers' = answers \cup {n \in done \cup taken : kept[n] = "good"}
           /\ \/ mark' = Max({mark} \cup done) /\ UNCHANGED pathFaults
              \/ PathFault /\ UNCHANGED mark
    /\ at' = "success"
    /\ UNCHANGED <<tick, pathState, measured, kids, kept, named, held, evicted, pathHistory>>

\* _wan_path_on_success: a degraded box wants the healed path; otherwise the baseline
\* when it is old.
OnSuccess ==
    /\ at = "success"
    /\ IF pathState.degraded \/ tick - measured >= BaselineEvery
       THEN /\ held' = [reason |-> IF pathState.degraded THEN "recovery" ELSE "baseline",
                        state |-> pathState]
            /\ at' = "decide"
       ELSE at' = "idle" /\ UNCHANGED held
    /\ UNCHANGED <<tick, pathState, measured, kids, kept, named, mark, answers, evicted,
                   pathHistory, pathFaults>>

\* _maybe_wan_path: a recovery is exempt from the daily cap, and only an outage keeps
\* the gap.  The child starts; then the state that was loaded is saved with the run.
RunsToday(s) == IF s.day = Today THEN s.runs ELSE 0
Allowed(reason, s) ==
    /\ reason # "recovery" => RunsToday(s) < DailyCap
    /\ reason = "outage" => tick - s.last >= MinGap
Refuse ==
    /\ at = "decide"
    /\ ~Allowed(held.reason, held.state) \/ Cardinality(kids) = MaxChildren
    /\ at' = "idle"
    /\ UNCHANGED <<tick, pathState, measured, kids, kept, named, mark, held, answers, evicted,
                   pathHistory, pathFaults>>
Spawn ==
    /\ at = "decide" /\ Allowed(held.reason, held.state) /\ Cardinality(kids) < MaxChildren
    /\ \E id \in 1..MaxChildren :
          /\ \A k \in kids : k.id # id
          /\ kids' = kids \cup {[id |-> id, reason |-> held.reason, stage |-> "measure",
                                 state |-> pathState]}
    /\ at' = "save" /\ starts' = starts \cup {<<held.reason, tick>>}
    /\ UNCHANGED <<tick, pathState, measured, kept, named, mark, held, answers, evicted, owed,
                   clobbered, pathFaults>>

AfterRun(degraded) ==
    [day |-> Today, runs |-> RunsToday(held.state) + 1, last |-> tick, degraded |-> degraded]
Races == pathState # held.state \/ \E k \in kids : k.stage # "measure"
SaveState ==
    /\ at = "save"
    /\ pathState' = AfterRun(held.reason = "outage" \/ held.state.degraded)
    /\ owed' = (owed \/ held.reason = "outage")
    /\ clobbered' = (clobbered \/ Races) /\ at' = "idle"
    /\ UNCHANGED <<tick, measured, kids, kept, named, mark, held, answers, evicted, starts,
                   pathFaults>>

----------------------------------------------------------------------------
(* The children. *)

Becomes(k, stage, s) == kids' = (kids \ {k}) \cup {[k EXCEPT !.stage = stage, !.state = s]}

\* A baseline run saves the baseline and nothing else.
Measure(k) ==
    /\ k.stage = "measure" /\ k.reason = "baseline"
    /\ measured' = tick /\ kids' = kids \ {k}
    /\ UNCHANGED <<tick, pathState, kept, named, mark, at, held, answers, evicted, pathHistory,
                   pathFaults>>

\* save_capture evicts the oldest at the cap.
SaveCapture(k, kind) ==
    /\ k.stage = "measure" /\ k.reason # "baseline" /\ named < MaxCaptures
    /\ named' = named + 1
    /\ LET stay == IF Cardinality(DOMAIN kept) < CaptureMax THEN DOMAIN kept
                   ELSE DOMAIN kept \ {Min(DOMAIN kept)}
       IN  /\ kept' = [n \in stay \cup {named + 1} |-> IF n = named + 1 THEN kind ELSE kept[n]]
           /\ evicted' = evicted \cup (DOMAIN kept \ stay)
    /\ owed' = (owed /\ k.reason # "recovery")
    /\ IF k.reason = "recovery" THEN Becomes(k, "load", k.state) ELSE kids' = kids \ {k}
    /\ UNCHANGED <<tick, pathState, measured, mark, at, held, answers, clobbered, starts,
                   pathFaults>>
LoadState(k) ==
    /\ k.stage = "load" /\ Becomes(k, "clear", pathState)
    /\ UNCHANGED <<tick, pathState, measured, kept, named, mark, at, held, answers, evicted,
                   pathHistory, pathFaults>>
ClearDegraded(k) ==
    /\ k.stage = "clear"
    /\ pathState' = [k.state EXCEPT !.degraded = FALSE] /\ kids' = kids \ {k}
    /\ clobbered' = (clobbered \/ pathState # k.state)
    /\ UNCHANGED <<tick, measured, kept, named, mark, at, held, answers, evicted, owed, starts,
                   pathFaults>>

\* The watchdog restarts the container: the children and the check-in are gone.
ContainerRestarts ==
    /\ PathFault /\ kids # {} /\ kids' = {} /\ at' = "idle"
    /\ owed' = (owed \/ (at = "save" /\ held.reason = "outage"))
    /\ clobbered' = (clobbered \/ at = "save")
    /\ UNCHANGED <<tick, pathState, measured, kept, named, mark, held, answers, evicted, starts>>

Ladders == \E k \in kids :
              Measure(k) \/ (\E kind \in Kinds : SaveCapture(k, kind)) \/ LoadState(k)
                  \/ ClearDegraded(k)
PathNext ==
    \/ CheckinFails \/ CheckinAnswered \/ (\E done \in SUBSET Batch : Deliver(done)) \/ OnSuccess
    \/ Refuse \/ Spawn \/ SaveState \/ Ladders \/ ContainerRestarts

PathSpec == PathInit /\ [][PathNext]_pathVars

----------------------------------------------------------------------------
PathStates == [day : -1..MaxPathTicks, runs : Nat, last : Long..MaxPathTicks, degraded : BOOLEAN]
PathTypeOK ==
    /\ tick \in 0..MaxPathTicks /\ pathState \in PathStates /\ measured \in Long..MaxPathTicks
    /\ kids \subseteq [id : 1..MaxChildren, reason : Reasons, stage : {"measure", "load", "clear"},
                       state : PathStates]
    /\ DOMAIN kept \subseteq 1..MaxCaptures /\ Range(kept) \subseteq Kinds
    /\ named \in 0..MaxCaptures /\ mark \in 0..MaxCaptures
    /\ at \in {"idle", "deliver", "success", "decide", "save"}
    /\ held \in [reason : Reasons, state : PathStates]
    /\ answers \subseteq 1..MaxCaptures /\ evicted \subseteq 1..MaxCaptures
    /\ owed \in BOOLEAN /\ clobbered \in BOOLEAN /\ starts \subseteq Reasons \X (0..MaxPathTicks)
    /\ pathFaults \in 0..MaxPathFaults

\* Nothing is stepped over: what lies at or before the marker was taken, refused,
\* unreadable or evicted.
CapturesDelivered ==
    \A n \in 1..mark : n \in answers \cup evicted \/ (n \in DOMAIN kept /\ kept[n] # "good")

\* An outage that was investigated keeps asking for the healed path until a capture
\* of it is on disk, whatever is killed on the way.
HealedPathWanted ==
    owed /\ ~clobbered => pathState.degraded

\* A day's ladders stay within the cap, except for recoveries, and outages keep
\* their gap.
LaddersBounded ==
    ~clobbered =>
        /\ \A d \in 0..(MaxPathTicks \div DayTicks) :
              Cardinality({s \in starts : s[1] # "recovery" /\ s[2] \div DayTicks = d}) <= DailyCap
        /\ \A s, u \in starts : s[1] = "outage" /\ u[1] = "outage" /\ s[2] < u[2] =>
              u[2] - s[2] >= MinGap

\* What became of every capture: none is stepped over, a healed path is wanted until
\* one is on disk, and together they stay within the day's cap.
CapturesAccounted == PathTypeOK /\ CapturesDelivered /\ HealedPathWanted /\ LaddersBounded
=============================================================================
