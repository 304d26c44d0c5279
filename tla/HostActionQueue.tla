--------------------------- MODULE HostActionQueue ---------------------------
(***************************************************************************)
(* Host actions: maintenance that the dashboard asks for and the box runs  *)
(* outside the container.  The agent in the container appends requests to  *)
(* a queue file during a check-in (checkin.py); the check-in wrapper on    *)
(* the host (netmon-checkin.sh) dates them and hands them to               *)
(* host-action.sh, which claims them one at a time through an in-flight    *)
(* record, so that a box that dies in the middle of an action knows about  *)
(* it afterwards.  All of it lives in files; this module says what every   *)
(* write leaves behind when the script dies, or the write fails, there.    *)
(*                                                                         *)
(* A request is the number of its command.  Commands are handed out in     *)
(* increasing order and appended at the end of the queue, so the file is   *)
(* the set of the requests in it, read in increasing order.  Actions that  *)
(* undo one another (apply and remove a VLAN) are one kind.                *)
(***************************************************************************)
EXTENDS Integers, FiniteSets

CONSTANTS
    MaxReq,        \* bound: commands the dashboard issues
    MaxTime,       \* bound: the clock stops here
    MaxKills,      \* bound: scripts killed, reboots nobody asked for
    MaxUpdates,    \* bound: updates the dashboard asks for
    MaxWriteFaults,\* bound: writes to the state directory that fail
    Kinds,         \* the kinds of actions
    RetrySafe,     \* _retry_safe: kinds that converge and may run again
    Reboots,       \* kinds that reboot the box when they are done
    MaxAttempts,   \* MAX_ATTEMPTS
    LongLimit,     \* LEFTOVER_MAX_AGE_MIN, in units of the clock
    ShortLimit,    \* DISRUPTIVE_MAX_AGE_MIN
    MayOperate,    \* whether an operator runs host-action.sh by hand
    MayUnlock      \* whether a check-in may run without the lock

Reqs == 1..MaxReq
None == 0 - 1      \* no time stamp
NoKind == "none"   \* the kind of nothing

ASSUME QueueBounds ==
    /\ MaxReq \in Nat /\ MaxTime \in Nat \ {0}
    /\ MaxKills \in Nat /\ MaxUpdates \in Nat /\ MaxWriteFaults \in Nat
ASSUME QueueKinds == /\ RetrySafe \subseteq Kinds /\ Reboots \subseteq Kinds \ RetrySafe
                     /\ NoKind \notin Kinds
ASSUME QueueLimits ==
    MaxAttempts \in Nat \ {0} /\ LongLimit \in Nat /\ ShortLimit \in Nat
ASSUME QueueSwitches == MayOperate \in BOOLEAN /\ MayUnlock \in BOOLEAN


VARIABLES
    queue,    \* host-action-request
    mtime,    \* when that file was written last
    seen,     \* host-action-seen: the time stamp of each request, or None
    inflight, \* host-action-inflight
    history,  \* host-action-results: <<request, outcome>>
    pc,       \* where the script that holds the lock is ("idle": nobody)
    mode,     \* "drain", or "direct" for an operator's single action
    cur, rest,\* the head of the queue as it was read, and the lines after it
    op,       \* the kind of an operator's single action
    after,    \* where to go on once the action in flight is done
    backlog,  \* NETMON_BACKLOG_LINES
    rc,       \* exit code of the check-in, as it builds up
    out,      \* outcome of the action that has just ended
    now, updating, rebooting, \* the clock; an update runs; a reboot is set off
    kills, updates, wfaults,  \* used budgets
    issued,   \* commands issued so far
    kind, asked,  \* of each request: its kind, when it was appended
    starts,   \* of each request: how often its action was started
    ended     \* requests whose action has run to its end

files  == <<queue, mtime, seen, inflight, history>>
locals == <<pc, mode, cur, rest, op, after, backlog, rc, out>>
world  == <<now, updating, rebooting, kills, updates>>
asks   == <<issued, kind, asked>>
runs   == <<starts, ended>>
vars   == <<queue, mtime, seen, inflight, history, pc, mode, cur, rest, op, after,
            backlog, rc, out, now, updating, rebooting, kills, updates, wfaults,
            issued, kind, asked, starts, ended>>

----------------------------------------------------------------------------
\* The in-flight record; its request is 0 for an operator's action ("-").
NoRecord == [r |-> 0, k |-> NoKind, att |-> 0]
Record(r, k, n) == [r |-> r, k |-> k, att |-> n]
InFlight == inflight.att # 0

Outcomes == {"ok", "failed", "interrupted", "expired"}
Settled(r) == \E s \in Outcomes : <<r, s>> \in history

\* An operator's action has no command id and leaves no history.
Report(r, s) == IF r = 0 THEN history ELSE history \cup {<<r, s>>}

\* A write to the state directory fails.
WriteFault == wfaults < MaxWriteFaults /\ wfaults' = wfaults + 1

Limit(k) == IF k \in RetrySafe THEN LongLimit ELSE ShortLimit

\* An undated request, and one whose stamp says "unknown" (0), is very old.
TooOld(r) == seen[r] \in {None, 0} \/ now - seen[r] > Limit(kind[r])

\* _stamp_queue: whatever is queued and undated gets the file's time; the first
\* b lines, if undated, get 0; requests no longer queued or in flight go.
Line(r) == Cardinality({g \in queue : g <= r})
StampsRedated(b) ==    \* mutant: whatever is queued gets the file's time
    [r \in Reqs |-> IF r \in queue THEN mtime
                    ELSE IF inflight.r = r THEN seen[r] ELSE None]
Stamps(b) == [r \in Reqs |->
                IF r \in queue
                THEN IF seen[r] # None THEN seen[r] ELSE IF Line(r) <= b THEN 0 ELSE mtime
                ELSE IF inflight.r = r THEN seen[r] ELSE None]

\* Stamping ends in the new stamps, or the write fails and changes nothing;
\* when there is nothing new to write it cannot fail.
Stamp(b) == seen' = Stamps(b) /\ UNCHANGED wfaults
StampFails(b) == Stamps(b) # seen /\ WriteFault /\ UNCHANGED seen

IsLast(r)   == r \in queue /\ \A g \in queue : g <= r  \* mutant
IsOldest(r) == r \in queue /\ \A g \in queue : r <= g

Goto(l) == pc' = l

\* The script ends or dies, and the lock is free.
Quit ==
    /\ pc' = "idle" /\ mode' = "drain" /\ cur' = 0 /\ rest' = {}
    /\ op' = NoKind /\ after' = "idle" /\ backlog' = 0 /\ rc' = "ok" /\ out' = "ok"

Init ==
    /\ queue = {} /\ mtime = 0 /\ seen = [r \in Reqs |-> None]
    /\ inflight = NoRecord /\ history = {}
    /\ pc = "idle" /\ mode = "drain" /\ cur = 0 /\ rest = {}
    /\ op = NoKind /\ after = "idle" /\ backlog = 0 /\ rc = "ok" /\ out = "ok"
    /\ now = 1 /\ updating = FALSE /\ rebooting = FALSE
    /\ kills = 0 /\ updates = 0 /\ wfaults = 0
    /\ issued = 0 /\ kind = [r \in Reqs |-> NoKind] /\ asked = [r \in Reqs |-> 0]
    /\ starts = [r \in Reqs |-> 0] /\ ended = {}

----------------------------------------------------------------------------
(* The check-in wrapper, netmon-checkin.sh.                                *)

\* Under the lock, what is already queued is dated before the check-in.
CheckinStarts ==
    /\ pc = "idle"
    /\ Goto(IF queue = {} THEN "exec" ELSE "prestamp")
    /\ UNCHANGED <<files, mode, cur, rest, op, after, backlog, rc, out, world,
                   wfaults, asks, runs>>

\* If that fails the drain is told how many lines there were.
PreStamp ==
    /\ pc = "prestamp"
    /\ \/ Stamp(0) /\ UNCHANGED backlog
       \/ StampFails(0) /\ backlog' = Cardinality(queue)
    /\ Goto("exec")
    /\ UNCHANGED <<queue, mtime, inflight, history, mode, cur, rest, op, after, rc,
                   out, world, asks, runs>>

\* _request_host_action appends one line.
Enqueue(k) ==
    /\ issued < MaxReq
    /\ issued' = issued + 1
    /\ queue' = queue \cup {issued + 1}
    /\ mtime' = now
    /\ kind' = [kind EXCEPT ![issued + 1] = k]
    /\ asked' = [asked EXCEPT ![issued + 1] = now]

\* One queued command after the other; exit 11 (update) wins over 12.
Receive(k) ==
    /\ pc = "exec"
    /\ Enqueue(k)
    /\ rc' = IF rc = "update" THEN rc ELSE "host"
    /\ UNCHANGED <<seen, inflight, history, pc, mode, cur, rest, op, after, backlog,
                   out, world, wfaults, runs>>

ReceiveUpdate ==
    /\ pc = "exec"
    /\ updates < MaxUpdates
    /\ updates' = updates + 1
    /\ rc' = "update"
    /\ UNCHANGED <<files, pc, mode, cur, rest, op, after, backlog, out, now, updating,
                   rebooting, kills, wfaults, asks, runs>>

\* The check-in ends; it may fail, or the container may die in it, after it
\* has appended requests.
CheckinEnds(fine) ==
    /\ pc = "exec"
    /\ rc' = IF fine THEN rc ELSE "fail"
    /\ Goto("poststamp")
    /\ UNCHANGED <<files, mode, cur, rest, op, after, backlog, out, world, wfaults,
                   asks, runs>>

\* Whatever the exit code, what was appended is dated at once.
PostStamp ==
    /\ pc = "poststamp"
    /\ \/ IF queue = {} THEN UNCHANGED <<seen, wfaults>> ELSE Stamp(backlog)
       \/ queue # {} /\ StampFails(backlog)
    /\ Goto("dispatch")
    /\ UNCHANGED <<queue, mtime, inflight, history, mode, cur, rest, op, after,
                   backlog, rc, out, world, asks, runs>>

\* Exit 12 drains the queue; a plain check-in drains leftovers, unless an update
\* is running: then they are only dated.  Exit 11 starts the update; a failed
\* check-in just ends.
LeftoverNever == FALSE  \* mutant: only exit 12 drains
Leftover == rc = "ok" /\ ~updating
Work == queue # {} \/ InFlight
DrainsNow == Work /\ (rc = "host" \/ Leftover)

Dispatch ==
    /\ pc = "dispatch"
    /\ updating' = (updating \/ rc = "update")
    /\ \/ /\ Work /\ (DrainsNow \/ rc = "ok")
          /\ Goto(IF DrainsNow THEN "stamp" ELSE "leave")
          /\ UNCHANGED <<mode, cur, rest, op, after, backlog, rc, out>>
       \/ ~(Work /\ (DrainsNow \/ rc = "ok")) /\ Quit
    /\ UNCHANGED <<files, now, rebooting, kills, updates, wfaults, asks, runs>>

LeaveStamp ==
    /\ pc = "leave"
    /\ Stamp(backlog) \/ StampFails(backlog)
    /\ Quit
    /\ UNCHANGED <<queue, mtime, inflight, history, world, asks, runs>>

----------------------------------------------------------------------------
(* host-action.sh, the drain.                                              *)

\* An operator runs host-action.sh --drain, or one action directly.
OperatorDrain ==
    /\ MayOperate
    /\ pc = "idle"
    /\ queue # {} \/ InFlight
    /\ Goto("stamp")
    /\ UNCHANGED <<files, mode, cur, rest, op, after, backlog, rc, out, world,
                   wfaults, asks, runs>>

OperatorRuns(k) ==
    /\ MayOperate
    /\ pc = "idle"
    /\ mode' = "direct" /\ op' = k
    /\ Goto("recover")
    /\ UNCHANGED <<files, cur, rest, after, backlog, rc, out, world, wfaults, asks, runs>>

DrainStamp ==
    /\ pc = "stamp"
    /\ Stamp(backlog) \/ StampFails(backlog)
    /\ Goto("recover")
    /\ UNCHANGED <<queue, mtime, inflight, history, mode, cur, rest, op, after,
                   backlog, rc, out, world, asks, runs>>

\* recover_interrupted: what became of the action in flight.
StillQueuedByKind ==  \* mutant: any request for the same action will do
    InFlight /\ \E g \in queue : kind[g] = inflight.k
StillQueued == InFlight /\ inflight.r \in queue
Superseded == \E g \in queue : kind[g] = inflight.k

Retries ==
    /\ InFlight /\ ~StillQueued /\ ~Superseded
    /\ inflight.k \in RetrySafe /\ inflight.att < MaxAttempts

NothingToRecover ==
    /\ pc = "recover"
    /\ ~InFlight
    /\ Goto("recovered")
    /\ UNCHANGED <<files, mode, cur, rest, op, after, backlog, rc, out, world,
                   wfaults, asks, runs>>

\* Recorded but never claimed: it runs from the queue.
ForgetUnclaimed ==
    /\ pc = "recover"
    /\ StillQueued
    /\ \/ inflight' = NoRecord /\ UNCHANGED wfaults
       \/ WriteFault /\ UNCHANGED inflight
    /\ Goto("recovered")
    /\ UNCHANGED <<queue, mtime, seen, history, mode, cur, rest, op, after, backlog,
                   rc, out, world, asks, runs>>

\* Interrupted for good: reported, then forgotten.
ReportInterrupted ==
    /\ pc = "recover"
    /\ InFlight /\ ~StillQueued /\ ~Retries
    /\ \/ history' = Report(inflight.r, "interrupted") /\ UNCHANGED wfaults
       \/ WriteFault /\ UNCHANGED history
    /\ after' = "recovered"
    /\ Goto("clear")
    /\ UNCHANGED <<queue, mtime, seen, inflight, mode, cur, rest, op, backlog, rc,
                   out, world, asks, runs>>

\* The retry is recorded as the next attempt first; if it cannot be, it is put
\* off and the record stays.
Retry ==
    /\ pc = "recover"
    /\ Retries
    /\ \/ /\ inflight' = [inflight EXCEPT !.att = @ + 1]
          /\ after' = "recovered"
          /\ Goto("run")
          /\ UNCHANGED wfaults
       \/ /\ WriteFault
          /\ Goto("recovered")
          /\ UNCHANGED <<inflight, after>>
    /\ UNCHANGED <<queue, mtime, seen, history, mode, cur, rest, op, backlog, rc,
                   out, world, asks, runs>>

\* A record still there holds the queue; an operator's action goes ahead.
Recovered ==
    /\ pc = "recovered"
    /\ IF mode = "drain" /\ InFlight
       THEN Quit
       ELSE /\ Goto(IF mode = "drain" THEN "head" ELSE "direct")
            /\ UNCHANGED <<mode, cur, rest, op, after, backlog, rc, out>>
    /\ UNCHANGED <<files, world, wfaults, asks, runs>>

\* run_tracked of an operator's action; it does not run if it is not recorded.
RecordDirect ==
    /\ pc = "direct"
    /\ inflight' = Record(0, op, 1)
    /\ after' = "idle"
    /\ Goto("run")
    /\ UNCHANGED <<queue, mtime, seen, history, mode, cur, rest, op, backlog, rc,
                   out, world, wfaults, asks, runs>>

DirectNotRecorded ==
    /\ pc = "direct"
    /\ WriteFault
    /\ Quit
    /\ UNCHANGED <<files, world, asks, runs>>

\* drain_queue reads the head of the queue and the lines after it.
ReadHead ==
    /\ pc = "head"
    /\ \/ queue = {} /\ Goto("final") /\ UNCHANGED <<cur, rest>>
       \/ \E r \in Reqs : /\ IsOldest(r)
                          /\ cur' = r /\ rest' = queue \ {r}
                          /\ Goto("decide")
    /\ UNCHANGED <<files, mode, op, after, backlog, rc, out, world, wfaults, asks, runs>>

\* The queue file is rewritten from what was read.
SetQueue == queue' = rest /\ mtime' = now

\* Too old to run: off the queue, then reported.
Expire ==
    /\ pc = "decide"
    /\ TooOld(cur)
    /\ \/ SetQueue /\ Goto("expired") /\ UNCHANGED wfaults
       \/ WriteFault /\ Goto("final") /\ UNCHANGED <<queue, mtime>>
    /\ UNCHANGED <<seen, inflight, history, mode, cur, rest, op, after, backlog, rc,
                   out, world, asks, runs>>

ReportExpired ==
    /\ pc = "expired"
    /\ \/ history' = Report(cur, "expired") /\ UNCHANGED wfaults
       \/ WriteFault /\ UNCHANGED history
    /\ Goto("head")
    /\ UNCHANGED <<queue, mtime, seen, inflight, mode, cur, rest, op, after, backlog,
                   rc, out, world, asks, runs>>

\* Claim: in flight first, then off the queue, and only then run.
ClaimRecord ==
    /\ pc = "decide"
    /\ ~TooOld(cur)
    /\ \/ inflight' = Record(cur, kind[cur], 1) /\ Goto("claim") /\ UNCHANGED wfaults
       \/ WriteFault /\ Goto("final") /\ UNCHANGED inflight
    /\ UNCHANGED <<queue, mtime, seen, history, mode, cur, rest, op, after, backlog,
                   rc, out, world, asks, runs>>

ClaimKept ==  \* mutant: the request stays in the queue
    /\ pc = "claim"
    /\ after' = "head" /\ Goto("run")
    /\ UNCHANGED <<files, mode, cur, rest, op, backlog, rc, out, world, wfaults, asks, runs>>
Claim ==
    /\ pc = "claim"
    /\ SetQueue
    /\ after' = "head"
    /\ Goto("run")
    /\ UNCHANGED <<seen, inflight, history, mode, cur, rest, op, backlog, rc, out,
                   world, wfaults, asks, runs>>

\* It cannot be taken off the queue: it is not run, and no longer in flight.
ClaimFails ==
    /\ pc = "claim"
    /\ WriteFault
    /\ inflight' \in {NoRecord, inflight}
    /\ Goto("final")
    /\ UNCHANGED <<queue, mtime, seen, history, mode, cur, rest, op, after, backlog,
                   rc, out, world, asks, runs>>

\* _run_claimed.
Start ==
    /\ pc = "run"
    /\ starts' = [r \in Reqs |-> IF r = inflight.r THEN starts[r] + 1 ELSE starts[r]]
    /\ Goto("running")
    /\ UNCHANGED <<files, mode, cur, rest, op, after, backlog, rc, out, world,
                   wfaults, asks, ended>>

\* A reboot is only set off; the script goes on until it happens.
ActionEnds ==
    /\ pc = "running"
    /\ out' \in IF inflight.k \in Reboots THEN {"ok"} ELSE {"ok", "failed"}
    /\ rebooting' = (rebooting \/ inflight.k \in Reboots)
    /\ ended' = ended \cup ({inflight.r} \cap Reqs)
    /\ Goto("report")
    /\ UNCHANGED <<files, mode, cur, rest, op, after, backlog, rc, now, updating,
                   kills, updates, wfaults, asks, starts>>

ReportOutcome ==
    /\ pc = "report"
    /\ \/ history' = Report(inflight.r, out) /\ UNCHANGED wfaults
       \/ WriteFault /\ UNCHANGED history
    /\ Goto("clear")
    /\ UNCHANGED <<queue, mtime, seen, inflight, mode, cur, rest, op, after, backlog,
                   rc, out, world, asks, runs>>

ClearRecord ==
    /\ pc = "clear"
    /\ \/ inflight' = NoRecord /\ UNCHANGED wfaults
       \/ WriteFault /\ UNCHANGED inflight
    /\ IF after = "idle"
       THEN Quit
       ELSE /\ Goto(after)
            /\ UNCHANGED <<mode, cur, rest, op, after, backlog, rc, out>>
    /\ UNCHANGED <<queue, mtime, seen, history, world, asks, runs>>

\* The ages of what was claimed are dropped at the end.
FinalStamp ==
    /\ pc = "final"
    /\ Stamp(0) \/ StampFails(0)
    /\ Quit
    /\ UNCHANGED <<queue, mtime, inflight, history, world, asks, runs>>

----------------------------------------------------------------------------
(* The world around the scripts.                                           *)

\* A unit of the clock is long against the steps from reading the head of the
\* queue to starting its action, and against one check-in, which is killed after
\* ten minutes: its appends share a unit.
TimePasses ==
    /\ now < MaxTime
    /\ pc \notin {"decide", "claim", "run"} /\ ~(pc = "exec" /\ rc # "ok")
    /\ now' = now + 1
    /\ UNCHANGED <<files, locals, updating, rebooting, kills, updates, wfaults, asks, runs>>

\* The script is killed: a timeout of its unit, an operator.
Killed ==
    /\ pc # "idle"
    /\ kills < MaxKills
    /\ kills' = kills + 1
    /\ Quit
    /\ UNCHANGED <<files, now, updating, rebooting, updates, wfaults, asks, runs>>

\* The box reboots, because an action asked for it or out of the blue.
Rebooted ==
    /\ \/ rebooting /\ UNCHANGED kills
       \/ kills < MaxKills /\ kills' = kills + 1
    /\ rebooting' = FALSE
    /\ updating' = FALSE
    /\ Quit
    /\ UNCHANGED <<files, now, updates, wfaults, asks, runs>>

UpdateEnds ==
    /\ updating
    /\ updating' = FALSE
    /\ UNCHANGED <<files, locals, now, rebooting, kills, updates, wfaults, asks, runs>>

\* A check-in that could not open the lock, or outlived the wrapper that was
\* killed with it, appends beside whoever holds the lock, and dates nothing.
UnlockedAppend(k) ==
    /\ MayUnlock
    /\ Enqueue(k)
    /\ UNCHANGED <<seen, inflight, history, locals, world, wfaults, runs>>

----------------------------------------------------------------------------
Checkin ==
    \/ PreStamp \/ PostStamp \/ Dispatch \/ LeaveStamp
    \/ CheckinEnds(TRUE)

Drain ==
    \/ DrainStamp
    \/ NothingToRecover \/ ForgetUnclaimed \/ ReportInterrupted \/ Retry \/ Recovered
    \/ RecordDirect \/ DirectNotRecorded
    \/ ReadHead \/ Expire \/ ReportExpired \/ ClaimRecord \/ Claim \/ ClaimFails
    \/ Start \/ ActionEnds \/ ReportOutcome \/ ClearRecord
    \/ FinalStamp

Dashboard == (\E k \in Kinds : Receive(k)) \/ ReceiveUpdate \/ CheckinEnds(FALSE)

Operator == OperatorDrain \/ \E k \in Kinds : OperatorRuns(k)

World ==
    \/ TimePasses \/ Killed \/ Rebooted \/ UpdateEnds
    \/ \E k \in Kinds : UnlockedAppend(k)

Next == CheckinStarts \/ Checkin \/ Drain \/ Dashboard \/ Operator \/ World

Spec == Init /\ [][Next]_vars

\* The timer starts check-ins, the dashboard can be reached again and again, no
\* script hangs, updates end, and a box that is rebooting does reboot.
Fairness ==
    /\ WF_vars(CheckinStarts)
    /\ WF_vars(Checkin) /\ SF_vars(CheckinEnds(TRUE))
    /\ WF_vars(Drain)
    /\ WF_vars(UpdateEnds)
    /\ WF_vars(Rebooted /\ rebooting)

FairSpec == Spec /\ Fairness

----------------------------------------------------------------------------
(* What the queue promises.                                                *)

PCs == {"idle", "prestamp", "exec", "poststamp", "dispatch", "leave", "stamp", "recover",
        "recovered", "direct", "head", "decide", "expired", "claim", "run",
        "running", "report", "clear", "final"}

\* Every variable stays in its type.
TypeOK ==
    /\ queue \in SUBSET Reqs /\ mtime \in 0..MaxTime
    /\ seen \in [Reqs -> None..MaxTime]
    /\ inflight \in [r : 0..MaxReq, k : Kinds \cup {NoKind}, att : 0..MaxAttempts]
    /\ history \in SUBSET (Reqs \X Outcomes)
    /\ pc \in PCs /\ mode \in {"drain", "direct"}
    /\ cur \in 0..MaxReq /\ rest \in SUBSET Reqs /\ op \in Kinds \cup {NoKind}
    /\ after \in {"idle", "head", "recovered"} /\ backlog \in 0..MaxReq
    /\ rc \in {"ok", "host", "update", "fail"} /\ out \in {"ok", "failed"}
    /\ now \in 1..MaxTime /\ updating \in BOOLEAN /\ rebooting \in BOOLEAN
    /\ kills \in 0..MaxKills /\ updates \in 0..MaxUpdates /\ wfaults \in 0..MaxWriteFaults
    /\ issued \in 0..MaxReq /\ kind \in [Reqs -> Kinds \cup {NoKind}]
    /\ asked \in [Reqs -> 0..MaxTime] /\ starts \in [Reqs -> 0..MaxAttempts]
    /\ ended \in SUBSET Reqs

\* However the script dies and whatever cannot be written: a disruptive action
\* starts at most once, a convergent one at most MAX_ATTEMPTS times.
StartsBounded ==
    \A r \in Reqs : starts[r] <= IF kind[r] \in RetrySafe THEN MaxAttempts ELSE 1

\* Starting an action is what no older request may still be waiting for: one in
\* the queue, or one that was started, never ran to its end and has no outcome.
Owed(r) == r \in queue \/ (starts[r] > 0 /\ r \notin ended /\ ~Settled(r))
StartsInOrder ==
    [][\A r \in Reqs : starts'[r] > starts[r] => \A g \in 1..(r - 1) : ~Owed(g)]_vars

\* A disruptive request starts only within its limit, counted from when it was
\* really appended, however often the queue file was rewritten since.
NoStaleDisruption ==
    [][\A r \in Reqs : starts'[r] > starts[r] /\ kind[r] \notin RetrySafe
          => now - asked[r] <= ShortLimit]_vars

\* A request that was issued is queued, in flight, in the hands of the script, or
\* has an outcome: none vanishes.
NothingVanishes ==
    \A r \in 1..issued : \/ r \in queue \/ inflight.r = r \/ Settled(r)
                         \/ pc = "expired" /\ cur = r

\* The record of an action in flight makes way only for what is queued again, or
\* once the action was reported.
RecordKept ==
    [][\A r \in Reqs : inflight.r = r /\ inflight'.r # r /\ pc # "clear" => r \in queue]_vars

\* No action starts under a running update.
UpdateUndisturbed == [][\A r \in Reqs : starts'[r] > starts[r] => ~updating]_vars

\* Every request that is ever issued gets an outcome in the end, and keeps it.
EverySettled == <>[](\A r \in 1..issued : Settled(r))

\* A request is accounted for at every instant, and settled in the end.
RequestsAccounted == []NothingVanishes /\ EverySettled
=============================================================================
