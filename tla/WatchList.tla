------------------------------ MODULE WatchList ------------------------------
(***************************************************************************)
(* Active monitoring of core devices (watch.py; the glue in checkin.py).   *)
(*                                                                         *)
(* A check-in posts the pending report, and once it is taken removes it    *)
(* and stores the list of the answer.  Answered or not, it ends with one   *)
(* cycle: every target is pinged, the state machine of each advances, the  *)
(* edges are folded into the report the next check-in carries, the report  *)
(* is written and then the state.                                          *)
(*                                                                         *)
(* The dashboard is external: it takes an event unless it has one with the *)
(* same sequence number.                                                   *)
(***************************************************************************)
EXTENDS Integers, FiniteSets, SequencesExt

CONSTANTS
    Keys,            \* devices
    Lists,           \* lists the dashboard may push: functions from keys to addresses
    DownAfterFails,  \* DOWN_AFTER_FAILS
    BlindProbes,     \* probes without an answer that make a cycle without gateway blind
    MaxPending,      \* MAX_PENDING_EVENTS
    MaxSeq,          \* bound: events numbered
    MaxWatchKills    \* bound: check-ins killed

ASSUME WatchBounds ==
    /\ DownAfterFails \in Nat \ {0} /\ BlindProbes \in Nat \ {0} /\ MaxPending \in Nat \ {0}
    /\ MaxSeq \in Nat /\ MaxWatchKills \in Nat
    /\ IsFiniteSet(Keys) /\ "view" \notin Keys /\ \A L \in Lists : DOMAIN L \subseteq Keys

VARIABLES
    list,        \* watch-targets.json
    devices,     \* watch-state.json: the state of each target
    seq, blind,  \* watch-state.json: the event counter, and whether the view is lost
    report,      \* watch-report.json: the events not yet delivered
    dropped,     \* watch-report.json: events dropped at the cap
    turn,        \* where the check-in is
    next,        \* the state and the report of this cycle, in memory
    taken,       \* events the dashboard has (external)
    mistaken,    \* events it took for one it had (history)
    earned,      \* addresses that answered while watched without a break (history)
    misses,      \* answers in a row each target owes, unless the gateway was dead too (history)
    joined,      \* the event number when each key last entered the state (history)
    watchKills

watchVars == <<list, devices, seq, blind, report, dropped, turn, next, taken, mistaken, earned,
               misses, joined, watchKills>>
boxState == <<devices, seq, blind>>

Fresh(ip) == [state |-> "unknown", fails |-> 0, up |-> FALSE, ip |-> ip]

WatchInit ==
    /\ list \in Lists /\ devices = <<>> /\ seq = 0 /\ blind = FALSE
    /\ report = <<>> /\ dropped = FALSE /\ turn = "idle" /\ next = <<>>
    /\ taken = {} /\ mistaken = {} /\ earned = {} /\ misses = [k \in Keys |-> 0]
    /\ joined = [k \in Keys |-> 0] /\ watchKills = 0

----------------------------------------------------------------------------
(* step: the pure state machine of one cycle; R gives the answer of each target, *)
(* "skip" where the time ran out.                                                *)

\* Nothing answered, and the gateway is dead or, without one, enough were probed.
Probed(R) == {k \in DOMAIN R : R[k] # "skip"}
IsBlind(R, gw) ==
    /\ \A k \in DOMAIN R : R[k] # "up"
    /\ \/ gw = "dead"
       \/ gw = "none" /\ Cardinality(Probed(R)) >= BlindProbes

\* A new address for the same device must earn its positive control again.
KeepsHistory(k) ==      \* mutant: the state survives a change of address
    IF k \in DOMAIN devices THEN [devices[k] EXCEPT !.ip = list[k]] ELSE Fresh(list[k])
Entering(k) ==
    IF k \in DOMAIN devices /\ devices[k].ip = list[k] THEN devices[k] ELSE Fresh(list[k])

\* A target that never answered from here is unreachable, never down.
Failed1(s) ==
    LET n == IF s.fails < DownAfterFails THEN s.fails + 1 ELSE s.fails
    IN  [s EXCEPT !.fails = n,
                  !.state = IF ~s.up THEN "never"
                            ELSE IF n >= DownAfterFails THEN "down" ELSE @]
Advanced(s, r, b) ==
    CASE r = "up"           -> [s EXCEPT !.up = TRUE, !.state = "up", !.fails = 0]
      [] r = "down" /\ ~b   -> Failed1(s)
      [] OTHER              -> s

\* A target that has left the address it was down at clears it; one that enters starts
\* over, so it has no second edge in the same cycle.
EdgesOf(k, R, b) ==
    LET s == Entering(k)
        t == Advanced(s, R[k], b)
        gone == k \in DOMAIN devices /\ devices[k].ip # list[k] /\ devices[k].state = "down"
        e(edge, ip) == {[key |-> k, edge |-> edge, ip |-> ip]}
    IN  (IF gone THEN e("cleared", devices[k].ip) ELSE {}) \cup
        (IF s.state = "down" /\ t.state = "up" THEN e("up", t.ip)
         ELSE IF s.state # "down" /\ t.state = "down" THEN e("down", t.ip) ELSE {})

\* The view comes first, then the targets; each event takes the next number.
ViewOf(b) ==
    IF b = blind THEN <<>>
    ELSE <<[key |-> "view", edge |-> IF b THEN "blind" ELSE "sighted", ip |-> 0]>>
Numbered(all) ==
    [i \in DOMAIN all |->
        [key |-> all[i].key, edge |-> all[i].edge, ip |-> all[i].ip, seq |-> seq + i]]

\* merge_report: the new events after the pending ones, the oldest beyond the cap go.
NotMerged(new) == new    \* mutant: the cycle overwrites what is pending
Merged(new) ==
    LET all == report \o new
    IN  IF Len(all) > MaxPending THEN SubSeq(all, Len(all) - MaxPending + 1, Len(all)) ELSE all

----------------------------------------------------------------------------
\* run_checkin posts the report it has read; it may arrive although the answer is
\* lost.  The dashboard tells events apart by their number.
Take ==
    LET known(e) == \E f \in taken : f.seq = e.seq
    IN  /\ taken' = taken \cup {e \in ToSet(report) : ~known(e)}
        /\ mistaken' = mistaken \cup {e \in ToSet(report) : known(e) /\ e \notin taken}
PostReport ==
    /\ turn = "idle"
    /\ \/ Take /\ turn' = "clear"
       \/ Take /\ turn' = "probe"
       \/ turn' = "probe" /\ UNCHANGED <<taken, mistaken>>
    /\ UNCHANGED <<list, boxState, report, dropped, next, earned, misses, joined,
                   watchKills>>

ClearReport ==
    /\ turn = "clear"
    /\ report' = <<>> /\ turn' = "list"
    /\ UNCHANGED <<list, boxState, dropped, next, taken, mistaken, earned, misses, joined,
                   watchKills>>

\* accept_targets: no list, a refused one, or a new one.
AcceptTargets ==
    /\ turn = "list"
    /\ list' \in Lists \cup {list}
    /\ turn' = "probe"
    /\ UNCHANGED <<boxState, report, dropped, next, taken, mistaken, earned, misses, joined,
                   watchKills>>

\* The cycle in memory: the state it leaves, and the report with the new events.
Cycle(R, gw, new) ==
    LET b == IsBlind(R, gw)
        same(k) == k \in DOMAIN list /\ k \in DOMAIN devices /\ devices[k].ip = list[k]
        answers(k) == k \in DOMAIN list /\ R[k] = "up"
        lost == gw = "dead" /\ \A k \in Keys : ~answers(k)
        owed(k) == IF same(k) THEN misses[k] ELSE 0
    IN  [devices |-> [k \in DOMAIN list |-> Advanced(Entering(k), R[k], b)],
         seq |-> seq + Len(new), blind |-> b, report |-> Merged(new),
         earned |-> {k \in Keys : answers(k) \/ (same(k) /\ k \in earned)},
         misses |-> [k \in Keys |->
             IF answers(k) THEN 0
             ELSE IF k \in Probed(R) /\ ~lost /\ owed(k) < DownAfterFails
                  THEN owed(k) + 1 ELSE owed(k)],
         joined |-> [k \in Keys |-> IF k \in DOMAIN list \ DOMAIN devices
                                    THEN seq ELSE joined[k]]]
\* run_cycle, up to its writes.  An empty list ends it.
RunCycle(R, gw) ==
    /\ turn = "probe" /\ DOMAIN R = DOMAIN list
    /\ IF DOMAIN list = {}
       THEN turn' = "idle" /\ UNCHANGED <<next, dropped>>
       ELSE LET b == IsBlind(R, gw)
            IN  \E edges \in SetToSeqs(UNION {EdgesOf(k, R, b) : k \in DOMAIN list}) :
                   LET new == Numbered(ViewOf(b) \o edges)
                   IN  /\ seq + Len(new) <= MaxSeq
                       /\ next' = Cycle(R, gw, new)
                       /\ dropped' = (dropped \/ Len(report) + Len(new) > MaxPending)
                       /\ turn' = "report"
    /\ UNCHANGED <<list, boxState, report, taken, mistaken, earned, misses, joined, watchKills>>

WriteReport ==
    /\ turn = "report"
    /\ report' = next.report /\ turn' = "state"
    /\ UNCHANGED <<list, boxState, dropped, next, taken, mistaken, earned, misses, joined,
                   watchKills>>
WriteState ==
    /\ turn = "state"
    /\ devices' = next.devices /\ seq' = next.seq /\ blind' = next.blind
    /\ earned' = next.earned /\ misses' = next.misses /\ joined' = next.joined
    /\ next' = <<>> /\ turn' = "idle"
    /\ UNCHANGED <<list, report, dropped, taken, mistaken, watchKills>>

WatchKilled ==
    /\ turn # "idle" /\ watchKills < MaxWatchKills
    /\ watchKills' = watchKills + 1 /\ turn' = "idle" /\ next' = <<>>
    /\ UNCHANGED <<list, boxState, report, dropped, taken, mistaken, earned, misses,
                   joined>>

WatchNext ==
    \/ PostReport \/ ClearReport \/ AcceptTargets
    \/ \E R \in [DOMAIN list -> {"up", "down", "skip"}] : \E gw \in {"alive", "dead", "none"} :
          RunCycle(R, gw)
    \/ WriteReport \/ WriteState \/ WatchKilled

WatchSpec == WatchInit /\ [][WatchNext]_watchVars

----------------------------------------------------------------------------
Addresses == UNION {Range(L) : L \in Lists}
Events == [key : Keys \cup {"view"}, edge : {"down", "up", "cleared", "blind", "sighted"},
           ip : Addresses \cup {0}, seq : 1..MaxSeq]
WatchTypeOK ==
    /\ list \in Lists /\ DOMAIN devices \subseteq Keys
    /\ \A k \in DOMAIN devices : devices[k] \in
          [state : {"unknown", "never", "up", "down"}, fails : 0..DownAfterFails, up : BOOLEAN,
           ip : Addresses]
    /\ seq \in 0..MaxSeq /\ blind \in BOOLEAN /\ report \in Seq(Events)
    /\ Len(report) <= MaxPending /\ dropped \in BOOLEAN
    /\ turn \in {"idle", "clear", "list", "probe", "report", "state"}
    /\ taken \subseteq Events /\ mistaken \subseteq Events
    /\ earned \subseteq Keys /\ misses \in [Keys -> 0..DownAfterFails]
    /\ joined \in [Keys -> 0..MaxSeq] /\ watchKills \in 0..MaxWatchKills

\* A device is down only if it has answered this box at its present address and
\* then failed the whole row of recorded cycles in which the box could see.
DownEarned ==
    /\ WatchTypeOK
    /\ \A k \in DOMAIN devices :
        devices[k].state = "down" => k \in earned /\ misses[k] >= DownAfterFails

\* The edges the dashboard has for a key, since it entered the state of the box.
EdgesTaken(k) == {e \in taken : e.key = k /\ e.seq > joined[k]}
Newest(S) == CHOOSE e \in S : \A f \in S : f.seq <= e.seq
\* Once a report has been delivered and nothing was dropped, the last edge the
\* dashboard has of a watched device agrees with the box.
EdgesDelivered ==
    watchKills = 0 /\ ~dropped /\ turn = "list" =>
        \A k \in DOMAIN devices :
            devices[k].state = "down" <=>
                EdgesTaken(k) # {} /\ Newest(EdgesTaken(k)).edge = "down"

\* The module's words on delivery (watch.py:43-46, 407-408): a kill between the two
\* writes may send an edge again, which its number lets the dashboard drop, but never
\* loses one.  So no event may be taken for another because of its number.
NoEdgeMistaken == mistaken = {}
=============================================================================
