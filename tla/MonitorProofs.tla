----------------------------- MODULE MonitorProofs -----------------------------
(***************************************************************************)
(* What the box watches by the clock, for every number of destinations,    *)
(* networks, slots, devices, faults and kills: a capture blames a hop only *)
(* on evidence of the same destination, captures and edges are delivered,  *)
(* probes keep their pace, a device is down only when it has earned it,    *)
(* and scans keep apart without forgetting a network.                      *)
(***************************************************************************)
EXTENDS WanLadder, WanPath, WatchList, ProbeSlots, ScanCadence, ListLemmas,
        FiniteSetTheorems, WellFoundedInduction, TLAPS

----------------------------------------------------------------------------
(* The evidence ladder.                                                    *)

\* Every address the baseline has at a hop, and its deepest hop, was seen by a trace
\* to the destination it names now.
Walked ==
    /\ \A i \in 1..MaxHops : baseline.hopIps[i] # {} => <<baseline.dest, i>> \in walked
    /\ baseline.deepest # 0 => <<baseline.dest, baseline.deepest>> \in walked
    /\ baseline.dest = "none" => baseline = NoBaseline

LadderIInv == BreakIsReal /\ Walked

\* The greatest number of a bounded set.
LEMMA MaxOfBounded ==
    ASSUME NEW N \in Nat, NEW S \in SUBSET (0..N), S # {}
    PROVE  Max(S) \in S /\ \A y \in S : Max(S) >= y
<1> DEFINE T == {N - y : y \in S}
<1>0. \A y \in S : y \in 0..N /\ N - y \in Nat
  OBVIOUS
<1>1. T \in SUBSET Nat /\ T # {}
  BY <1>0, Zenon
<1>2. IsWellFoundedOn(OpToRel(<, Nat), Nat)
  BY NatLessThanWellFounded
<1>3. PICK n \in T : \A m \in T : <<m, n>> \notin OpToRel(<, Nat)
  <2> HIDE DEF T
  <2> QED BY <1>1, <1>2, WFMin
<1>4. \A m \in T : ~(m < n)
  BY <1>1, <1>3 DEF OpToRel
<1>5. PICK x \in S : n = N - x
  BY <1>3
<1>6. \A y \in S : x >= y
  BY <1>4, <1>5
<1>7. \E z \in S : \A y \in S : z >= y
  BY <1>6
<1> QED BY <1>7, Zenon DEF Max

\* The last hop of a trace that answered, or none.
LEMMA LastHop ==
    ASSUME NEW t \in Traces(dest)
    PROVE  /\ LastResponding(t) \in 0..MaxHops /\ DOMAIN t \subseteq 1..MaxHops
           /\ \A i \in DOMAIN t : t[i] \in Dests \cup Routers \cup {"*"} \cup {dest}
<1>1. PICK n \in 0..MaxHops, r \in BOOLEAN, w \in [1..MaxHops -> Answers] :
          t = [i \in 1..n |-> IF i = n /\ r THEN dest ELSE w[i]]
  BY DEF Traces, Walks
<1>2. DOMAIN t = 1..n /\ n \in Nat /\ MaxHops \in Nat /\ n <= MaxHops
  BY <1>1, LadderBounds
<1>3. \A i \in DOMAIN t : t[i] \in Routers \cup {"*"} \cup {dest}
  BY <1>1, <1>2 DEF Answers
<1>4. {0} \cup {i \in DOMAIN t : t[i] # "*"} \in SUBSET (0..MaxHops)
  BY <1>2
<1>5. LastResponding(t) \in {0} \cup {i \in DOMAIN t : t[i] # "*"}
  BY <1>4, <1>2, MaxOfBounded DEF LastResponding
<1>6. LastResponding(t) \in 0..MaxHops
  BY <1>4, <1>5
<1> QED BY <1>2, <1>3, <1>6

\* Before the first run there is neither a baseline nor a capture.
LEMMA LadderStarts == LadderInit => LadderIInv
<1> SUFFICES ASSUME LadderInit PROVE LadderIInv
  OBVIOUS
<1> USE LadderBounds DEF LadderInit
<1>1. baseline \in [dest : Dests \cup {"none"},
                    hopIps : [1..MaxHops -> SUBSET (Dests \cup Routers)], deepest : 0..MaxHops]
  BY DEF NoBaseline
<1>2. finding \in [dest : Dests \cup {"none"}, connected : BOOLEAN, last : 0..MaxHops,
                   code : Codes, break : 0..MaxHops]
  BY DEF NoFinding, NoBreak, Codes
<1>3. LadderTypeOK
  BY <1>1, <1>2 DEF LadderTypeOK
<1>4. BreakIsReal
  BY <1>3 DEF BreakIsReal, NoFinding, NoBreak
<1>5. Walked
  BY DEF Walked, NoBaseline
<1> QED BY <1>4, <1>5 DEF LadderIInv

\* The targets of the configuration change: nothing measured does.
LEMMA RetargetKeeps == LadderIInv /\ Retarget => LadderIInv'
BY DEF LadderIInv, BreakIsReal, LadderTypeOK, Walked, Retarget

\* A trace is merged into the baseline of its own destination only.
LEMMA RefreshKeeps ==
    ASSUME LadderIInv, NEW t \in Traces(dest), RefreshBaseline(t)
    PROVE  LadderIInv'
<1> DEFINE old  == IF baseline.dest \in {dest, "none"} THEN baseline ELSE NoBaseline
           hops == {j \in DOMAIN t : t[j] # "*"}
           seen == [i \in 1..MaxHops |->
                       old.hopIps[i] \cup IF i \in DOMAIN t /\ t[i] # "*" THEN {t[i]} ELSE {}]
           tops == {0} \cup {i \in 1..MaxHops : seen[i] # {}}
           both == {old.deepest, Max(tops)}
<1>0. /\ dest \in Dests /\ MaxHops \in Nat \ {0} /\ "none" \notin Dests
      /\ walked \subseteq Dests \X (1..MaxHops) /\ ladders \in 0..MaxLadders
      /\ MaxLadders \in Nat
      /\ baseline \in [dest : Dests \cup {"none"},
                       hopIps : [1..MaxHops -> SUBSET (Dests \cup Routers)], deepest : 0..MaxHops]
  BY LadderBounds DEF LadderIInv, BreakIsReal, LadderTypeOK
<1>1. /\ DOMAIN t \subseteq 1..MaxHops
      /\ \A i \in DOMAIN t : t[i] \in Dests \cup Routers \cup {"*"}
  BY LastHop, <1>0
<1>2. walked' = walked \cup {<<dest, i>> : i \in hops}
  BY DEF RefreshBaseline
<1>3. /\ old.hopIps \in [1..MaxHops -> SUBSET (Dests \cup Routers)] /\ old.deepest \in 0..MaxHops
      /\ \A i \in 1..MaxHops : old.hopIps[i] # {} => <<dest, i>> \in walked
      /\ old.deepest # 0 => <<dest, old.deepest>> \in walked
  <2>1. CASE baseline.dest = dest
    BY <2>1, <1>0 DEF LadderIInv, Walked
  <2>2. CASE baseline.dest # dest
    <3>1. old = NoBaseline
      BY <2>2, <1>0 DEF LadderIInv, Walked
    <3> QED BY <3>1, <1>0 DEF NoBaseline
  <2> QED BY <2>1, <2>2
<1> HIDE DEF old
<1>4. seen \in [1..MaxHops -> SUBSET (Dests \cup Routers)]
  BY <1>1, <1>3
<1>5. \A i \in 1..MaxHops : seen[i] # {} => <<dest, i>> \in walked'
  <2> SUFFICES ASSUME NEW i \in 1..MaxHops, seen[i] # {} PROVE <<dest, i>> \in walked'
    OBVIOUS
  <2>1. CASE i \in hops
    BY <2>1, <1>2
  <2>2. CASE i \notin hops
    <3>1. seen[i] = old.hopIps[i]
      BY <2>2
    <3> QED BY <3>1, <1>2, <1>3
  <2> QED BY <2>1, <2>2
<1> HIDE DEF seen
<1>6. Max(tops) \in 0..MaxHops /\ (Max(tops) # 0 => <<dest, Max(tops)>> \in walked')
  <2>1. tops \in SUBSET (0..MaxHops) /\ tops # {}
    BY <1>0
  <2>2. Max(tops) \in tops
    <3> HIDE DEF tops
    <3> QED BY <2>1, <1>0, MaxOfBounded
  <2> QED BY <2>1, <2>2, <1>5
<1> HIDE DEF tops
<1>7. Max(both) \in 0..MaxHops /\ (Max(both) # 0 => <<dest, Max(both)>> \in walked')
  <2>1. both \in SUBSET (0..MaxHops) /\ both # {}
    BY <1>3, <1>6
  <2>2. Max(both) \in both
    <3> HIDE DEF both
    <3> QED BY <2>1, <1>0, MaxOfBounded
  <2> QED BY <2>1, <2>2, <1>2, <1>3, <1>6
<1> HIDE DEF both
<1>8. baseline' = IF t = <<>> THEN baseline
                  ELSE [dest |-> dest, hopIps |-> seen, deepest |-> Max(both)]
  BY DEF RefreshBaseline, MergedBaseline, seen, old, tops, both
<1>9. baseline' \in [dest : Dests \cup {"none"},
                     hopIps : [1..MaxHops -> SUBSET (Dests \cup Routers)], deepest : 0..MaxHops]
  BY <1>0, <1>4, <1>7, <1>8
<1>10. Walked'
  <2>1. CASE t = <<>>
    BY <2>1, <1>8, <1>2 DEF LadderIInv, Walked, NoBaseline
  <2>2. CASE t # <<>>
    <3>1. baseline' = [dest |-> dest, hopIps |-> seen, deepest |-> Max(both)]
      BY <2>2, <1>8
    <3>2. baseline'.dest = dest /\ baseline'.hopIps = seen /\ baseline'.deepest = Max(both)
      BY <3>1
    <3> QED BY <3>2, <1>0, <1>5, <1>7 DEF Walked
  <2> QED BY <2>1, <2>2
<1>11. walked' \subseteq Dests \X (1..MaxHops)
  BY <1>0, <1>1, <1>2
<1>12. LadderTypeOK'
  BY <1>0, <1>9, <1>11 DEF LadderTypeOK, LadderIInv, BreakIsReal, RefreshBaseline, Ladder
<1>13. BreakIsReal'
  <2>1. finding = NoFinding /\ finding' = finding
    BY DEF RefreshBaseline, Ladder
  <2> QED BY <1>12, <2>1 DEF BreakIsReal, NoFinding, NoBreak
<1> QED BY <1>10, <1>13 DEF LadderIInv

\* A capture attaches a break only to a path found broken, against the baseline of
\* the destination it traced.
LEMMA CaptureKeeps ==
    ASSUME LadderIInv, NEW t \in Traces(dest),
           NEW gateway \in {"alive", "dead", "none"}, NEW controls \in SUBSET BOOLEAN,
           NEW dashboard \in BOOLEAN, NEW dns \in BOOLEAN, NEW icmp \in BOOLEAN,
           Capture(t, gateway, controls, dashboard, dns, icmp)
    PROVE  LadderIInv'
<1> DEFINE code == Decide(gateway, controls, dashboard, dns, icmp)
           last == LastResponding(t)
           break == IF code \in {"wan_down", "tcp_blocked"} THEN Compare(baseline, t, dest)
                    ELSE NoBreak
<1>0. /\ dest \in Dests /\ MaxHops \in Nat \ {0} /\ MinShortfall \in Nat \ {0}
      /\ ladders \in 0..MaxLadders /\ MaxLadders \in Nat /\ baseline.deepest \in 0..MaxHops
  BY LadderBounds DEF LadderIInv, BreakIsReal, LadderTypeOK
<1>1. last \in 0..MaxHops
  BY LastHop
<1>2. finding' = [dest |-> dest, connected |-> TRUE \in controls, last |-> last,
                  code |-> code, break |-> break]
  BY DEF Capture, LastResponding
<1>3. code \in Codes
  BY DEF Decide, Codes
<1>4. code \in {"wan_down", "tcp_blocked"} => TRUE \notin controls
  BY DEF Decide
<1> HIDE DEF last
<1>5. Compare(baseline, t, dest) \in {NoBreak, last}
  BY DEF Compare, last
<1>6. Compare(baseline, t, dest) # NoBreak =>
          baseline.dest = dest /\ last # 0 /\ baseline.deepest - last >= MinShortfall
  BY <1>0, <1>1 DEF Compare, last
<1> HIDE DEF code
<1>7. finding' \in [dest : Dests \cup {"none"}, connected : BOOLEAN, last : 0..MaxHops,
                    code : Codes, break : 0..MaxHops]
  BY <1>0, <1>1, <1>2, <1>3, <1>5 DEF NoBreak
<1>8. LadderTypeOK'
  BY <1>0, <1>7 DEF LadderTypeOK, LadderIInv, BreakIsReal, Capture, Ladder
<1>9. break # NoBreak =>
          /\ TRUE \notin controls /\ break = last /\ baseline.dest = dest
          /\ baseline.deepest - last >= MinShortfall /\ last # 0
  BY <1>4, <1>5, <1>6
<1> HIDE DEF break
<1>10. break # NoBreak => baseline.deepest \in 1..MaxHops /\ <<dest, baseline.deepest>> \in walked
  BY <1>0, <1>1, <1>9 DEF LadderIInv, Walked
<1>11. walked' = walked /\ baseline' = baseline
  BY DEF Capture
<1>12. /\ finding'.dest = dest /\ (finding'.connected <=> TRUE \in controls)
       /\ finding'.last = last /\ finding'.break = break
  BY <1>2
<1>13. BreakIsReal'
  BY <1>8, <1>9, <1>10, <1>11, <1>12 DEF BreakIsReal
<1>14. Walked'
  BY <1>11 DEF LadderIInv, Walked, NoBaseline
<1> QED BY <1>13, <1>14 DEF LadderIInv

\* No step breaks the invariant of the ladder.
LEMMA LadderStep == LadderIInv /\ [LadderNext]_ladderVars => LadderIInv'
<1> SUFFICES ASSUME LadderIInv, [LadderNext]_ladderVars PROVE LadderIInv'
  OBVIOUS
<1>1. CASE Retarget
  BY <1>1, RetargetKeeps
<1>2. ASSUME NEW t \in Traces(dest), RefreshBaseline(t) PROVE LadderIInv'
  BY <1>2, RefreshKeeps
<1>3. ASSUME NEW t \in Traces(dest), NEW gateway \in {"alive", "dead", "none"},
             NEW controls \in SUBSET BOOLEAN, NEW dashboard \in BOOLEAN, NEW dns \in BOOLEAN,
             NEW icmp \in BOOLEAN, Capture(t, gateway, controls, dashboard, dns, icmp)
      PROVE LadderIInv'
  BY <1>3, CaptureKeeps
<1>4. CASE UNCHANGED ladderVars
  BY <1>4 DEF ladderVars, LadderIInv, BreakIsReal, LadderTypeOK, Walked, NoBaseline
<1> QED BY <1>1, <1>2, <1>3, <1>4 DEF LadderNext

\* A capture names the hop where the path breaks only if no control connected, if that
\* hop is the last that answered, and if a trace to the very same destination has once
\* been answered clearly further on: decide, compare and merge_baseline, for every
\* number of destinations, routers, hops and runs.
THEOREM BreaksAreReal == LadderSpec => []BreakIsReal
<1>1. LadderInit => LadderIInv
  BY LadderStarts
<1>2. LadderIInv /\ [LadderNext]_ladderVars => LadderIInv'
  BY LadderStep
<1>3. LadderIInv => BreakIsReal
  BY DEF LadderIInv
<1> QED BY <1>1, <1>2, <1>3, PTL DEF LadderSpec

----------------------------------------------------------------------------
(* The scheduled probes.                                                   *)

\* The check-in of this tick was answered, or got no answer at all.
StagesAnswered ==
    /\ stage \in {"iperf", "ledger", "speed", "last", "cool"} => answered = "ok"
    /\ stage \in {"missed", "missedLedger"} => answered = "dead"

\* Every run of a slot is in its ledger, or is about to be written there.
FiresBooked ==
    /\ \A f \in fires :
          /\ f.day <= Day
          /\ f.day = Day => slotDay[f.slot] = Day \/ (stage = "ledger" /\ SlotDue(f.slot))
    /\ \A f, g \in fires : f.slot = g.slot /\ f.day = g.day => f = g

\* The ledgers of the speed test hold the time of its last run and the end of the
\* cooldown of a refusal; a run that has just ended is about to be written there.
TestsBooked ==
    /\ \A t \in tests : t.when <= now /\ (t.when <= lastRun \/ (stage = "last" /\ t.when = now))
    /\ lastRun = Never \/ \E t \in tests : t.when = lastRun
    /\ stage \in {"last", "cool"} => [when |-> now, verdict |-> verdict] \in tests
    /\ coolUntil = Never
           \/ \E t \in tests : t.verdict = "unavailable" /\ coolUntil = t.when + Cooldown
    /\ \A t, u \in tests : t.when < u.when => u.when - t.when >= Interval

\* So does the ledger of the recorded non-attempts.
RowsBooked ==
    /\ \A t \in rows : t <= now /\ (t <= missed \/ (stage = "missedLedger" /\ t = now))
    /\ missed = Never \/ missed \in rows
    /\ stage = "missedLedger" => now \in rows
    /\ \A t, u \in rows : t < u => u - t >= Interval

\* All of it while no ledger write failed and the clock was steady.
Steady ==
    /\ skew = 0 /\ StagesAnswered /\ FiresBooked /\ TestsBooked /\ RowsBooked /\ SpeedAccounted

SlotIInv == SlotTypeOK /\ (slotFaults = 0 => Steady)

\* The day of a tick is a number, and days do not go back.
LEMMA DayFacts ==
    ASSUME NEW a \in Nat, NEW b \in Nat, a <= b
    PROVE  a \div DayLength \in Nat /\ a \div DayLength <= b \div DayLength
<1>1. DayLength \in Nat \ {0}
  BY SlotBounds
<1> QED BY <1>1

\* The numbers of the probes.
LEMMA SlotNumbers ==
    ASSUME SlotTypeOK
    PROVE  /\ now \in Nat /\ skew \in Nat /\ Clock \in Nat /\ Day \in Nat
           /\ lastRun \in Int /\ coolUntil \in Int /\ missed \in Int
           /\ Interval \in Nat \ {0} /\ Cooldown \in Nat /\ MaxNow \in Nat /\ now <= MaxNow
           /\ Never = -(Interval + Cooldown + 1)
           /\ \A t \in tests : t.when \in Nat
           /\ \A t \in rows : t \in Nat
<1>1. now \in Nat /\ skew \in Nat /\ Clock \in Nat
  BY SlotBounds DEF SlotTypeOK, Clock, Instants
<1>2. Day \in Nat
  BY <1>1, DayFacts DEF Day
<1> QED BY <1>1, <1>2, SlotBounds DEF SlotTypeOK, Never, Instants

\* Before the first check-in every ledger is empty.
LEMMA SlotsStart == SlotInit => SlotIInv
<1> SUFFICES ASSUME SlotInit PROVE SlotIInv
  OBVIOUS
<1> USE SlotBounds DEF SlotInit
<1>1. SlotTypeOK
  BY DEF SlotTypeOK, Instants, Never, Verdicts
<1>2. Steady
  BY DEF Steady, StagesAnswered, FiresBooked, TestsBooked, RowsBooked, SpeedAccounted, CheckedIn
<1> QED BY <1>1, <1>2 DEF SlotIInv

\* Every step keeps the probes in their types.
LEMMA SlotTypes == SlotTypeOK /\ [SlotNext]_slotVars => SlotTypeOK'
<1> SUFFICES ASSUME SlotTypeOK, [SlotNext]_slotVars PROVE SlotTypeOK'
  OBVIOUS
<1>0. /\ now \in 0..MaxNow /\ skew \in Nat /\ Clock \in Nat /\ Day \in Nat
      /\ Interval \in Nat /\ Cooldown \in Nat /\ MaxNow \in Nat /\ MaxSlotFaults \in Nat
      /\ Never \in Int
  BY SlotNumbers, SlotBounds DEF SlotTypeOK, Instants
<1>1. ASSUME NEW o \in {"ok", "error", "dead"}, Checkin(o) PROVE SlotTypeOK'
  BY <1>1 DEF SlotTypeOK, Checkin, ledgers
<1>2. CASE RunIperf
  <2>1. \A f \in {[slot |-> s, when |-> now, day |-> Day] : s \in {s \in Slots : SlotDue(s)}} :
            f \in [slot : Slots, when : Instants, day : Nat]
    BY <1>0 DEF Instants
  <2>2. fires' \subseteq [slot : Slots, when : Instants, day : Nat]
    BY <1>2, <2>1 DEF SlotTypeOK, RunIperf
  <2> QED BY <1>2, <2>2 DEF SlotTypeOK, RunIperf, ledgers
<1>3. CASE SaveSlots
  <2>1. slotDay' \in [Slots -> Int]
    BY <1>3, <1>0 DEF SlotTypeOK, SaveSlots
  <2>2. slotFaults' \in 0..MaxSlotFaults
    BY <1>3, <1>0 DEF SlotTypeOK, SaveSlots, SlotFault
  <2> QED BY <1>3, <2>1, <2>2 DEF SlotTypeOK, SaveSlots
<1>4. CASE SkipSpeed
  BY <1>4 DEF SlotTypeOK, SkipSpeed, ledgers
<1>5. ASSUME NEW v \in Verdicts, RunSpeed(v) PROVE SlotTypeOK'
  <2>1. tests' \subseteq [when : Instants, verdict : Verdicts]
    BY <1>5 DEF SlotTypeOK, RunSpeed
  <2> QED BY <1>5, <2>1 DEF SlotTypeOK, RunSpeed, ledgers
<1>6. CASE SaveLast
  <2>1. lastRun' \in Int /\ slotFaults' \in 0..MaxSlotFaults
    BY <1>6, <1>0 DEF SlotTypeOK, SaveLast, SlotFault
  <2> QED BY <1>6, <2>1 DEF SlotTypeOK, SaveLast
<1>7. CASE Arm
  <2>1. coolUntil' \in Int /\ slotFaults' \in 0..MaxSlotFaults
    BY <1>7, <1>0 DEF SlotTypeOK, Arm, SlotFault
  <2> QED BY <1>7, <2>1 DEF SlotTypeOK, Arm
<1>8. CASE RecordMissed
  BY <1>8 DEF SlotTypeOK, RecordMissed, ledgers
<1>9. CASE SaveMissed
  <2>1. missed' \in Int /\ slotFaults' \in 0..MaxSlotFaults
    BY <1>9, <1>0 DEF SlotTypeOK, SaveMissed, SlotFault
  <2> QED BY <1>9, <2>1 DEF SlotTypeOK, SaveMissed
<1>10. CASE SlotKilled
  <2>1. slotFaults' \in 0..MaxSlotFaults
    BY <1>10, <1>0 DEF SlotTypeOK, SlotKilled, SlotFault
  <2> QED BY <1>10, <2>1 DEF SlotTypeOK, SlotKilled, ledgers
<1>11. CASE SlotTick
  <2>1. now' \in Instants
    BY <1>11, <1>0 DEF SlotTick, Instants
  <2> QED BY <1>11, <2>1 DEF SlotTypeOK, SlotTick, ledgers
<1>12. CASE ClockSteps
  <2>1. skew' \in Nat /\ slotFaults' \in 0..MaxSlotFaults
    BY <1>12, <1>0 DEF SlotTypeOK, ClockSteps, SlotFault
  <2> QED BY <1>12, <2>1 DEF SlotTypeOK, ClockSteps, ledgers
<1>13. CASE UNCHANGED slotVars
  BY <1>13 DEF SlotTypeOK, slotVars
<1> QED BY <1>1, <1>2, <1>3, <1>4, <1>5, <1>6, <1>7, <1>8, <1>9, <1>10, <1>11, <1>12, <1>13
        DEF SlotNext

\* A check-in is answered, gets an error, or gets no answer.
LEMMA CheckinSteady ==
    ASSUME SlotTypeOK, Steady, slotFaults = 0, NEW o \in {"ok", "error", "dead"}, Checkin(o)
    PROVE  Steady'
<1>1. StagesAnswered'
  BY DEF Steady, StagesAnswered, Checkin
<1>2. FiresBooked'
  <2>1. Day' = Day /\ \A s \in Slots : SlotDue(s)' <=> SlotDue(s)
    BY DEF Checkin, Day, Clock, SlotDue, ledgers
  <2>2. stage = "idle" /\ fires' = fires /\ slotDay' = slotDay
    BY DEF Checkin, ledgers
  <2> QED BY <2>1, <2>2 DEF Steady, FiresBooked
<1>3. TestsBooked' /\ RowsBooked'
  BY DEF Steady, TestsBooked, RowsBooked, Checkin, ledgers
<1>4. SpeedAccounted'
  BY DEF Steady, SpeedAccounted, CheckedIn, Checkin
<1> QED BY <1>1, <1>2, <1>3, <1>4 DEF Steady, Checkin

\* The slots that are due run, each for the first time of its day.
LEMMA IperfSteady ==
    ASSUME SlotTypeOK, Steady, slotFaults = 0, RunIperf
    PROVE  Steady'
<1>1. StagesAnswered' /\ TestsBooked' /\ RowsBooked'
  BY DEF Steady, StagesAnswered, TestsBooked, RowsBooked, RunIperf, ledgers
<1>2. FiresBooked'
  <2> DEFINE due == {s \in Slots : SlotDue(s)}
             new == {[slot |-> s, when |-> now, day |-> Day] : s \in due}
  <2>1. fires' = fires \cup new /\ (due # {} => stage' = "ledger")
    BY DEF RunIperf
  <2>2. Day' = Day /\ slotDay' = slotDay /\ Day \in Nat /\ \A s : SlotDue(s)' <=> SlotDue(s)
    BY SlotNumbers DEF RunIperf, Day, Clock, SlotDue, ledgers
  <2>3. \A f \in fires : f.day <= Day /\ (f.day = Day => slotDay[f.slot] = Day)
    BY DEF Steady, FiresBooked, RunIperf
  <2>4. \A f \in new : f.slot \in Slots /\ SlotDue(f.slot) /\ f.when = now /\ f.day = Day
    OBVIOUS
  <2>5. \A f \in new : due # {} /\ slotDay[f.slot] # Day
    BY <2>4 DEF SlotDue
  <2>6. \A f \in fires' : /\ f.day <= Day'
                          /\ f.day = Day' => slotDay'[f.slot] = Day'
                                                 \/ (stage' = "ledger" /\ SlotDue(f.slot)')
    BY <2>1, <2>2, <2>3, <2>4, <2>5
  <2>7. \A f, g \in new : f.slot = g.slot => f = g
    OBVIOUS
  <2>8. \A f, g \in fires' : f.slot = g.slot /\ f.day = g.day => f = g
    <3>1. \A f, g \in fires : f.slot = g.slot /\ f.day = g.day => f = g
      BY DEF Steady, FiresBooked
    <3>2. \A f \in fires, g \in new : ~(f.slot = g.slot /\ f.day = g.day)
      BY <2>3, <2>4, <2>5
    <3> HIDE DEF new
    <3> QED BY <2>1, <2>7, <3>1, <3>2
  <2> QED BY <2>6, <2>8 DEF FiresBooked
<1>3. SpeedAccounted'
  BY DEF SpeedAccounted, CheckedIn, RunIperf
<1> QED BY <1>1, <1>2, <1>3 DEF Steady, RunIperf

\* The ledger of the slots takes every run of this check-in.
LEMMA SaveSlotsSteady ==
    ASSUME SlotTypeOK, Steady, slotFaults = 0, slotFaults' = 0, SaveSlots
    PROVE  Steady'
<1>1. StagesAnswered' /\ TestsBooked' /\ RowsBooked'
  BY DEF Steady, StagesAnswered, TestsBooked, RowsBooked, SaveSlots
<1>2. FiresBooked'
  <2>1. slotDay' = [s \in Slots |-> IF SlotDue(s) THEN Day
                                    ELSE IF slotDay[s] = Day THEN Day ELSE -1]
    BY SlotBounds DEF SaveSlots, SlotFault
  <2>2. Day' = Day /\ fires' = fires /\ stage' = "speed"
    BY DEF SaveSlots, Day, Clock
  <2>3. \A f \in fires : f.slot \in Slots
    BY DEF SlotTypeOK
  <2>4. \A f \in fires : f.day = Day => slotDay'[f.slot] = Day
    BY <2>1, <2>3 DEF Steady, FiresBooked
  <2> QED BY <2>2, <2>4 DEF Steady, FiresBooked
<1>3. SpeedAccounted'
  BY DEF SpeedAccounted, CheckedIn, SaveSlots
<1> QED BY <1>1, <1>2, <1>3 DEF Steady, SaveSlots

\* No speed test: one of the last interval, or a refusal of the last cooldown.
LEMMA SkipSpeedSteady ==
    ASSUME SlotTypeOK, Steady, slotFaults = 0, SkipSpeed
    PROVE  Steady'
<1>1. StagesAnswered' /\ TestsBooked' /\ RowsBooked'
  BY DEF Steady, StagesAnswered, TestsBooked, RowsBooked, SkipSpeed, ledgers
<1>2. FiresBooked'
  BY DEF Steady, FiresBooked, SkipSpeed, ledgers, Day, Clock, SlotDue
<1>3. SpeedAccounted'
  <2>1. answered = "ok" /\ answered' = "ok" /\ tests' = tests /\ rows' = rows /\ now' = now
    BY DEF Steady, StagesAnswered, SkipSpeed
  <2>2. Clock = now
    BY SlotNumbers DEF Steady, Clock
  <2>3. \/ \E t \in tests : Within(t.when, Interval)
        \/ \E t \in tests : t.verdict = "unavailable" /\ Within(t.when, Cooldown)
    <3>1. CASE CoolingOff
      BY <3>1, <2>2, SlotNumbers DEF Steady, TestsBooked, CoolingOff, Within
    <3>2. CASE ~Due
      BY <3>2, <2>2, SlotNumbers DEF Steady, TestsBooked, Due, Within
    <3> QED BY <3>1, <3>2 DEF SkipSpeed
  <2> QED BY <2>1, <2>3 DEF SpeedAccounted, CheckedIn, Within
<1> QED BY <1>1, <1>2, <1>3 DEF Steady, SkipSpeed

\* A speed test runs, an interval or more after the last.
LEMMA RunSpeedSteady ==
    ASSUME SlotTypeOK, Steady, slotFaults = 0, NEW v \in Verdicts, RunSpeed(v)
    PROVE  Steady'
<1>1. StagesAnswered' /\ RowsBooked'
  BY DEF Steady, StagesAnswered, RowsBooked, RunSpeed, ledgers
<1>2. FiresBooked'
  BY DEF Steady, FiresBooked, RunSpeed, ledgers, Day, Clock, SlotDue
<1>3. TestsBooked'
  <2> DEFINE new == [when |-> now, verdict |-> v]
  <2>1. /\ tests' = tests \cup {new} /\ now' = now /\ stage' = "last" /\ verdict' = v
        /\ lastRun' = lastRun /\ coolUntil' = coolUntil /\ new.when = now
    BY DEF RunSpeed, ledgers
  <2>2. now - lastRun >= Interval
    BY SlotNumbers DEF Steady, RunSpeed, Due, Clock
  <2>3. \A t \in tests : t.when <= now /\ t.when <= lastRun
    BY DEF Steady, TestsBooked, RunSpeed
  <2>4. \A t \in tests' : t.when <= now' /\ (t.when <= lastRun' \/ (stage' = "last" /\ t.when = now'))
    BY <2>1, <2>3, SlotNumbers
  <2>5. \A t, u \in tests' : t.when < u.when => u.when - t.when >= Interval
    BY <2>1, <2>2, <2>3, SlotNumbers DEF Steady, TestsBooked
  <2>6. new \in tests' /\ new = [when |-> now', verdict |-> verdict']
    BY <2>1
  <2>7. lastRun' = Never \/ \E t \in tests' : t.when = lastRun'
    BY <2>1 DEF Steady, TestsBooked
  <2>8. coolUntil' = Never
            \/ \E t \in tests' : t.verdict = "unavailable" /\ coolUntil' = t.when + Cooldown
    BY <2>1 DEF Steady, TestsBooked
  <2> QED BY <2>4, <2>5, <2>6, <2>7, <2>8 DEF TestsBooked, Never
<1>4. SpeedAccounted'
  BY DEF SpeedAccounted, CheckedIn, RunSpeed
<1> QED BY <1>1, <1>2, <1>3, <1>4 DEF Steady, RunSpeed

\* Its time is written down.
LEMMA SaveLastSteady ==
    ASSUME SlotTypeOK, Steady, slotFaults = 0, slotFaults' = 0, SaveLast
    PROVE  Steady'
<1>1. StagesAnswered' /\ RowsBooked'
  BY DEF Steady, StagesAnswered, RowsBooked, SaveLast
<1>2. FiresBooked'
  BY DEF Steady, FiresBooked, SaveLast, Day, Clock, SlotDue
<1>3. TestsBooked'
  <2>1. lastRun' = now /\ tests' = tests /\ now' = now /\ verdict' = verdict /\ coolUntil' = coolUntil
    BY SlotNumbers, SlotBounds DEF SaveLast, SlotFault, Steady, Clock
  <2>2. [when |-> now, verdict |-> verdict] \in tests
    BY DEF Steady, TestsBooked, SaveLast
  <2>3. \E t \in tests : t.when = now
    BY <2>2
  <2> QED BY <2>1, <2>2, <2>3 DEF Steady, TestsBooked, Never
<1>4. SpeedAccounted'
  BY DEF SpeedAccounted, CheckedIn, SaveLast
<1> QED BY <1>1, <1>2, <1>3, <1>4 DEF Steady, SaveLast

\* A refusal backs off, anything else does not.
LEMMA ArmSteady ==
    ASSUME SlotTypeOK, Steady, slotFaults = 0, slotFaults' = 0, Arm
    PROVE  Steady'
<1>0. [when |-> now, verdict |-> verdict] \in tests
  BY DEF Steady, TestsBooked, Arm
<1>1. StagesAnswered' /\ RowsBooked'
  BY DEF Steady, StagesAnswered, RowsBooked, Arm
<1>2. FiresBooked'
  BY DEF Steady, FiresBooked, Arm, Day, Clock, SlotDue
<1>3. TestsBooked'
  <2>1. /\ coolUntil' = IF verdict = "unavailable" THEN now + Cooldown ELSE Never
        /\ tests' = tests /\ now' = now /\ lastRun' = lastRun
    BY SlotNumbers, SlotBounds DEF Arm, SlotFault, Steady, Clock
  <2>2. coolUntil' = Never
            \/ \E t \in tests : t.verdict = "unavailable" /\ coolUntil' = t.when + Cooldown
    BY <1>0, <2>1
  <2> QED BY <2>1, <2>2 DEF Steady, TestsBooked, Arm, Never
<1>4. SpeedAccounted'
  <2>1. answered' = "ok" /\ tests' = tests /\ now' = now
    BY DEF Steady, StagesAnswered, Arm
  <2>2. \E t \in tests : Within(t.when, Interval)
    BY <1>0, SlotNumbers DEF Within
  <2> QED BY <2>1, <2>2 DEF SpeedAccounted, CheckedIn, Within
<1> QED BY <1>1, <1>2, <1>3, <1>4 DEF Steady, Arm

\* A speed test that fell due without an answer leaves a row, one an interval.
LEMMA RecordMissedSteady ==
    ASSUME SlotTypeOK, Steady, slotFaults = 0, RecordMissed
    PROVE  Steady'
<1>0. Clock = now /\ missed' = missed /\ now' = now /\ tests' = tests
  BY SlotNumbers DEF Steady, Clock, RecordMissed, ledgers
<1>1. StagesAnswered' /\ TestsBooked'
  BY DEF Steady, StagesAnswered, TestsBooked, RecordMissed, ledgers
<1>2. FiresBooked'
  BY DEF Steady, FiresBooked, RecordMissed, ledgers, Day, Clock, SlotDue
<1>3. RowsBooked' /\ SpeedAccounted'
  <2>0. answered' = "dead" /\ \A t \in rows : t <= now /\ t <= missed
    BY DEF Steady, StagesAnswered, RowsBooked, RecordMissed
  <2>1. CASE ~CoolingOff /\ Due /\ Clock - missed >= Interval
    <3>1. rows' = rows \cup {now} /\ stage' = "missedLedger"
      BY <2>1 DEF RecordMissed
    <3>2. \A t \in rows' : t <= now' /\ (t <= missed' \/ (stage' = "missedLedger" /\ t = now'))
      BY <3>1, <2>0, <1>0, SlotNumbers
    <3>3. \A t, u \in rows' : t < u => u - t >= Interval
      BY <3>1, <2>1, <2>0, <1>0, SlotNumbers DEF Steady, RowsBooked
    <3>4. RowsBooked'
      BY <3>1, <3>2, <3>3, <1>0 DEF Steady, RowsBooked, Never
    <3> QED BY <3>1, <3>4 DEF SpeedAccounted, CheckedIn
  <2>2. CASE ~(~CoolingOff /\ Due /\ Clock - missed >= Interval)
    <3>1. rows' = rows /\ stage' = "idle"
      BY <2>2 DEF RecordMissed
    <3>2. \/ \E t \in tests : Within(t.when, Interval)
          \/ \E t \in tests : t.verdict = "unavailable" /\ Within(t.when, Cooldown)
          \/ \E t \in rows : Within(t, Interval)
      <4>1. CASE CoolingOff
        BY <4>1, <1>0, SlotNumbers DEF Steady, TestsBooked, CoolingOff, Within
      <4>2. CASE ~Due
        BY <4>2, <1>0, SlotNumbers DEF Steady, TestsBooked, RecordMissed, Due, Within
      <4>3. CASE Clock - missed < Interval
        BY <4>3, <1>0, <2>0, SlotNumbers DEF Steady, RowsBooked, Within
      <4> QED BY <2>2, <4>1, <4>2, <4>3, <1>0, SlotNumbers
    <3>3. RowsBooked'
      BY <3>1, <2>0, <1>0 DEF Steady, RowsBooked, Never
    <3> QED BY <3>1, <3>2, <3>3, <2>0, <1>0 DEF SpeedAccounted, CheckedIn, Within
  <2> QED BY <2>1, <2>2
<1> QED BY <1>1, <1>2, <1>3 DEF Steady, RecordMissed

\* Its time is written down as well.
LEMMA SaveMissedSteady ==
    ASSUME SlotTypeOK, Steady, slotFaults = 0, slotFaults' = 0, SaveMissed
    PROVE  Steady'
<1>1. StagesAnswered' /\ TestsBooked'
  BY DEF Steady, StagesAnswered, TestsBooked, SaveMissed
<1>2. FiresBooked'
  BY DEF Steady, FiresBooked, SaveMissed, Day, Clock, SlotDue
<1>3. missed' = now /\ now \in rows /\ rows' = rows /\ now' = now /\ stage' = "idle"
  BY SlotNumbers, SlotBounds DEF SaveMissed, SlotFault, Steady, Clock, RowsBooked
<1>4. RowsBooked'
  BY <1>3 DEF Steady, RowsBooked
<1>5. SpeedAccounted'
  <2>1. answered' = "dead"
    BY DEF Steady, StagesAnswered, SaveMissed
  <2>2. \E t \in rows : Within(t, Interval)
    BY <1>3, SlotNumbers DEF Within
  <2> QED BY <1>3, <2>1, <2>2 DEF SpeedAccounted, CheckedIn, Within
<1> QED BY <1>1, <1>2, <1>4, <1>5 DEF Steady, SaveMissed

\* Time goes by: a day may end, and nothing becomes younger.
LEMMA TickSteady ==
    ASSUME SlotTypeOK, Steady, slotFaults = 0, SlotTick
    PROVE  Steady'
<1>0. now' = now + 1 /\ stage = "idle" /\ stage' = "idle" /\ answered' = "none" /\ now \in Nat
  BY SlotNumbers DEF SlotTick
<1>1. StagesAnswered'
  BY <1>0 DEF StagesAnswered
<1>2. FiresBooked'
  <2>1. Day' \in Nat /\ Day \in Nat /\ Day <= Day'
    <3>1. Day = now \div DayLength /\ Day' = (now + 1) \div DayLength
      BY <1>0 DEF Day, Clock, Steady, SlotTick
    <3> QED BY <3>1, <1>0, DayFacts
  <2>2. \A f \in fires : /\ f.day \in Nat /\ f.day <= Day
                         /\ f.day = Day => slotDay[f.slot] = Day
    BY <1>0 DEF Steady, FiresBooked, SlotTypeOK
  <2>3. fires' = fires /\ slotDay' = slotDay
    BY DEF SlotTick, ledgers
  <2>4. \A f \in fires : f.day <= Day' /\ (f.day = Day' => slotDay[f.slot] = Day')
    BY <2>1, <2>2
  <2> QED BY <2>3, <2>4 DEF Steady, FiresBooked
<1>3. TestsBooked'
  <2>1. \A t \in tests : t.when <= now + 1 /\ t.when <= lastRun
    BY <1>0, SlotNumbers DEF Steady, TestsBooked
  <2> QED BY <1>0, <2>1 DEF Steady, TestsBooked, SlotTick, ledgers
<1>4. RowsBooked'
  <2>1. \A t \in rows : t <= now + 1 /\ t <= missed
    BY <1>0, SlotNumbers DEF Steady, RowsBooked
  <2> QED BY <1>0, <2>1 DEF Steady, RowsBooked, SlotTick, ledgers
<1>5. SpeedAccounted'
  BY <1>0 DEF SpeedAccounted, CheckedIn
<1> QED BY <1>1, <1>2, <1>3, <1>4, <1>5 DEF Steady, SlotTick

\* No step breaks the invariant of the probes.
LEMMA SlotStep == SlotIInv /\ [SlotNext]_slotVars => SlotIInv'
<1> SUFFICES ASSUME SlotIInv, [SlotNext]_slotVars PROVE SlotIInv'
  OBVIOUS
<1>0. SlotTypeOK /\ SlotTypeOK'
  BY SlotTypes DEF SlotIInv
<1> SUFFICES ASSUME slotFaults' = 0 PROVE Steady'
  BY <1>0 DEF SlotIInv
<1>1. slotFaults = 0 \/ slotFaults' = slotFaults + 1
  BY DEF SlotNext, slotVars, Checkin, RunIperf, SaveSlots, SkipSpeed, RunSpeed, SaveLast, Arm,
         RecordMissed, SaveMissed, SlotKilled, SlotTick, ClockSteps, SlotFault
<1>2. slotFaults = 0
  BY <1>0, <1>1, SlotBounds DEF SlotTypeOK
<1>3. Steady
  BY <1>2 DEF SlotIInv
<1> USE <1>0, <1>2, <1>3
<1>4. ASSUME NEW o \in {"ok", "error", "dead"}, Checkin(o) PROVE Steady'
  BY <1>4, CheckinSteady
<1>5. CASE RunIperf
  BY <1>5, IperfSteady
<1>6. CASE SaveSlots
  BY <1>6, SaveSlotsSteady
<1>7. CASE SkipSpeed
  BY <1>7, SkipSpeedSteady
<1>8. ASSUME NEW v \in Verdicts, RunSpeed(v) PROVE Steady'
  BY <1>8, RunSpeedSteady
<1>9. CASE SaveLast
  BY <1>9, SaveLastSteady
<1>10. CASE Arm
  BY <1>10, ArmSteady
<1>11. CASE RecordMissed
  BY <1>11, RecordMissedSteady
<1>12. CASE SaveMissed
  BY <1>12, SaveMissedSteady
<1>13. CASE SlotKilled \/ ClockSteps
  BY <1>13 DEF SlotKilled, ClockSteps, SlotFault
<1>14. CASE SlotTick
  BY <1>14, TickSteady
<1>15. CASE UNCHANGED slotVars
  BY <1>15 DEF slotVars, Steady, StagesAnswered, FiresBooked, TestsBooked, RowsBooked,
               SpeedAccounted, CheckedIn, Day, Clock, SlotDue, Within
<1> QED BY <1>4, <1>5, <1>6, <1>7, <1>8, <1>9, <1>10, <1>11, <1>12, <1>13, <1>14, <1>15
        DEF SlotNext

\* As long as every ledger was written and the clock was steady, no interval goes by
\* without a speed test, a refusal or a recorded non-attempt, no two tests or rows lie
\* within an interval, and no slot runs twice a day: the schedulers of checkin.py, for
\* every schedule, interval, cooldown and grace, with a run, a save and a kill apart.
THEOREM ProbesKeepPace == SlotSpec => []ProbesPaced
<1>1. SlotInit => SlotIInv
  BY SlotsStart
<1>2. SlotIInv /\ [SlotNext]_slotVars => SlotIInv'
  BY SlotStep
<1>3. SlotIInv => ProbesPaced
  <2> SUFFICES ASSUME SlotIInv PROVE ProbesPaced
    OBVIOUS
  <2>1. SpeedAccounted
    BY DEF SlotIInv, Steady, SpeedAccounted, CheckedIn
  <2>2. ProbesSpaced
    BY DEF SlotIInv, Steady, FiresBooked, TestsBooked, RowsBooked, ProbesSpaced
  <2> QED BY <2>1, <2>2 DEF SlotIInv, ProbesPaced
<1> QED BY <1>1, <1>2, <1>3, PTL DEF SlotSpec

----------------------------------------------------------------------------
(* The scans.                                                              *)

Scanning(s) == phase[s] \in {"measure", "completeOk", "completeError"}
Holding(s) == phase[s] = "begin" \/ Scanning(s)
Working(s) == phase[s] = "lock" \/ Holding(s)

\* Who scans has the lock.
LockKept == \A s \in Scanners : Holding(s) => scanLock = s

\* The jobs of the poller are of its own kind, and so is a scan by hand.
Automatic == [net : Nets, trigger : {"periodic", "capture"}, row : 0..MaxScans]
JobsKept ==
    /\ plan \in Seq(Automatic)
    /\ Working("poller") => job["poller"] \in Automatic
    /\ Working("manual") => job["manual"].net \in Nets /\ job["manual"].trigger = "manual"

\* The row of a scan under way is the last one, open, and empty until it is measured.
RowsKept ==
    /\ \A i, j \in DOMAIN scanRows : i < j => scanRows[i].start <= scanRows[j].start
    /\ \A i \in DOMAIN scanRows : scanRows[i].start <= clock
    /\ \A s \in Scanners : Scanning(s) =>
          /\ job[s].row = Len(scanRows) /\ Len(scanRows) > 0
          /\ scanRows[Len(scanRows)].net = job[s].net
          /\ scanRows[Len(scanRows)].trigger = job[s].trigger
          /\ scanRows[Len(scanRows)].end = "open"
          /\ phase[s] = "measure" => /\ scanRows[Len(scanRows)].bulk = Absent
                                     /\ scanRows[Len(scanRows)].dns = Absent

\* Since the tick was planned a network has had its scan, or it is still to come.
Attended(n) ==
    \E i \in Begun(n) :
        \/ Ok(i) /\ scanRows[i].trigger # "capture" /\ scanRows[i].start > ticked.at - Rescan
        \/ scanRows[i].start >= ticked.at \/ scanRows[i].start > ticked.at - ScanCooldown
Planned(n) ==
    \/ \E k \in DOMAIN plan : plan[k].net = n
    \/ phase["poller"] \in {"lock", "begin"} /\ job["poller"].net = n
NoneForgotten ==
    /\ ticked.at <= clock
    /\ ticked.at >= 0 /\ ~ticked.busy => \A n \in Nets :
          Attended(n) \/ (phase["poller"] # "idle" /\ Planned(n))

ScanIInv == ScansPaced /\ LockKept /\ JobsKept /\ RowsKept /\ NoneForgotten

ScanRow == [net : Nets, trigger : Triggers, start : 0..MaxScanTime,
            end : {"open", "ok", "error"}, bulk : Times, dns : Times]
ScanPhases == {"idle", "next", "lock", "begin", "measure", "completeOk", "completeError"}

\* What the type invariant says, conjunct by conjunct.
LEMMA ScanFacts ==
    ASSUME ScanTypeOK
    PROVE  /\ clock \in 0..MaxScanTime /\ MaxScanTime \in Nat /\ clock \in Nat
           /\ scanRows \in Seq(ScanRow) /\ Len(scanRows) \in Nat
           /\ DOMAIN scanRows = 1..Len(scanRows)
           /\ \A i \in DOMAIN scanRows :
                 /\ scanRows[i] \in ScanRow /\ scanRows[i].start \in Nat
                 /\ scanRows[i].bulk \in Int /\ scanRows[i].dns \in Int
           /\ phase \in [Scanners -> ScanPhases] /\ job \in [Scanners -> Jobs]
           /\ ticked \in [at : -1..MaxScanTime, busy : BOOLEAN] /\ ticked.at \in Int
           /\ ScanCooldown \in Nat /\ BulkInterval \in Nat /\ Rescan \in Nat \ {0}
           /\ MaxScans \in Nat /\ MaxForced \in Nat /\ MaxScanKills \in Nat
<1>1. scanRows \in Seq(ScanRow) /\ MaxScanTime \in Nat
  BY ScanBounds DEF ScanTypeOK, ScanRow
<1>2. DOMAIN scanRows = 1..Len(scanRows) /\ Len(scanRows) \in Nat
      /\ \A i \in DOMAIN scanRows : scanRows[i] \in ScanRow
  BY <1>1
<1>3. \A r \in ScanRow : r.start \in Nat /\ r.bulk \in Int /\ r.dns \in Int
  BY <1>1 DEF ScanRow, Times, Absent
<1>4. phase \in [Scanners -> ScanPhases]
  BY DEF ScanTypeOK, ScanPhases
<1>5. clock \in 0..MaxScanTime /\ job \in [Scanners -> Jobs]
      /\ ticked \in [at : -1..MaxScanTime, busy : BOOLEAN]
  BY DEF ScanTypeOK
<1>6. clock \in Nat /\ ticked.at \in Int
  BY <1>1, <1>5
<1> QED BY <1>1, <1>2, <1>3, <1>4, <1>5, <1>6, ScanBounds

\* Before the first tick nothing was scanned.
LEMMA ScansStart == ScanInit => ScanIInv
<1> SUFFICES ASSUME ScanInit PROVE ScanIInv
  OBVIOUS
<1> USE ScanBounds DEF ScanInit
<1>1. ScanTypeOK
  <2>1. NoJob \in Jobs
    BY DEF NoJob, Jobs, Triggers
  <2> QED BY <2>1 DEF ScanTypeOK
<1>2. ScansSpaced /\ CadencesHold
  BY DEF ScansSpaced, CadencesHold
<1>3. LockKept /\ RowsKept
  BY DEF LockKept, RowsKept, Holding, Scanning
<1>4. JobsKept
  BY DEF JobsKept, Working, Holding, Scanning, Scanners
<1>5. NoneForgotten
  BY DEF NoneForgotten
<1> QED BY <1>1, <1>2, <1>3, <1>4, <1>5 DEF ScanIInv, ScansPaced

\* A plan has every due network, once, with a job of the poller's kind.
LEMMA PlanFacts ==
    ASSUME ScanTypeOK, NEW p \in SetToSeqs(UNION {PlanFor(n) : n \in Nets})
    PROVE  /\ p \in Seq(Automatic)
           /\ \A n \in Nets : PlanFor(n) # {} => \E k \in DOMAIN p : p[k].net = n
<1> DEFINE P == UNION {PlanFor(n) : n \in Nets}
<1>1. \A n \in Nets : \A e \in PlanFor(n) : e.net = n /\ e \in Automatic
  BY ScanBounds DEF PlanFor, Automatic
<1>2. \A n \in Nets : \A d, e \in PlanFor(n) : d = e
  BY DEF PlanFor
<1>3. \A e \in P : e.net \in Nets /\ e \in Automatic
  BY <1>1
<1>4. \A d, e \in P : d.net = e.net => d = e
  BY <1>1, <1>2
<1>5. \A n \in Nets : PlanFor(n) # {} => \E e \in P : e.net = n
  BY <1>1
<1>6. p \in SetToSeqs(P)
  OBVIOUS
<1> HIDE DEF P
<1>7. IsFiniteSet(P)
  <2> DEFINE f == [e \in P |-> e.net]
  <2>1. f \in Injection(P, Nets)
    BY <1>3, <1>4 DEF Injection, IsInjective
  <2>2. IsFiniteSet(Nets)
    BY ScanBounds
  <2> HIDE DEF f
  <2> QED BY <2>1, <2>2, FS_Injection
<1> DEFINE m == Cardinality(P)
<1>8. m \in Nat
  BY <1>7, FS_CardinalityType
<1>9. p \in [1..m -> P] /\ \A i, j \in 1..m : i # j => p[i] # p[j]
  BY <1>6 DEF SetToSeqs
<1>10. IsFiniteSet(1..m) /\ Cardinality(1..m) = m
  <2> HIDE DEF m
  <2> QED BY <1>8, FS_Interval
<1>11. p \in Injection(1..m, P)
  BY <1>9 DEF Injection, IsInjective
<1>12. p \in Surjection(1..m, P)
  <2>1. Cardinality(1..m) = Cardinality(P) <=> p \in Surjection(1..m, P)
    <3> HIDE DEF m
    <3> QED BY <1>7, <1>11, FS_Injection
  <2> QED BY <2>1, <1>10
<1> HIDE DEF m
<1>13. p \in Seq(Automatic)
  BY <1>3, <1>8, <1>9
<1>14. DOMAIN p = 1..m
  BY <1>9
<1>15. \A e \in P : \E k \in DOMAIN p : p[k] = e
  BY <1>12, <1>14 DEF Surjection
<1> QED BY <1>5, <1>13, <1>15

\* The lock lets one scan in.
LEMMA OneScanner ==
    ASSUME LockKept
    PROVE  \A s, u \in Scanners : Scanning(s) /\ Scanning(u) => s = u
BY DEF LockKept, Holding

\* Steps that leave the table alone keep what it says.
LEMMA SameTable ==
    ASSUME ScanIInv, LockKept', scanRows' = scanRows
    PROVE  ScansSpaced' /\ CadencesHold'
<1>1. \A s, u \in Scanners : Scanning(s)' /\ Scanning(u)' => s = u
  BY DEF LockKept, Holding
<1>2. ScansSpaced'
  BY <1>1 DEF ScanIInv, ScansPaced, ScansSpaced, Scanning
<1>3. CadencesHold'
  BY DEF ScanIInv, ScansPaced, CadencesHold
<1> QED BY <1>2, <1>3

\* A network that was attended stays so while its rows keep what they are.
LEMMA StaysAttended ==
    ASSUME ScanTypeOK, ticked'.at = ticked.at, NEW n \in Nets, Attended(n),
           DOMAIN scanRows \subseteq DOMAIN scanRows',
           \A i \in DOMAIN scanRows :
              /\ scanRows'[i].net = scanRows[i].net /\ scanRows'[i].start = scanRows[i].start
              /\ scanRows'[i].trigger = scanRows[i].trigger
              /\ scanRows[i].end = "ok" => scanRows'[i].end = "ok"
    PROVE  Attended(n)'
<1>1. PICK i \in Begun(n) :
        \/ Ok(i) /\ scanRows[i].trigger # "capture" /\ scanRows[i].start > ticked.at - Rescan
        \/ scanRows[i].start >= ticked.at \/ scanRows[i].start > ticked.at - ScanCooldown
  BY DEF Attended
<1>2. i \in DOMAIN scanRows /\ scanRows[i].net = n
  BY DEF Begun
<1>3. /\ i \in DOMAIN scanRows' /\ scanRows'[i].net = n
      /\ \/ scanRows'[i].end = "ok" /\ scanRows'[i].trigger # "capture"
                /\ scanRows'[i].start > ticked'.at - Rescan
         \/ scanRows'[i].start >= ticked'.at \/ scanRows'[i].start > ticked'.at - ScanCooldown
  BY <1>1, <1>2 DEF Ok
<1> QED BY <1>3 DEF Attended, Begun, Ok

\* A tick purges, and plans what is due.
LEMMA ScanTickKeeps ==
    ASSUME ScanIInv, Tick
    PROVE  ScanIInv'
<1>0. ScanTypeOK /\ LockKept /\ JobsKept /\ RowsKept
  BY DEF ScanIInv, ScansPaced
<1>1. /\ phase' = [phase EXCEPT !["poller"] = "next"] /\ ticked' = [at |-> clock, busy |-> FALSE]
      /\ plan' \in SetToSeqs(UNION {PlanFor(n) : n \in Nets})
      /\ phase["poller"] = "idle" /\ ticked.at < clock
      /\ UNCHANGED <<clock, scanLock, job, forced, scanKills>>
  BY DEF Tick, Goes
<1>2. /\ DOMAIN scanRows' = DOMAIN scanRows
      /\ scanRows' \in Seq(ScanRow) /\ Len(scanRows') = Len(scanRows)
      /\ \A i \in DOMAIN scanRows :
            /\ scanRows'[i].net = scanRows[i].net /\ scanRows'[i].start = scanRows[i].start
            /\ scanRows'[i].trigger = scanRows[i].trigger /\ scanRows'[i].end = scanRows[i].end
            /\ scanRows'[i].dns = scanRows[i].dns
            /\ scanRows'[i].bulk = scanRows[i].bulk \/ scanRows'[i].bulk = Absent
  <2>1. PICK purge \in BOOLEAN :
          scanRows' = IF ~purge THEN scanRows
                  ELSE [i \in DOMAIN scanRows |-> IF scanRows[i].start < clock - HeavyRetention
                                              THEN [scanRows[i] EXCEPT !.bulk = Absent] ELSE scanRows[i]]
    BY DEF Tick
  <2>2. CASE ~purge
    BY <2>1, <2>2, <1>0, ScanFacts
  <2>3. CASE purge
    <3>1. scanRows' = [i \in 1..Len(scanRows) |-> IF scanRows[i].start < clock - HeavyRetention
                                              THEN [scanRows[i] EXCEPT !.bulk = Absent] ELSE scanRows[i]]
      BY <2>1, <2>3, <1>0, ScanFacts
    <3>2. \A r \in ScanRow :
              LET e == [r EXCEPT !.bulk = Absent]
              IN  /\ e \in ScanRow /\ e.bulk = Absent
                  /\ e.net = r.net /\ e.start = r.start /\ e.trigger = r.trigger
                  /\ e.end = r.end /\ e.dns = r.dns
      BY DEF ScanRow, Times
    <3>6. \A i \in 1..Len(scanRows) : scanRows[i] \in ScanRow
      BY <1>0, ScanFacts
    <3>3. scanRows' \in [1..Len(scanRows) -> ScanRow] /\ Len(scanRows) \in Nat
      BY <3>1, <3>2, <3>6, <1>0, ScanFacts
    <3>4. scanRows' \in Seq(ScanRow) /\ Len(scanRows') = Len(scanRows)
      BY <3>3
    <3>5. DOMAIN scanRows = 1..Len(scanRows) /\ \A i \in 1..Len(scanRows) :
              scanRows'[i] = scanRows[i] \/ scanRows'[i] = [scanRows[i] EXCEPT !.bulk = Absent]
      BY <3>1, <1>0, ScanFacts
    <3>7. \A i \in 1..Len(scanRows) :
              /\ scanRows'[i].net = scanRows[i].net /\ scanRows'[i].start = scanRows[i].start
              /\ scanRows'[i].trigger = scanRows[i].trigger /\ scanRows'[i].end = scanRows[i].end
              /\ scanRows'[i].dns = scanRows[i].dns
              /\ scanRows'[i].bulk = scanRows[i].bulk \/ scanRows'[i].bulk = Absent
      <4> SUFFICES ASSUME NEW i \in 1..Len(scanRows)
                   PROVE  /\ scanRows'[i].net = scanRows[i].net /\ scanRows'[i].start = scanRows[i].start
                          /\ scanRows'[i].trigger = scanRows[i].trigger
                          /\ scanRows'[i].end = scanRows[i].end /\ scanRows'[i].dns = scanRows[i].dns
                          /\ scanRows'[i].bulk = scanRows[i].bulk \/ scanRows'[i].bulk = Absent
        OBVIOUS
      <4>1. CASE scanRows'[i] = scanRows[i]
        BY <4>1
      <4>2. CASE scanRows'[i] = [scanRows[i] EXCEPT !.bulk = Absent]
        <5> DEFINE q == scanRows[i]
                   e == [q EXCEPT !.bulk = Absent]
        <5>1. q \in ScanRow
          BY <3>6
        <5>2. /\ e.bulk = Absent /\ e.net = q.net /\ e.start = q.start
              /\ e.trigger = q.trigger /\ e.end = q.end /\ e.dns = q.dns
          BY <5>1 DEF ScanRow
        <5>3. scanRows'[i] = e
          BY <4>2
        <5> HIDE DEF q, e
        <5>4. /\ scanRows'[i].bulk = Absent /\ scanRows'[i].net = q.net
              /\ scanRows'[i].start = q.start /\ scanRows'[i].trigger = q.trigger
              /\ scanRows'[i].end = q.end /\ scanRows'[i].dns = q.dns
          BY <5>2, <5>3
        <5> QED BY <5>4 DEF q
      <4> QED BY <4>1, <4>2, <3>5
    <3>8. DOMAIN scanRows' = 1..Len(scanRows)
      BY <3>3
    <3> QED BY <3>4, <3>5, <3>7, <3>8
  <2> QED BY <2>2, <2>3
<1>3. plan' \in Seq(Automatic)
      /\ \A n \in Nets : PlanFor(n) # {} => \E k \in DOMAIN plan' : plan'[k].net = n
  BY <1>0, <1>1, PlanFacts
<1>4. phase' \in [Scanners -> ScanPhases] /\ phase'["poller"] = "next"
      /\ phase'["manual"] = phase["manual"]
  BY <1>0, <1>1, ScanFacts DEF Scanners, ScanPhases
<1>5. ScanTypeOK'
  <2>1. plan' \in Seq(Jobs)
    <3>1. Automatic \subseteq Jobs
      BY DEF Automatic, Jobs, Triggers
    <3> QED BY <3>1, <1>3
  <2>2. ticked' \in [at : -1..MaxScanTime, busy : BOOLEAN]
    BY <1>0, <1>1, ScanFacts
  <2> QED BY <2>1, <2>2, <1>0, <1>1, <1>2, <1>4 DEF ScanTypeOK, ScanRow, ScanPhases
<1>6. \A s \in Scanners : Scanning(s)' => Scanning(s) /\ s = "manual"
  BY <1>4 DEF Scanning, Scanners
<1>7. LockKept' /\ JobsKept'
  <2>1. LockKept'
    BY <1>0, <1>1, <1>4 DEF LockKept, Holding, Scanning, Scanners
  <2>2. JobsKept'
    BY <1>0, <1>1, <1>3, <1>4 DEF JobsKept, Working, Holding, Scanning
  <2> QED BY <2>1, <2>2
<1>8. RowsKept'
  <2>1. \A i \in DOMAIN scanRows' : scanRows'[i].start <= clock'
    BY <1>0, <1>1, <1>2 DEF RowsKept
  <2>2. \A i, j \in DOMAIN scanRows' : i < j => scanRows'[i].start <= scanRows'[j].start
    BY <1>0, <1>2 DEF RowsKept
  <2>3. Len(scanRows) > 0 => Len(scanRows) \in DOMAIN scanRows
    BY <1>0, ScanFacts
  <2>4. phase'["manual"] = phase["manual"] /\ job' = job
    BY <1>1, <1>4
  <2> QED BY <2>1, <2>2, <2>3, <2>4, <1>0, <1>2, <1>6 DEF RowsKept
<1>9. ScansSpaced'
  <2>1. \A s, u \in Scanners : Scanning(s)' /\ Scanning(u)' => s = u
    BY <1>6
  <2> QED BY <2>1, <1>2 DEF ScanIInv, ScansPaced, ScansSpaced, Scanning
<1>10. CadencesHold'
  BY <1>2, Zenon DEF ScanIInv, ScansPaced, CadencesHold
<1>11. NoneForgotten'
  <2> SUFFICES ASSUME NEW n \in Nets PROVE Attended(n)' \/ Planned(n)'
    BY <1>0, <1>1, <1>4, ScanFacts DEF NoneForgotten
  <2>1. CASE RecentFull(n, Rescan)
    <3>1. PICK i \in DOMAIN scanRows :
              /\ scanRows[i].net = n /\ scanRows[i].end = "ok"
              /\ scanRows[i].start > clock - Rescan /\ scanRows[i].trigger # "capture"
      BY <2>1 DEF RecentFull, Begun, Ok
    <3>2. /\ i \in DOMAIN scanRows' /\ scanRows'[i].net = n /\ scanRows'[i].end = "ok"
          /\ scanRows'[i].start > ticked'.at - Rescan /\ scanRows'[i].trigger # "capture"
      BY <3>1, <1>1, <1>2
    <3> QED BY <3>2 DEF Attended, Begun, Ok
  <2>2. CASE ~RecentFull(n, Rescan)
    BY <2>2, <1>3 DEF PlanFor, Planned
  <2> QED BY <2>1, <2>2
<1> QED BY <1>5, <1>7, <1>8, <1>9, <1>10, <1>11 DEF ScanIInv, ScansPaced

\* The jobs of a poller and a manual scan under way are jobs.
LEMMA AutomaticJobs == Automatic \subseteq Jobs
BY DEF Automatic, Jobs, Triggers

\* What a plan is made of stays in the rest of it.
LEMMA RestOfPlan ==
    ASSUME plan \in Seq(Automatic), plan # <<>>
    PROVE  /\ Head(plan) \in Automatic /\ Tail(plan) \in Seq(Automatic)
           /\ \A k \in DOMAIN plan :
                 plan[k] = Head(plan) \/ \E m \in DOMAIN Tail(plan) : Tail(plan)[m] = plan[k]
<1>1. /\ Len(plan) \in Nat /\ Len(plan) > 0 /\ DOMAIN plan = 1..Len(plan)
      /\ Head(plan) = plan[1] /\ Head(plan) \in Automatic /\ Tail(plan) \in Seq(Automatic)
      /\ Len(Tail(plan)) = Len(plan) - 1 /\ DOMAIN Tail(plan) = 1..(Len(plan) - 1)
  OBVIOUS
<1>2. \A m \in 1..(Len(plan) - 1) : Tail(plan)[m] = plan[m + 1]
  OBVIOUS
<1>3. \A k \in DOMAIN plan :
          plan[k] = Head(plan) \/ \E m \in DOMAIN Tail(plan) : Tail(plan)[m] = plan[k]
  <2> SUFFICES ASSUME NEW k \in DOMAIN plan, k # 1
               PROVE  \E m \in DOMAIN Tail(plan) : Tail(plan)[m] = plan[k]
    BY <1>1
  <2>1. k - 1 \in 1..(Len(plan) - 1) /\ (k - 1) + 1 = k
    BY <1>1
  <2> QED BY <1>1, <1>2, <2>1
<1> QED BY <1>1, <1>3

\* The poller takes the next job of its plan, or is done with it.
LEMMA NextJobKeeps ==
    ASSUME ScanIInv, NextJob
    PROVE  ScanIInv'
<1>0. ScanTypeOK /\ LockKept /\ JobsKept /\ RowsKept /\ NoneForgotten
  BY DEF ScanIInv, ScansPaced
<1>1. /\ phase["poller"] = "next"
      /\ UNCHANGED <<clock, scanRows, scanLock, ticked, forced, scanKills>>
  BY DEF NextJob
<1>2. \/ plan = <<>> /\ phase' = [phase EXCEPT !["poller"] = "idle"] /\ UNCHANGED <<job, plan>>
      \/ plan # <<>> /\ phase' = [phase EXCEPT !["poller"] = "lock"]
             /\ job' = [job EXCEPT !["poller"] = Head(plan)] /\ plan' = Tail(plan)
  BY DEF NextJob, Goes
<1>3. phase \in [Scanners -> ScanPhases] /\ job \in [Scanners -> Jobs] /\ plan \in Seq(Automatic)
  BY <1>0, ScanFacts DEF JobsKept
<1>4. /\ phase' \in [Scanners -> ScanPhases] /\ phase'["poller"] \in {"idle", "lock"}
      /\ phase'["manual"] = phase["manual"] /\ job'["manual"] = job["manual"]
  BY <1>2, <1>3 DEF Scanners, ScanPhases
<1>5. /\ plan' \in Seq(Automatic)
      /\ phase'["poller"] = "lock" => job'["poller"] \in Automatic /\ job'["poller"] = Head(plan)
      /\ job' \in [Scanners -> Jobs]
  <2>1. CASE plan = <<>>
    BY <2>1, <1>2, <1>3 DEF Scanners
  <2>2. CASE plan # <<>>
    <3>1. Head(plan) \in Automatic /\ Tail(plan) \in Seq(Automatic)
      BY <2>2, <1>3, RestOfPlan
    <3>2. Head(plan) \in Jobs
      BY <3>1, AutomaticJobs
    <3> QED BY <2>2, <3>1, <3>2, <1>2, <1>3 DEF Scanners
  <2> QED BY <2>1, <2>2
<1>6. ScanTypeOK'
  <2>1. plan' \in Seq(Jobs)
    BY <1>5, AutomaticJobs
  <2> QED BY <2>1, <1>0, <1>1, <1>4, <1>5 DEF ScanTypeOK, ScanPhases
<1>7. LockKept'
  BY <1>0, <1>1, <1>4 DEF LockKept, Holding, Scanning, Scanners
<1>8. JobsKept'
  BY <1>0, <1>4, <1>5 DEF JobsKept, Working, Holding, Scanning
<1>9. RowsKept'
  <2>1. \A s \in Scanners : Scanning(s)' => Scanning(s) /\ job'[s] = job[s] /\ phase'[s] = phase[s]
    BY <1>4 DEF Scanning, Scanners
  <2> QED BY <2>1, <1>0, <1>1 DEF RowsKept
<1>10. NoneForgotten'
  <2>1. \A n \in Nets : Attended(n) => Attended(n)'
    BY <1>1 DEF Attended, Begun, Ok
  <2> SUFFICES ASSUME ticked.at >= 0, ~ticked.busy, NEW n \in Nets, ~Attended(n)
               PROVE  phase'["poller"] # "idle" /\ Planned(n)'
    BY <2>1, <1>0, <1>1 DEF NoneForgotten
  <2>2. Planned(n)
    BY <1>0 DEF NoneForgotten
  <2>3. PICK k \in DOMAIN plan : plan[k].net = n
    BY <2>2, <1>1 DEF Planned
  <2>4. plan # <<>>
    BY <2>3
  <2>5. phase'["poller"] = "lock" /\ plan' = Tail(plan)
    BY <2>4, <1>2, <1>3 DEF Scanners
  <2>6. plan[k] = Head(plan) \/ \E m \in DOMAIN Tail(plan) : Tail(plan)[m] = plan[k]
    BY <2>4, <1>3, RestOfPlan
  <2>7. CASE plan[k] = Head(plan)
    BY <2>3, <2>5, <2>7, <1>5 DEF Planned
  <2>8. CASE \E m \in DOMAIN Tail(plan) : Tail(plan)[m] = plan[k]
    BY <2>3, <2>5, <2>8 DEF Planned
  <2> QED BY <2>5, <2>6, <2>7, <2>8
<1>11. ScansSpaced' /\ CadencesHold'
  BY <1>1, <1>7, SameTable
<1> QED BY <1>6, <1>7, <1>8, <1>9, <1>10, <1>11 DEF ScanIInv, ScansPaced

\* A scan is asked for by hand.
LEMMA ManualKeeps ==
    ASSUME ScanIInv, NEW n \in Nets, ManualScan(n)
    PROVE  ScanIInv'
<1>0. ScanTypeOK /\ LockKept /\ JobsKept /\ RowsKept /\ NoneForgotten
  BY DEF ScanIInv, ScansPaced
<1>1. /\ phase["manual"] = "idle" /\ phase' = [phase EXCEPT !["manual"] = "lock"]
      /\ job' = [job EXCEPT !["manual"] = [net |-> n, trigger |-> "manual", row |-> 0]]
      /\ forced < MaxForced /\ forced' = forced + 1
      /\ UNCHANGED <<clock, scanRows, scanLock, plan, ticked, scanKills>>
  BY DEF ManualScan, Goes
<1>2. phase \in [Scanners -> ScanPhases] /\ job \in [Scanners -> Jobs]
      /\ MaxScans \in Nat /\ MaxForced \in Nat /\ forced \in 0..MaxForced
  BY <1>0, ScanFacts DEF ScanTypeOK
<1>3. [net |-> n, trigger |-> "manual", row |-> 0] \in Jobs
  BY <1>2 DEF Jobs, Triggers
<1>4. /\ phase' \in [Scanners -> ScanPhases] /\ phase'["manual"] = "lock"
      /\ phase'["poller"] = phase["poller"] /\ job'["poller"] = job["poller"]
      /\ job' \in [Scanners -> Jobs]
      /\ job'["manual"] = [net |-> n, trigger |-> "manual", row |-> 0]
  BY <1>1, <1>2, <1>3 DEF Scanners, ScanPhases
<1>5. ScanTypeOK'
  <2>1. forced' \in 0..MaxForced
    BY <1>1, <1>2
  <2> QED BY <2>1, <1>0, <1>1, <1>4 DEF ScanTypeOK, ScanPhases
<1>6. LockKept'
  BY <1>0, <1>1, <1>4 DEF LockKept, Holding, Scanning, Scanners
<1>7. JobsKept'
  BY <1>0, <1>1, <1>4 DEF JobsKept, Working, Holding, Scanning
<1>8. RowsKept'
  <2>1. \A s \in Scanners : Scanning(s)' => Scanning(s) /\ job'[s] = job[s] /\ phase'[s] = phase[s]
    BY <1>4 DEF Scanning, Scanners
  <2> QED BY <2>1, <1>0, <1>1 DEF RowsKept
<1>9. NoneForgotten'
  BY <1>0, <1>1, <1>4 DEF NoneForgotten, Attended, Planned, Begun, Ok
<1>10. ScansSpaced' /\ CadencesHold'
  BY <1>1, <1>6, SameTable
<1> QED BY <1>5, <1>6, <1>7, <1>8, <1>9, <1>10 DEF ScanIInv, ScansPaced

\* The lock is taken, or the scan gives up.
LEMMA TryLockKeeps ==
    ASSUME ScanIInv, NEW s \in Scanners, TryLock(s)
    PROVE  ScanIInv'
<1>0. ScanTypeOK /\ LockKept /\ JobsKept /\ RowsKept /\ NoneForgotten
  BY DEF ScanIInv, ScansPaced
<1>1. phase[s] = "lock" /\ UNCHANGED <<clock, scanRows, job, plan, forced, scanKills>>
  BY DEF TryLock
<1>2. \/ scanLock = "free" /\ scanLock' = s /\ phase' = [phase EXCEPT ![s] = "begin"]
             /\ UNCHANGED ticked
      \/ scanLock # "free" /\ scanLock' = scanLock /\ phase' = [phase EXCEPT ![s] = Back(s)]
             /\ ticked' = [ticked EXCEPT !.busy = @ \/ s = "poller"]
  BY DEF TryLock, Goes
<1>3. phase \in [Scanners -> ScanPhases] /\ ticked \in [at : -1..MaxScanTime, busy : BOOLEAN]
  BY <1>0, ScanFacts
<1>4. /\ phase' \in [Scanners -> ScanPhases] /\ phase'[s] \in {"begin", Back(s)}
      /\ \A u \in Scanners : u # s => phase'[u] = phase[u]
  BY <1>2, <1>3 DEF Scanners, ScanPhases, Back
<1>5. /\ ticked' \in [at : -1..MaxScanTime, busy : BOOLEAN] /\ ticked'.at = ticked.at
      /\ ticked.busy => ticked'.busy
      /\ s = "poller" /\ scanLock # "free" => ticked'.busy
      /\ s = "manual" => ticked' = ticked
      /\ scanLock = "free" => ticked' = ticked /\ phase'[s] = "begin"
  BY <1>2, <1>3 DEF Scanners
<1>6. ScanTypeOK'
  <2>1. scanLock' \in Scanners \cup {"free"}
    BY <1>0, <1>2 DEF ScanTypeOK
  <2> QED BY <2>1, <1>0, <1>1, <1>4, <1>5 DEF ScanTypeOK, ScanPhases
<1>7. LockKept'
  <2> SUFFICES ASSUME NEW u \in Scanners, Holding(u)' PROVE scanLock' = u
    BY DEF LockKept
  <2>1. CASE u = s
    BY <2>1, <1>2, <1>3 DEF Holding, Scanning, Scanners, Back
  <2>2. CASE u # s
    <3>1. Holding(u)
      BY <2>2, <1>4 DEF Holding, Scanning
    <3>2. scanLock = u
      BY <3>1, <1>0 DEF LockKept
    <3> QED BY <3>2, <1>2 DEF Scanners
  <2> QED BY <2>1, <2>2
<1>8. \A u \in Scanners : /\ Working(u)' => Working(u)
                          /\ Scanning(u)' => Scanning(u) /\ phase'[u] = phase[u]
  BY <1>1, <1>4 DEF Working, Holding, Scanning, Scanners, Back
<1>9. JobsKept'
  BY <1>0, <1>1, <1>8 DEF JobsKept, Scanners
<1>10. RowsKept'
  BY <1>0, <1>1, <1>8 DEF RowsKept
<1>11. NoneForgotten'
  <2>1. \A n \in Nets : Attended(n) => Attended(n)'
    BY <1>1, <1>5 DEF Attended, Begun, Ok
  <2>2. CASE s = "poller" /\ scanLock # "free"
    BY <2>2, <1>0, <1>1, <1>5 DEF NoneForgotten
  <2>3. CASE s = "poller" /\ scanLock = "free"
    BY <2>1, <2>3, <1>0, <1>1, <1>5 DEF NoneForgotten, Planned
  <2>4. CASE s = "manual"
    BY <2>1, <2>4, <1>0, <1>1, <1>4, <1>5 DEF NoneForgotten, Planned, Scanners
  <2> QED BY <2>2, <2>3, <2>4 DEF Scanners
<1>12. ScansSpaced' /\ CadencesHold'
  BY <1>1, <1>7, SameTable
<1> QED BY <1>6, <1>7, <1>9, <1>10, <1>11, <1>12 DEF ScanIInv, ScansPaced

\* A scan that the cooldown stops finds the attempt that stops it.
LEMMA SkipKeeps ==
    ASSUME ScanIInv, NEW s \in Scanners, Skip(s)
    PROVE  ScanIInv'
<1>0. ScanTypeOK /\ LockKept /\ JobsKept /\ RowsKept /\ NoneForgotten
  BY DEF ScanIInv, ScansPaced
<1>1. /\ s = "poller" /\ phase["poller"] = "begin" /\ InCooldown(job["poller"].net)
      /\ scanLock' = "free" /\ phase' = [phase EXCEPT !["poller"] = "next"]
      /\ UNCHANGED <<clock, scanRows, job, plan, ticked, forced, scanKills>>
  BY DEF Skip, Goes, Scanners, Back
<1>2. /\ phase' \in [Scanners -> ScanPhases] /\ phase'["poller"] = "next"
      /\ phase'["manual"] = phase["manual"]
  BY <1>0, <1>1, ScanFacts DEF Scanners, ScanPhases
<1>3. ScanTypeOK'
  BY <1>0, <1>1, <1>2 DEF ScanTypeOK, ScanPhases
<1>4. scanLock = "poller"
  BY <1>0, <1>1 DEF LockKept, Holding, Scanners
<1>5. \A u \in Scanners : ~Holding(u)' /\ (Working(u)' => Working(u) /\ u = "manual")
  BY <1>0, <1>1, <1>2, <1>4 DEF LockKept, Working, Holding, Scanning, Scanners
<1>6. LockKept' /\ RowsKept'
  BY <1>0, <1>1, <1>5 DEF LockKept, RowsKept, Holding
<1>7. JobsKept'
  BY <1>0, <1>1, <1>5 DEF JobsKept, Scanners
<1>8. NoneForgotten'
  <2>1. \A n \in Nets : Attended(n) => Attended(n)'
    BY <1>1 DEF Attended, Begun, Ok
  <2>2. Attended(job["poller"].net)
    <3>1. PICK i \in Begun(job["poller"].net) : scanRows[i].start > clock - ScanCooldown
      BY <1>1 DEF InCooldown
    <3>2. i \in DOMAIN scanRows
      BY DEF Begun
    <3>3. scanRows[i].start > ticked.at - ScanCooldown
      BY <3>1, <3>2, <1>0, ScanFacts DEF NoneForgotten
    <3> QED BY <3>3 DEF Attended
  <2> QED BY <2>1, <2>2, <1>0, <1>1, <1>2 DEF NoneForgotten, Planned
<1>9. ScansSpaced' /\ CadencesHold'
  BY <1>1, <1>6, SameTable
<1> QED BY <1>3, <1>6, <1>7, <1>8, <1>9 DEF ScanIInv, ScansPaced

\* A row is inserted: the last one, a cooldown after the others of its network unless
\* the scan was forced.
LEMMA InsertRowKeeps ==
    ASSUME ScanIInv, NEW s \in Scanners, InsertRow(s)
    PROVE  ScanIInv'
<1> DEFINE N == Len(scanRows)
           new == [net |-> job[s].net, trigger |-> job[s].trigger, start |-> clock,
                   end |-> "open", bulk |-> Absent, dns |-> Absent]
<1>0. ScanTypeOK /\ LockKept /\ JobsKept /\ RowsKept /\ NoneForgotten
  BY DEF ScanIInv, ScansPaced
<1>1. /\ phase[s] = "begin" /\ (s = "manual" \/ ~InCooldown(job[s].net)) /\ N < MaxScans
      /\ scanRows' = Append(scanRows, new) /\ job' = [job EXCEPT ![s].row = N + 1]
      /\ phase' = [phase EXCEPT ![s] = "measure"]
      /\ UNCHANGED <<clock, scanLock, plan, ticked, forced, scanKills>>
  BY DEF InsertRow, Goes
<1>2. /\ phase' \in [Scanners -> ScanPhases] /\ phase'[s] = "measure"
      /\ \A u \in Scanners : u # s => phase'[u] = phase[u]
  BY <1>0, <1>1, ScanFacts DEF ScanPhases
<1>3. /\ job \in [Scanners -> Jobs] /\ N + 1 \in 0..MaxScans /\ N \in Nat
      /\ clock \in 0..MaxScanTime /\ clock \in Nat
  BY <1>0, <1>1, ScanFacts
<1>4. /\ job' \in [Scanners -> Jobs] /\ job'[s].row = N + 1
      /\ job'[s].net = job[s].net /\ job'[s].trigger = job[s].trigger
      /\ \A u \in Scanners : u # s => job'[u] = job[u]
  BY <1>1, <1>3 DEF Jobs
<1>5. /\ job[s].net \in Nets /\ job[s].trigger \in Triggers
      /\ job[s].trigger = "manual" <=> s = "manual"
  BY <1>0, <1>1 DEF JobsKept, Working, Holding, Automatic, Triggers, Scanners
<1>6. new \in ScanRow
  BY <1>3, <1>5 DEF ScanRow, Times, Absent
<1> HIDE DEF new
<1>7. /\ scanRows' \in Seq(ScanRow) /\ Len(scanRows') = N + 1 /\ DOMAIN scanRows' = 1..(N + 1)
      /\ DOMAIN scanRows = 1..N /\ scanRows'[N + 1] = new
      /\ \A i \in 1..N : scanRows'[i] = scanRows[i]
  BY <1>0, <1>1, <1>6, ScanFacts
<1>8. /\ new.net = job[s].net /\ new.trigger = job[s].trigger /\ new.start = clock
      /\ new.end = "open" /\ new.bulk = Absent /\ new.dns = Absent
  BY DEF new
<1>9. ScanTypeOK'
  BY <1>0, <1>1, <1>2, <1>4, <1>7 DEF ScanTypeOK, ScanRow, ScanPhases
<1>10. scanLock = s
  BY <1>0, <1>1 DEF LockKept, Holding
<1>11. \A u \in Scanners : Holding(u)' => u = s
  <2>1. \A u \in Scanners : u # s /\ Holding(u)' => Holding(u)
    BY <1>2 DEF Holding, Scanning
  <2> QED BY <2>1, <1>0, <1>10 DEF LockKept
<1>12. LockKept'
  BY <1>1, <1>10, <1>11 DEF LockKept
<1>13. JobsKept'
  <2>1. s = "poller" => job'[s] \in Automatic
    <3>1. s = "poller" => job[s] \in Automatic
      BY <1>0, <1>1 DEF JobsKept, Working, Holding
    <3> QED BY <3>1, <1>1, <1>3 DEF Automatic
  <2>2. Working("poller")' => job'["poller"] \in Automatic
    BY <2>1, <1>0, <1>2, <1>4 DEF JobsKept, Working, Holding, Scanning, Scanners
  <2>3. Working("manual")' => job'["manual"].net \in Nets /\ job'["manual"].trigger = "manual"
    BY <1>0, <1>2, <1>4, <1>5 DEF JobsKept, Working, Holding, Scanning, Scanners
  <2> QED BY <2>2, <2>3, <1>0, <1>1 DEF JobsKept
<1>14. RowsKept'
  <2>1. \A i \in 1..N : scanRows[i].start <= clock
    BY <1>0, <1>7 DEF RowsKept
  <2>2. \A i \in DOMAIN scanRows' : scanRows'[i].start <= clock'
    BY <2>1, <1>1, <1>3, <1>7, <1>8
  <2>3. \A i, j \in DOMAIN scanRows' : i < j => scanRows'[i].start <= scanRows'[j].start
    BY <2>1, <1>0, <1>3, <1>7, <1>8 DEF RowsKept
  <2>4. \A u \in Scanners : Scanning(u)' => u = s
    BY <1>11 DEF Holding
  <2>5. Len(scanRows') > 0
    BY <1>3, <1>7
  <2> QED BY <2>2, <2>3, <2>4, <2>5, <1>4, <1>7, <1>8 DEF RowsKept
<1>15. NoneForgotten'
  <2>1. \A n \in Nets : Attended(n) => Attended(n)'
    BY <1>0, <1>1, <1>7, StaysAttended
  <2>2. \A n \in Nets : n = job[s].net => Attended(n)'
    <3>1. clock >= ticked.at
      BY <1>0, <1>3, ScanFacts DEF NoneForgotten
    <3>2. N + 1 \in DOMAIN scanRows' /\ scanRows'[N + 1].net = job[s].net
          /\ scanRows'[N + 1].start >= ticked'.at
      BY <3>1, <1>1, <1>3, <1>7, <1>8
    <3> QED BY <3>2 DEF Attended, Begun
  <2>3. \A n \in Nets : phase["poller"] # "idle" /\ Planned(n) =>
            n = job[s].net \/ (phase'["poller"] # "idle" /\ Planned(n)')
    BY <1>1, <1>2, <1>4 DEF Planned, Scanners
  <2> QED BY <2>1, <2>2, <2>3, <1>0, <1>1 DEF NoneForgotten
<1>16. ScansSpaced'
  <2>1. \A u, v \in Scanners : Scanning(u)' /\ Scanning(v)' => u = v
    BY <1>11 DEF Holding
  <2>2. s # "manual" => \A i \in 1..N : scanRows[i].net = job[s].net =>
            clock - scanRows[i].start >= ScanCooldown
    BY <1>0, <1>1, <1>3, <1>7, ScanFacts DEF InCooldown, Begun
  <2>3. \A i, j \in 1..(N + 1) :
          i < j /\ scanRows'[i].net = scanRows'[j].net /\ scanRows'[j].trigger # "manual" =>
              scanRows'[j].start - scanRows'[i].start >= ScanCooldown
    <3> SUFFICES ASSUME NEW i \in 1..(N + 1), NEW j \in 1..(N + 1), i < j,
                        scanRows'[i].net = scanRows'[j].net, scanRows'[j].trigger # "manual"
                 PROVE  scanRows'[j].start - scanRows'[i].start >= ScanCooldown
      OBVIOUS
    <3>1. i \in 1..N
      BY <1>3
    <3>2. CASE j \in 1..N
      BY <3>1, <3>2, <1>7 DEF ScanIInv, ScansPaced, ScansSpaced
    <3>3. CASE j = N + 1
      BY <3>1, <3>3, <2>2, <1>5, <1>7, <1>8
    <3> QED BY <3>2, <3>3, <1>3
  <2> QED BY <2>1, <2>3, <1>7 DEF ScansSpaced, Scanning
<1>17. CadencesHold'
  <2> SUFFICES ASSUME NEW i \in 1..(N + 1), NEW j \in 1..(N + 1), i < j,
                      scanRows'[j].trigger # "manual"
               PROVE  /\ scanRows'[i].bulk # Absent /\ scanRows'[j].bulk # Absent
                            /\ scanRows'[i].net = scanRows'[j].net =>
                         scanRows'[j].bulk - scanRows'[i].start >= BulkInterval
                      /\ scanRows'[i].dns # Absent /\ scanRows'[j].dns # Absent =>
                         scanRows'[j].dns - scanRows'[i].start >= Rescan
    BY <1>7 DEF CadencesHold
  <2>1. i \in 1..N
    BY <1>3
  <2>2. CASE j \in 1..N
    BY <2>1, <2>2, <1>7 DEF ScanIInv, ScansPaced, CadencesHold
  <2>3. CASE j = N + 1
    BY <2>3, <1>7, <1>8
  <2> QED BY <2>2, <2>3, <1>3
<1> QED BY <1>9, <1>12, <1>13, <1>14, <1>15, <1>16, <1>17 DEF ScanIInv, ScansPaced

\* The measurements write what is due, a manual scan writes all, a capture pass none.
LEMMA MeasureNetKeeps ==
    ASSUME ScanIInv, NEW s \in Scanners, MeasureNet(s)
    PROVE  ScanIInv'
<1> DEFINE N == Len(scanRows)
           heavy(due) == IF job[s].trigger # "capture" /\ (s = "manual" \/ due)
                         THEN clock ELSE Absent
           bulk == heavy(BulkDue(job[s].net))
           dns == heavy(DnsDue(job[s].net))
<1>0. ScanTypeOK /\ LockKept /\ JobsKept /\ RowsKept /\ NoneForgotten
  BY DEF ScanIInv, ScansPaced
<1>1. phase[s] = "measure" /\ UNCHANGED <<clock, scanLock, job, plan, ticked, forced, scanKills>>
  BY DEF MeasureNet
<1>2. /\ job[s].row = N /\ N > 0 /\ N \in Nat /\ DOMAIN scanRows = 1..N
      /\ scanRows[N].net = job[s].net /\ scanRows[N].trigger = job[s].trigger
      /\ scanRows[N].end = "open" /\ scanRows[N] \in ScanRow
      /\ clock \in 0..MaxScanTime /\ clock \in Nat
  BY <1>0, <1>1, ScanFacts DEF RowsKept, Scanning
<1>2a. N \in Nat /\ N > 0 /\ N \in 1..N
  BY <1>2
<1>3. \/ /\ scanRows' = [scanRows EXCEPT ![N].bulk = bulk, ![N].dns = dns]
         /\ phase' = [phase EXCEPT ![s] = "completeOk"]
      \/ scanRows' = scanRows /\ phase' = [phase EXCEPT ![s] = "completeError"]
  BY <1>2 DEF MeasureNet, Goes
<1>4. bulk \in Times /\ dns \in Times /\ bulk \in {clock, Absent} /\ dns \in {clock, Absent}
  BY <1>2 DEF Times
<1>5. s # "manual" => /\ bulk # Absent => BulkDue(job[s].net)
                      /\ dns # Absent => DnsDue(job[s].net)
  OBVIOUS
<1> HIDE DEF bulk, dns, heavy
<1>6. /\ phase' \in [Scanners -> ScanPhases] /\ phase'[s] \in {"completeOk", "completeError"}
      /\ \A u \in Scanners : u # s => phase'[u] = phase[u]
  BY <1>0, <1>1, <1>3, ScanFacts DEF ScanPhases
<1>7. /\ scanRows' \in Seq(ScanRow) /\ Len(scanRows') = N /\ DOMAIN scanRows' = 1..N
      /\ \A i \in 1..N :
            /\ scanRows'[i].net = scanRows[i].net /\ scanRows'[i].start = scanRows[i].start
            /\ scanRows'[i].trigger = scanRows[i].trigger /\ scanRows'[i].end = scanRows[i].end
            /\ i # N => scanRows'[i] = scanRows[i]
      /\ scanRows'[N].bulk = scanRows[N].bulk \/ scanRows'[N].bulk = bulk
      /\ scanRows'[N].dns = scanRows[N].dns \/ scanRows'[N].dns = dns
  <2>1. CASE scanRows' = scanRows
    BY <2>1, <1>0, <1>2, ScanFacts
  <2>2. CASE scanRows' = [scanRows EXCEPT ![N].bulk = bulk, ![N].dns = dns]
    <3> DEFINE q == [scanRows[N] EXCEPT !.bulk = bulk, !.dns = dns]
    <3>1. /\ q \in ScanRow /\ q.bulk = bulk /\ q.dns = dns /\ q.net = scanRows[N].net
          /\ q.start = scanRows[N].start /\ q.trigger = scanRows[N].trigger
          /\ q.end = scanRows[N].end
      BY <1>2, <1>4 DEF ScanRow
    <3>2. scanRows \in Seq(ScanRow)
      BY <1>0, ScanFacts
    <3>3. scanRows' = [scanRows EXCEPT ![N] = q]
      BY <2>2, <1>2, <3>2
    <3> HIDE DEF q
    <3>4. /\ scanRows' \in Seq(ScanRow) /\ Len(scanRows') = N /\ DOMAIN scanRows' = 1..N
          /\ scanRows'[N] = q /\ \A i \in 1..N : i # N => scanRows'[i] = scanRows[i]
      <4>1. scanRows \in [1..N -> ScanRow] /\ N \in 1..N
        BY <3>2, <1>2
      <4>2. /\ scanRows' \in [1..N -> ScanRow] /\ scanRows'[N] = q
            /\ \A i \in 1..N : i # N => scanRows'[i] = scanRows[i]
        <5> HIDE DEF N
        <5> QED BY <3>1, <3>3, <4>1
      <4>3. scanRows' \in Seq(ScanRow) /\ Len(scanRows') = N
        <5> HIDE DEF N
        <5> QED BY <4>2, <1>2a
      <4>4. DOMAIN scanRows' = 1..N
        BY <4>2
      <4> QED BY <4>2, <4>3, <4>4
    <3>5. \A i \in 1..N :
            /\ scanRows'[i].net = scanRows[i].net /\ scanRows'[i].start = scanRows[i].start
            /\ scanRows'[i].trigger = scanRows[i].trigger /\ scanRows'[i].end = scanRows[i].end
      BY <3>1, <3>4
    <3> QED BY <3>1, <3>4, <3>5
  <2> QED BY <2>1, <2>2, <1>3
<1>8. ScanTypeOK'
  BY <1>0, <1>1, <1>6, <1>7 DEF ScanTypeOK, ScanRow, ScanPhases
<1>9. scanLock = s
  BY <1>0, <1>1 DEF LockKept, Holding, Scanning
<1>10. \A u \in Scanners : Holding(u)' => u = s
  <2>1. \A u \in Scanners : u # s /\ Holding(u)' => Holding(u)
    BY <1>6 DEF Holding, Scanning
  <2> QED BY <2>1, <1>0, <1>9 DEF LockKept
<1>11. LockKept'
  BY <1>1, <1>9, <1>10 DEF LockKept
<1>12. JobsKept'
  <2>1. \A u \in Scanners : Working(u)' => Working(u)
    BY <1>1, <1>6 DEF Working, Holding, Scanning
  <2> QED BY <2>1, <1>0, <1>1 DEF JobsKept, Scanners
<1>13. RowsKept'
  <2>1. N \in 1..N
    BY <1>2
  <2>2. \A u \in Scanners : Scanning(u)' => u = s
    BY <1>10 DEF Holding
  <2>3. phase'[s] # "measure"
    BY <1>6
  <2>4. \A i, j \in 1..N : i < j => scanRows'[i].start <= scanRows'[j].start
    BY <1>0, <1>2, <1>7 DEF RowsKept
  <2>5. \A i \in 1..N : scanRows'[i].start <= clock'
    BY <1>0, <1>1, <1>2, <1>7 DEF RowsKept
  <2> QED BY <2>1, <2>2, <2>3, <2>4, <2>5, <1>1, <1>2, <1>7 DEF RowsKept
<1>14. NoneForgotten'
  <2>1. \A n \in Nets : Attended(n) => Attended(n)'
    BY <1>0, <1>1, <1>2, <1>7, StaysAttended
  <2>2. \A n \in Nets : phase["poller"] # "idle" /\ Planned(n) =>
            phase'["poller"] # "idle" /\ Planned(n)'
    BY <1>1, <1>6 DEF Planned, Scanners
  <2> QED BY <2>1, <2>2, <1>0, <1>1 DEF NoneForgotten
<1>15. ScansSpaced'
  <2>1. \A u, v \in Scanners : Scanning(u)' /\ Scanning(v)' => u = v
    BY <1>10 DEF Holding
  <2> QED BY <2>1, <1>2, <1>7 DEF ScanIInv, ScansPaced, ScansSpaced, Scanning
<1>16. CadencesHold'
  <2> SUFFICES ASSUME NEW i \in 1..N, NEW j \in 1..N, i < j, scanRows'[j].trigger # "manual"
               PROVE  /\ scanRows'[i].bulk # Absent /\ scanRows'[j].bulk # Absent
                            /\ scanRows'[i].net = scanRows'[j].net =>
                         scanRows'[j].bulk - scanRows'[i].start >= BulkInterval
                      /\ scanRows'[i].dns # Absent /\ scanRows'[j].dns # Absent =>
                         scanRows'[j].dns - scanRows'[i].start >= Rescan
    BY <1>7 DEF CadencesHold
  <2>0. i # N
    BY <1>2a
  <2>1. i # N /\ scanRows'[i] = scanRows[i]
    BY <2>0, <1>7, Zenon
  <2>2. CASE j # N
    BY <2>1, <2>2, <1>2, <1>7 DEF ScanIInv, ScansPaced, CadencesHold
  <2>3. CASE j = N
    <3>1. scanRows[N].bulk = Absent /\ scanRows[N].dns = Absent
      BY <1>0, <1>1 DEF RowsKept, Scanning
    <3>2. s # "manual"
      <4>1. scanRows'[N].trigger = job[s].trigger /\ scanRows'[N].trigger # "manual"
        BY <2>3, <1>2, <1>7
      <4>2. Working(s)
        BY <1>1 DEF Working, Holding, Scanning
      <4> QED BY <4>1, <4>2, <1>0 DEF JobsKept
    <3>3. scanRows'[N].net = job[s].net /\ i \in DOMAIN scanRows
      <4>1. i \in DOMAIN scanRows
        BY <1>2, Zenon
      <4>2. scanRows'[N].net = scanRows[N].net
        BY <1>7, <1>2a
      <4> QED BY <4>1, <4>2, <1>2
    <3>4. ASSUME scanRows'[i].bulk # Absent, scanRows'[j].bulk # Absent,
                 scanRows'[i].net = scanRows'[j].net
          PROVE  scanRows'[j].bulk - scanRows'[i].start >= BulkInterval
      <4>1. scanRows'[N].bulk = bulk /\ bulk = clock /\ BulkDue(job[s].net)
        BY <3>1, <3>2, <3>4, <2>3, <1>4, <1>5, <1>7
      <4>2. i \in Begun(job[s].net) /\ scanRows[i].bulk # Absent
        BY <3>3, <3>4, <2>1, <2>3 DEF Begun
      <4>3. clock - scanRows[i].start >= BulkInterval
        BY <4>1, <4>2 DEF BulkDue
      <4> QED BY <4>1, <4>3, <2>1, <2>3
    <3>5. ASSUME scanRows'[i].dns # Absent, scanRows'[j].dns # Absent
          PROVE  scanRows'[j].dns - scanRows'[i].start >= Rescan
      <4>1. scanRows'[N].dns = dns /\ dns = clock /\ DnsDue(job[s].net)
        BY <3>1, <3>2, <3>5, <2>3, <1>4, <1>5, <1>7
      <4>2. clock - scanRows[i].start >= Rescan
        BY <4>1, <3>3, <3>5, <2>1 DEF DnsDue
      <4> QED BY <4>1, <4>2, <2>1, <2>3
    <3> QED BY <3>4, <3>5
  <2> QED BY <2>2, <2>3
<1> QED BY <1>8, <1>11, <1>12, <1>13, <1>14, <1>15, <1>16 DEF ScanIInv, ScansPaced

\* The row of a scan gets its end, and the lock is free.
LEMMA CompleteKeeps ==
    ASSUME ScanIInv, NEW s \in Scanners, Complete(s)
    PROVE  ScanIInv'
<1> DEFINE N == Len(scanRows)
           end == IF phase[s] = "completeOk" THEN "ok" ELSE "error"
           q == [scanRows[N] EXCEPT !.end = end]
<1>0. ScanTypeOK /\ LockKept /\ JobsKept /\ RowsKept /\ NoneForgotten
  BY DEF ScanIInv, ScansPaced
<1>1. /\ phase[s] \in {"completeOk", "completeError"} /\ scanLock' = "free"
      /\ phase' = [phase EXCEPT ![s] = Back(s)] /\ job' = [job EXCEPT ![s] = NoJob]
      /\ UNCHANGED <<clock, plan, ticked, forced, scanKills>>
      /\ scanRows' = [scanRows EXCEPT ![job[s].row].end = end]
  BY DEF Complete, Goes
<1>2. /\ job[s].row = N /\ N \in Nat /\ N \in 1..N
      /\ scanRows[N].end = "open" /\ scanRows[N] \in ScanRow
  BY <1>0, <1>1, ScanFacts DEF RowsKept, Scanning
<1>3. scanRows \in [1..N -> ScanRow] /\ DOMAIN scanRows = 1..N
  BY <1>0, ScanFacts
<1>4. /\ phase' \in [Scanners -> ScanPhases] /\ phase'[s] = Back(s)
      /\ \A u \in Scanners : u # s => phase'[u] = phase[u] /\ job'[u] = job[u]
  BY <1>0, <1>1, ScanFacts DEF ScanPhases, Back
<1>5. /\ q \in ScanRow /\ q.net = scanRows[N].net /\ q.start = scanRows[N].start
      /\ q.trigger = scanRows[N].trigger /\ q.bulk = scanRows[N].bulk
      /\ q.dns = scanRows[N].dns
  BY <1>2 DEF ScanRow
<1>6. scanRows' = [scanRows EXCEPT ![N] = q]
  BY <1>1, <1>2, <1>3
<1> HIDE DEF q
<1>7. /\ scanRows' \in [1..N -> ScanRow] /\ scanRows'[N] = q
      /\ \A i \in 1..N : i # N => scanRows'[i] = scanRows[i]
  <2> HIDE DEF N
  <2> QED BY <1>2, <1>3, <1>5, <1>6
<1>8. scanRows' \in Seq(ScanRow) /\ Len(scanRows') = N
  <2> HIDE DEF N
  <2> QED BY <1>2, <1>7
<1>9. /\ DOMAIN scanRows' = 1..N
      /\ \A i \in 1..N :
            /\ scanRows'[i].net = scanRows[i].net /\ scanRows'[i].start = scanRows[i].start
            /\ scanRows'[i].trigger = scanRows[i].trigger
            /\ scanRows'[i].bulk = scanRows[i].bulk /\ scanRows'[i].dns = scanRows[i].dns
            /\ scanRows[i].end = "ok" => scanRows'[i].end = "ok"
  BY <1>2, <1>5, <1>7
<1>10. ScanTypeOK'
  <2>1. NoJob \in Jobs
    BY ScanBounds DEF NoJob, Jobs, Triggers
  <2>2. job' \in [Scanners -> Jobs]
    BY <2>1, <1>0, <1>1, ScanFacts
  <2> QED BY <2>2, <1>0, <1>1, <1>4, <1>8 DEF ScanTypeOK, ScanRow, ScanPhases
<1>11. scanLock = s
  BY <1>0, <1>1 DEF LockKept, Holding, Scanning
<1>12. \A u \in Scanners : ~Holding(u)' /\ (Working(u)' => Working(u) /\ u # s)
  BY <1>0, <1>4, <1>11 DEF LockKept, Working, Holding, Scanning, Back
<1>13. LockKept'
  BY <1>12 DEF LockKept
<1>14. JobsKept'
  BY <1>0, <1>1, <1>4, <1>12 DEF JobsKept, Scanners
<1>15. RowsKept'
  <2>1. \A u \in Scanners : ~Scanning(u)'
    BY <1>12 DEF Holding
  <2>2. \A i, j \in 1..N : i < j => scanRows'[i].start <= scanRows'[j].start
    BY <1>0, <1>3, <1>9 DEF RowsKept
  <2>3. \A i \in 1..N : scanRows'[i].start <= clock'
    BY <1>0, <1>1, <1>3, <1>9 DEF RowsKept
  <2> QED BY <2>1, <2>2, <2>3, <1>9 DEF RowsKept
<1>16. NoneForgotten'
  <2>1. \A n \in Nets : Attended(n) => Attended(n)'
    BY <1>0, <1>1, <1>3, <1>9, StaysAttended
  <2>2. \A n \in Nets : phase["poller"] # "idle" /\ Planned(n) =>
            phase'["poller"] # "idle" /\ Planned(n)'
    BY <1>1, <1>4 DEF Planned, Scanners, Back
  <2> QED BY <2>1, <2>2, <1>0, <1>1 DEF NoneForgotten
<1>17. ScansSpaced'
  <2>1. \A u, v \in Scanners : Scanning(u)' /\ Scanning(v)' => u = v
    BY <1>12 DEF Holding
  <2> QED BY <2>1, <1>3, <1>9 DEF ScanIInv, ScansPaced, ScansSpaced, Scanning
<1>18. CadencesHold'
  BY <1>3, <1>9, Zenon DEF ScanIInv, ScansPaced, CadencesHold
<1> QED BY <1>10, <1>13, <1>14, <1>15, <1>16, <1>17, <1>18 DEF ScanIInv, ScansPaced

\* A process that dies lets the lock go and leaves its row.
LEMMA ScannerKilledKeeps ==
    ASSUME ScanIInv, NEW s \in Scanners, ScannerKilled(s)
    PROVE  ScanIInv'
<1>0. ScanTypeOK /\ LockKept /\ JobsKept /\ RowsKept /\ NoneForgotten
  BY DEF ScanIInv, ScansPaced
<1>1. /\ phase' = [phase EXCEPT ![s] = "idle"] /\ job' = [job EXCEPT ![s] = NoJob]
      /\ scanLock' = IF scanLock = s THEN "free" ELSE scanLock
      /\ plan' = (IF s = "poller" THEN <<>> ELSE plan)
      /\ ticked' = IF s = "poller" THEN [at |-> -1, busy |-> FALSE] ELSE ticked
      /\ scanKills < MaxScanKills /\ scanKills' = scanKills + 1
      /\ UNCHANGED <<clock, scanRows, forced>>
  BY DEF ScannerKilled, Goes
<1>2. /\ phase' \in [Scanners -> ScanPhases] /\ phase'[s] = "idle"
      /\ \A u \in Scanners : u # s => phase'[u] = phase[u] /\ job'[u] = job[u]
  BY <1>0, <1>1, ScanFacts DEF ScanPhases
<1>3. \A u \in Scanners : /\ Holding(u)' => Holding(u) /\ u # s
                          /\ Working(u)' => Working(u) /\ u # s
                          /\ Scanning(u)' => Scanning(u) /\ u # s
  BY <1>2 DEF Working, Holding, Scanning
<1>4. ScanTypeOK'
  <2>1. job' \in [Scanners -> Jobs]
    <3>1. NoJob \in Jobs
      BY ScanBounds DEF NoJob, Jobs, Triggers
    <3> QED BY <3>1, <1>0, <1>1, ScanFacts
  <2>2. plan' \in Seq(Jobs) /\ scanLock' \in Scanners \cup {"free"}
    BY <1>0, <1>1 DEF ScanTypeOK
  <2>3. ticked' \in [at : -1..MaxScanTime, busy : BOOLEAN]
    BY <1>0, <1>1, ScanFacts
  <2>4. scanKills' \in 0..MaxScanKills
    BY <1>0, <1>1, ScanFacts DEF ScanTypeOK
  <2> QED BY <2>1, <2>2, <2>3, <2>4, <1>0, <1>1, <1>2 DEF ScanTypeOK, ScanPhases
<1>5. LockKept'
  BY <1>0, <1>1, <1>3 DEF LockKept
<1>6. JobsKept'
  BY <1>0, <1>1, <1>2, <1>3 DEF JobsKept, Scanners
<1>7. RowsKept'
  BY <1>0, <1>1, <1>2, <1>3 DEF RowsKept
<1>8. NoneForgotten'
  <2>1. CASE s = "poller"
    BY <2>1, <1>0, <1>1, ScanFacts DEF NoneForgotten
  <2>2. CASE s = "manual"
    BY <2>2, <1>0, <1>1, <1>2 DEF NoneForgotten, Attended, Planned, Begun, Ok, Scanners
  <2> QED BY <2>1, <2>2 DEF Scanners
<1>9. ScansSpaced' /\ CadencesHold'
  BY <1>1, <1>5, SameTable
<1> QED BY <1>4, <1>5, <1>6, <1>7, <1>8, <1>9 DEF ScanIInv, ScansPaced

\* Time goes by.
LEMMA ClockKeeps ==
    ASSUME ScanIInv, ClockTicks
    PROVE  ScanIInv'
<1>0. ScanTypeOK /\ LockKept /\ JobsKept /\ RowsKept /\ NoneForgotten
  BY DEF ScanIInv, ScansPaced
<1>1. /\ clock < MaxScanTime /\ clock' = clock + 1
      /\ UNCHANGED <<scanRows, scanLock, phase, job, plan, ticked, forced, scanKills>>
  BY DEF ClockTicks
<1>2. clock' \in 0..MaxScanTime /\ clock \in Nat /\ ticked.at \in Int
  BY <1>0, <1>1, ScanFacts
<1>3. ScanTypeOK'
  BY <1>0, <1>1, <1>2 DEF ScanTypeOK
<1>4. LockKept' /\ JobsKept'
  BY <1>0, <1>1 DEF LockKept, JobsKept, Working, Holding, Scanning
<1>5. RowsKept'
  <2>1. \A i \in DOMAIN scanRows : scanRows[i].start <= clock'
    BY <1>0, <1>1, <1>2, ScanFacts DEF RowsKept
  <2> QED BY <2>1, <1>0, <1>1 DEF RowsKept, Scanning
<1>6. NoneForgotten'
  BY <1>0, <1>1, <1>2 DEF NoneForgotten, Attended, Planned, Begun, Ok
<1>7. ScansSpaced' /\ CadencesHold'
  BY <1>1, <1>4, SameTable
<1> QED BY <1>3, <1>4, <1>5, <1>6, <1>7 DEF ScanIInv, ScansPaced

\* No step breaks the invariant of the scans.
LEMMA ScanStep == ScanIInv /\ [ScanNext]_scanVars => ScanIInv'
<1> SUFFICES ASSUME ScanIInv, [ScanNext]_scanVars PROVE ScanIInv'
  OBVIOUS
<1>1. CASE Tick
  BY <1>1, ScanTickKeeps
<1>2. CASE NextJob
  BY <1>2, NextJobKeeps
<1>3. ASSUME NEW n \in Nets, ManualScan(n) PROVE ScanIInv'
  BY <1>3, ManualKeeps
<1>4. CASE ClockTicks
  BY <1>4, ClockKeeps
<1>5. ASSUME NEW s \in Scanners,
             TryLock(s) \/ Skip(s) \/ InsertRow(s) \/ MeasureNet(s) \/ Complete(s) \/ ScannerKilled(s)
      PROVE  ScanIInv'
  BY <1>5, TryLockKeeps, SkipKeeps, InsertRowKeeps, MeasureNetKeeps, CompleteKeeps,
     ScannerKilledKeeps
<1>6. CASE UNCHANGED scanVars
  <2>1. /\ ScanTypeOK' /\ LockKept' /\ JobsKept' /\ RowsKept' /\ NoneForgotten'
    BY <1>6 DEF scanVars, ScanIInv, ScansPaced, ScanTypeOK, LockKept, JobsKept, RowsKept,
                NoneForgotten, Working, Holding, Scanning, Attended, Planned, Begun, Ok
  <2>2. ScansSpaced' /\ CadencesHold'
    BY <1>6, <2>1, SameTable DEF scanVars
  <2> QED BY <2>1, <2>2 DEF ScanIInv, ScansPaced
<1> QED BY <1>1, <1>2, <1>3, <1>4, <1>5, <1>6 DEF ScanNext

\* The invariant of the scans is inductive.
THEOREM ScansInductive == ScanSpec => []ScanIInv
<1>1. ScanInit => ScanIInv
  BY ScansStart
<1>2. ScanIInv /\ [ScanNext]_scanVars => ScanIInv'
  BY ScanStep
<1> QED BY <1>1, <1>2, PTL DEF ScanSpec

\* Scans never overlap, an unforced one begins a cooldown or more after the last attempt
\* on its network, and the heavy walk and the resolver probes keep their cadences: the
\* lock and the gates of scan.py and db.py, for every number of networks, intervals,
\* scans by hand and kills.
THEOREM ScansKeepPace == ScanSpec => []ScansPaced
<1>1. ScanIInv => ScansPaced
  BY DEF ScanIInv
<1> QED BY <1>1, ScansInductive, PTL

\* A tick that has run leaves no network without a full scan of the last interval or an
\* attempt since it was planned or within the cooldown, unless the lock was busy: tick of
\* poller.py against the suppression of run_scan.
THEOREM TicksForgetNone == ScanSpec => []TickLeavesFresh
<1>1. ScanIInv => TickLeavesFresh
  <2> SUFFICES ASSUME ScanIInv, phase["poller"] = "idle", ticked.at >= 0, ~ticked.busy,
                      NEW n \in Nets
               PROVE  Attended(n)
    BY DEF TickLeavesFresh, Attended
  <2> QED BY DEF ScanIInv, NoneForgotten
<1> QED BY <1>1, ScansInductive, PTL

----------------------------------------------------------------------------
(* The captures of the WAN path.                                           *)

\* Every name given is on disk or was evicted, and the marker is one of them.
NamesKept ==
    /\ DOMAIN kept \subseteq 1..named /\ 1..named \subseteq DOMAIN kept \cup evicted
    /\ mark <= named /\ CapturesDelivered

\* While a healed path is owed the flag is up, and no child is about to clear it.
FlagKept ==
    ~clobbered /\ owed => pathState.degraded /\ \A k \in kids : k.stage = "measure"

\* The ladders of a day that count against the cap.
Counted(d) == {s \in starts : s[1] # "recovery" /\ s[2] \div DayTicks = d}

\* The state on disk, or the one the check-in is about to save, counts every ladder of
\* the day and knows the last one.
LaddersKept ==
    ~clobbered =>
        /\ \A s \in starts : s[2] <= tick
        /\ \A d \in Nat : Cardinality(Counted(d)) <= DailyCap
        /\ at # "save" => Cardinality(Counted(Today)) <= RunsToday(pathState)
        /\ at = "save" => Cardinality(Counted(Today)) <= RunsToday(held.state) + 1
        /\ at \in {"decide", "save"} =>
              /\ held.state.day = pathState.day /\ held.state.runs = pathState.runs
              /\ held.state.last = pathState.last
        /\ pathState.last <= tick
        /\ \A s \in starts : s[1] = "outage" =>
              s[2] <= pathState.last \/ (at = "save" /\ s[2] = tick)
        /\ \A s, u \in starts : s[1] = "outage" /\ u[1] = "outage" /\ s[2] < u[2] =>
              u[2] - s[2] >= MinGap

PathIInv == PathTypeOK /\ NamesKept /\ FlagKept /\ LaddersKept

PathKids == [id : 1..MaxChildren, reason : Reasons, stage : {"measure", "load", "clear"},
             state : PathStates]

\* The bounds of the captures are numbers.
LEMMA PathNumbers ==
    /\ DailyCap \in Nat /\ MinGap \in Nat /\ BaselineEvery \in Nat /\ MaxPathTicks \in Nat
    /\ MaxCaptures \in Nat /\ MaxPathFaults \in Nat /\ PerRun \in Nat \ {0}
    /\ CaptureMax \in Nat \ {0} /\ DayTicks \in Nat \ {0} /\ MaxChildren \in Nat \ {0}
    /\ Long \in Int /\ Long <= 0
BY PathBounds DEF Long

\* A day has a number no greater than its ticks, and days do not go back.
LEMMA PathDays ==
    ASSUME NEW a \in Nat, NEW b \in Nat, a <= b
    PROVE  /\ a \div DayTicks \in Nat /\ a \div DayTicks <= a
           /\ a \div DayTicks <= b \div DayTicks
<1>1. DayTicks \in Nat \ {0}
  BY PathNumbers
<1>2. a \div DayTicks \in Nat /\ a \div DayTicks <= b \div DayTicks
  BY <1>1
<1>3. a \div DayTicks <= a
  <2>1. DayTicks * (a \div DayTicks) <= a
    BY <1>1
  <2>2. a \div DayTicks <= DayTicks * (a \div DayTicks)
    BY <1>1, <1>2
  <2> QED BY <2>1, <2>2, <1>1, <1>2
<1> QED BY <1>2, <1>3

\* The day of a check-in, and what the type invariant says of the state it loads.
LEMMA PathFacts ==
    ASSUME PathTypeOK
    PROVE  /\ tick \in 0..MaxPathTicks /\ tick \in Nat /\ Today \in Nat /\ Today \in -1..MaxPathTicks
           /\ pathState \in PathStates /\ held \in [reason : Reasons, state : PathStates]
           /\ held.reason \in Reasons /\ held.state \in PathStates
           /\ \A s \in PathStates : /\ s.day \in Int /\ s.runs \in Nat /\ s.last \in Int
                                    /\ s.last \in Long..MaxPathTicks
                                    /\ s.degraded \in BOOLEAN /\ RunsToday(s) \in Nat
           /\ kids \subseteq PathKids /\ starts \subseteq Reasons \X (0..MaxPathTicks)
<1>1. tick \in 0..MaxPathTicks /\ tick \in Nat
  BY PathNumbers DEF PathTypeOK
<1>2. Today \in Nat /\ Today <= tick
  BY <1>1, PathDays DEF Today
<1>3. Today \in -1..MaxPathTicks
  BY <1>1, <1>2, PathNumbers
<1>4. pathState \in PathStates /\ held \in [reason : Reasons, state : PathStates]
      /\ starts \subseteq Reasons \X (0..MaxPathTicks)
  BY DEF PathTypeOK
<1>5. \A s \in PathStates : /\ s.day \in Int /\ s.runs \in Nat /\ s.last \in Int
                            /\ s.last \in Long..MaxPathTicks /\ s.degraded \in BOOLEAN
  BY PathNumbers DEF PathStates
<1>6. \A s \in PathStates : RunsToday(s) \in Nat
  BY <1>5 DEF RunsToday
<1>7. kids \subseteq PathKids
  BY DEF PathTypeOK, PathKids
<1> QED BY <1>1, <1>2, <1>3, <1>4, <1>5, <1>6, <1>7

\* Before the first check-in nothing was captured.
LEMMA PathStarts == PathInit => PathIInv
<1> SUFFICES ASSUME PathInit PROVE PathIInv
  OBVIOUS
<1> USE PathNumbers DEF PathInit
<1>1. pathState \in PathStates
  BY DEF PathStates
<1>2. held \in [reason : Reasons, state : PathStates]
  BY <1>1 DEF Reasons
<1>3. DOMAIN kept = {} /\ Range(kept) = {}
  BY DEF Range
<1>4. PathTypeOK
  <2>1. DOMAIN kept \subseteq 1..MaxCaptures /\ Range(kept) \subseteq Kinds
    <3> HIDE DEF PathInit
    <3> QED BY <1>3
  <2>2. /\ tick \in 0..MaxPathTicks /\ measured \in Long..MaxPathTicks
        /\ named \in 0..MaxCaptures /\ mark \in 0..MaxCaptures /\ pathFaults \in 0..MaxPathFaults
    OBVIOUS
  <2>3. /\ kids = {} /\ answers = {} /\ evicted = {} /\ starts = {} /\ at = "idle"
        /\ owed = FALSE /\ clobbered = FALSE
    OBVIOUS
  <2> HIDE DEF PathInit
  <2> QED BY <2>1, <2>2, <2>3, <1>1, <1>2 DEF PathTypeOK
<1>5. NamesKept
  BY <1>3 DEF NamesKept, CapturesDelivered
<1>6. FlagKept
  BY DEF FlagKept
<1>7. LaddersKept
  <2>1. \A d : Counted(d) = {}
    BY DEF Counted
  <2>2. \A d : Cardinality(Counted(d)) = 0
    BY <2>1, FS_EmptySet, Zenon
  <2>3. RunsToday(pathState) \in Nat
    BY <1>4, PathFacts
  <2> QED BY <2>2, <2>3 DEF LaddersKept
<1> QED BY <1>4, <1>5, <1>6, <1>7 DEF PathIInv

\* The captures that a check-in may deliver are on disk.
LEMMA BatchOnDisk ==
    ASSUME PathTypeOK
    PROVE  /\ Batch \subseteq DOMAIN kept /\ DOMAIN kept \subseteq 1..MaxCaptures
           /\ \A n \in Batch : n > mark
           /\ \A done \in SUBSET Batch : Max({mark} \cup done) \in {mark} \cup done
<1>1. /\ Batch \subseteq DOMAIN kept /\ DOMAIN kept \subseteq 1..MaxCaptures
      /\ \A n \in Batch : n > mark
  BY DEF PathTypeOK, Batch, Waiting
<1>2. ASSUME NEW done \in SUBSET Batch
      PROVE  Max({mark} \cup done) \in {mark} \cup done
  <2> DEFINE S == {mark} \cup done
  <2>1. MaxCaptures \in Nat /\ mark \in 0..MaxCaptures
    BY PathNumbers DEF PathTypeOK
  <2>2. S \in SUBSET (0..MaxCaptures) /\ S # {}
    BY <1>1, <2>1
  <2>3. Max(S) \in S
    <3> HIDE DEF S
    <3> QED BY <2>1, <2>2, MaxOfBounded
  <2> QED BY <2>3
<1> QED BY <1>1, <1>2

\* Every step keeps the captures in their types.
LEMMA PathTypes == PathTypeOK /\ [PathNext]_pathVars => PathTypeOK'
<1> SUFFICES ASSUME PathTypeOK, [PathNext]_pathVars PROVE PathTypeOK'
  OBVIOUS
<1>1. CASE CheckinFails
  <2>1. tick' \in 0..MaxPathTicks
    BY <1>1, PathFacts, PathNumbers DEF CheckinFails
  <2>2. held' \in [reason : Reasons, state : PathStates]
    BY <1>1, PathFacts DEF CheckinFails, Reasons
  <2> QED BY <1>1, <2>1, <2>2 DEF PathTypeOK, CheckinFails, pathHistory
<1>2. CASE CheckinAnswered
  <2>1. tick' \in 0..MaxPathTicks
    BY <1>2, PathFacts, PathNumbers DEF CheckinAnswered
  <2> QED BY <1>2, <2>1 DEF PathTypeOK, CheckinAnswered, pathHistory
<1>3. ASSUME NEW done \in SUBSET Batch, Deliver(done) PROVE PathTypeOK'
  <2> DEFINE left == Batch \ done
             lost == IF left = {} THEN {} ELSE {Min(left)}
  <2>1. lost \subseteq Batch
    <3>1. left \in SUBSET Nat
      BY BatchOnDisk, PathNumbers
    <3>2. left # {} => Min(left) \in left
      <4> HIDE DEF left
      <4> QED BY <3>1, MinOfNumbers
    <3> QED BY <3>2
  <2>2. PICK arrived \in SUBSET lost :
            answers' = answers \cup {n \in done \cup arrived : kept[n] = "good"}
    BY <1>3 DEF Deliver
  <2>3. answers' \subseteq 1..MaxCaptures
    BY <2>1, <2>2, BatchOnDisk DEF PathTypeOK
  <2>4. mark' \in 0..MaxCaptures
    <3>1. Max({mark} \cup done) \in 0..MaxCaptures
      BY BatchOnDisk, PathNumbers DEF PathTypeOK
    <3> QED BY <3>1, <1>3 DEF Deliver, PathTypeOK
  <2>5. pathFaults' \in 0..MaxPathFaults
    BY <1>3, PathNumbers DEF Deliver, PathFault, PathTypeOK
  <2> QED BY <1>3, <2>3, <2>4, <2>5 DEF PathTypeOK, Deliver, pathHistory
<1>4. CASE OnSuccess
  <2>1. held' \in [reason : Reasons, state : PathStates]
    BY <1>4, PathFacts DEF OnSuccess, Reasons
  <2>2. at' \in {"idle", "decide"}
    BY <1>4 DEF OnSuccess
  <2> QED BY <1>4, <2>1, <2>2 DEF PathTypeOK, OnSuccess, pathHistory
<1>5. CASE Refuse
  BY <1>5 DEF PathTypeOK, Refuse, pathHistory
<1>6. CASE Spawn
  <2>1. kids' \subseteq PathKids
    BY <1>6, PathFacts DEF Spawn, PathKids
  <2>2. starts' \subseteq Reasons \X (0..MaxPathTicks)
    BY <1>6, PathFacts DEF Spawn
  <2> QED BY <1>6, <2>1, <2>2 DEF PathTypeOK, Spawn, PathKids
<1>7. CASE SaveState
  <2>1. pathState' \in PathStates
    <3>1. RunsToday(held.state) + 1 \in Nat /\ tick \in Long..MaxPathTicks
      BY PathFacts, PathNumbers
    <3>2. (held.reason = "outage" \/ held.state.degraded) \in BOOLEAN
      OBVIOUS
    <3> QED BY <1>7, <3>1, <3>2, PathFacts DEF SaveState, AfterRun, PathStates
  <2>2. owed' \in BOOLEAN /\ clobbered' \in BOOLEAN
    BY <1>7 DEF SaveState
  <2> QED BY <1>7, <2>1, <2>2 DEF PathTypeOK, SaveState
<1>8. ASSUME NEW k \in kids, Measure(k) PROVE PathTypeOK'
  <2>1. measured' \in Long..MaxPathTicks
    BY <1>8, PathFacts, PathNumbers DEF Measure
  <2> QED BY <1>8, <2>1 DEF PathTypeOK, Measure, pathHistory
<1>9. ASSUME NEW k \in kids, NEW kind \in Kinds, SaveCapture(k, kind) PROVE PathTypeOK'
  <2>0. k \in PathKids /\ named \in 0..MaxCaptures /\ named < MaxCaptures
    BY <1>9, PathFacts DEF SaveCapture, PathTypeOK
  <2>1. kids' \subseteq PathKids
    <3>1. [k EXCEPT !.stage = "load", !.state = k.state] \in PathKids
      BY <2>0 DEF PathKids
    <3> QED BY <1>9, <3>1, PathFacts DEF SaveCapture, Becomes
  <2>2. PICK stay \in SUBSET DOMAIN kept :
            /\ kept' = [n \in stay \cup {named + 1} |-> IF n = named + 1 THEN kind ELSE kept[n]]
            /\ evicted' = evicted \cup (DOMAIN kept \ stay)
    BY <1>9 DEF SaveCapture
  <2>3. named' \in 0..MaxCaptures /\ named + 1 \in 1..MaxCaptures
    BY <1>9, <2>0, PathNumbers DEF SaveCapture
  <2>4. DOMAIN kept' \subseteq 1..MaxCaptures /\ evicted' \subseteq 1..MaxCaptures
    BY <2>2, <2>3 DEF PathTypeOK
  <2>5. Range(kept') \subseteq Kinds
    BY <2>2 DEF PathTypeOK, Range
  <2>6. owed' \in BOOLEAN
    BY <1>9 DEF SaveCapture
  <2> QED BY <1>9, <2>1, <2>3, <2>4, <2>5, <2>6 DEF PathTypeOK, SaveCapture, PathKids
<1>10. ASSUME NEW k \in kids, LoadState(k) PROVE PathTypeOK'
  <2>1. kids' \subseteq PathKids
    <3>1. [k EXCEPT !.stage = "clear", !.state = pathState] \in PathKids
      BY PathFacts DEF PathKids
    <3> QED BY <1>10, <3>1, PathFacts DEF LoadState, Becomes
  <2> QED BY <1>10, <2>1 DEF PathTypeOK, LoadState, pathHistory, PathKids
<1>11. ASSUME NEW k \in kids, ClearDegraded(k) PROVE PathTypeOK'
  <2>1. pathState' \in PathStates
    BY <1>11, PathFacts DEF ClearDegraded, PathKids, PathStates
  <2>2. clobbered' \in BOOLEAN
    BY <1>11 DEF ClearDegraded
  <2> QED BY <1>11, <2>1, <2>2 DEF PathTypeOK, ClearDegraded
<1>12. CASE ContainerRestarts
  <2>1. pathFaults' \in 0..MaxPathFaults
    BY <1>12, PathNumbers DEF ContainerRestarts, PathFault, PathTypeOK
  <2>2. owed' \in BOOLEAN /\ clobbered' \in BOOLEAN
    BY <1>12 DEF ContainerRestarts
  <2> QED BY <1>12, <2>1, <2>2 DEF PathTypeOK, ContainerRestarts
<1>13. CASE UNCHANGED pathVars
  BY <1>13 DEF PathTypeOK, pathVars, pathHistory
<1> QED BY <1>1, <1>2, <1>3, <1>4, <1>5, <1>6, <1>7, <1>8, <1>9, <1>10, <1>11, <1>12, <1>13
        DEF PathNext, Ladders

\* A delivery steps over nothing that it should have sent: what lies below a capture of
\* the batch and is still waiting is in the batch, and goes first.
LEMMA DeliverNames ==
    ASSUME PathTypeOK, NamesKept, NEW done \in SUBSET Batch, Deliver(done)
    PROVE  NamesKept'
<1>0. /\ named \in Nat /\ mark \in Nat /\ MaxCaptures \in Nat /\ mark <= named
      /\ DOMAIN kept \subseteq 1..named /\ 1..named \subseteq DOMAIN kept \cup evicted
  BY PathNumbers DEF PathTypeOK, NamesKept
<1>1. /\ UNCHANGED <<kept, named, evicted>> /\ answers \subseteq answers'
      /\ {n \in done : kept[n] = "good"} \subseteq answers'
      /\ mark' \in {mark, Max({mark} \cup done)}
      /\ \A n \in Batch, m \in done : n < m => n \in done
  BY DEF Deliver
<1>2. mark' = mark \/ mark' \in done
  BY <1>1, BatchOnDisk
<1>3. \A m \in Batch : m \in 1..named
  BY <1>0, BatchOnDisk
<1>4. \A n \in Waiting, m \in Batch : n < m => n \in Batch
  <2> SUFFICES ASSUME NEW n \in Waiting, NEW m \in Batch, n < m PROVE n \in Batch
    OBVIOUS
  <2> DEFINE B(x) == {w \in Waiting : w < x}
  <2>1. n \in Nat /\ m \in Nat /\ \A w \in Waiting : w \in Nat
    BY <1>0, <1>3 DEF Waiting
  <2>2. B(n) \subseteq B(m) /\ B(m) \subseteq 1..named /\ B(n) \subseteq 1..named
    BY <2>1, <1>0 DEF Waiting
  <2>3. IsFiniteSet(1..named)
    BY <1>0, FS_Interval
  <2>4. Cardinality(B(m)) < PerRun
    BY DEF Batch
  <2> HIDE DEF B
  <2>5. IsFiniteSet(B(m)) /\ IsFiniteSet(B(n))
    BY <2>2, <2>3, FS_Subset
  <2>6. Cardinality(B(n)) <= Cardinality(B(m))
    BY <2>2, <2>5, FS_Subset
  <2>7. Cardinality(B(n)) \in Nat /\ Cardinality(B(m)) \in Nat
    BY <2>5, FS_CardinalityType
  <2>8. Cardinality(B(n)) < PerRun
    BY <2>4, <2>6, <2>7, PathNumbers
  <2> QED BY <2>8 DEF Batch, B
<1>5. CapturesDelivered'
  <2> SUFFICES ASSUME NEW n \in 1..mark'
               PROVE  n \in answers' \cup evicted \/ (n \in DOMAIN kept /\ kept[n] # "good")
    BY <1>1 DEF CapturesDelivered
  <2>1. CASE n <= mark
    <3>1. n \in 1..mark
      BY <2>1, <1>0, <1>2, <1>3
    <3> QED BY <3>1, <1>1 DEF NamesKept, CapturesDelivered
  <2>2. CASE ~(n <= mark)
    <3>1. mark' \in done /\ mark' \in Batch /\ mark' \in 1..named /\ n \in Nat /\ n <= mark'
      BY <2>2, <1>2, <1>3, <1>0
    <3>2. n \in 1..named /\ n > mark
      BY <3>1, <2>2, <1>0
    <3>3. CASE n \in DOMAIN kept
      <4>1. n \in Waiting
        BY <3>2, <3>3 DEF Waiting
      <4>2. n \in done
        BY <3>1, <4>1, <1>1, <1>4, <1>0
      <4> QED BY <3>3, <4>2, <1>1
    <3>4. CASE n \notin DOMAIN kept
      BY <3>2, <3>4, <1>0
    <3> QED BY <3>3, <3>4
  <2> QED BY <2>1, <2>2
<1>6. mark' <= named
  BY <1>0, <1>2, <1>3
<1> QED BY <1>0, <1>1, <1>5, <1>6 DEF NamesKept

\* A capture gets the next name, and the oldest makes room for it.
LEMMA SaveNames ==
    ASSUME PathTypeOK, NamesKept, NEW k \in kids, NEW kind \in Kinds, SaveCapture(k, kind)
    PROVE  NamesKept'
<1>0. /\ named \in Nat /\ mark \in Nat /\ mark <= named
      /\ DOMAIN kept \subseteq 1..named /\ 1..named \subseteq DOMAIN kept \cup evicted
  BY PathNumbers DEF PathTypeOK, NamesKept
<1>1. PICK stay \in SUBSET DOMAIN kept :
          /\ kept' = [n \in stay \cup {named + 1} |-> IF n = named + 1 THEN kind ELSE kept[n]]
          /\ evicted' = evicted \cup (DOMAIN kept \ stay)
  BY DEF SaveCapture
<1>2. named' = named + 1 /\ UNCHANGED <<mark, answers>>
  BY DEF SaveCapture
<1>3. DOMAIN kept' = stay \cup {named + 1}
  BY <1>1
<1>4. DOMAIN kept' \subseteq 1..named'
  BY <1>0, <1>2, <1>3
<1>5. 1..named' \subseteq DOMAIN kept' \cup evicted'
  <2> SUFFICES ASSUME NEW n \in 1..named' PROVE n \in DOMAIN kept' \cup evicted'
    OBVIOUS
  <2>1. n = named + 1 \/ n \in 1..named
    BY <1>0, <1>2
  <2> QED BY <2>1, <1>0, <1>1, <1>3
<1>6. CapturesDelivered'
  <2> SUFFICES ASSUME NEW n \in 1..mark
               PROVE  n \in answers \cup evicted' \/ (n \in DOMAIN kept' /\ kept'[n] # "good")
    BY <1>2 DEF CapturesDelivered
  <2>1. n \in answers \cup evicted \/ (n \in DOMAIN kept /\ kept[n] # "good")
    BY DEF NamesKept, CapturesDelivered
  <2>2. n # named + 1
    BY <1>0
  <2>3. CASE n \in stay
    <3>1. n \in DOMAIN kept' /\ kept'[n] = kept[n]
      BY <2>2, <2>3, <1>1, <1>3
    <3> QED BY <3>1, <2>1, <1>1
  <2>4. CASE n \notin stay
    BY <2>1, <2>4, <1>1
  <2> QED BY <2>3, <2>4
<1>7. mark' <= named'
  BY <1>0, <1>2
<1> QED BY <1>4, <1>5, <1>6, <1>7 DEF NamesKept

\* No step loses a capture.
LEMMA NamesStep == PathTypeOK /\ NamesKept /\ [PathNext]_pathVars => NamesKept'
<1> SUFFICES ASSUME PathTypeOK, NamesKept, [PathNext]_pathVars PROVE NamesKept'
  OBVIOUS
<1>1. ASSUME NEW done \in SUBSET Batch, Deliver(done) PROVE NamesKept'
  BY <1>1, DeliverNames
<1>2. ASSUME NEW k \in kids, NEW kind \in Kinds, SaveCapture(k, kind) PROVE NamesKept'
  BY <1>2, SaveNames
<1>3. ASSUME UNCHANGED <<kept, named, evicted, mark, answers>> PROVE NamesKept'
  BY <1>3 DEF NamesKept, CapturesDelivered
<1>4. CASE CheckinFails \/ CheckinAnswered \/ OnSuccess \/ Refuse \/ Spawn \/ SaveState
           \/ ContainerRestarts
  BY <1>3, <1>4 DEF CheckinFails, CheckinAnswered, OnSuccess, Refuse, Spawn, SaveState,
                    ContainerRestarts
<1>5. ASSUME NEW k \in kids, Measure(k) \/ LoadState(k) \/ ClearDegraded(k) PROVE NamesKept'
  BY <1>3, <1>5 DEF Measure, LoadState, ClearDegraded
<1>6. CASE UNCHANGED pathVars
  BY <1>3, <1>6 DEF pathVars
<1> QED BY <1>1, <1>2, <1>4, <1>5, <1>6 DEF PathNext, Ladders

\* The healed path stays wanted.
LEMMA FlagStep == PathTypeOK /\ FlagKept /\ [PathNext]_pathVars => FlagKept'
<1> SUFFICES ASSUME PathTypeOK, FlagKept, [PathNext]_pathVars, ~clobbered', owed'
             PROVE  pathState'.degraded /\ \A k \in kids' : k.stage = "measure"
  BY DEF FlagKept
<1>0. pathState \in PathStates /\ held.state \in PathStates /\ kids \subseteq PathKids
  BY PathFacts
<1>1. ASSUME ~clobbered, owed, pathState' = pathState, kids' \subseteq kids
      PROVE  pathState'.degraded /\ \A k \in kids' : k.stage = "measure"
  BY <1>1 DEF FlagKept
<1>2. CASE CheckinFails \/ CheckinAnswered \/ OnSuccess \/ Refuse
  BY <1>1, <1>2 DEF CheckinFails, CheckinAnswered, OnSuccess, Refuse, pathHistory
<1>3. ASSUME NEW done \in SUBSET Batch, Deliver(done)
      PROVE  pathState'.degraded /\ \A k \in kids' : k.stage = "measure"
  BY <1>1, <1>3 DEF Deliver, pathHistory
<1>4. CASE Spawn
  BY <1>4 DEF Spawn, FlagKept
<1>5. CASE SaveState
  <2>1. /\ ~clobbered /\ pathState = held.state /\ \A k \in kids : k.stage = "measure"
        /\ kids' = kids
        /\ pathState'.degraded = (held.reason = "outage" \/ held.state.degraded)
    BY <1>5 DEF SaveState, Races, AfterRun
  <2>2. owed \/ held.reason = "outage"
    BY <1>5 DEF SaveState
  <2>3. held.reason = "outage" \/ held.state.degraded
    <3>1. owed => pathState.degraded
      BY <2>1 DEF FlagKept
    <3> QED BY <3>1, <2>1, <2>2
  <2> QED BY <2>1, <2>3
<1>6. ASSUME NEW k \in kids, Measure(k)
      PROVE  pathState'.degraded /\ \A j \in kids' : j.stage = "measure"
  BY <1>1, <1>6 DEF Measure, pathHistory
<1>7. ASSUME NEW k \in kids, NEW kind \in Kinds, SaveCapture(k, kind)
      PROVE  pathState'.degraded /\ \A j \in kids' : j.stage = "measure"
  <2>1. k.reason # "recovery" /\ owed /\ ~clobbered
    BY <1>7 DEF SaveCapture
  <2>2. kids' \subseteq kids /\ pathState' = pathState
    BY <1>7, <2>1 DEF SaveCapture
  <2> QED BY <2>1, <2>2, <1>1
<1>8. ASSUME NEW k \in kids, LoadState(k) \/ ClearDegraded(k)
      PROVE  pathState'.degraded /\ \A j \in kids' : j.stage = "measure"
  <2>1. k.stage # "measure"
    BY <1>8 DEF LoadState, ClearDegraded
  <2>2. ~clobbered /\ owed
    <3>1. CASE LoadState(k)
      BY <3>1 DEF LoadState, pathHistory
    <3>2. CASE ClearDegraded(k)
      BY <3>2 DEF ClearDegraded
    <3> QED BY <3>1, <3>2, <1>8
  <2> QED BY <2>1, <2>2 DEF FlagKept
<1>9. CASE ContainerRestarts
  BY <1>1, <1>9 DEF ContainerRestarts
<1>10. CASE UNCHANGED pathVars
  BY <1>1, <1>10 DEF pathVars, pathHistory
<1> QED BY <1>2, <1>3, <1>4, <1>5, <1>6, <1>7, <1>8, <1>9, <1>10 DEF PathNext, Ladders

\* The ladders of a day are finitely many.
LEMMA CountedFacts ==
    ASSUME PathTypeOK, NEW d
    PROVE  IsFiniteSet(Counted(d)) /\ Cardinality(Counted(d)) \in Nat
<1> DEFINE R == Reasons
           T == 0..MaxPathTicks
<1>1. IsFiniteSet(R)
  <2>1. IsFiniteSet({"outage"}) /\ IsFiniteSet({"recovery"}) /\ IsFiniteSet({"baseline"})
    BY FS_Singleton
  <2>2. IsFiniteSet({"outage"} \cup {"recovery"})
    BY <2>1, FS_Union
  <2>3. IsFiniteSet(({"outage"} \cup {"recovery"}) \cup {"baseline"})
    BY <2>1, <2>2, FS_Union
  <2>4. R = ({"outage"} \cup {"recovery"}) \cup {"baseline"}
    BY DEF Reasons
  <2> HIDE DEF R
  <2> QED BY <2>3, <2>4, Zenon
<1>2. IsFiniteSet(T)
  BY PathNumbers, FS_Interval
<1>3. starts \subseteq R \X T
  BY PathFacts
<1> HIDE DEF R, T
<1>4. IsFiniteSet(R \X T)
  BY <1>1, <1>2, FS_Product
<1>5. Counted(d) \subseteq R \X T
  BY <1>3 DEF Counted
<1>6. IsFiniteSet(Counted(d))
  BY <1>4, <1>5, FS_Subset
<1> QED BY <1>6, FS_CardinalityType

\* Time goes by without a ladder: the new day has none, or it is still the same.
LEMMA CheckinLadders ==
    ASSUME PathTypeOK, LaddersKept, at = "idle", tick' = tick + 1,
           at' = "deliver" \/ (at' = "decide" /\ held'.state = pathState),
           UNCHANGED <<pathState, clobbered, starts>>
    PROVE  LaddersKept'
<1> SUFFICES ASSUME ~clobbered PROVE LaddersKept'
  BY DEF LaddersKept
<1>1. /\ tick \in Nat /\ Today \in Nat /\ pathState \in PathStates
      /\ \A s \in starts : s[2] \in Nat
      /\ RunsToday(pathState) \in Nat /\ pathState.last \in Int
  BY PathFacts
<1>2. Today' \in Nat /\ Today <= Today' /\ Today' = (tick + 1) \div DayTicks
      /\ Today = tick \div DayTicks
  BY <1>1, PathDays DEF Today
<1>3. \A d : Counted(d)' = Counted(d)
  BY DEF Counted
<1>4. Cardinality(Counted(Today')) <= RunsToday(pathState)'
  <2>1. CASE Today' = Today
    <3>1. RunsToday(pathState)' = RunsToday(pathState)
      BY <2>1 DEF RunsToday
    <3> QED BY <2>1, <3>1 DEF LaddersKept
  <2>2. CASE Today' # Today
    <3>1. \A s \in starts : s[2] \div DayTicks <= Today /\ s[2] \div DayTicks \in Nat
      BY <1>1, <1>2, PathDays DEF LaddersKept
    <3>2. Counted(Today') = {}
      BY <3>1, <2>2, <1>1, <1>2 DEF Counted
    <3>3. Cardinality(Counted(Today')) = 0
      BY <3>2, FS_EmptySet, Zenon
    <3>4. RunsToday(pathState)' \in Nat
      <4>1. pathState.runs \in Nat
        BY PathFacts
      <4> QED BY <4>1 DEF RunsToday
    <3> QED BY <3>3, <3>4
  <2> QED BY <2>1, <2>2
<1>5. Cardinality(Counted(Today)') <= RunsToday(pathState)'
  BY <1>3, <1>4 DEF Counted
<1>6. \A s \in starts' : s[2] <= tick'
  BY <1>1 DEF LaddersKept
<1>7. \A d \in Nat : Cardinality(Counted(d)') <= DailyCap
  BY <1>3 DEF LaddersKept
<1>8. pathState'.last <= tick'
  BY <1>1 DEF LaddersKept
<1>9. \A s \in starts' : s[1] = "outage" => s[2] <= pathState'.last
  BY DEF LaddersKept
<1>10. at' # "save" /\ (at' = "decide" => held'.state = pathState')
  OBVIOUS
<1>11. \A s, u \in starts' : s[1] = "outage" /\ u[1] = "outage" /\ s[2] < u[2] =>
              u[2] - s[2] >= MinGap
  BY DEF LaddersKept
<1> QED BY <1>5, <1>6, <1>7, <1>8, <1>9, <1>10, <1>11 DEF LaddersKept

\* A ladder starts: the state that was loaded allows it, and has counted the others.
LEMMA SpawnLadders ==
    ASSUME PathTypeOK, PathTypeOK', LaddersKept, Spawn
    PROVE  LaddersKept'
<1> DEFINE new == <<held.reason, tick>>
           day == tick \div DayTicks
           C == Counted(day)
<1>0. /\ at = "decide" /\ Allowed(held.reason, held.state) /\ at' = "save"
      /\ starts' = starts \cup {new} /\ UNCHANGED <<tick, pathState, held, clobbered>>
  BY DEF Spawn
<1> SUFFICES ASSUME ~clobbered PROVE LaddersKept'
  BY <1>0 DEF LaddersKept
<1>1. /\ tick \in Nat /\ day \in Nat /\ Today = day /\ Today' = day
      /\ pathState \in PathStates /\ held.state \in PathStates
      /\ \A s \in starts : s[2] \in Nat
      /\ RunsToday(pathState) \in Nat /\ pathState.last \in Int /\ held.state.last \in Int
  BY <1>0, PathFacts DEF Today
<1>2. /\ held.state.day = pathState.day /\ held.state.runs = pathState.runs
      /\ held.state.last = pathState.last
  BY <1>0 DEF LaddersKept
<1>3. /\ RunsToday(held.state) = RunsToday(pathState)
      /\ RunsToday(held.state)' = RunsToday(held.state)
  BY <1>0, <1>1, <1>2 DEF RunsToday
<1>4. Cardinality(C) <= RunsToday(held.state) /\ IsFiniteSet(C) /\ Cardinality(C) \in Nat
  BY <1>0, <1>1, <1>3, CountedFacts DEF LaddersKept
<1>5. \A d : Counted(d)' = IF held.reason # "recovery" /\ d = day THEN Counted(d) \cup {new}
                          ELSE Counted(d)
  BY <1>0 DEF Counted
<1> HIDE DEF C, new, day
<1>6. Cardinality(C \cup {new}) <= Cardinality(C) + 1
  <2>1. IsFiniteSet(C) /\ Cardinality(C) \in Nat
    BY <1>4
  <2>2. Cardinality(C \cup {new}) = IF new \in C THEN Cardinality(C) ELSE Cardinality(C) + 1
    BY <2>1, FS_AddElement
  <2> QED BY <2>1, <2>2
<1>7. Cardinality(C \cup {new}) \in Nat
  BY <1>4, FS_AddElement, FS_CardinalityType
<1>8. \A d \in Nat : Cardinality(Counted(d)') <= DailyCap
  <2> SUFFICES ASSUME NEW d \in Nat PROVE Cardinality(Counted(d)') <= DailyCap
    OBVIOUS
  <2>1. CASE held.reason # "recovery" /\ d = day
    <3>1. Counted(d)' = C \cup {new}
      BY <2>1, <1>5, Zenon DEF C
    <3>2. Cardinality(Counted(d)') = Cardinality(C \cup {new})
      BY <3>1, Zenon
    <3>3. RunsToday(held.state) < DailyCap
      BY <2>1, <1>0 DEF Allowed
    <3> QED BY <3>2, <3>3, <1>1, <1>3, <1>4, <1>6, <1>7, PathNumbers
  <2>2. CASE ~(held.reason # "recovery" /\ d = day)
    <3>1. Counted(d)' = Counted(d)
      BY <2>2, <1>5, Zenon
    <3>2. Cardinality(Counted(d)') = Cardinality(Counted(d))
      BY <3>1, Zenon
    <3> QED BY <3>2 DEF LaddersKept
  <2> QED BY <2>1, <2>2
<1>9. Cardinality(Counted(Today)') <= RunsToday(held.state)' + 1
  <2>1. CASE held.reason # "recovery"
    <3>1. Counted(Today)' = C \cup {new}
      BY <2>1, <1>1, <1>5, Zenon DEF C
    <3>2. Cardinality(Counted(Today)') = Cardinality(C \cup {new})
      BY <3>1, Zenon
    <3> QED BY <3>2, <1>1, <1>3, <1>4, <1>6, <1>7
  <2>2. CASE held.reason = "recovery"
    <3>1. Counted(Today)' = C
      BY <2>2, <1>1, <1>5, Zenon DEF C
    <3>2. Cardinality(Counted(Today)') = Cardinality(C)
      BY <3>1, Zenon
    <3> QED BY <3>2, <1>1, <1>3, <1>4
  <2> QED BY <2>1, <2>2
<1>10. new[1] = held.reason /\ new[2] = tick
  BY DEF new
<1>11. \A s \in starts' : s[2] <= tick'
  BY <1>0, <1>1, <1>10 DEF LaddersKept
<1>12. \A s \in starts' : s[1] = "outage" => s[2] <= pathState'.last \/ s[2] = tick'
  BY <1>0, <1>10 DEF LaddersKept
<1>13. \A s, u \in starts' : s[1] = "outage" /\ u[1] = "outage" /\ s[2] < u[2] =>
              u[2] - s[2] >= MinGap
  <2> SUFFICES ASSUME NEW s \in starts', NEW u \in starts',
                      s[1] = "outage", u[1] = "outage", s[2] < u[2]
               PROVE  u[2] - s[2] >= MinGap
    OBVIOUS
  <2>1. s \in starts
    <3>1. u[2] <= tick
      BY <1>0, <1>11
    <3>2. u[2] \in Nat /\ s[2] # tick
      BY <3>1, <1>0, <1>1, <1>10
    <3> QED BY <3>2, <1>0, <1>10
  <2>2. CASE u \in starts
    BY <2>1, <2>2 DEF LaddersKept
  <2>3. CASE u = new
    <3>1. tick - held.state.last >= MinGap
      BY <2>3, <1>0, <1>10 DEF Allowed
    <3>2. s[2] <= pathState.last
      BY <2>1, <1>0 DEF LaddersKept
    <3> QED BY <2>1, <2>3, <3>1, <3>2, <1>1, <1>2, <1>10, PathNumbers
  <2> QED BY <2>2, <2>3, <1>0
<1>14. pathState'.last <= tick'
  BY <1>0 DEF LaddersKept
<1> QED BY <1>0, <1>2, <1>8, <1>9, <1>11, <1>12, <1>13, <1>14 DEF LaddersKept

\* The run is saved, over the state it was decided from.
LEMMA SaveLadders ==
    ASSUME PathTypeOK, LaddersKept, SaveState
    PROVE  LaddersKept'
<1>0. /\ at = "save" /\ at' = "idle" /\ UNCHANGED <<tick, starts, held>>
      /\ pathState' = AfterRun(held.reason = "outage" \/ held.state.degraded)
      /\ clobbered' = (clobbered \/ Races)
  BY DEF SaveState
<1> SUFFICES ASSUME ~clobbered PROVE LaddersKept'
  BY <1>0 DEF LaddersKept
<1>1. /\ tick \in Nat /\ Today \in Nat /\ Today' = Today /\ held.state \in PathStates
      /\ \A s \in starts : s[2] \in Nat
  BY <1>0, PathFacts DEF Today
<1>2. /\ pathState'.day = Today /\ pathState'.runs = RunsToday(held.state) + 1
      /\ pathState'.last = tick
  BY <1>0 DEF AfterRun
<1>3. RunsToday(pathState)' = RunsToday(held.state) + 1
  BY <1>1, <1>2 DEF RunsToday
<1>4. \A d : Counted(d)' = Counted(d)
  BY <1>0 DEF Counted
<1>5. \A d : Cardinality(Counted(d)') = Cardinality(Counted(d))
  BY <1>4, Zenon
<1>6. Cardinality(Counted(Today)') <= RunsToday(pathState)'
  <2>1. Counted(Today)' = Counted(Today)
    BY <1>0, <1>1 DEF Counted
  <2>2. Cardinality(Counted(Today)') = Cardinality(Counted(Today))
    BY <2>1, Zenon
  <2> QED BY <2>2, <1>0, <1>3 DEF LaddersKept
<1>7. \A d \in Nat : Cardinality(Counted(d)') <= DailyCap
  BY <1>5 DEF LaddersKept
<1>8. \A s \in starts' : s[2] <= tick'
  BY <1>0 DEF LaddersKept
<1>9. \A s, u \in starts' : s[1] = "outage" /\ u[1] = "outage" /\ s[2] < u[2] =>
              u[2] - s[2] >= MinGap
  BY <1>0 DEF LaddersKept
<1>10. pathState'.last <= tick' /\ \A s \in starts' : s[2] <= pathState'.last
  BY <1>0, <1>1, <1>2, <1>8
<1> QED BY <1>0, <1>6, <1>7, <1>8, <1>9, <1>10 DEF LaddersKept

\* Steps that start no ladder, and leave the day, the runs and the last run alone.
LEMMA QuietLadders ==
    ASSUME PathTypeOK, LaddersKept, UNCHANGED <<tick, starts>>, ~clobbered' => ~clobbered,
           /\ pathState'.day = pathState.day /\ pathState'.runs = pathState.runs
           /\ pathState'.last = pathState.last,
           \/ UNCHANGED <<at, held>>
           \/ at # "save" /\ at' = "decide" /\ held'.state = pathState /\ pathState' = pathState
           \/ at # "save" /\ at' \notin {"save", "decide"}
           \/ at = "save" /\ clobbered'
    PROVE  LaddersKept'
<1> SUFFICES ASSUME ~clobbered', ~clobbered PROVE LaddersKept'
  BY DEF LaddersKept
<1>1. /\ tick \in Nat /\ Today \in Nat /\ Today' = Today
      /\ RunsToday(pathState) \in Nat
  BY PathFacts DEF Today
<1>2. \A d : Counted(d)' = Counted(d)
  BY DEF Counted
<1>3. Counted(Today)' = Counted(Today)
  BY <1>1 DEF Counted
<1>4. /\ Cardinality(Counted(Today)') = Cardinality(Counted(Today))
      /\ \A d : Cardinality(Counted(d)') = Cardinality(Counted(d))
  BY <1>2, <1>3, Zenon
<1>5. RunsToday(pathState)' = RunsToday(pathState)
  BY <1>1 DEF RunsToday
<1>6. /\ \A d \in Nat : Cardinality(Counted(d)') <= DailyCap
      /\ \A s \in starts' : s[2] <= tick' /\ pathState'.last <= tick'
      /\ \A s, u \in starts' : s[1] = "outage" /\ u[1] = "outage" /\ s[2] < u[2] =>
              u[2] - s[2] >= MinGap
  BY <1>4 DEF LaddersKept
<1>7. pathState'.last <= tick'
  BY DEF LaddersKept
<1>8. at = "save" => UNCHANGED <<at, held>>
  OBVIOUS
<1>9. at' # "save" => Cardinality(Counted(Today)') <= RunsToday(pathState)'
  BY <1>4, <1>5, <1>8 DEF LaddersKept
<1>10. at' = "save" => at = "save" /\ UNCHANGED held
  OBVIOUS
<1>11. at' = "save" => Cardinality(Counted(Today)') <= RunsToday(held.state)' + 1
  <2>1. held' = held => RunsToday(held.state)' = RunsToday(held.state)
    BY <1>1 DEF RunsToday
  <2> QED BY <2>1, <1>4, <1>10 DEF LaddersKept
<1>12. at' \in {"decide", "save"} =>
              /\ held'.state.day = pathState'.day /\ held'.state.runs = pathState'.runs
              /\ held'.state.last = pathState'.last
  BY DEF LaddersKept
<1>13. \A s \in starts' : s[1] = "outage" =>
              s[2] <= pathState'.last \/ (at' = "save" /\ s[2] = tick')
  BY <1>8 DEF LaddersKept
<1> QED BY <1>6, <1>7, <1>9, <1>11, <1>12, <1>13 DEF LaddersKept

\* No step takes a ladder too many.
LEMMA LaddersStep ==
    PathTypeOK /\ PathTypeOK' /\ LaddersKept /\ [PathNext]_pathVars => LaddersKept'
<1> SUFFICES ASSUME PathTypeOK, PathTypeOK', LaddersKept, [PathNext]_pathVars PROVE LaddersKept'
  OBVIOUS
<1>1. CASE CheckinFails \/ CheckinAnswered
  BY <1>1, CheckinLadders DEF CheckinFails, CheckinAnswered, pathHistory
<1>2. ASSUME NEW done \in SUBSET Batch, Deliver(done) PROVE LaddersKept'
  BY <1>2, QuietLadders DEF Deliver, pathHistory
<1>3. CASE OnSuccess \/ Refuse
  BY <1>3, QuietLadders DEF OnSuccess, Refuse, pathHistory
<1>4. CASE Spawn
  BY <1>4, SpawnLadders
<1>5. CASE SaveState
  BY <1>5, SaveLadders
<1>6. ASSUME NEW k \in kids, Measure(k) \/ LoadState(k) \/ \E kind \in Kinds : SaveCapture(k, kind)
      PROVE  LaddersKept'
  BY <1>6, QuietLadders DEF Measure, LoadState, SaveCapture, pathHistory
<1>7. ASSUME NEW k \in kids, ClearDegraded(k) PROVE LaddersKept'
  <2>1. CASE clobbered'
    BY <2>1 DEF LaddersKept
  <2>2. CASE ~clobbered'
    <3>1. pathState = k.state /\ ~clobbered
      BY <1>7, <2>2 DEF ClearDegraded
    <3>2. /\ pathState'.day = pathState.day /\ pathState'.runs = pathState.runs
          /\ pathState'.last = pathState.last
      BY <1>7, <3>1, PathFacts DEF ClearDegraded, PathStates
    <3> QED BY <1>7, <3>1, <3>2, QuietLadders DEF ClearDegraded
  <2> QED BY <2>1, <2>2
<1>8. CASE ContainerRestarts
  BY <1>8, QuietLadders DEF ContainerRestarts
<1>9. CASE UNCHANGED pathVars
  BY <1>9, QuietLadders DEF pathVars, pathHistory
<1> QED BY <1>1, <1>2, <1>3, <1>4, <1>5, <1>6, <1>7, <1>8, <1>9 DEF PathNext, Ladders

\* No capture is stepped over, a healed path is wanted until one is on disk, and the
\* ladders keep the day's cap and the gap between outages unless check-in and child saved
\* the state into each other: checkin.py, wan_path.py and cmd_wan_path, for every cap,
\* gap, batch, number of children and of restarts.
THEOREM CapturesAreAccounted == PathSpec => []CapturesAccounted
<1>1. PathInit => PathIInv
  BY PathStarts
<1>2. PathIInv /\ [PathNext]_pathVars => PathIInv'
  BY PathTypes, NamesStep, FlagStep, LaddersStep DEF PathIInv
<1>3. PathIInv => CapturesAccounted
  <2> SUFFICES ASSUME PathIInv PROVE CapturesAccounted
    OBVIOUS
  <2>1. HealedPathWanted
    BY DEF PathIInv, FlagKept, HealedPathWanted
  <2>2. LaddersBounded
    <3>1. MaxPathTicks \div DayTicks \in Nat
      BY PathNumbers
    <3>2. 0..(MaxPathTicks \div DayTicks) \subseteq Nat
      BY <3>1
    <3> QED BY <3>2 DEF PathIInv, LaddersKept, Counted, LaddersBounded
  <2> QED BY <2>1, <2>2 DEF PathIInv, NamesKept, CapturesAccounted
<1> QED BY <1>1, <1>2, <1>3, PTL DEF PathSpec

----------------------------------------------------------------------------
(* The watch list.                                                         *)

\* What the state of a target knows of its own past: it answered, it owes as many
\* answers as it counts, and it is down only when it owes them all.
TargetsKnown(D, ear, mis) ==
    \A k \in DOMAIN D :
        /\ D[k].up => k \in ear
        /\ D[k].fails <= mis[k]
        /\ D[k].state = "down" => D[k].up /\ D[k].fails >= DownAfterFails

WatchedState == [state : {"unknown", "never", "up", "down"}, fails : 0..DownAfterFails,
                 up : BOOLEAN, ip : Addresses]
StatesOK(D) == DOMAIN D \subseteq Keys /\ \A k \in DOMAIN D : D[k] \in WatchedState

\* The cycle in memory is a state and a report like those on disk.
InMemory == turn \in {"report", "state"}
NextOK ==
    InMemory =>
        /\ StatesOK(next.devices) /\ next.seq \in 0..MaxSeq /\ next.blind \in BOOLEAN
        /\ next.report \in Seq(Events) /\ Len(next.report) <= MaxPending
        /\ next.earned \subseteq Keys /\ next.misses \in [Keys -> 0..DownAfterFails]
        /\ next.joined \in [Keys -> 0..MaxSeq]
        /\ TargetsKnown(next.devices, next.earned, next.misses)

WatchIInv == WatchTypeOK /\ TargetsKnown(devices, earned, misses) /\ NextOK

\* The bounds of the watch list are numbers.
LEMMA WatchNumbers ==
    /\ DownAfterFails \in Nat \ {0} /\ MaxPending \in Nat \ {0} /\ MaxSeq \in Nat
    /\ MaxWatchKills \in Nat /\ "view" \notin Keys /\ IsFiniteSet(Keys)
    /\ \A L \in Lists : DOMAIN L \subseteq Keys
BY WatchBounds

\* What the type invariant says of the state and the report on disk.
LEMMA WatchFacts ==
    ASSUME WatchTypeOK
    PROVE  /\ StatesOK(devices) /\ list \in Lists /\ DOMAIN list \subseteq Keys
           /\ \A k \in DOMAIN list : list[k] \in Addresses
           /\ seq \in 0..MaxSeq /\ seq \in Nat /\ report \in Seq(Events) /\ Len(report) \in Nat
           /\ earned \subseteq Keys /\ misses \in [Keys -> 0..DownAfterFails]
           /\ joined \in [Keys -> 0..MaxSeq]
<1>1. StatesOK(devices)
  BY DEF WatchTypeOK, StatesOK, WatchedState
<1>2. list \in Lists /\ DOMAIN list \subseteq Keys
  BY WatchNumbers DEF WatchTypeOK
<1>3. \A k \in DOMAIN list : list[k] \in Addresses
  BY <1>2 DEF Addresses, Range
<1>4. seq \in Nat /\ Len(report) \in Nat
  BY WatchNumbers DEF WatchTypeOK
<1> QED BY <1>1, <1>2, <1>3, <1>4 DEF WatchTypeOK

\* A target enters a cycle with a state at its present address.
LEMMA EnteringFacts ==
    ASSUME WatchTypeOK, NEW k \in DOMAIN list
    PROVE  /\ Entering(k) \in WatchedState /\ Entering(k).ip = list[k]
           /\ k \in DOMAIN devices /\ devices[k].ip = list[k] => Entering(k) = devices[k]
           /\ ~(k \in DOMAIN devices /\ devices[k].ip = list[k]) =>
                 Entering(k).state = "unknown" /\ Entering(k).fails = 0 /\ ~Entering(k).up
<1>1. list[k] \in Addresses /\ StatesOK(devices)
  BY WatchFacts
<1>2. CASE k \in DOMAIN devices /\ devices[k].ip = list[k]
  BY <1>1, <1>2 DEF Entering, StatesOK
<1>3. CASE ~(k \in DOMAIN devices /\ devices[k].ip = list[k])
  <2>1. Entering(k) = [state |-> "unknown", fails |-> 0, up |-> FALSE, ip |-> list[k]]
    BY <1>3 DEF Entering, Fresh
  <2>2. 0 \in 0..DownAfterFails
    BY WatchNumbers
  <2> QED BY <2>1, <2>2, <1>1, <1>3 DEF WatchedState
<1> QED BY <1>2, <1>3

\* The state machine of one target, in one cycle.
LEMMA AdvancedFacts ==
    ASSUME NEW s \in WatchedState, NEW r \in {"up", "down", "skip"}, NEW b \in BOOLEAN
    PROVE  LET t == Advanced(s, r, b)
           IN  /\ t \in WatchedState /\ t.ip = s.ip
               /\ r = "up" => t.up /\ t.state = "up" /\ t.fails = 0
               /\ r # "up" => t.up = s.up
               /\ r # "up" /\ ~(r = "down" /\ ~b) => t = s
               /\ r = "down" /\ ~b =>
                     /\ t.fails = IF s.fails < DownAfterFails THEN s.fails + 1 ELSE s.fails
                     /\ t.state = IF ~s.up THEN "never"
                                  ELSE IF t.fails >= DownAfterFails THEN "down" ELSE s.state
<1>1. /\ s.fails \in 0..DownAfterFails /\ s.fails \in Nat
      /\ s.state \in {"unknown", "never", "up", "down"}
      /\ s.up \in BOOLEAN /\ s.ip \in Addresses
      /\ s = [state |-> s.state, fails |-> s.fails, up |-> s.up, ip |-> s.ip]
  BY WatchNumbers DEF WatchedState
<1>2. CASE r = "up"
  <2> DEFINE t == [s EXCEPT !.up = TRUE, !.state = "up", !.fails = 0]
  <2>1. Advanced(s, r, b) = t
    BY <1>2 DEF Advanced
  <2>2. 0 \in 0..DownAfterFails /\ TRUE \in BOOLEAN
    BY WatchNumbers
  <2>3. t \in WatchedState
    BY <2>2 DEF WatchedState
  <2>4. t.state = "up" /\ t.fails = 0 /\ t.ip = s.ip
    BY DEF WatchedState
  <2>5. t.up
    BY DEF WatchedState
  <2> QED BY <1>2, <2>1, <2>3, <2>4, <2>5
<1>3. CASE r = "down" /\ ~b
  <2> DEFINE n == IF s.fails < DownAfterFails THEN s.fails + 1 ELSE s.fails
             st == IF ~s.up THEN "never" ELSE IF n >= DownAfterFails THEN "down" ELSE s.state
             t == [s EXCEPT !.fails = n, !.state = st]
  <2>1. Advanced(s, r, b) = t
    BY <1>3 DEF Advanced, Failed1
  <2>2. n \in 0..DownAfterFails /\ st \in {"unknown", "never", "up", "down"}
    BY <1>1, WatchNumbers
  <2> HIDE DEF n, st
  <2>3. t.fails = n /\ t.state = st /\ t.up = s.up /\ t.ip = s.ip /\ t \in WatchedState
    BY <1>1, <2>2 DEF WatchedState
  <2> HIDE DEF t
  <2>4. /\ t.fails = IF s.fails < DownAfterFails THEN s.fails + 1 ELSE s.fails
        /\ t.state = IF ~s.up THEN "never"
                     ELSE IF t.fails >= DownAfterFails THEN "down" ELSE s.state
    BY <2>3 DEF n, st
  <2> QED BY <1>3, <2>1, <2>3, <2>4
<1>4. CASE r # "up" /\ ~(r = "down" /\ ~b)
  <2>1. Advanced(s, r, b) = s
    BY <1>4 DEF Advanced
  <2> QED BY <1>4, <2>1
<1> QED BY <1>2, <1>3, <1>4


\* A target has at most one edge in a cycle, of its own; it goes down when its state does.
LEMMA EdgeFacts ==
    ASSUME WatchTypeOK, NEW R \in [DOMAIN list -> {"up", "down", "skip"}], NEW b \in BOOLEAN,
           NEW k \in DOMAIN list
    PROVE  LET s == Entering(k)
               t == Advanced(s, R[k], b)
               gone == k \in DOMAIN devices /\ devices[k].ip # list[k] /\ devices[k].state = "down"
           IN  /\ \A x, y \in EdgesOf(k, R, b) : x = y
               /\ \A x \in EdgesOf(k, R, b) :
                     /\ x.key = k /\ x.edge \in {"down", "up", "cleared"}
                     /\ x.ip \in Addresses
                     /\ x.edge = "down" <=> s.state # "down" /\ t.state = "down"
               /\ EdgesOf(k, R, b) = {} <=>
                     ~gone /\ ~(s.state = "down" /\ t.state = "up")
                     /\ ~(s.state # "down" /\ t.state = "down")
<1> DEFINE s == Entering(k)
           t == Advanced(s, R[k], b)
           gone == k \in DOMAIN devices /\ devices[k].ip # list[k] /\ devices[k].state = "down"
           goesUp == s.state = "down" /\ t.state = "up"
           goesDown == s.state # "down" /\ t.state = "down"
           e(edge, ip) == {[key |-> k, edge |-> edge, ip |-> ip]}
<1>1. EdgesOf(k, R, b) = (IF gone THEN e("cleared", devices[k].ip) ELSE {}) \cup
                         (IF goesUp THEN e("up", t.ip)
                          ELSE IF goesDown THEN e("down", t.ip) ELSE {})
  BY DEF EdgesOf
<1>2. /\ s \in WatchedState
      /\ k \in DOMAIN devices /\ devices[k].ip # list[k] => s.state = "unknown" /\ ~s.up
  BY EnteringFacts
<1>3. R[k] \in {"up", "down", "skip"}
  OBVIOUS
<1>4. /\ t \in WatchedState /\ t.ip = s.ip /\ s.ip = list[k]
      /\ s.state = "unknown" /\ ~s.up => t.state # "down"
  BY <1>2, <1>3, AdvancedFacts, EnteringFacts
<1>5. t.ip \in Addresses /\ (gone => devices[k].ip \in Addresses)
  BY <1>4, WatchFacts DEF StatesOK, WatchedState
<1>6. gone => ~goesUp /\ ~goesDown
  BY <1>2, <1>4
<1> HIDE DEF s, t, gone, goesUp, goesDown
<1> DEFINE X == EdgesOf(k, R, b)
<1>7. /\ \A x, y \in X : x = y
      /\ \A x \in X : /\ x.key = k /\ x.edge \in {"down", "up", "cleared"}
                      /\ x.ip \in Addresses
                      /\ x.edge = "down" <=> goesDown
      /\ X = {} <=> ~gone /\ ~goesUp /\ ~goesDown
  <2> HIDE DEF X
  <2>1. CASE gone
    <3> DEFINE x1 == [key |-> k, edge |-> "cleared", ip |-> devices[k].ip]
    <3>1. X = {x1}
      BY <1>1, <1>6, <2>1 DEF X
    <3>2. x1.key = k /\ x1.edge = "cleared" /\ x1.ip \in Addresses
      BY <1>5, <2>1
    <3> HIDE DEF x1
    <3> QED BY <3>1, <3>2, <1>6, <2>1
  <2>2. CASE ~gone /\ goesUp
    <3> DEFINE x1 == [key |-> k, edge |-> "up", ip |-> t.ip]
    <3>1. X = {x1}
      BY <1>1, <2>2 DEF X
    <3>2. x1.key = k /\ x1.edge = "up" /\ x1.ip \in Addresses
      BY <1>5
    <3>3. ~goesDown
      BY <2>2 DEF goesUp, goesDown
    <3> HIDE DEF x1
    <3> QED BY <3>1, <3>2, <3>3, <2>2
  <2>3. CASE ~gone /\ ~goesUp /\ goesDown
    <3> DEFINE x1 == [key |-> k, edge |-> "down", ip |-> t.ip]
    <3>1. X = {x1}
      BY <1>1, <2>3 DEF X
    <3>2. x1.key = k /\ x1.edge = "down" /\ x1.ip \in Addresses
      BY <1>5
    <3> HIDE DEF x1
    <3> QED BY <3>1, <3>2, <2>3
  <2>4. CASE ~gone /\ ~goesUp /\ ~goesDown
    <3>1. X = {}
      BY <1>1, <2>4 DEF X
    <3> QED BY <3>1, <2>4
  <2> QED BY <2>1, <2>2, <2>3, <2>4
<1> QED BY <1>7 DEF gone, goesUp, goesDown, s, t

\* The edges of a cycle, in any order: each once, and none of the view.
LEMMA EdgeOrder ==
    ASSUME WatchTypeOK, NEW R \in [DOMAIN list -> {"up", "down", "skip"}], NEW b \in BOOLEAN,
           NEW edges \in SetToSeqs(UNION {EdgesOf(k, R, b) : k \in DOMAIN list})
    PROVE  /\ edges \in Seq([key : Keys, edge : {"down", "up", "cleared"}, ip : Addresses])
           /\ \A i \in DOMAIN edges : edges[i].key \in DOMAIN list
                                       /\ edges[i] \in EdgesOf(edges[i].key, R, b)
           /\ \A i, j \in DOMAIN edges : edges[i].key = edges[j].key => i = j
           /\ \A k \in DOMAIN list : \A x \in EdgesOf(k, R, b) :
                 \E i \in DOMAIN edges : edges[i] = x
<1> DEFINE P == UNION {EdgesOf(k, R, b) : k \in DOMAIN list}
           Shape == [key : Keys, edge : {"down", "up", "cleared"}, ip : Addresses]
<1>1. \A k \in DOMAIN list : /\ k \in Keys
                             /\ \A x, y \in EdgesOf(k, R, b) : x = y
                             /\ \A x \in EdgesOf(k, R, b) : x.key = k
  <2> SUFFICES ASSUME NEW k \in DOMAIN list
               PROVE  /\ k \in Keys
                      /\ \A x, y \in EdgesOf(k, R, b) : x = y
                      /\ \A x \in EdgesOf(k, R, b) : x.key = k
    OBVIOUS
  <2>1. k \in Keys
    BY WatchFacts
  <2>2. \A x, y \in EdgesOf(k, R, b) : x = y
    BY EdgeFacts
  <2>3. \A x \in EdgesOf(k, R, b) : x.key = k
    BY EdgeFacts
  <2> QED BY <2>1, <2>2, <2>3
<1>2. \A k \in DOMAIN list : \A x \in EdgesOf(k, R, b) : x \in Shape
  <2> SUFFICES ASSUME NEW k \in DOMAIN list, NEW x \in EdgesOf(k, R, b) PROVE x \in Shape
    OBVIOUS
  <2>1. x.edge \in {"down", "up", "cleared"} /\ x.ip \in Addresses /\ x.key \in Keys
    BY EdgeFacts, <1>1
  <2>2. x = [key |-> x.key, edge |-> x.edge, ip |-> x.ip]
    BY DEF EdgesOf
  <2> QED BY <2>1, <2>2
<1>3. \A x \in P : x.key \in DOMAIN list /\ x.key \in Keys /\ x \in EdgesOf(x.key, R, b)
                   /\ x \in Shape
  BY <1>1, <1>2
<1>4. \A x, y \in P : x.key = y.key => x = y
  BY <1>1, <1>3
<1>5. \A k \in DOMAIN list : \A x \in EdgesOf(k, R, b) : x \in P
  OBVIOUS
<1>6. edges \in SetToSeqs(P)
  OBVIOUS
<1> HIDE DEF P, Shape
<1>7. IsFiniteSet(P)
  <2> DEFINE f == [e \in P |-> e.key]
  <2>1. f \in Injection(P, Keys)
    BY <1>3, <1>4 DEF Injection, IsInjective
  <2>2. IsFiniteSet(Keys)
    BY WatchNumbers
  <2> HIDE DEF f
  <2> QED BY <2>1, <2>2, FS_Injection
<1> DEFINE m == Cardinality(P)
<1>8. m \in Nat
  BY <1>7, FS_CardinalityType
<1>9. edges \in [1..m -> P] /\ \A i, j \in 1..m : i # j => edges[i] # edges[j]
  BY <1>6 DEF SetToSeqs
<1>10. IsFiniteSet(1..m) /\ Cardinality(1..m) = m
  <2> HIDE DEF m
  <2> QED BY <1>8, FS_Interval
<1>11. edges \in Injection(1..m, P)
  BY <1>9 DEF Injection, IsInjective
<1>12. edges \in Surjection(1..m, P)
  <2>1. Cardinality(1..m) = Cardinality(P) <=> edges \in Surjection(1..m, P)
    <3> HIDE DEF m
    <3> QED BY <1>7, <1>11, FS_Injection
  <2> QED BY <2>1, <1>10
<1> HIDE DEF m
<1>13. edges \in Seq(Shape)
  BY <1>3, <1>8, <1>9
<1>14. DOMAIN edges = 1..m
  BY <1>9
<1>15. \A i \in 1..m : edges[i] \in P
  BY <1>9
<1>16. \A i, j \in 1..m : edges[i].key = edges[j].key => i = j
  BY <1>4, <1>9, <1>15
<1>17. \A x \in P : \E i \in 1..m : edges[i] = x
  BY <1>12 DEF Surjection
<1> QED
  <2>1. \A i \in DOMAIN edges : edges[i].key \in DOMAIN list
                                 /\ edges[i] \in EdgesOf(edges[i].key, R, b)
    BY <1>3, <1>14, <1>15, Zenon
  <2>2. \A i, j \in DOMAIN edges : edges[i].key = edges[j].key => i = j
    BY <1>14, <1>16, Zenon
  <2>3. \A k \in DOMAIN list : \A x \in EdgesOf(k, R, b) : \E i \in DOMAIN edges : edges[i] = x
    BY <1>5, <1>14, <1>17, Zenon
  <2> QED BY <1>13, <2>1, <2>2, <2>3 DEF Shape

\* The events a cycle numbers: a sequence of them, each with a number of its own above
\* those given before, one for each edge and perhaps one for the view.
LEMMA NewEvents ==
    ASSUME WatchTypeOK, NEW R \in [DOMAIN list -> {"up", "down", "skip"}], NEW b \in BOOLEAN,
           NEW edges \in SetToSeqs(UNION {EdgesOf(k, R, b) : k \in DOMAIN list})
    PROVE  LET new == Numbered(ViewOf(b) \o edges)
           IN  /\ Len(new) \in Nat
               /\ seq + Len(new) <= MaxSeq => new \in Seq(Events)
               /\ \A e \in ToSet(new) : e.seq \in Nat /\ e.seq > seq /\ e.seq <= seq + Len(new)
               /\ \A d, e \in ToSet(new) : d.seq = e.seq => d = e
               /\ \A d, e \in ToSet(new) : d.key = e.key => d = e
               /\ \A e \in ToSet(new) : e.key \in Keys =>
                     /\ e.key \in DOMAIN list
                     /\ \E x \in EdgesOf(e.key, R, b) : x.edge = e.edge
               /\ \A k \in DOMAIN list : \A x \in EdgesOf(k, R, b) :
                     \E e \in ToSet(new) : e.key = k /\ e.edge = x.edge
<1> DEFINE Shape == [key : Keys \cup {"view"}, ip : Addresses \cup {0},
                     edge : {"down", "up", "cleared", "blind", "sighted"}]
           v == ViewOf(b)
           all == v \o edges
           new == Numbered(all)
           Edge == [key : Keys, edge : {"down", "up", "cleared"}, ip : Addresses]
<1>1. /\ \A i \in DOMAIN edges : edges[i].key \in DOMAIN list
                                  /\ edges[i] \in EdgesOf(edges[i].key, R, b)
      /\ \A i, j \in DOMAIN edges : edges[i].key = edges[j].key => i = j
      /\ \A k \in DOMAIN list : \A x \in EdgesOf(k, R, b) : \E i \in DOMAIN edges : edges[i] = x
  BY EdgeOrder
<1>2. edges \in Seq(Shape)
  <2>1. edges \in Seq(Edge)
    BY EdgeOrder
  <2>2. \A x \in Edge : x \in Shape
    OBVIOUS
  <2> HIDE DEF Edge, Shape
  <2>3. Len(edges) \in Nat /\ edges \in [1..Len(edges) -> Edge]
    BY <2>1
  <2>4. edges \in [1..Len(edges) -> Shape]
    BY <2>2, <2>3
  <2> QED BY <2>3, <2>4
<1>3. /\ v \in Seq(Shape) /\ Len(v) \in {0, 1}
      /\ \A i \in DOMAIN v : v[i].key = "view"
  <2> DEFINE e == [key |-> "view", edge |-> IF b THEN "blind" ELSE "sighted", ip |-> 0]
  <2>1. CASE b = blind
    <3>1. v = <<>>
      BY <2>1 DEF ViewOf
    <3> QED BY <3>1
  <2>2. CASE b # blind
    <3>1. v = <<e>>
      BY <2>2 DEF ViewOf
    <3>2. e \in Shape /\ e.key = "view"
      OBVIOUS
    <3> HIDE DEF v, e, Shape
    <3>3. v \in Seq(Shape) /\ Len(v) = 1 /\ DOMAIN v = {1} /\ v[1] = e
      BY <3>1, <3>2
    <3> QED BY <3>2, <3>3
  <2> QED BY <2>1, <2>2
<1> HIDE DEF v, Shape
<1>4. /\ all \in Seq(Shape) /\ Len(all) = Len(v) + Len(edges)
      /\ Len(all) \in Nat /\ Len(edges) \in Nat /\ DOMAIN edges = 1..Len(edges)
      /\ DOMAIN v = 1..Len(v)
      /\ \A i \in 1..Len(all) :
            all[i] = IF i <= Len(v) THEN v[i] ELSE edges[i - Len(v)]
  BY <1>2, <1>3
<1> HIDE DEF all
<1>5. /\ new = [i \in 1..Len(all) |-> [key |-> all[i].key, edge |-> all[i].edge,
                                        ip |-> all[i].ip, seq |-> seq + i]]
      /\ seq \in Nat /\ seq \in 0..MaxSeq /\ MaxSeq \in Nat
  BY <1>4, WatchFacts, WatchNumbers DEF Numbered
<1>6. /\ Len(new) = Len(all) /\ DOMAIN new = 1..Len(all)
      /\ \A i \in 1..Len(all) : new[i] = [key |-> all[i].key, edge |-> all[i].edge,
                                          ip |-> all[i].ip, seq |-> seq + i]
  BY <1>4, <1>5
<1> HIDE DEF new
<1>7. \A i \in 1..Len(all) : all[i] \in Shape
  BY <1>4
<1>8. seq + Len(new) <= MaxSeq => new \in Seq(Events)
  <2> SUFFICES ASSUME seq + Len(all) <= MaxSeq PROVE new \in Seq(Events)
    BY <1>6
  <2>1. \A i \in 1..Len(all) : new[i] \in Events
    <3> SUFFICES ASSUME NEW i \in 1..Len(all) PROVE new[i] \in Events
      OBVIOUS
    <3>1. seq + i \in 1..MaxSeq
      BY <1>4, <1>5
    <3>2. /\ all[i].key \in Keys \cup {"view"} /\ all[i].ip \in Addresses \cup {0}
          /\ all[i].edge \in {"down", "up", "cleared", "blind", "sighted"}
      BY <1>7 DEF Shape
    <3>3. new[i] = [key |-> all[i].key, edge |-> all[i].edge,
                    ip |-> all[i].ip, seq |-> seq + i]
      BY <1>6
    <3> QED BY <3>1, <3>2, <3>3 DEF Events
  <2> QED BY <2>1, <1>4, <1>5
<1>9. \A e \in ToSet(new) : \E i \in 1..Len(all) : e = new[i]
  BY <1>6, Zenon DEF ToSet
<1>10. \A i \in 1..Len(all) : new[i] \in ToSet(new)
  BY <1>6, Zenon DEF ToSet
<1>11. \A i \in 1..Len(all) : new[i].key = all[i].key /\ new[i].edge = all[i].edge
                              /\ new[i].seq = seq + i
  BY <1>6
<1>12. \A e \in ToSet(new) : e.seq \in Nat /\ e.seq > seq /\ e.seq <= seq + Len(new)
  <2>1. \A i \in 1..Len(all) : seq + i \in Nat /\ seq + i > seq /\ seq + i <= seq + Len(new)
    BY <1>4, <1>5, <1>6
  <2> QED BY <2>1, <1>9, <1>11
<1>13. \A d, e \in ToSet(new) : d.seq = e.seq => d = e
  <2>1. \A i, j \in 1..Len(all) : seq + i = seq + j => i = j
    BY <1>4, <1>5
  <2> QED BY <2>1, <1>9, <1>11
<1>14. "view" \notin Keys /\ DOMAIN list \subseteq Keys
  BY WatchNumbers, WatchFacts
<1>15. \A i \in 1..Len(all) :
          IF i <= Len(v) THEN i = 1 /\ all[i].key = "view"
          ELSE /\ i - Len(v) \in DOMAIN edges /\ all[i] = edges[i - Len(v)]
  <2> SUFFICES ASSUME NEW i \in 1..Len(all)
               PROVE  IF i <= Len(v) THEN i = 1 /\ all[i].key = "view"
                      ELSE /\ i - Len(v) \in DOMAIN edges /\ all[i] = edges[i - Len(v)]
    OBVIOUS
  <2>1. CASE i <= Len(v)
    BY <2>1, <1>3, <1>4
  <2>2. CASE ~(i <= Len(v))
    <3>1. i - Len(v) \in 1..Len(edges)
      BY <2>2, <1>3, <1>4
    <3> QED BY <3>1, <2>2, <1>4
  <2> QED BY <2>1, <2>2
<1>16. \A i, j \in 1..Len(all) : all[i].key = all[j].key => i = j
  <2> SUFFICES ASSUME NEW i \in 1..Len(all), NEW j \in 1..Len(all), all[i].key = all[j].key
               PROVE  i = j
    OBVIOUS
  <2>1. CASE i <= Len(v) /\ j <= Len(v)
    BY <2>1, <1>15
  <2>2. CASE i <= Len(v) /\ ~(j <= Len(v))
    BY <2>2, <1>1, <1>14, <1>15
  <2>3. CASE ~(i <= Len(v)) /\ j <= Len(v)
    BY <2>3, <1>1, <1>14, <1>15
  <2>4. CASE ~(i <= Len(v)) /\ ~(j <= Len(v))
    <3>1. i - Len(v) = j - Len(v)
      BY <2>4, <1>1, <1>15
    <3> QED BY <3>1, <1>3
  <2> QED BY <2>1, <2>2, <2>3, <2>4
<1>17. \A d, e \in ToSet(new) : d.key = e.key => d = e
  BY <1>9, <1>11, <1>16
<1>18. \A e \in ToSet(new) : e.key \in Keys =>
          e.key \in DOMAIN list /\ \E x \in EdgesOf(e.key, R, b) : x.edge = e.edge
  <2> SUFFICES ASSUME NEW i \in 1..Len(all), all[i].key \in Keys
               PROVE  /\ all[i].key \in DOMAIN list
                      /\ \E x \in EdgesOf(all[i].key, R, b) : x.edge = all[i].edge
    BY <1>9, <1>11
  <2>1. i - Len(v) \in DOMAIN edges /\ all[i] = edges[i - Len(v)]
    BY <1>14, <1>15
  <2> QED BY <2>1, <1>1
<1>19. \A k \in DOMAIN list : \A x \in EdgesOf(k, R, b) :
          \E e \in ToSet(new) : e.key = k /\ e.edge = x.edge
  <2> SUFFICES ASSUME NEW k \in DOMAIN list, NEW x \in EdgesOf(k, R, b)
               PROVE  \E e \in ToSet(new) : e.key = k /\ e.edge = x.edge
    OBVIOUS
  <2>1. PICK j \in DOMAIN edges : edges[j] = x
    BY <1>1
  <2>2. j \in 1..Len(edges)
    BY <1>4
  <2>3. j + Len(v) \in 1..Len(all) /\ ~(j + Len(v) <= Len(v)) /\ (j + Len(v)) - Len(v) = j
    BY <2>2, <1>3, <1>4
  <2>4. all[j + Len(v)] = x
    BY <2>1, <2>3, <1>15
  <2>5. x.key = k
    BY EdgeFacts
  <2> QED BY <2>3, <2>4, <2>5, <1>10, <1>11
<1>20. Len(new) \in Nat
  BY <1>4, <1>6
<1> QED BY <1>8, <1>12, <1>13, <1>17, <1>18, <1>19, <1>20 DEF new, all, v


\* Merging the new events into the pending ones leaves a report within the cap, and
\* all of both when it has room for them.
LEMMA MergedFacts ==
    ASSUME report \in Seq(Events), NEW new \in Seq(Events)
    PROVE  /\ Merged(new) \in Seq(Events) /\ Len(Merged(new)) <= MaxPending
           /\ Len(report) + Len(new) <= MaxPending =>
                 ToSet(Merged(new)) = ToSet(report) \cup ToSet(new)
<1> DEFINE all == report \o new
<1>1. /\ all \in Seq(Events) /\ Len(all) = Len(report) + Len(new)
      /\ Len(report) \in Nat /\ Len(new) \in Nat
  OBVIOUS
<1>2. ToSet(all) = ToSet(report) \cup ToSet(new)
  <2>1. DOMAIN all = 1..Len(all) /\ DOMAIN report = 1..Len(report) /\ DOMAIN new = 1..Len(new)
    OBVIOUS
  <2>2. \A i \in 1..Len(all) : all[i] = IF i <= Len(report) THEN report[i]
                                        ELSE new[i - Len(report)]
    OBVIOUS
  <2> HIDE DEF all
  <2>3. \A i \in 1..Len(all) : all[i] \in ToSet(report) \cup ToSet(new)
    <3> SUFFICES ASSUME NEW i \in 1..Len(all)
                 PROVE  all[i] \in ToSet(report) \cup ToSet(new)
      OBVIOUS
    <3>1. CASE i <= Len(report)
      <4>1. i \in 1..Len(report) /\ all[i] = report[i]
        BY <3>1, <1>1, <2>2
      <4> QED BY <4>1, <2>1, Zenon DEF ToSet
    <3>2. CASE ~(i <= Len(report))
      <4>1. i - Len(report) \in 1..Len(new) /\ all[i] = new[i - Len(report)]
        BY <3>2, <1>1, <2>2
      <4> QED BY <4>1, <2>1, Zenon DEF ToSet
    <3> QED BY <3>1, <3>2
  <2>4. \A i \in 1..Len(report) : report[i] \in ToSet(all)
    <3> SUFFICES ASSUME NEW i \in 1..Len(report) PROVE report[i] \in ToSet(all)
      OBVIOUS
    <3>1. i \in 1..Len(all) /\ all[i] = report[i]
      BY <1>1, <2>2
    <3> QED BY <3>1, <2>1, Zenon DEF ToSet
  <2>5. \A i \in 1..Len(new) : new[i] \in ToSet(all)
    <3> SUFFICES ASSUME NEW i \in 1..Len(new) PROVE new[i] \in ToSet(all)
      OBVIOUS
    <3>1. /\ i + Len(report) \in 1..Len(all) /\ ~(i + Len(report) <= Len(report))
          /\ (i + Len(report)) - Len(report) = i
      BY <1>1
    <3>2. all[i + Len(report)] = new[i]
      BY <3>1, <2>2
    <3> QED BY <3>1, <3>2, <2>1, Zenon DEF ToSet
  <2>6. /\ \A e \in ToSet(all) : \E i \in 1..Len(all) : e = all[i]
        /\ \A e \in ToSet(report) : \E i \in 1..Len(report) : e = report[i]
        /\ \A e \in ToSet(new) : \E i \in 1..Len(new) : e = new[i]
    BY <2>1, Zenon DEF ToSet
  <2> QED BY <2>3, <2>4, <2>5, <2>6
<1> HIDE DEF all
<1>3. MaxPending \in Nat \ {0}
  BY WatchNumbers
<1>4. Merged(new) = IF Len(all) > MaxPending
                    THEN SubSeq(all, Len(all) - MaxPending + 1, Len(all)) ELSE all
  BY DEF Merged, all
<1>5. CASE Len(all) > MaxPending
  <2> DEFINE from == Len(all) - MaxPending + 1
  <2>1. from \in 1..Len(all) /\ Len(all) \in Nat /\ Len(all) - from + 1 = MaxPending
    BY <1>1, <1>3, <1>5
  <2>2. Merged(new) = SubSeq(all, from, Len(all))
    BY <1>4, <1>5
  <2> HIDE DEF from
  <2>3. SubSeq(all, from, Len(all)) \in Seq(Events)
        /\ Len(SubSeq(all, from, Len(all))) = Len(all) - from + 1
    BY <1>1, <2>1
  <2>4. ~(Len(report) + Len(new) <= MaxPending)
    BY <1>1, <1>3, <1>5
  <2> QED BY <1>3, <2>1, <2>2, <2>3, <2>4
<1>6. CASE ~(Len(all) > MaxPending)
  <2>1. Merged(new) = all /\ Len(all) <= MaxPending
    BY <1>1, <1>3, <1>4, <1>6
  <2> QED BY <1>1, <1>2, <2>1
<1> QED BY <1>5, <1>6

\* The cycle in memory: a state and a report like those on disk.
LEMMA CycleTypes ==
    ASSUME WatchTypeOK, NEW R \in [DOMAIN list -> {"up", "down", "skip"}],
           NEW gw \in {"alive", "dead", "none"}, NEW new \in Seq(Events),
           seq + Len(new) <= MaxSeq
    PROVE  LET c == Cycle(R, gw, new)
           IN  /\ StatesOK(c.devices) /\ c.seq \in 0..MaxSeq /\ c.blind \in BOOLEAN
               /\ c.report \in Seq(Events) /\ Len(c.report) <= MaxPending
               /\ c.earned \subseteq Keys /\ c.misses \in [Keys -> 0..DownAfterFails]
               /\ c.joined \in [Keys -> 0..MaxSeq]
<1> DEFINE b == IsBlind(R, gw)
           same(k) == k \in DOMAIN list /\ k \in DOMAIN devices /\ devices[k].ip = list[k]
           answersTo(k) == k \in DOMAIN list /\ R[k] = "up"
           lost == gw = "dead" /\ \A k \in Keys : ~answersTo(k)
           owes(k) == IF same(k) THEN misses[k] ELSE 0
           c == Cycle(R, gw, new)
<1>1. /\ c.devices = [k \in DOMAIN list |-> Advanced(Entering(k), R[k], b)]
      /\ c.seq = seq + Len(new) /\ c.blind = b /\ c.report = Merged(new)
      /\ c.earned = {k \in Keys : answersTo(k) \/ (same(k) /\ k \in earned)}
      /\ c.misses = [k \in Keys |->
             IF answersTo(k) THEN 0
             ELSE IF k \in Probed(R) /\ ~lost /\ owes(k) < DownAfterFails
                  THEN owes(k) + 1 ELSE owes(k)]
      /\ c.joined = [k \in Keys |-> IF k \in DOMAIN list \ DOMAIN devices
                                    THEN seq ELSE joined[k]]
  BY DEF Cycle
<1>2. b \in BOOLEAN
  BY DEF IsBlind
<1> HIDE DEF c, b
<1>3. StatesOK(c.devices)
  <2>1. \A k \in DOMAIN list : Advanced(Entering(k), R[k], b) \in WatchedState
    <3> SUFFICES ASSUME NEW k \in DOMAIN list
                 PROVE  Advanced(Entering(k), R[k], b) \in WatchedState
      OBVIOUS
    <3>1. Entering(k) \in WatchedState
      BY EnteringFacts
    <3>2. R[k] \in {"up", "down", "skip"}
      OBVIOUS
    <3> QED BY <1>2, <3>1, <3>2, AdvancedFacts
  <2>2. DOMAIN list \subseteq Keys
    BY WatchFacts
  <2> QED BY <1>1, <2>1, <2>2 DEF StatesOK
<1>4. /\ seq \in 0..MaxSeq /\ MaxSeq \in Nat /\ DownAfterFails \in Nat \ {0}
      /\ misses \in [Keys -> 0..DownAfterFails] /\ joined \in [Keys -> 0..MaxSeq]
      /\ report \in Seq(Events)
  BY WatchFacts, WatchNumbers
<1>5. c.seq \in 0..MaxSeq
  BY <1>1, <1>4
<1>6. c.report \in Seq(Events) /\ Len(c.report) <= MaxPending
  BY <1>1, <1>4, MergedFacts
<1>7. c.misses \in [Keys -> 0..DownAfterFails]
  <2> DEFINE m(k) == IF answersTo(k) THEN 0
                     ELSE IF k \in Probed(R) /\ ~lost /\ owes(k) < DownAfterFails
                          THEN owes(k) + 1 ELSE owes(k)
  <2>1. \A k \in Keys : m(k) \in 0..DownAfterFails
    <3> SUFFICES ASSUME NEW k \in Keys PROVE m(k) \in 0..DownAfterFails
      OBVIOUS
    <3>1. owes(k) \in 0..DownAfterFails
      BY <1>4
    <3> HIDE DEF owes, answersTo, lost
    <3> QED BY <3>1, <1>4
  <2>2. c.misses = [k \in Keys |-> m(k)]
    BY <1>1
  <2> HIDE DEF m
  <2> QED BY <2>1, <2>2
<1>8. c.joined \in [Keys -> 0..MaxSeq]
  <2>1. \A k \in Keys : joined[k] \in 0..MaxSeq
    BY <1>4
  <2> QED BY <1>1, <1>4, <2>1
<1>9. c.earned \subseteq Keys
  BY <1>1
<1>10. c.blind \in BOOLEAN
  BY <1>1, <1>2
<1> QED BY <1>3, <1>5, <1>6, <1>7, <1>8, <1>9, <1>10 DEF c

\* After the cycle a target that is down has answered at its address and owes the row.
LEMMA CycleKnows ==
    ASSUME WatchTypeOK, TargetsKnown(devices, earned, misses),
           NEW R \in [DOMAIN list -> {"up", "down", "skip"}],
           NEW gw \in {"alive", "dead", "none"}, NEW new
    PROVE  LET c == Cycle(R, gw, new) IN TargetsKnown(c.devices, c.earned, c.misses)
<1> DEFINE b == IsBlind(R, gw)
           same(k) == k \in DOMAIN list /\ k \in DOMAIN devices /\ devices[k].ip = list[k]
           answersTo(k) == k \in DOMAIN list /\ R[k] = "up"
           lost == gw = "dead" /\ \A k \in Keys : ~answersTo(k)
           owes(k) == IF same(k) THEN misses[k] ELSE 0
           c == Cycle(R, gw, new)
<1>1. /\ c.devices = [k \in DOMAIN list |-> Advanced(Entering(k), R[k], b)]
      /\ c.earned = {k \in Keys : answersTo(k) \/ (same(k) /\ k \in earned)}
      /\ c.misses = [k \in Keys |->
             IF answersTo(k) THEN 0
             ELSE IF k \in Probed(R) /\ ~lost /\ owes(k) < DownAfterFails
                  THEN owes(k) + 1 ELSE owes(k)]
  BY DEF Cycle
<1>2. b \in BOOLEAN
  BY DEF IsBlind
<1>3. DOMAIN list \subseteq Keys
  BY WatchFacts
<1>4. lost => b
  BY <1>3 DEF IsBlind
<1> HIDE DEF c, b, lost
<1> SUFFICES ASSUME NEW k \in DOMAIN list
             PROVE  LET t == Advanced(Entering(k), R[k], b)
                    IN  /\ t.up => k \in c.earned
                        /\ t.fails <= c.misses[k]
                        /\ t.state = "down" => t.up /\ t.fails >= DownAfterFails
  BY <1>1 DEF TargetsKnown, c
<1> DEFINE s == Entering(k)
           t == Advanced(s, R[k], b)
<1>5. /\ R[k] \in {"up", "down", "skip"} /\ k \in Keys /\ DownAfterFails \in Nat \ {0}
      /\ misses[k] \in 0..DownAfterFails
  BY <1>3, WatchFacts, WatchNumbers
<1>6. s \in WatchedState
  BY EnteringFacts
<1>7. s.fails \in 0..DownAfterFails /\ s.fails \in Nat
  BY <1>5, <1>6 DEF WatchedState
<1>8. /\ s.up => same(k) /\ k \in earned
      /\ s.fails <= owes(k) /\ owes(k) \in 0..DownAfterFails
      /\ s.state = "down" => s.up /\ s.fails >= DownAfterFails
  <2>1. CASE same(k)
    <3>1. s = devices[k]
      BY <2>1, EnteringFacts
    <3> QED BY <2>1, <3>1, <1>5 DEF TargetsKnown
  <2>2. CASE ~same(k)
    <3>1. s.state = "unknown" /\ s.fails = 0 /\ ~s.up
      BY <2>2, EnteringFacts
    <3> QED BY <2>2, <3>1, <1>5
  <2> QED BY <2>1, <2>2
<1>9. /\ t \in WatchedState
      /\ R[k] = "up" => t.up /\ t.state = "up" /\ t.fails = 0
      /\ R[k] # "up" => t.up = s.up
      /\ R[k] # "up" /\ ~(R[k] = "down" /\ ~b) => t = s
      /\ R[k] = "down" /\ ~b =>
            /\ t.fails = IF s.fails < DownAfterFails THEN s.fails + 1 ELSE s.fails
            /\ t.state = IF ~s.up THEN "never"
                         ELSE IF t.fails >= DownAfterFails THEN "down" ELSE s.state
  BY <1>2, <1>5, <1>6, AdvancedFacts
<1>10. /\ answersTo(k) <=> R[k] = "up"
       /\ k \in c.earned <=> answersTo(k) \/ (same(k) /\ k \in earned)
       /\ R[k] = "up" => c.misses[k] = 0
       /\ R[k] # "up" =>
             c.misses[k] = IF k \in Probed(R) /\ ~lost /\ owes(k) < DownAfterFails
                           THEN owes(k) + 1 ELSE owes(k)
       /\ R[k] = "down" => k \in Probed(R)
  BY <1>1, <1>5 DEF Probed
<1> HIDE DEF s, t, owes, same, answersTo
<1>11. CASE R[k] = "up"
  <2>1. t.up /\ t.state = "up" /\ t.fails = 0 /\ c.misses[k] = 0 /\ k \in c.earned
    BY <1>9, <1>10, <1>11
  <2> QED BY <2>1 DEF t, s
<1>12. CASE R[k] # "up" /\ ~(R[k] = "down" /\ ~b)
  <2>1. t = s
    BY <1>9, <1>12
  <2>2. s.fails <= c.misses[k]
    BY <1>7, <1>8, <1>10, <1>12
  <2> QED BY <2>1, <2>2, <1>8, <1>10 DEF t, s
<1>13. CASE R[k] = "down" /\ ~b
  <2>1. t.up => k \in c.earned
    BY <1>8, <1>9, <1>10, <1>13
  <2>2. /\ c.misses[k] = IF owes(k) < DownAfterFails THEN owes(k) + 1 ELSE owes(k)
        /\ t.fails = IF s.fails < DownAfterFails THEN s.fails + 1 ELSE s.fails
    BY <1>4, <1>9, <1>10, <1>13
  <2>3. t.fails <= c.misses[k]
    BY <2>2, <1>5, <1>7, <1>8
  <2>4. t.state = IF ~s.up THEN "never"
                  ELSE IF t.fails >= DownAfterFails THEN "down" ELSE s.state
    BY <1>9, <1>13
  <2>5. t.state = "down" => s.up
    BY <2>4
  <2>6. t.up = s.up
    BY <1>9, <1>13
  <2>7. t.state = "down" => t.fails >= DownAfterFails
    <3>1. s.state = "down" => t.fails >= DownAfterFails
      BY <2>2, <1>5, <1>7, <1>8
    <3> QED BY <2>4, <3>1
  <2> QED BY <2>1, <2>3, <2>5, <2>6, <2>7 DEF t, s
<1> QED BY <1>5, <1>11, <1>12, <1>13


\* The list starts with nothing known.
LEMMA WatchStarts == WatchInit => WatchIInv
<1> SUFFICES ASSUME WatchInit PROVE WatchIInv
  OBVIOUS
<1>1. 0 \in 0..MaxSeq /\ 0 \in 0..DownAfterFails /\ 0 \in 0..MaxWatchKills /\ 0 <= MaxPending
  BY WatchNumbers
<1>2. DOMAIN devices = {}
  BY DEF WatchInit
<1>3. report \in Seq(Events) /\ Len(report) = 0
  BY DEF WatchInit
<1>4. WatchTypeOK
  BY <1>1, <1>2, <1>3 DEF WatchInit, WatchTypeOK
<1>5. TargetsKnown(devices, earned, misses)
  BY <1>2 DEF TargetsKnown
<1>6. NextOK
  BY DEF WatchInit, NextOK, InMemory
<1> QED BY <1>4, <1>5, <1>6 DEF WatchIInv

\* A cycle holds in memory what the next writes leave on disk.
LEMMA RunCycleKeeps ==
    ASSUME WatchIInv, NEW R \in [DOMAIN list -> {"up", "down", "skip"}],
           NEW gw \in {"alive", "dead", "none"}, RunCycle(R, gw)
    PROVE  WatchIInv'
<1>1. /\ UNCHANGED <<list, devices, seq, blind, report, taken, mistaken, earned, misses,
                     joined, watchKills>>
      /\ dropped' \in BOOLEAN
  BY DEF RunCycle, boxState, WatchIInv, WatchTypeOK
<1>2. turn' \in {"idle", "report"}
  BY DEF RunCycle
<1>3. WatchTypeOK'
  BY <1>1, <1>2 DEF WatchIInv, WatchTypeOK
<1>4. TargetsKnown(devices, earned, misses)'
  BY <1>1 DEF WatchIInv, TargetsKnown
<1>5. NextOK'
  <2>1. CASE DOMAIN list = {}
    BY <2>1 DEF RunCycle, NextOK, InMemory
  <2>2. CASE DOMAIN list # {}
    <3> DEFINE b == IsBlind(R, gw)
    <3>1. PICK edges \in SetToSeqs(UNION {EdgesOf(k, R, b) : k \in DOMAIN list}) :
             LET new == Numbered(ViewOf(b) \o edges)
             IN  seq + Len(new) <= MaxSeq /\ next' = Cycle(R, gw, new)
      BY <2>2 DEF RunCycle
    <3>2. b \in BOOLEAN
      BY DEF IsBlind
    <3> HIDE DEF b
    <3> DEFINE new == Numbered(ViewOf(b) \o edges)
    <3>3. new \in Seq(Events)
      BY <3>1, <3>2, NewEvents DEF WatchIInv
    <3>4. seq + Len(new) <= MaxSeq /\ next' = Cycle(R, gw, new)
      BY <3>1
    <3> HIDE DEF new
    <3>5. /\ StatesOK(next'.devices) /\ next'.seq \in 0..MaxSeq /\ next'.blind \in BOOLEAN
          /\ next'.report \in Seq(Events) /\ Len(next'.report) <= MaxPending
          /\ next'.earned \subseteq Keys /\ next'.misses \in [Keys -> 0..DownAfterFails]
          /\ next'.joined \in [Keys -> 0..MaxSeq]
      BY <3>3, <3>4, CycleTypes DEF WatchIInv
    <3>6. TargetsKnown(next'.devices, next'.earned, next'.misses)
      BY <3>4, CycleKnows DEF WatchIInv
    <3> QED BY <3>5, <3>6 DEF NextOK
  <2> QED BY <2>1, <2>2
<1> QED BY <1>3, <1>4, <1>5 DEF WatchIInv

\* The two writes put on disk what the cycle held.
LEMMA WritesKeep ==
    ASSUME WatchIInv, WriteReport \/ WriteState
    PROVE  WatchIInv'
<1>1. /\ StatesOK(next.devices) /\ next.seq \in 0..MaxSeq /\ next.blind \in BOOLEAN
      /\ next.report \in Seq(Events) /\ Len(next.report) <= MaxPending
      /\ next.earned \subseteq Keys /\ next.misses \in [Keys -> 0..DownAfterFails]
      /\ next.joined \in [Keys -> 0..MaxSeq]
      /\ TargetsKnown(next.devices, next.earned, next.misses)
  BY DEF WatchIInv, NextOK, InMemory, WriteReport, WriteState
<1>2. CASE WriteReport
  <2>1. WatchTypeOK'
    BY <1>1, <1>2 DEF WriteReport, boxState, WatchIInv, WatchTypeOK
  <2>2. TargetsKnown(devices, earned, misses)'
    BY <1>2 DEF WriteReport, boxState, WatchIInv, TargetsKnown
  <2>3. NextOK'
    BY <1>1, <1>2 DEF WriteReport, NextOK
  <2> QED BY <2>1, <2>2, <2>3 DEF WatchIInv
<1>3. CASE WriteState
  <2>1. WatchTypeOK'
    <3>1. /\ DOMAIN devices' \subseteq Keys
          /\ \A k \in DOMAIN devices' : devices'[k] \in
                [state : {"unknown", "never", "up", "down"}, fails : 0..DownAfterFails,
                 up : BOOLEAN, ip : Addresses]
      BY <1>1, <1>3 DEF WriteState, StatesOK, WatchedState
    <3>2. /\ seq' \in 0..MaxSeq /\ blind' \in BOOLEAN /\ earned' \subseteq Keys
          /\ misses' \in [Keys -> 0..DownAfterFails] /\ joined' \in [Keys -> 0..MaxSeq]
          /\ turn' = "idle"
          /\ UNCHANGED <<list, report, dropped, taken, mistaken, watchKills>>
      BY <1>1, <1>3 DEF WriteState
    <3> QED BY <3>1, <3>2 DEF WatchIInv, WatchTypeOK
  <2>2. TargetsKnown(devices, earned, misses)'
    BY <1>1, <1>3 DEF WriteState, TargetsKnown
  <2>3. NextOK'
    BY <1>3 DEF WriteState, NextOK, InMemory
  <2> QED BY <2>1, <2>2, <2>3 DEF WatchIInv
<1> QED BY <1>2, <1>3

\* No step of the check-in forgets what a target that is down has shown.
LEMMA WatchStep == WatchIInv /\ [WatchNext]_watchVars => WatchIInv'
<1> SUFFICES ASSUME WatchIInv, [WatchNext]_watchVars PROVE WatchIInv'
  OBVIOUS
<1> USE DEF WatchIInv
<1>1. CASE PostReport
  <2>1. taken' \subseteq Events /\ mistaken' \subseteq Events
    <3>1. \A e \in ToSet(report) : e \in Events
      <4>1. report \in Seq(Events)
        BY WatchFacts
      <4>2. DOMAIN report = 1..Len(report) /\ \A i \in 1..Len(report) : report[i] \in Events
        BY <4>1
      <4> QED BY <4>2, Zenon DEF ToSet
    <3>2. taken \subseteq Events /\ mistaken \subseteq Events
      BY DEF WatchTypeOK
    <3> QED BY <1>1, <3>1, <3>2 DEF PostReport, Take
  <2>2. /\ turn' \in {"clear", "probe"}
        /\ UNCHANGED <<list, devices, seq, blind, report, dropped, next, earned, misses,
                       joined, watchKills>>
    BY <1>1 DEF PostReport, boxState
  <2>3. WatchTypeOK'
    BY <2>1, <2>2 DEF WatchTypeOK
  <2> QED BY <2>2, <2>3 DEF TargetsKnown, NextOK, InMemory
<1>2. CASE ClearReport
  <2>1. <<>> \in Seq(Events) /\ Len(<<>>) <= MaxPending
    BY WatchNumbers
  <2>2. WatchTypeOK'
    BY <1>2, <2>1 DEF ClearReport, boxState, WatchTypeOK
  <2> QED BY <1>2, <2>2 DEF ClearReport, boxState, TargetsKnown, NextOK, InMemory
<1>3. CASE AcceptTargets
  <2>1. WatchTypeOK'
    BY <1>3 DEF AcceptTargets, boxState, WatchTypeOK
  <2> QED BY <1>3, <2>1 DEF AcceptTargets, boxState, TargetsKnown, NextOK, InMemory
<1>4. ASSUME NEW R \in [DOMAIN list -> {"up", "down", "skip"}],
             NEW gw \in {"alive", "dead", "none"}, RunCycle(R, gw)
      PROVE  WatchIInv'
  BY <1>4, RunCycleKeeps
<1>5. CASE WriteReport \/ WriteState
  BY <1>5, WritesKeep
<1>6. CASE WatchKilled
  <2>1. watchKills + 1 \in 0..MaxWatchKills
    BY <1>6, WatchNumbers DEF WatchKilled, WatchTypeOK
  <2>2. WatchTypeOK'
    BY <1>6, <2>1 DEF WatchKilled, boxState, WatchTypeOK
  <2> QED BY <1>6, <2>2 DEF WatchKilled, boxState, TargetsKnown, NextOK, InMemory
<1>7. CASE UNCHANGED watchVars
  <2>1. UNCHANGED <<list, devices, seq, blind, report, dropped, turn, next, taken, mistaken,
                    earned, misses, joined, watchKills>>
    BY <1>7 DEF watchVars
  <2>2. WatchTypeOK'
    BY <2>1 DEF WatchTypeOK
  <2> QED BY <2>1, <2>2 DEF TargetsKnown, NextOK, InMemory
<1> QED BY <1>1, <1>2, <1>3, <1>4, <1>5, <1>6, <1>7 DEF WatchNext

\* What the box holds of the watch list is as its inductive invariant says: watch.py and
\* its glue in checkin.py, for every set of devices, cap and number of kills.
THEOREM WatchInductive == WatchSpec => []WatchIInv
<1>1. WatchInit => WatchIInv
  BY WatchStarts
<1>2. WatchIInv /\ [WatchNext]_watchVars => WatchIInv'
  BY WatchStep
<1> QED BY <1>1, <1>2, PTL DEF WatchSpec

\* A device is called down only when it has answered at its present address and then
\* failed the whole row of cycles in which the box could see (watch.py step), through
\* lists that change, addresses that move, blind cycles, cycles cut short and kills.
THEOREM DownIsEarned == WatchSpec => []DownEarned
<1>1. WatchIInv => DownEarned
  <2> SUFFICES ASSUME WatchIInv, NEW k \in DOMAIN devices, devices[k].state = "down"
               PROVE  k \in earned /\ misses[k] >= DownAfterFails
    BY DEF DownEarned, WatchIInv
  <2>1. /\ k \in earned /\ devices[k].fails <= misses[k] /\ devices[k].fails >= DownAfterFails
    BY DEF WatchIInv, TargetsKnown
  <2>2. devices[k].fails \in Nat /\ misses[k] \in Nat /\ DownAfterFails \in Nat
    <3>1. devices[k] \in WatchedState /\ k \in Keys /\ misses \in [Keys -> 0..DownAfterFails]
      BY WatchFacts DEF WatchIInv, StatesOK
    <3>2. DownAfterFails \in Nat
      BY WatchNumbers
    <3> QED BY <3>1, <3>2 DEF WatchedState
  <2> QED BY <2>1, <2>2
<1> QED BY <1>1, WatchInductive, PTL


\* The events up to number n, given once each, tell of each target whether it is down:
\* the newest since it joined is "down".
NewestIs(E, from, k, edge) ==
    \E e \in E : /\ e.key = k /\ e.seq > from /\ e.edge = edge
                 /\ \A f \in E : f.key = k /\ f.seq > from => f.seq <= e.seq
Told(E, D, from, n) ==
    /\ \A e, f \in E : e.seq = f.seq => e = f
    /\ \A e \in E : e.seq <= n
    /\ \A k \in Keys : from[k] <= n
    /\ \A k \in DOMAIN D : D[k].state = "down" <=> NewestIs(E, from[k], k, "down")

\* Unless a check-in was killed or an event dropped, the dashboard and the report together
\* tell of the state on disk, or of the one in memory once the report is written.
Telling ==
    watchKills = 0 /\ ~dropped =>
        /\ turn \in {"idle", "clear", "list", "probe"} =>
              Told(taken \cup ToSet(report), devices, joined, seq)
        /\ turn = "clear" => ToSet(report) \subseteq taken
        /\ turn = "list" => ToSet(report) = {}
        /\ turn = "report" => ToSet(report) \subseteq ToSet(next.report)
        /\ InMemory => Told(taken \cup ToSet(next.report), next.devices, next.joined, next.seq)
        /\ turn = "state" => ToSet(report) = ToSet(next.report)

EdgeIInv == WatchIInv /\ Telling

\* An empty report holds no event.
LEMMA NoEvents == ToSet(<<>>) = {}
<1>1. DOMAIN <<>> = {}
  OBVIOUS
<1> QED BY <1>1 DEF ToSet

\* The edges of a cycle, after those told before, tell of the state it leaves.
LEMMA CycleTells ==
    ASSUME WatchIInv, NEW R \in [DOMAIN list -> {"up", "down", "skip"}],
           NEW gw \in {"alive", "dead", "none"},
           NEW edges \in SetToSeqs(UNION {EdgesOf(k, R, IsBlind(R, gw)) : k \in DOMAIN list}),
           NEW E, E \subseteq Events, Told(E, devices, joined, seq)
    PROVE  LET new == Numbered(ViewOf(IsBlind(R, gw)) \o edges)
               c == Cycle(R, gw, new)
           IN  Told(E \cup ToSet(new), c.devices, c.joined, c.seq)
<1> DEFINE b == IsBlind(R, gw)
           new == Numbered(ViewOf(b) \o edges)
           N == ToSet(new)
           c == Cycle(R, gw, new)
<1>1. b \in BOOLEAN
  BY DEF IsBlind
<1>2. edges \in SetToSeqs(UNION {EdgesOf(k, R, b) : k \in DOMAIN list})
  OBVIOUS
<1>3. /\ c.devices = [k \in DOMAIN list |-> Advanced(Entering(k), R[k], b)]
      /\ c.seq = seq + Len(new)
      /\ c.joined = [k \in Keys |-> IF k \in DOMAIN list \ DOMAIN devices
                                    THEN seq ELSE joined[k]]
  BY DEF Cycle
<1> HIDE DEF c, b
<1>4. /\ Len(new) \in Nat
      /\ \A e \in N : e.seq \in Nat /\ e.seq > seq /\ e.seq <= seq + Len(new)
      /\ \A d, e \in N : d.seq = e.seq => d = e
      /\ \A d, e \in N : d.key = e.key => d = e
      /\ \A e \in N : e.key \in Keys =>
            e.key \in DOMAIN list /\ \E x \in EdgesOf(e.key, R, b) : x.edge = e.edge
      /\ \A k \in DOMAIN list : \A x \in EdgesOf(k, R, b) :
            \E e \in N : e.key = k /\ e.edge = x.edge
  BY <1>1, <1>2, NewEvents DEF WatchIInv
<1> HIDE DEF new, N
<1>5. \A e \in E : e.seq \in Nat /\ e.seq <= seq
  BY DEF Told, Events
<1>6. /\ seq \in Nat /\ DOMAIN list \subseteq Keys /\ DOMAIN devices \subseteq Keys
      /\ joined \in [Keys -> 0..MaxSeq]
  BY WatchFacts DEF WatchIInv, StatesOK
<1>7. \A d, e \in E \cup N : d.seq = e.seq => d = e
  <2>1. \A d, e \in E : d.seq = e.seq => d = e
    BY DEF Told
  <2>2. \A d \in E : \A e \in N : d.seq # e.seq
    BY <1>4, <1>5, <1>6
  <2> QED BY <1>4, <2>1, <2>2
<1>8. \A e \in E \cup N : e.seq <= c.seq
  BY <1>3, <1>4, <1>5, <1>6
<1>9. \A k \in Keys : c.joined[k] <= c.seq
  <2>1. \A k \in Keys : joined[k] <= seq /\ joined[k] \in Nat
    BY <1>6 DEF Told
  <2> QED BY <2>1, <1>3, <1>4, <1>6
<1>10. ASSUME NEW k \in DOMAIN list
       PROVE  Advanced(Entering(k), R[k], b).state = "down" <=>
                 NewestIs(E \cup N, c.joined[k], k, "down")
  <2> DEFINE s == Entering(k)
             t == Advanced(s, R[k], b)
             gone == k \in DOMAIN devices /\ devices[k].ip # list[k] /\ devices[k].state = "down"
             j == c.joined[k]
  <2>1. k \in Keys /\ R[k] \in {"up", "down", "skip"}
    BY <1>6
  <2>2. s \in WatchedState
    BY EnteringFacts DEF WatchIInv
  <2>3. /\ t \in WatchedState
        /\ s.state = "unknown" /\ ~s.up => t.state # "down"
        /\ s.state = "down" /\ s.up /\ s.fails >= DownAfterFails => t.state \in {"up", "down"}
    <3>1. /\ t \in WatchedState
          /\ R[k] = "up" => t.up /\ t.state = "up" /\ t.fails = 0
          /\ R[k] # "up" /\ ~(R[k] = "down" /\ ~b) => t = s
          /\ R[k] = "down" /\ ~b =>
                /\ t.fails = IF s.fails < DownAfterFails THEN s.fails + 1 ELSE s.fails
                /\ t.state = IF ~s.up THEN "never"
                             ELSE IF t.fails >= DownAfterFails THEN "down" ELSE s.state
      BY <1>1, <2>1, <2>2, AdvancedFacts
    <3> HIDE DEF s, t
    <3>2. CASE R[k] = "up"
      BY <3>1, <3>2
    <3>3. CASE R[k] # "up" /\ ~(R[k] = "down" /\ ~b)
      BY <3>1, <3>3
    <3>4. CASE R[k] = "down" /\ ~b
      BY <3>1, <3>4
    <3> QED BY <2>1, <3>2, <3>3, <3>4
  <2>4. /\ \A x \in EdgesOf(k, R, b) : x.edge = "down" <=> s.state # "down" /\ t.state = "down"
        /\ EdgesOf(k, R, b) = {} <=>
              ~gone /\ ~(s.state = "down" /\ t.state = "up")
              /\ ~(s.state # "down" /\ t.state = "down")
    <3>1. WatchTypeOK
      BY DEF WatchIInv
    <3> QED BY <1>1, <3>1, EdgeFacts
  <2>5. CASE k \in DOMAIN devices
    <3>1. j = joined[k] /\ j \in Nat /\ j <= seq
      BY <1>3, <1>6, <2>1, <2>5 DEF Told
    <3>2. devices[k].state = "down" <=> NewestIs(E, j, k, "down")
      BY <2>5, <3>1 DEF Told
    <3>3. /\ devices[k].ip = list[k] => s = devices[k]
          /\ devices[k].ip # list[k] => s.state = "unknown" /\ ~s.up
          /\ devices[k].state = "down" => devices[k].up /\ devices[k].fails >= DownAfterFails
      BY <2>5, EnteringFacts DEF WatchIInv, TargetsKnown
    <3> HIDE DEF s, t, j
    <3>4. CASE EdgesOf(k, R, b) = {}
      <4>1. \A e \in N : e.key # k
        BY <1>4, <2>1, <3>4
      <4>2. NewestIs(E \cup N, j, k, "down") <=> NewestIs(E, j, k, "down")
        BY <4>1 DEF NewestIs
      <4>3. t.state = "down" <=> devices[k].state = "down"
        BY <2>3, <2>4, <2>5, <3>3, <3>4 DEF gone
      <4> QED BY <3>2, <4>2, <4>3 DEF t, s, j
    <3>5. ASSUME NEW x \in EdgesOf(k, R, b) PROVE t.state = "down" <=> NewestIs(E \cup N, j, k, "down")
      <4>1. PICK e \in N : e.key = k /\ e.edge = x.edge
        BY <1>4
      <4>2. \A f \in N : f.key = k => f = e
        BY <1>4, <4>1
      <4>3. e.seq \in Nat /\ e.seq > j /\ \A f \in E : f.seq < e.seq
        BY <1>4, <1>5, <1>6, <3>1
      <4>4. NewestIs(E \cup N, j, k, "down") <=> e.edge = "down"
        <5>1. \A f \in E \cup N : f.key = k => f.seq <= e.seq
          BY <4>2, <4>3, <1>5
        <5>2. \A g \in E \cup N : g.key = k /\ g # e => g.seq < e.seq
          BY <4>2, <4>3
        <5>3. e.edge = "down" => NewestIs(E \cup N, j, k, "down")
          BY <4>1, <4>3, <5>1 DEF NewestIs
        <5>4. ASSUME NewestIs(E \cup N, j, k, "down") PROVE e.edge = "down"
          <6>1. PICK g \in E \cup N : /\ g.key = k /\ g.seq > j /\ g.edge = "down"
                                      /\ \A f \in E \cup N : f.key = k /\ f.seq > j => f.seq <= g.seq
            BY <5>4 DEF NewestIs
          <6>2. e.seq <= g.seq
            BY <4>1, <4>3, <6>1
          <6>3. g.seq \in Nat
            BY <1>4, <1>5
          <6>4. g = e
            BY <4>3, <5>2, <6>1, <6>2, <6>3
          <6> QED BY <6>1, <6>4
        <5> QED BY <5>3, <5>4
      <4>5. t.state = "down" <=> x.edge = "down"
        <5>1. x.edge = "down" <=> s.state # "down" /\ t.state = "down"
          BY <2>4
        <5>2. s.state = "down" => t.state # "down"
          <6> SUFFICES ASSUME s.state = "down", t.state = "down" PROVE FALSE
            OBVIOUS
          <6>1. ~gone
            BY <2>5, <3>3 DEF gone
          <6> QED BY <2>4, <6>1
        <5> QED BY <5>1, <5>2
      <4> QED BY <4>1, <4>4, <4>5
    <3> QED BY <3>4, <3>5 DEF t, s, j
  <2>6. CASE k \notin DOMAIN devices
    <3>1. j = seq
      BY <1>3, <2>1, <2>6
    <3>2. s.state = "unknown" /\ ~s.up
      BY <2>6, EnteringFacts DEF WatchIInv
    <3>3. t.state # "down"
      BY <2>3, <3>2
    <3>4. EdgesOf(k, R, b) = {}
      BY <2>4, <2>6, <3>2, <3>3
    <3>5. \A e \in N : e.key # k
      BY <1>4, <2>1, <3>4
    <3>6. \A e \in E : ~(e.seq > seq)
      BY <1>5, <1>6
    <3> HIDE DEF s, t, j
    <3>7. ~NewestIs(E \cup N, j, k, "down")
      BY <3>1, <3>5, <3>6 DEF NewestIs
    <3> QED BY <3>3, <3>7 DEF t, s, j
  <2> QED BY <2>5, <2>6
<1>11. \A k \in DOMAIN c.devices : c.devices[k].state = "down" <=>
                                     NewestIs(E \cup N, c.joined[k], k, "down")
  BY <1>3, <1>10
<1>12. Told(E \cup N, c.devices, c.joined, c.seq)
  BY <1>7, <1>8, <1>9, <1>11 DEF Told
<1> QED BY <1>12 DEF c, N, new, b


\* A cycle tells of the state it holds in memory, unless it drops an event.
LEMMA RunCycleTells ==
    ASSUME EdgeIInv, NEW R \in [DOMAIN list -> {"up", "down", "skip"}],
           NEW gw \in {"alive", "dead", "none"}, RunCycle(R, gw)
    PROVE  Telling'
<1> SUFFICES ASSUME watchKills' = 0, ~dropped' PROVE Telling'
  BY DEF Telling
<1>1. /\ UNCHANGED <<list, devices, seq, blind, report, taken, mistaken, earned, misses,
                     joined, watchKills>>
      /\ turn = "probe" /\ WatchIInv
  BY DEF RunCycle, boxState, EdgeIInv
<1>2. CASE DOMAIN list = {}
  <2>1. turn' = "idle" /\ UNCHANGED dropped
    BY <1>2 DEF RunCycle
  <2>2. Told(taken \cup ToSet(report), devices, joined, seq)
    BY <1>1, <2>1 DEF EdgeIInv, Telling
  <2>3. Told(taken \cup ToSet(report), devices, joined, seq)'
    BY <1>1, <2>2
  <2> QED BY <2>1, <2>3 DEF Telling, InMemory
<1>3. CASE DOMAIN list # {}
  <2> DEFINE b == IsBlind(R, gw)
  <2>1. PICK edges \in SetToSeqs(UNION {EdgesOf(k, R, b) : k \in DOMAIN list}) :
           LET new == Numbered(ViewOf(b) \o edges)
           IN  /\ seq + Len(new) <= MaxSeq /\ next' = Cycle(R, gw, new)
               /\ dropped' = (dropped \/ Len(report) + Len(new) > MaxPending)
               /\ turn' = "report"
    BY <1>3 DEF RunCycle
  <2> DEFINE new == Numbered(ViewOf(b) \o edges)
             E == taken \cup ToSet(report)
  <2>2. /\ seq + Len(new) <= MaxSeq /\ next' = Cycle(R, gw, new) /\ turn' = "report"
        /\ ~dropped /\ ~(Len(report) + Len(new) > MaxPending)
    BY <2>1
  <2>3. b \in BOOLEAN /\ WatchTypeOK
    BY <1>1 DEF IsBlind, WatchIInv
  <2>4. new \in Seq(Events) /\ report \in Seq(Events)
    <3> HIDE DEF b
    <3> QED BY <2>1, <2>2, <2>3, NewEvents, WatchFacts
  <2>5. Told(E, devices, joined, seq)
    BY <1>1, <2>2 DEF EdgeIInv, Telling
  <2>6. E \subseteq Events
    <3>1. DOMAIN report = 1..Len(report) /\ \A i \in 1..Len(report) : report[i] \in Events
      BY <2>4
    <3>2. \A e \in ToSet(report) : e \in Events
      BY <3>1, Zenon DEF ToSet
    <3> QED BY <2>3, <3>2 DEF WatchTypeOK
  <2>7. LET c == Cycle(R, gw, new)
        IN  Told(E \cup ToSet(new), c.devices, c.joined, c.seq)
    BY <1>1, <2>1, <2>5, <2>6, CycleTells
  <2>8. next'.report = Merged(new)
    BY <2>2 DEF Cycle
  <2> HIDE DEF new, b
  <2>9. ToSet(next'.report) = ToSet(report) \cup ToSet(new)
    <3>1. Len(report) + Len(new) <= MaxPending
      BY <2>2, <2>4, WatchNumbers
    <3> QED BY <2>4, <2>8, <3>1, MergedFacts
  <2>10. taken' \cup ToSet(next'.report) = E \cup ToSet(new)
    BY <1>1, <2>9
  <2>11. Told(taken' \cup ToSet(next'.report), next'.devices, next'.joined, next'.seq)
    BY <2>2, <2>7, <2>10, Zenon
  <2>12. ToSet(report') \subseteq ToSet(next'.report)
    BY <1>1, <2>9
  <2>13. InMemory' /\ turn' = "report"
    BY <2>2 DEF InMemory
  <2> QED BY <2>11, <2>12, <2>13 DEF Telling
<1> QED BY <1>2, <1>3

\* Until a kill or a drop, report and dashboard never fall behind the state.
LEMMA TellingStep == EdgeIInv /\ [WatchNext]_watchVars => Telling'
<1> SUFFICES ASSUME EdgeIInv, [WatchNext]_watchVars PROVE Telling'
  OBVIOUS
<1>0. WatchIInv /\ WatchTypeOK /\ Telling
  BY DEF EdgeIInv, WatchIInv
<1>1. CASE PostReport
  <2> SUFFICES ASSUME watchKills' = 0, ~dropped' PROVE Telling'
    BY DEF Telling
  <2>1. /\ turn = "idle" /\ turn' \in {"clear", "probe"}
        /\ UNCHANGED <<list, devices, seq, blind, report, dropped, next, earned, misses,
                       joined, watchKills>>
    BY <1>1 DEF PostReport, boxState
  <2>2. Told(taken \cup ToSet(report), devices, joined, seq)
    BY <1>0, <2>1 DEF Telling
  <2>3. (turn' = "probe" /\ taken' = taken) \/ taken' = taken \cup ToSet(report)
    <3>1. CASE Take
      <4>1. \A e \in ToSet(report) : (\E f \in taken : f.seq = e.seq) => e \in taken
        BY <2>2 DEF Told
      <4> QED BY <3>1, <4>1 DEF Take
    <3> QED BY <1>1, <3>1 DEF PostReport
  <2>4. turn' = "clear" => ToSet(report) \subseteq taken'
    BY <2>3, <2>1
  <2>5. taken' \cup ToSet(report) = taken \cup ToSet(report)
    BY <2>3
  <2>6. Told(taken' \cup ToSet(report), devices, joined, seq)
    BY <2>2, <2>5, Zenon
  <2>7. Told(taken \cup ToSet(report), devices, joined, seq)'
    BY <2>1, <2>6
  <2>8. (ToSet(report) \subseteq taken)' \/ turn' # "clear"
    BY <2>1, <2>4
  <2>9. ~InMemory' /\ turn' \notin {"list", "report", "state"}
    BY <2>1 DEF InMemory
  <2> QED BY <2>7, <2>8, <2>9 DEF Telling
<1>2. CASE ClearReport
  <2> SUFFICES ASSUME watchKills' = 0, ~dropped' PROVE Telling'
    BY DEF Telling
  <2>1. /\ turn = "clear" /\ turn' = "list" /\ report' = <<>>
        /\ UNCHANGED <<list, devices, seq, blind, dropped, next, taken, mistaken, earned,
                       misses, joined, watchKills>>
    BY <1>2 DEF ClearReport, boxState
  <2>2. Told(taken \cup ToSet(report), devices, joined, seq) /\ ToSet(report) \subseteq taken
    BY <1>0, <2>1 DEF Telling
  <2>3. ToSet(report') = {}
    BY <2>1, NoEvents
  <2>4. taken' \cup ToSet(report') = taken \cup ToSet(report)
    BY <2>1, <2>2, <2>3
  <2>5. Told(taken' \cup ToSet(report'), devices, joined, seq)
    BY <2>2, <2>4, Zenon
  <2>6. Told(taken \cup ToSet(report), devices, joined, seq)'
    BY <2>1, <2>5
  <2> QED BY <2>1, <2>3, <2>6 DEF Telling, InMemory
<1>3. CASE AcceptTargets
  <2>1. /\ turn = "list" /\ turn' = "probe"
        /\ UNCHANGED <<devices, seq, report, dropped, next, taken, joined, watchKills>>
    BY <1>3 DEF AcceptTargets, boxState
  <2>2. watchKills' = 0 /\ ~dropped' => Told(taken \cup ToSet(report), devices, joined, seq)'
    BY <1>0, <2>1 DEF Telling
  <2> QED BY <2>1, <2>2 DEF Telling, InMemory
<1>4. ASSUME NEW R \in [DOMAIN list -> {"up", "down", "skip"}],
             NEW gw \in {"alive", "dead", "none"}, RunCycle(R, gw)
      PROVE  Telling'
  BY <1>4, RunCycleTells
<1>5. CASE WriteReport
  <2> SUFFICES ASSUME watchKills' = 0, ~dropped' PROVE Telling'
    BY DEF Telling
  <2>1. /\ turn = "report" /\ turn' = "state" /\ report' = next.report
        /\ UNCHANGED <<dropped, next, taken, watchKills>>
    BY <1>5 DEF WriteReport
  <2>2. Told(taken \cup ToSet(next.report), next.devices, next.joined, next.seq)
    BY <1>0, <2>1 DEF Telling, InMemory
  <2>3. Told(taken \cup ToSet(next.report), next.devices, next.joined, next.seq)'
    BY <2>1, <2>2
  <2>4. ToSet(report') = ToSet(next'.report)
    BY <2>1
  <2> QED BY <2>1, <2>3, <2>4 DEF Telling
<1>6. CASE WriteState
  <2> SUFFICES ASSUME watchKills' = 0, ~dropped' PROVE Telling'
    BY DEF Telling
  <2>1. /\ turn = "state" /\ turn' = "idle"
        /\ devices' = next.devices /\ joined' = next.joined /\ seq' = next.seq
        /\ UNCHANGED <<report, dropped, taken, watchKills>>
    BY <1>6 DEF WriteState
  <2>2. /\ Told(taken \cup ToSet(next.report), next.devices, next.joined, next.seq)
        /\ ToSet(report) = ToSet(next.report)
    BY <1>0, <2>1 DEF Telling, InMemory
  <2>3. Told(taken \cup ToSet(report), next.devices, next.joined, next.seq)
    BY <2>2, Zenon
  <2>4. Told(taken \cup ToSet(report), devices, joined, seq)'
    BY <2>1, <2>3
  <2> QED BY <2>1, <2>4 DEF Telling, InMemory
<1>7. CASE WatchKilled
  <2>1. watchKills' # 0
    BY <1>0, <1>7 DEF WatchKilled, WatchTypeOK
  <2> QED BY <2>1 DEF Telling
<1>8. CASE UNCHANGED watchVars
  <2>1. UNCHANGED <<devices, seq, report, dropped, turn, next, taken, joined, watchKills>>
    BY <1>8 DEF watchVars
  <2>2. UNCHANGED Told(taken \cup ToSet(report), devices, joined, seq)
    BY <2>1
  <2>3. UNCHANGED Told(taken \cup ToSet(next.report), next.devices, next.joined, next.seq)
    BY <2>1
  <2>4. InMemory' = InMemory
    BY <2>1 DEF InMemory
  <2> QED BY <1>0, <2>1, <2>2, <2>3, <2>4 DEF Telling
<1> QED BY <1>1, <1>2, <1>3, <1>4, <1>5, <1>6, <1>7, <1>8 DEF WatchNext

\* What has been told of a key has a newest edge.
LEMMA NewestFacts ==
    ASSUME WatchTypeOK, \A e, f \in taken : e.seq = f.seq => e = f,
           NEW k \in Keys, EdgesTaken(k) # {}
    PROVE  Newest(EdgesTaken(k)).edge = "down" <=> NewestIs(taken, joined[k], k, "down")
<1> DEFINE S == EdgesTaken(k)
<1>1. \A e \in S : e \in taken /\ e.key = k /\ e.seq > joined[k]
  BY DEF EdgesTaken
<1>2. \A e \in taken : e.key = k /\ e.seq > joined[k] => e \in S
  BY DEF EdgesTaken
<1>3. S # {}
  OBVIOUS
<1> HIDE DEF S
<1>4. \A e \in S : e.seq \in 0..MaxSeq /\ e.seq \in Nat
  BY <1>1, WatchNumbers DEF WatchTypeOK, Events
<1>5. PICK e \in S : \A f \in S : f.seq <= e.seq
  <2> DEFINE T == {f.seq : f \in S}
  <2>1. MaxSeq \in Nat /\ T \in SUBSET (0..MaxSeq) /\ T # {}
    BY <1>3, <1>4, WatchNumbers
  <2>2. Max(T) \in T /\ \A y \in T : Max(T) >= y
    <3> HIDE DEF T
    <3> QED BY <2>1, MaxOfBounded
  <2>3. PICK g \in S : g.seq = Max(T)
    BY <2>2
  <2>4. \A f \in S : f.seq \in T
    OBVIOUS
  <2>5. \A f \in S : g.seq >= f.seq
    BY <2>2, <2>3, <2>4
  <2> QED BY <2>3, <2>5, <1>4
<1>6. Newest(S) \in S /\ \A f \in S : f.seq <= Newest(S).seq
  BY <1>5 DEF Newest
<1>7. \A g \in S : (\A f \in S : f.seq <= g.seq) => g = Newest(S)
  <2> SUFFICES ASSUME NEW g \in S, \A f \in S : f.seq <= g.seq PROVE g = Newest(S)
    OBVIOUS
  <2>1. g.seq = Newest(S).seq
    BY <1>4, <1>6
  <2> QED BY <2>1, <1>1, <1>6
<1>8. NewestIs(taken, joined[k], k, "down") =>  Newest(S).edge = "down"
  <2> SUFFICES ASSUME NewestIs(taken, joined[k], k, "down") PROVE Newest(S).edge = "down"
    OBVIOUS
  <2>1. PICK g \in taken : /\ g.key = k /\ g.seq > joined[k] /\ g.edge = "down"
                           /\ \A f \in taken : f.key = k /\ f.seq > joined[k] => f.seq <= g.seq
    BY DEF NewestIs
  <2>2. g \in S /\ \A f \in S : f.seq <= g.seq
    BY <2>1, <1>1, <1>2
  <2> QED BY <2>1, <2>2, <1>7
<1>9. Newest(S).edge = "down" => NewestIs(taken, joined[k], k, "down")
  <2>1. \A f \in taken : f.key = k /\ f.seq > joined[k] => f.seq <= Newest(S).seq
    BY <1>2, <1>6
  <2> QED BY <2>1, <1>1, <1>6 DEF NewestIs
<1> QED BY <1>8, <1>9 DEF S

\* Once a report has been delivered, the last edge the dashboard has of a watched device
\* agrees with the box, unless a check-in was killed or the cap dropped an event: watch.py
\* and its glue in checkin.py, through lost answers, refused and changed lists, addresses
\* that move and blind cycles.
THEOREM EdgesAreDelivered == WatchSpec => []EdgesDelivered
<1>1. WatchInit => EdgeIInv
  <2> SUFFICES ASSUME WatchInit PROVE EdgeIInv
    OBVIOUS
  <2>1. DOMAIN devices = {} /\ taken = {} /\ report = <<>> /\ turn = "idle" /\ seq = 0
        /\ joined = [k \in Keys |-> 0]
    BY DEF WatchInit
  <2>2. taken \cup ToSet(report) = {}
    BY <2>1, NoEvents
  <2>3. Told(taken \cup ToSet(report), devices, joined, seq)
    BY <2>1, <2>2 DEF Told
  <2> QED BY <2>1, <2>3, WatchStarts DEF EdgeIInv, Telling, InMemory
<1>2. EdgeIInv /\ [WatchNext]_watchVars => EdgeIInv'
  BY WatchStep, TellingStep DEF EdgeIInv
<1>3. EdgeIInv => EdgesDelivered
  <2> SUFFICES ASSUME EdgeIInv, watchKills = 0, ~dropped, turn = "list",
                      NEW k \in DOMAIN devices
               PROVE  devices[k].state = "down" <=>
                         EdgesTaken(k) # {} /\ Newest(EdgesTaken(k)).edge = "down"
    BY DEF EdgesDelivered
  <2>1. WatchTypeOK /\ k \in Keys
    BY DEF EdgeIInv, WatchIInv, WatchTypeOK
  <2>2. Told(taken \cup ToSet(report), devices, joined, seq) /\ ToSet(report) = {}
    BY DEF EdgeIInv, Telling
  <2>3. taken \cup ToSet(report) = taken
    BY <2>2
  <2>4. Told(taken, devices, joined, seq)
    BY <2>2, <2>3, Zenon
  <2>5. devices[k].state = "down" <=> NewestIs(taken, joined[k], k, "down")
    BY <2>4 DEF Told
  <2>6. CASE EdgesTaken(k) = {}
    BY <2>5, <2>6 DEF NewestIs, EdgesTaken
  <2>7. CASE EdgesTaken(k) # {}
    <3>1. \A e, f \in taken : e.seq = f.seq => e = f
      BY <2>4 DEF Told
    <3>2. Newest(EdgesTaken(k)).edge = "down" <=> NewestIs(taken, joined[k], k, "down")
      BY <2>1, <2>7, <3>1, NewestFacts
    <3> QED BY <2>5, <2>7, <3>2
  <2> QED BY <2>6, <2>7
<1> QED BY <1>1, <1>2, <1>3, PTL DEF WatchSpec

=============================================================================
