------------------------------ MODULE ProbeSlots ------------------------------
(***************************************************************************)
(* Which scheduled probes a check-in runs (checkin.py: iperf slots, the    *)
(* Cloudflare speed test, its cooldown and its missed slots; run_checkin). *)
(*                                                                         *)
(* Every check-in is a fresh process that decides from ledgers on disk and *)
(* from the clock of the box.  An iperf slot is a time of day; the speed   *)
(* test has an interval.  A check-in that got no answer at all runs        *)
(* neither, but leaves a row for the speed test that fell due.             *)
(***************************************************************************)
EXTENDS Integers, FiniteSets

CONSTANTS
    Slots,           \* times of day of the iperf schedule
    DayLength,       \* ticks in a day
    Grace,           \* IPERF_SLOT_GRACE_SEC
    Interval,        \* _speedtest_interval_sec
    Cooldown,        \* SPEEDTEST_REFUSED_COOLDOWN_SEC
    MaxNow,          \* bound: ticks
    MaxSlotFaults    \* bound: failed ledger writes, killed check-ins, clock steps

ASSUME SlotBounds ==
    /\ DayLength \in Nat \ {0} /\ Slots \subseteq 0..(DayLength - 1)
    /\ Grace \in Nat /\ Interval \in Nat \ {0} /\ Cooldown \in Nat
    /\ MaxNow \in Nat /\ MaxSlotFaults \in Nat

Never == -(Interval + Cooldown + 1)   \* a ledger that cannot be read: long ago

VARIABLES
    now, skew,     \* real time, and how far the clock of the box is off
    slotDay,       \* iperf-slots.json: the day each slot last ran
    lastRun,       \* speedtest-last-run
    coolUntil,     \* speedtest-cooldown-until
    missed,        \* speedtest-missed-slot
    stage,         \* where the check-in is
    verdict,       \* of the speed test that has just run
    answered,      \* how the check-in of this tick went, "none" if there was none
    fires,         \* [slot, when, day] of each iperf run (history)
    tests,         \* real times of the speed tests, by verdict (history)
    rows,          \* real times of the recorded non-attempts (history)
    slotFaults

slotVars == <<now, skew, slotDay, lastRun, coolUntil, missed, stage, verdict, answered, fires,
              tests, rows, slotFaults>>
ledgers == <<slotDay, lastRun, coolUntil, missed>>

Verdicts == {"ok", "failed", "unavailable"}

SlotInit ==
    /\ now = 0 /\ skew = 0 /\ slotDay = [s \in Slots |-> -1]
    /\ lastRun = Never /\ coolUntil = Never /\ missed = Never
    /\ stage = "idle" /\ verdict = "ok" /\ answered = "none"
    /\ fires = {} /\ tests = {} /\ rows = {} /\ slotFaults = 0

Clock == now + skew
Day   == Clock \div DayLength
SlotFault == slotFaults < MaxSlotFaults /\ slotFaults' = slotFaults + 1

----------------------------------------------------------------------------
\* _speedtest_cooling_off: a cooldown longer than any this box arms is ignored.
CoolingOff == coolUntil > Clock /\ coolUntil - Clock <= Cooldown

Due == Clock - lastRun >= Interval

\* _maybe_scheduled_iperf: due today, not too late, and not run today.
SlotDue(s) ==
    LET late == (Clock % DayLength) - s
    IN  0 <= late /\ late <= Grace /\ slotDay[s] # Day

\* The check-in's own POST: answered with 2xx, with an error, or not at all.
Checkin(o) ==
    /\ stage = "idle" /\ answered = "none"
    /\ answered' = o
    /\ stage' = CASE o = "ok" -> "iperf" [] o = "dead" -> "missed" [] OTHER -> "idle"
    /\ UNCHANGED <<now, skew, ledgers, verdict, fires, tests, rows, slotFaults>>

RunIperf ==
    /\ stage = "iperf"
    /\ LET due == {s \in Slots : SlotDue(s)}
       IN  /\ fires' = fires \cup {[slot |-> s, when |-> now, day |-> Day] : s \in due}
           /\ stage' = IF due = {} THEN "speed" ELSE "ledger"
    /\ UNCHANGED <<now, skew, ledgers, verdict, answered, tests, rows, slotFaults>>

\* The ledger is written once, after all slots; only today's entries stay.
SaveSlots ==
    /\ stage = "ledger"
    /\ \/ /\ slotDay' = [s \in Slots |-> IF SlotDue(s) THEN Day
                                        ELSE IF slotDay[s] = Day THEN Day ELSE -1]
          /\ UNCHANGED slotFaults
       \/ SlotFault /\ UNCHANGED slotDay
    /\ stage' = "speed"
    /\ UNCHANGED <<now, skew, lastRun, coolUntil, missed, verdict, answered, fires, tests, rows>>

\* _maybe_scheduled_speedtest
SkipSpeed ==
    /\ stage = "speed" /\ (CoolingOff \/ ~Due)
    /\ stage' = "idle"
    /\ UNCHANGED <<now, skew, ledgers, verdict, answered, fires, tests, rows, slotFaults>>
RunSpeed(v) ==
    /\ stage = "speed" /\ ~CoolingOff /\ Due
    /\ tests' = tests \cup {[when |-> now, verdict |-> v]}
    /\ verdict' = v /\ stage' = "last"
    /\ UNCHANGED <<now, skew, ledgers, answered, fires, rows, slotFaults>>
SaveLast ==
    /\ stage = "last"
    /\ \/ lastRun' = Clock /\ UNCHANGED slotFaults
       \/ SlotFault /\ UNCHANGED lastRun
    /\ stage' = "cool"
    /\ UNCHANGED <<now, skew, slotDay, coolUntil, missed, verdict, answered, fires, tests, rows>>

\* _record_speedtest_cooldown: only a refusal backs off.
ArmAlways ==  \* mutant: a failed test backs off as well
    /\ stage = "cool"
    /\ coolUntil' = IF verdict = "ok" THEN Never ELSE Clock + Cooldown
    /\ stage' = "idle"
    /\ UNCHANGED <<now, skew, slotDay, lastRun, missed, verdict, answered, fires, tests, rows,
                   slotFaults>>
Arm ==
    /\ stage = "cool"
    /\ \/ /\ coolUntil' = IF verdict = "unavailable" THEN Clock + Cooldown ELSE Never
          /\ UNCHANGED slotFaults
       \/ SlotFault /\ UNCHANGED coolUntil
    /\ stage' = "idle"
    /\ UNCHANGED <<now, skew, slotDay, lastRun, missed, verdict, answered, fires, tests, rows>>

\* _missed_speedtest_on_failure: the row goes to the spool, then its ledger is
\* written; the ledger of the test itself is only read.
RecordMissed ==
    /\ stage = "missed"
    /\ IF ~CoolingOff /\ Due /\ Clock - missed >= Interval
       THEN rows' = rows \cup {now} /\ stage' = "missedLedger"
       ELSE stage' = "idle" /\ UNCHANGED rows
    /\ UNCHANGED <<now, skew, ledgers, verdict, answered, fires, tests, slotFaults>>
SaveMissed ==
    /\ stage = "missedLedger"
    /\ \/ missed' = Clock /\ UNCHANGED slotFaults
       \/ SlotFault /\ UNCHANGED missed
    /\ stage' = "idle"
    /\ UNCHANGED <<now, skew, slotDay, lastRun, coolUntil, verdict, answered, fires, tests, rows>>

SlotKilled ==
    /\ stage # "idle" /\ SlotFault
    /\ stage' = "idle"
    /\ UNCHANGED <<now, skew, ledgers, verdict, answered, fires, tests, rows>>

SlotTick ==
    /\ stage = "idle" /\ now < MaxNow
    /\ now' = now + 1 /\ answered' = "none"
    /\ UNCHANGED <<skew, ledgers, stage, verdict, fires, tests, rows, slotFaults>>

\* The clock of the box steps ahead, or is set right again.
ClockSteps ==
    /\ stage = "idle" /\ SlotFault
    /\ skew' = IF skew = 0 THEN Interval + Cooldown ELSE 0
    /\ UNCHANGED <<now, ledgers, stage, verdict, answered, fires, tests, rows>>

SlotNext ==
    \/ \E o \in {"ok", "error", "dead"} : Checkin(o)
    \/ RunIperf \/ SaveSlots \/ SkipSpeed \/ (\E v \in Verdicts : RunSpeed(v)) \/ SaveLast \/ Arm
    \/ RecordMissed \/ SaveMissed \/ SlotKilled \/ SlotTick \/ ClockSteps

SlotSpec == SlotInit /\ [][SlotNext]_slotVars

----------------------------------------------------------------------------
Instants == 0..MaxNow
SlotTypeOK ==
    /\ now \in Instants /\ skew \in Nat /\ slotDay \in [Slots -> Int]
    /\ lastRun \in Int /\ coolUntil \in Int /\ missed \in Int
    /\ stage \in {"idle", "iperf", "ledger", "speed", "last", "cool", "missed", "missedLedger"}
    /\ verdict \in Verdicts /\ answered \in {"none", "ok", "error", "dead"}
    /\ fires \subseteq [slot : Slots, when : Instants, day : Nat]
    /\ tests \subseteq [when : Instants, verdict : Verdicts] /\ rows \subseteq Instants
    /\ slotFaults \in 0..MaxSlotFaults

CheckedIn(o) == stage = "idle" /\ answered = o /\ slotFaults = 0
Within(t, d) == now - d < t /\ t <= now

\* No interval goes by in silence: after an answered check-in there is a speed
\* test of the last interval, or a refusal of the last cooldown; after one that
\* got no answer a recorded non-attempt will do.
SpeedAccounted ==
    LET tested  == \E t \in tests : Within(t.when, Interval)
        refused == \E t \in tests : t.verdict = "unavailable" /\ Within(t.when, Cooldown)
    IN  /\ CheckedIn("ok") => tested \/ refused
        /\ CheckedIn("dead") => tested \/ refused \/ \E t \in rows : Within(t, Interval)

\* Without faults, and with a steady clock, an iperf slot runs once a day, and tests
\* and recorded non-attempts are an interval apart.
ProbesSpaced ==
    slotFaults = 0 =>
        /\ \A f, g \in fires : f.slot = g.slot /\ f.day = g.day => f = g
        /\ \A t, u \in tests : t.when < u.when => u.when - t.when >= Interval
        /\ \A t, u \in rows : t < u => u - t >= Interval

\* The pace of the scheduled probes: no interval goes by in silence, and none has two.
ProbesPaced == SlotTypeOK /\ SpeedAccounted /\ ProbesSpaced
=============================================================================
