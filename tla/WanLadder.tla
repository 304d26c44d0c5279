------------------------------ MODULE WanLadder ------------------------------
(***************************************************************************)
(* The evidence ladder of a WAN-path capture (wan_path.py): traces, the    *)
(* baseline of the path when it works, the comparison with it, and the     *)
(* verdict.                                                                *)
(*                                                                         *)
(* The first configured target is the destination of every trace; it may   *)
(* change between runs while the baseline stays on disk.                   *)
(***************************************************************************)
EXTENDS Integers, Sequences, FiniteSetsExt, SequencesExt

CONSTANTS
    Dests,          \* destinations the configuration may name first
    Routers,        \* addresses of the hops on the way
    MaxHops,        \* TRACE_MAX_HOPS
    MinShortfall,   \* MIN_SHORTFALL_HOPS
    MaxLadders      \* bound: runs of the ladder

ASSUME LadderBounds ==
    /\ MaxHops \in Nat \ {0} /\ MinShortfall \in Nat \ {0} /\ MaxLadders \in Nat
    /\ Dests # {} /\ Dests \cap Routers = {} /\ {"*", "none"} \cap (Dests \cup Routers) = {}

VARIABLES
    dest,       \* the destination in force
    baseline,   \* baseline.json, one mode: its destination, the addresses seen at each hop,
                \* the deepest hop that ever answered; dest = "none" where there is none
    finding,    \* the last capture: its measurements, verdict and break
    walked,     \* <<destination, hop>> of every answer a baseline trace ever got (history)
    ladders

ladderVars == <<dest, baseline, finding, walked, ladders>>

NoBaseline == [dest |-> "none", hopIps |-> [i \in 1..MaxHops |-> {}], deepest |-> 0]
NoBreak == 0
NoFinding == [dest |-> "none", connected |-> FALSE, last |-> 0, code |-> "ok", break |-> NoBreak]

\* trace and _parse_hops: one entry for each hop, "*" for silence; the trace ends at
\* its destination.  A trace that failed has no hops.
Answers == Routers \cup {"*"}
Walks(d) == {[i \in 1..n |-> IF i = n /\ r THEN d ELSE w[i]] :
                 n \in 0..MaxHops, r \in BOOLEAN, w \in [1..MaxHops -> Answers]}
Traces(d) == {t \in Walks(d) : t = <<>> \/ Last(t) = d \/ Len(t) = MaxHops}
Reached(t, d) == t # <<>> /\ Last(t) = d

\* last_responding_hop: silence that a later hop closes does not count.
LastResponding(t) == Max({0} \cup {i \in DOMAIN t : t[i] # "*"})

\* merge_baseline: another destination starts the mode over.
Chimera(b, t, d) ==   \* mutant: the hops of another destination are kept
    LET seen == [i \in 1..MaxHops |->
                    b.hopIps[i] \cup IF i \in DOMAIN t /\ t[i] # "*" THEN {t[i]} ELSE {}]
        deep == Max({0} \cup {i \in 1..MaxHops : seen[i] # {}})
    IN  IF t = <<>> THEN b
        ELSE [dest |-> d, hopIps |-> seen, deepest |-> Max({b.deepest, deep})]
MergedBaseline(b, t, d) ==
    LET old  == IF b.dest \in {d, "none"} THEN b ELSE NoBaseline
        seen == [i \in 1..MaxHops |->
                    old.hopIps[i] \cup IF i \in DOMAIN t /\ t[i] # "*" THEN {t[i]} ELSE {}]
        deep == Max({0} \cup {i \in 1..MaxHops : seen[i] # {}})
    IN  IF t = <<>> THEN b
        ELSE [dest |-> d, hopIps |-> seen, deepest |-> Max({old.deepest, deep})]

\* compare: the hop after which the path breaks off, if the baseline of the same
\* destination got clearly further.
Compare(b, t, d) ==
    LET last == LastResponding(t)
    IN  IF b.dest # d \/ Reached(t, d) \/ last = 0 \/ b.deepest - last < MinShortfall
        THEN NoBreak ELSE last

\* decide: a local fault first, then the path, the resolver, the dashboard.
\* controls are the outcomes of the TCP connects.
Decide(gateway, controls, dashboard, dns, icmp) ==
    CASE gateway = "none"                        -> "no_route"
      [] gateway = "dead"                        -> "lan"
      [] gateway = "alive" /\ controls # {} /\ TRUE \notin controls
                                                 -> IF icmp THEN "tcp_blocked" ELSE "wan_down"
      [] gateway = "alive" /\ (controls = {} \/ TRUE \in controls) /\ ~dns -> "dns"
      [] gateway = "alive" /\ (controls = {} \/ TRUE \in controls) /\ dns /\ ~dashboard
                                                 -> "dashboard_only"
      [] OTHER                                   -> "ok"

----------------------------------------------------------------------------
LadderInit ==
    /\ dest \in Dests /\ baseline = NoBaseline /\ finding = NoFinding /\ walked = {}
    /\ ladders = 0

\* Nothing reads a capture again: a behaviour ends with its first one.
Ladder == finding = NoFinding /\ ladders < MaxLadders /\ ladders' = ladders + 1

\* The targets in the environment file change: targets_from keeps IP literals.
Retarget ==
    /\ finding = NoFinding
    /\ dest' \in Dests \ {dest}
    /\ UNCHANGED <<baseline, finding, walked, ladders>>

\* cmd_wan_path --reason baseline: traces are merged and saved, nothing is captured.
RefreshBaseline(t) ==
    /\ Ladder
    /\ baseline' = MergedBaseline(baseline, t, dest)
    /\ walked' = walked \cup {<<dest, i>> : i \in {j \in DOMAIN t : t[j] # "*"}}
    /\ UNCHANGED <<dest, finding>>

\* capture: the break is attached only to a verdict that found the path broken; when
\* the time budget is spent there is no trace.
Capture(t, gateway, controls, dashboard, dns, icmp) ==
    /\ Ladder
    /\ LET code == Decide(gateway, controls, dashboard, dns, icmp)
       IN  finding' = [dest |-> dest, connected |-> TRUE \in controls,
                       last |-> Max({0} \cup {i \in DOMAIN t : t[i] # "*"}), code |-> code,
                       break |-> IF code \in {"wan_down", "tcp_blocked"}
                                 THEN Compare(baseline, t, dest) ELSE NoBreak]
    /\ UNCHANGED <<dest, baseline, walked>>

LadderNext ==
    \/ Retarget
    \/ \E t \in Traces(dest) :
          \/ RefreshBaseline(t)
          \/ \E gateway \in {"alive", "dead", "none"} : \E controls \in SUBSET BOOLEAN :
             \E dashboard, dns, icmp \in BOOLEAN :
                Capture(t, gateway, controls, dashboard, dns, icmp)

LadderSpec == LadderInit /\ [][LadderNext]_ladderVars

----------------------------------------------------------------------------
Codes == {"ok", "lan", "no_route", "dns", "tcp_blocked", "wan_down", "dashboard_only"}
LadderTypeOK ==
    /\ dest \in Dests
    /\ baseline \in [dest : Dests \cup {"none"},
                     hopIps : [1..MaxHops -> SUBSET (Dests \cup Routers)], deepest : 0..MaxHops]
    /\ finding \in [dest : Dests \cup {"none"}, connected : BOOLEAN, last : 0..MaxHops,
                    code : Codes, break : 0..MaxHops]
    /\ walked \subseteq Dests \X (1..MaxHops) /\ ladders \in 0..MaxLadders

\* A capture names the hop where the path breaks only if no control connected, if
\* that hop is the last that answered, and if a trace to the very same destination
\* has once been answered clearly further on.
BreakIsReal ==
    /\ LadderTypeOK
    /\ finding.break # NoBreak =>
        /\ ~finding.connected /\ finding.break = finding.last
        /\ \E i \in 1..MaxHops : i - finding.last >= MinShortfall /\ <<finding.dest, i>> \in walked
=============================================================================
