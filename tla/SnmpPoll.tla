------------------------------ MODULE SnmpPoll ------------------------------
(***************************************************************************)
(* Whom a scan asks over SNMP, with which community, and what it concludes *)
(* (scan.py _snmp_candidates and _probe_reachability, discovery/snmp.py,   *)
(* the credential cache in db.py).  Candidates are ordered by evidence,    *)
(* capped, and polled one after the other until the time budget is spent.  *)
(* Each is tried with the operator's override, with the community that     *)
(* worked last, and with the configured list; what works is cached, and a  *)
(* device that failed too often is left alone for a day.  The topology     *)
(* crawl asks through the same cache.                                      *)
(*                                                                         *)
(* Time is counted in probes that get no answer (they are what a poll      *)
(* waits for) and, between scans, in scan intervals.                       *)
(***************************************************************************)
EXTENDS Naturals, SequencesExt, Sublists

CONSTANTS
    Ips,           \* addresses: numbers, in the order discovery lists them
    Gateway,       \* the address of the gateway
    Announced,     \* management addresses heard over LLDP/CDP
    Guessed,       \* addresses picked for the vendor of their MAC
    Communities,   \* snmp_community_list
    Answerable,    \* communities a device may be set to
    PollCap,       \* snmp_poll_max_candidates
    PollBudget,    \* snmp_poll_time_budget
    Slow,          \* devices whose tables take a probe's time to walk
    MaxFails,      \* MAX_FAILURES_BEFORE_BACKOFF
    Backoff,       \* BACKOFF_SECONDS, in scan intervals
    MaxRekeys,     \* bound: times a device changes what it answers
    MaxPushes      \* bound: changes the operator pushes

ASSUME SnmpBounds ==
    /\ Ips \subseteq Nat /\ IsFiniteSet(Ips) /\ Gateway \in Ips
    /\ Announced \subseteq Ips /\ Guessed \subseteq Ips /\ Slow \subseteq Ips
    /\ Communities \in Seq(STRING)
    /\ PollCap \in Nat /\ PollBudget \in Nat /\ MaxFails \in Nat \ {0} /\ Backoff \in Nat
    /\ MaxRekeys \in Nat /\ MaxPushes \in Nat

None == "none"

VARIABLES
    answers,     \* the community each device answers to, if any
    pin,         \* snmp_credential_override_map
    registered,  \* snmp_extra_target_list
    excluded,    \* snmp_exclude_list
    cred,        \* snmp_credentials: community, consecutive failures, scans since
    phase, todo, spent,
    tried,       \* devices this poll attempted, in order
    rows,        \* devices this poll has rows of
    responds,    \* what the last scan reported as answering SNMP
    sent,        \* communities each device was asked with in this poll (history)
    worked,      \* whether the last attempt at each device was answered (history)
    rekeys, pushes

operatorVars == <<pin, registered, excluded, pushes>>
scanState == <<phase, todo, spent, tried, rows, responds>>
snmpVars == <<answers, operatorVars, cred, scanState, sent, worked, rekeys>>

SnmpInit ==
    /\ answers \in [Ips -> Answerable \cup {None}] /\ rekeys = 0
    /\ pin = [d \in Ips |-> None] /\ registered = {} /\ excluded = {} /\ pushes = 0
    /\ cred = [d \in Ips |-> [comm |-> None, fails |-> 0, age |-> Backoff]]
    /\ phase = "idle" /\ todo = <<>> /\ spent = 0
    /\ tried = <<>> /\ rows = {} /\ responds = {}
    /\ sent = [d \in Ips |-> <<>>] /\ worked = [d \in Ips |-> FALSE]

\* Strongest evidence first; an address appears once, where it is strongest.
Pinned == {d \in Ips : pin[d] # None}
Found == ({Gateway} \cup Announced \cup registered \cup Pinned \cup Guessed) \ excluded
Strength(d) ==
    IF d = Gateway THEN 1 ELSE IF d \in Announced THEN 2 ELSE IF d \in registered THEN 3
    ELSE IF pin[d] # None THEN 4 ELSE 5
Stronger(d, e) == Strength(d) < Strength(e) \/ (Strength(d) = Strength(e) /\ d < e)
Place(d, F) == 1 + Cardinality({e \in F : Stronger(e, d)})
Candidates ==
    LET F == Found IN [i \in 1..Cardinality(F) |-> CHOOSE d \in F : Place(d, F) = i]

BeginScan ==
    /\ phase = "idle"
    /\ phase' = "poll" /\ rows' = {}
    /\ todo' = LET C == Candidates IN SubSeq(C, 1, Min({PollCap, Len(C)}))
    /\ cred' = [d \in Ips |-> [cred[d] EXCEPT !.age = Min({@ + 1, Backoff})]]
    /\ UNCHANGED <<answers, operatorVars, spent, tried, responds, sent, worked, rekeys>>

\* Mutant of BacksOff: a device with an override is left alone like any other.
BacksOffPinned(d) == cred[d].comm = None /\ cred[d].fails >= MaxFails /\ cred[d].age < Backoff
\* An override is asked whatever the cache says, and before it.
BacksOff(d) ==
    pin[d] = None /\ cred[d].comm = None /\ cred[d].fails >= MaxFails /\ cred[d].age < Backoff
Cached(d) == IF cred[d].comm \in {None, pin[d]} THEN <<>> ELSE <<cred[d].comm>>
Trials(d) ==
    (IF pin[d] = None THEN <<>> ELSE <<pin[d]>>) \o Cached(d)
       \o Sifted(Communities, ToSet(Communities) \ {pin[d], cred[d].comm})

Hits(d) == {k \in DOMAIN Trials(d) : Trials(d)[k] = answers[d]}
Misses(d) == IF Hits(d) = {} THEN Len(Trials(d)) ELSE Min(Hits(d)) - 1
Ask(d, n) == sent' = [sent EXCEPT ![d] = @ \o SubSeq(Trials(d), 1, n)]
Success(d) ==
    /\ cred' = [cred EXCEPT ![d] = [comm |-> answers[d], fails |-> 0, age |-> 0]]
    /\ worked' = [worked EXCEPT ![d] = TRUE]
\* Mutant of Failure: the failures of a device are not counted up.
FailsAfresh(d) ==
    /\ cred' = [cred EXCEPT ![d] = [comm |-> None, fails |-> 1, age |-> 0]]
    /\ worked' = [worked EXCEPT ![d] = FALSE]
Failure(d) ==
    /\ cred' = [cred EXCEPT ![d] = [comm |-> None, fails |-> Min({@.fails + 1, MaxFails}), age |-> 0]]
    /\ worked' = [worked EXCEPT ![d] = FALSE]

Polls(d) == phase = "poll" /\ todo # <<>> /\ d = Head(todo) /\ spent < PollBudget
Attempt(d) == tried' = Append(tried, d) /\ UNCHANGED <<answers, operatorVars, responds, rekeys>>
GoesOn == todo' = Tail(todo) /\ UNCHANGED phase
Stops == todo' = <<>> /\ UNCHANGED phase

LeaveAlone(d) ==
    /\ Polls(d) /\ BacksOff(d) /\ Attempt(d) /\ GoesOn
    /\ UNCHANGED <<cred, spent, rows, sent, worked>>
\* Every trial has to start within the budget; so does every table of the walk, and a
\* walk that runs out of time leaves no rows at all.
FindsAnswer(d) ==
    /\ Polls(d) /\ ~BacksOff(d) /\ Attempt(d)
    /\ Hits(d) # {} /\ spent + Misses(d) < PollBudget
    /\ Ask(d, Misses(d) + 1) /\ Success(d)
    /\ spent' = spent + Misses(d) + (IF d \in Slow THEN 1 ELSE 0)
    /\ IF spent' < PollBudget THEN rows' = rows \cup {d} /\ GoesOn ELSE UNCHANGED rows /\ Stops
NoAnswer(d) ==
    /\ Polls(d) /\ ~BacksOff(d) /\ Attempt(d) /\ GoesOn
    /\ Hits(d) = {} /\ spent + Misses(d) =< PollBudget
    /\ Ask(d, Misses(d)) /\ Failure(d)
    /\ spent' = spent + Misses(d)
    /\ UNCHANGED rows
\* Cut off in the middle of its trials: neither a success nor a failure.
CutOff(d) ==
    /\ Polls(d) /\ ~BacksOff(d) /\ Attempt(d) /\ Stops
    /\ IF Hits(d) = {} THEN spent + Misses(d) > PollBudget ELSE spent + Misses(d) >= PollBudget
    /\ Ask(d, PollBudget - spent)
    /\ spent' = PollBudget
    /\ UNCHANGED <<cred, rows, worked>>

\* The budget is spent or the list is done; the crawl, when due, starts from all of them.
EndPoll ==
    /\ phase = "poll" /\ (todo = <<>> \/ spent >= PollBudget)
    /\ \/ phase' = "crawl" /\ todo' = Candidates
       \/ phase' = "report" /\ todo' = <<>>
    /\ spent' = 0 /\ tried' = <<>> /\ sent' = [d \in Ips |-> <<>>]
    /\ UNCHANGED <<answers, operatorVars, cred, rows, responds, worked, rekeys>>

\* The crawl tries every community; it may run out of its own time between devices.
Crawl(d) ==
    /\ phase = "crawl" /\ todo # <<>> /\ d = Head(todo) /\ GoesOn
    /\ IF BacksOff(d) THEN UNCHANGED <<cred, worked>>
       ELSE IF Hits(d) # {} THEN Success(d) ELSE Failure(d)
    /\ UNCHANGED <<answers, operatorVars, spent, tried, rows, responds, sent, rekeys>>
EndCrawl ==
    /\ phase = "crawl"
    /\ phase' = "report" /\ todo' = <<>>
    /\ UNCHANGED <<answers, operatorVars, cred, spent, tried, rows, responds, sent, worked, rekeys>>

\* Reachability rows: rows of this poll, or a community in the cache.
Report ==
    /\ phase = "report"
    /\ responds' = {d \in ToSet(Candidates) : d \in rows \/ cred[d].comm # None}
    /\ phase' = "idle"
    /\ UNCHANGED <<answers, operatorVars, cred, todo, spent, tried, rows, sent, worked, rekeys>>

\* A device is rekeyed, goes silent or comes back; the operator pins a community,
\* registers or excludes a device.
Rekeyed(d) ==
    /\ rekeys < MaxRekeys /\ rekeys' = rekeys + 1
    /\ \E c \in (Answerable \cup {None}) \ {answers[d]} : answers' = [answers EXCEPT ![d] = c]
    /\ UNCHANGED <<operatorVars, cred, scanState, sent, worked>>
Pushed(d) ==
    /\ phase = "idle" /\ pushes < MaxPushes /\ pushes' = pushes + 1
    /\ \/ \E c \in Answerable \ {pin[d]} : pin' = [pin EXCEPT ![d] = c]
          /\ UNCHANGED <<registered, excluded>>
       \/ registered' = registered \cup {d} /\ UNCHANGED <<pin, excluded>>
       \/ excluded' = excluded \cup {d} /\ UNCHANGED <<pin, registered>>
    /\ UNCHANGED <<answers, cred, scanState, sent, worked, rekeys>>

PollSteps(d) == LeaveAlone(d) \/ FindsAnswer(d) \/ NoAnswer(d) \/ CutOff(d) \/ Crawl(d)
ScanSteps == BeginScan \/ EndPoll \/ EndCrawl \/ Report \/ \E d \in Ips : PollSteps(d)
SnmpNext == ScanSteps \/ \E d \in Ips : Rekeyed(d) \/ Pushed(d)

\* Scans come round for ever.
SnmpSpec == SnmpInit /\ [][SnmpNext]_snmpVars /\ WF_snmpVars(ScanSteps)
-----------------------------------------------------------------------------
SnmpTypeOK ==
    /\ answers \in [Ips -> Answerable \cup {None}] /\ pin \in [Ips -> Answerable \cup {None}]
    /\ registered \subseteq Ips /\ excluded \subseteq Ips
    /\ \A d \in Ips : /\ cred[d].comm \in Answerable \cup ToSet(Communities) \cup {None}
                      /\ cred[d].fails \in 0..MaxFails /\ cred[d].age \in 0..Backoff
    /\ phase \in {"idle", "poll", "crawl", "report"}
    /\ todo \in Seq(Ips) /\ tried \in Seq(Ips) /\ spent \in 0..(PollBudget + 1)
    /\ rows \subseteq Ips /\ responds \subseteq Ips

\* A device reported as answering SNMP answered this scan's poll, or answered the last
\* time it was asked to the end.
RespondsMeansAnswered == phase = "idle" => \A d \in responds : d \in rows \/ worked[d]

\* What an operator said decides whom the budget reaches, whatever the cache holds: an
\* excluded device is never asked, a device picked by a guess is never attempted before
\* every registered and every pinned one, and a pinned one is asked with its own
\* community first, also when it is in its day of backoff.
OperatorDecides ==
    /\ SnmpTypeOK /\ RespondsMeansAnswered
    /\ phase = "poll" =>
       /\ \A d \in excluded : sent[d] = <<>>
       /\ \A i \in DOMAIN tried :
             /\ Strength(tried[i]) = 5 =>
                   (registered \cup Pinned) \ excluded \subseteq ToSet(SubSeq(tried, 1, i))
             /\ pin[tried[i]] # None => sent[tried[i]] # <<>> /\ sent[tried[i]][1] = pin[tried[i]]

\* A device that answers a configured community, or its pin, is polled again and again,
\* although devices that never answer come before it: they are left alone in time.
\* (While the operator pins none of those: an override is asked in every scan; and while
\* the budget covers the slow walks and one device's wrong communities.)
Pollable(d) ==
    /\ answers[d] # None /\ answers[d] \in ToSet(Communities) \cup {pin[d]}
    /\ d \in Found /\ Place(d, Found) =< PollCap
    /\ \A e \in Pinned : answers[e] = pin[e]
    /\ Cardinality(Slow) + Len(Communities) =< PollBudget
PolledAgain == \A d \in Ips : <>[]Pollable(d) => []<>(d \in rows)
=============================================================================
