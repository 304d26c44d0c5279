------------------------------ MODULE ResultSpool ------------------------------
(***************************************************************************)
(* Delivery of measurements and command results (checkin.py, the result    *)
(* spool).  A result is POSTed; one that cannot be delivered is written to *)
(* a spool file.  A check-in whose own POST failed spools a whole batch    *)
(* without trying.  An answered check-in drains the spool, oldest file     *)
(* first, at most so many files and payloads, and rewrites the file it     *)
(* could only deliver in part.  The console poll is a second process that  *)
(* posts and spools results of its own.                                    *)
(*                                                                         *)
(* Results are numbered in the order they are measured; a file is named    *)
(* by the moment it is written, which orders the spool.                    *)
(***************************************************************************)
EXTENDS Integers, SequencesExt

CONSTANTS
    SpoolMax,        \* RESULT_SPOOL_MAX, files
    DrainFiles,      \* RESULT_SPOOL_DRAIN_PER_RUN
    DrainPayloads,   \* RESULT_SPOOL_DRAIN_PAYLOADS
    Refused,         \* results the dashboard never accepts
    MaxItems,        \* bound: results measured
    MaxOutages,      \* bound: times the dashboard goes away
    MaxSpoolFaults   \* bound: lost answers, failed writes, killed processes

ASSUME SpoolBounds ==
    /\ SpoolMax \in Nat \ {0} /\ DrainFiles \in Nat \ {0} /\ DrainPayloads \in Nat \ {0}
    /\ Refused \subseteq Nat
    /\ MaxItems \in Nat /\ MaxOutages \in Nat /\ MaxSpoolFaults \in Nat

Posters == {"checkin", "poll"}

VARIABLES
    up,        \* the dashboard can be reached
    items,     \* results measured so far
    spool,     \* file name -> its payloads
    clock,     \* the next file name
    at,        \* where each process is
    held,      \* results a process holds in memory
    todo,      \* names the drain has listed and not yet handled
    doc,       \* payloads of the file being drained that are not delivered
    sent,      \* whether one of this file was
    budget,    \* payloads the drain may still deliver
    arrivals,  \* times each result reached the dashboard (history)
    evicted,   \* results whose file the cap removed (history)
    lost,      \* results lost to a failed write or a kill (history)
    outages, spoolFaults

spoolVars == <<up, items, spool, clock, at, held, todo, doc, sent, budget, arrivals, evicted,
               lost, outages, spoolFaults>>
drainVars == <<todo, doc, sent, budget>>

SpoolInit ==
    /\ up = TRUE /\ items = 0 /\ spool = <<>> /\ clock = 1
    /\ at = [p \in Posters |-> "idle"] /\ held = [p \in Posters |-> <<>>]
    /\ todo = <<>> /\ doc = <<>> /\ sent = FALSE /\ budget = 0
    /\ arrivals = [i \in 1..MaxItems |-> 0] /\ evicted = {} /\ lost = {}
    /\ outages = 0 /\ spoolFaults = 0

SpoolFault == spoolFaults < MaxSpoolFaults /\ spoolFaults' = spoolFaults + 1
Put(n, c) == [m \in DOMAIN spool \cup {n} |-> IF m = n THEN c ELSE spool[m]]
Drop(N) == [m \in DOMAIN spool \ N |-> spool[m]]
\* sorted(): the one listing of the names that is in their order.
Names == {s \in [1..Cardinality(DOMAIN spool) -> DOMAIN spool] :
             \A i, j \in DOMAIN s : i < j => s[i] < s[j]}
ItemsIn(f) == UNION {ToSet(f[n]) : n \in DOMAIN f}

\* One POST: it arrives and is answered, it arrives and the answer is lost, or it
\* is refused or does not arrive.
Arrives(i) == arrivals' = [arrivals EXCEPT ![i] = @ + 1]
Accepted(i) == up /\ i \notin Refused /\ Arrives(i) /\ UNCHANGED spoolFaults
Failed(i) ==
    \/ up /\ i \notin Refused /\ Arrives(i) /\ SpoolFault
    \/ (~up \/ i \in Refused) /\ UNCHANGED <<arrivals, spoolFaults>>

----------------------------------------------------------------------------
\* A probe or a command has a result to deliver; in a check-in whose own POST
\* failed the results of the cycle go to the spool together.
Measure(p, n) ==
    /\ at[p] = "idle" /\ items + n <= MaxItems
    /\ n > 1 => p = "checkin" /\ ~up
    /\ held' = [held EXCEPT ![p] = [k \in 1..n |-> items + k]]
    /\ items' = items + n
    /\ at' = [at EXCEPT ![p] = IF n > 1 THEN "evict" ELSE "post"]
    /\ UNCHANGED <<up, spool, clock, drainVars, arrivals, evicted, lost, outages, spoolFaults>>

\* _post_result
PostResult(p) ==
    /\ at[p] = "post"
    /\ LET i == held[p][1] IN
       \/ /\ Accepted(i)
          /\ at' = [at EXCEPT ![p] = "idle"] /\ held' = [held EXCEPT ![p] = <<>>]
       \/ /\ Failed(i)
          /\ at' = [at EXCEPT ![p] = "evict"] /\ UNCHANGED held
    /\ UNCHANGED <<up, items, spool, clock, drainVars, evicted, lost, outages>>

\* _spool_results: room is made at the cap, then the file is written.  The other
\* process may write in between.
OverCap == {n \in DOMAIN spool :
              Cardinality({m \in DOMAIN spool : m < n}) <
                  Cardinality(DOMAIN spool) + 1 - SpoolMax}
Evict(p) ==
    /\ at[p] = "evict"
    /\ spool' = Drop(OverCap)
    /\ evicted' = evicted \cup UNION {ToSet(spool[n]) : n \in OverCap}
    /\ at' = [at EXCEPT ![p] = "write"]
    /\ UNCHANGED <<up, items, clock, held, drainVars, arrivals, lost, outages, spoolFaults>>
WriteSpool(p) ==
    /\ at[p] = "write"
    /\ \/ /\ spool' = Put(clock, held[p]) /\ clock' = clock + 1
          /\ UNCHANGED <<lost, spoolFaults>>
       \/ /\ SpoolFault /\ lost' = lost \cup ToSet(held[p])
          /\ UNCHANGED <<spool, clock>>
    /\ at' = [at EXCEPT ![p] = "idle"] /\ held' = [held EXCEPT ![p] = <<>>]
    /\ UNCHANGED <<up, items, drainVars, arrivals, evicted, outages>>

----------------------------------------------------------------------------
\* _drain_result_spool
DrainStarts ==
    /\ at["checkin"] = "idle" /\ up /\ DOMAIN spool # {}
    /\ \E s \in Names : todo' = IF Len(s) > DrainFiles THEN SubSeq(s, 1, DrainFiles) ELSE s
    /\ budget' = DrainPayloads
    /\ at' = [at EXCEPT !["checkin"] = "read"]
    /\ UNCHANGED <<up, items, spool, clock, held, doc, sent, arrivals, evicted, lost, outages,
                   spoolFaults>>

\* A file the cap removed meanwhile is passed over.
ReadStuck ==  \* mutant: a file that is gone ends the drain in its place
    /\ at["checkin"] = "read"
    /\ IF todo = <<>>
       THEN at' = [at EXCEPT !["checkin"] = "idle"] /\ UNCHANGED <<todo, doc, sent>>
       ELSE /\ todo[1] \in DOMAIN spool
            /\ doc' = spool[todo[1]] /\ sent' = FALSE
            /\ at' = [at EXCEPT !["checkin"] = "send"] /\ UNCHANGED todo
    /\ UNCHANGED <<up, items, spool, clock, held, budget, arrivals, evicted, lost, outages,
                   spoolFaults>>
DrainRead ==
    /\ at["checkin"] = "read"
    /\ IF todo = <<>>
       THEN at' = [at EXCEPT !["checkin"] = "idle"] /\ UNCHANGED <<todo, doc, sent>>
       ELSE IF todo[1] \in DOMAIN spool
       THEN /\ doc' = spool[todo[1]] /\ sent' = FALSE
            /\ at' = [at EXCEPT !["checkin"] = "send"] /\ UNCHANGED todo
       ELSE todo' = Tail(todo) /\ UNCHANGED <<at, doc, sent>>
    /\ UNCHANGED <<up, items, spool, clock, held, budget, arrivals, evicted, lost, outages,
                   spoolFaults>>

DrainSend ==
    /\ at["checkin"] = "send" /\ doc # <<>>
    /\ \/ /\ budget > 0 /\ Accepted(doc[1])
          /\ doc' = Tail(doc) /\ sent' = TRUE /\ budget' = budget - 1
          /\ UNCHANGED at
       \/ /\ \/ budget > 0 /\ Failed(doc[1])
             \/ budget = 0 /\ UNCHANGED <<arrivals, spoolFaults>>
          /\ at' = [at EXCEPT !["checkin"] = IF sent THEN "rewrite" ELSE "idle"]
          /\ UNCHANGED <<doc, sent, budget>>
    /\ UNCHANGED <<up, items, spool, clock, held, todo, evicted, lost, outages>>

\* The remainder keeps the name of its file, and so its place.  A failed rewrite
\* leaves the whole file.
DrainRewrite ==
    /\ at["checkin"] = "rewrite"
    /\ \/ spool' = Put(todo[1], doc) /\ UNCHANGED spoolFaults
       \/ SpoolFault /\ UNCHANGED spool
    /\ at' = [at EXCEPT !["checkin"] = "idle"]
    /\ UNCHANGED <<up, items, clock, held, drainVars, arrivals, evicted, lost, outages>>

UnlinkEarly ==  \* mutant: the file goes as soon as one payload was taken
    /\ at["checkin"] = "send" /\ (doc = <<>> \/ sent)
    /\ spool' = Drop({todo[1]}) /\ todo' = Tail(todo)
    /\ at' = [at EXCEPT !["checkin"] = "read"]
    /\ UNCHANGED <<up, items, clock, held, doc, sent, budget, arrivals, evicted, lost, outages,
                   spoolFaults>>
DrainUnlink ==
    /\ at["checkin"] = "send" /\ doc = <<>>
    /\ spool' = Drop({todo[1]}) /\ todo' = Tail(todo)
    /\ at' = [at EXCEPT !["checkin"] = "read"]
    /\ UNCHANGED <<up, items, clock, held, doc, sent, budget, arrivals, evicted, lost, outages,
                   spoolFaults>>

\* A killed process leaves the files as they are and takes what it held with it.
SpoolKilled(p) ==
    /\ at[p] # "idle" /\ SpoolFault
    /\ lost' = lost \cup ToSet(held[p])
    /\ at' = [at EXCEPT ![p] = "idle"] /\ held' = [held EXCEPT ![p] = <<>>]
    /\ UNCHANGED <<up, items, spool, clock, drainVars, arrivals, evicted, outages>>

GoesDown ==
    /\ up /\ outages < MaxOutages
    /\ up' = FALSE /\ outages' = outages + 1
    /\ UNCHANGED <<items, spool, clock, at, held, drainVars, arrivals, evicted, lost, spoolFaults>>
ComesBack ==
    /\ ~up /\ up' = TRUE
    /\ UNCHANGED <<items, spool, clock, at, held, drainVars, arrivals, evicted, lost, outages,
                   spoolFaults>>

SpoolStep(p) == PostResult(p) \/ Evict(p) \/ WriteSpool(p)
DrainStep == DrainStarts \/ DrainRead \/ DrainSend \/ DrainRewrite \/ DrainUnlink
SpoolNext ==
    \/ \E p \in Posters : SpoolStep(p) \/ SpoolKilled(p) \/ \E n \in 1..2 : Measure(p, n)
    \/ DrainStep \/ GoesDown \/ ComesBack

SpoolSpec == SpoolInit /\ [][SpoolNext]_spoolVars

----------------------------------------------------------------------------
SpoolTypeOK ==
    /\ up \in BOOLEAN /\ items \in 0..MaxItems /\ clock \in 1..(MaxItems + 1)
    /\ DOMAIN spool \subseteq 1..MaxItems
    /\ \A n \in DOMAIN spool : spool[n] \in Seq(1..MaxItems)
    /\ at \in [Posters -> {"idle", "post", "evict", "write", "read", "send", "rewrite"}]
    /\ held \in [Posters -> Seq(1..MaxItems)] /\ todo \in Seq(1..MaxItems)
    /\ doc \in Seq(1..MaxItems) /\ sent \in BOOLEAN /\ budget \in 0..DrainPayloads
    /\ arrivals \in [1..MaxItems -> Nat] /\ evicted \subseteq 1..MaxItems
    /\ lost \subseteq 1..MaxItems /\ outages \in 0..MaxOutages
    /\ spoolFaults \in 0..MaxSpoolFaults

\* No result vanishes: it has arrived, waits on disk or in a process, or its file
\* was removed at the cap or lost to a failed write or a kill.
EveryResultAccounted ==
    \A i \in 1..items :
        arrivals[i] > 0 \/ i \in ItemsIn(spool) \cup ItemsIn(held) \cup evicted \cup lost

\* Nothing is delivered twice unless an answer was lost, a rewrite failed or a
\* process was killed, once for each of them; two writers and the drain never
\* make the spool outgrow its cap by more than one file.
DeliveredOnce ==
    /\ \A i \in 1..items : arrivals[i] <= 1 + spoolFaults
    /\ Cardinality(DOMAIN spool) <= SpoolMax + 1

\* Once the outages are over, everything spooled is delivered.
SpoolDrains == <>[](DOMAIN spool = {})

\* What holds of the spool at every instant, whoever posts, drains or dies: every
\* result is accounted for, and none is delivered once too often.
SpoolSound == SpoolTypeOK /\ EveryResultAccounted /\ DeliveredOnce
=============================================================================
