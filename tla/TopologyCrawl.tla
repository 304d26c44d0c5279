----------------------------- MODULE TopologyCrawl -----------------------------
(***************************************************************************)
(* The walk over the LLDP and CDP tables of the switches                   *)
(* (discovery/snmp_topology.py, crawl): a queue of addresses, each asked   *)
(* once, whose neighbours join the queue unless they are known, excluded,  *)
(* end devices, off the uplink (scope "spine"), or over a cap.             *)
(*                                                                         *)
(* A device is its management address.  What a switch hears is a sequence, *)
(* in the order its tables are read.                                       *)
(***************************************************************************)
EXTENDS Naturals, SequencesExt, Sublists

CONSTANTS
    Switches,    \* addresses of the network: 1..Switches
    Gateway,     \* gateway_ip
    Seeds,       \* seed_ips, in their order
    MaxDepth,    \* max_depth
    MaxNodes,    \* max_nodes
    FanoutCap,   \* fanout_cap
    MaxLinks     \* bound: rows in all neighbour tables together

ASSUME CrawlBounds ==
    /\ Switches \in Nat /\ Gateway \in Nat /\ Seeds \in Seq(1..Switches)
    /\ MaxDepth \in Nat /\ MaxNodes \in Nat /\ FanoutCap \in Nat /\ MaxLinks \in Nat

Network == 1..Switches
Roles == {"switch", "endpoint", "mute", "excluded"}

VARIABLES
    scope,      \* "full" or "spine"
    role,       \* mute: answers to no community; endpoint: advertises no bridging
    hears,      \* the neighbours in each device's tables
    uplink,     \* the neighbour on the port the gateway's MAC is learned on, or 0
    queue,      \* pairs <<address, depth>>
    visited,    \* visited_ips
    polled,     \* devices walked (history)
    truncated, exhausted

worldVars == <<scope, role, hears, uplink>>
crawlVars == <<worldVars, queue, visited, polled, truncated, exhausted>>

\* The neighbours of a switch, in the order of its tables.
Table(b, links) == SetToSeq({l[2] : l \in {k \in links : k[1] = b}})

Starts == Sifted(Seeds, {b \in Network : role[b] # "excluded"})

\* One device at most is not an ordinary switch.  In a full crawl no uplink is looked up.
CrawlInit ==
    /\ scope \in {"full", "spine"}
    /\ role \in {r \in [Network -> Roles] : Cardinality({b \in Network : r[b] # "switch"}) =< 1}
    /\ \E links \in UNION {kSubset(k, {l \in Network \X Network : l[1] # l[2]}) : k \in 0..MaxLinks} :
          /\ hears = [b \in Network |-> Table(b, links)]
          /\ uplink \in [Network -> Network \cup {0}]
          /\ \A b \in Network : uplink[b] # 0 => scope = "spine" /\ <<b, uplink[b]>> \in links
    /\ queue = [i \in DOMAIN Starts |-> <<Starts[i], 0>>]
    /\ visited = {} /\ polled = {} /\ truncated = FALSE /\ exhausted = FALSE

\* _consider, but for the caps: worth crawling from b, where V was visited.
AtEdge(b) == scope = "spine" /\ b = Gateway
\* Mutant of OnPath: without an uplink there is no way on.
OnlyUplink(b, n) == scope = "full" \/ n = Gateway \/ n = uplink[b]
OnPath(b, n) == scope = "full" \/ uplink[b] = 0 \/ n = Gateway \/ n = uplink[b]
Wanted(b, V) ==
    IF AtEdge(b) THEN <<>>
    ELSE Sifted(hears[b], {n \in Network \ V :
            role[n] \notin {"excluded", "endpoint"} /\ OnPath(b, n)})
\* The caps: no more than FanoutCap of them, and only while the queue has room.
Room(V, Q) == IF MaxNodes > Cardinality(V) + Len(Q) THEN MaxNodes - (Cardinality(V) + Len(Q)) ELSE 0
Enqueued(b, V, Q) == SubSeq(Wanted(b, V), 1, Min({FanoutCap, Room(V, Q), Len(Wanted(b, V))}))

Pop == Head(queue)
Known == Pop[1] \in visited \/ role[Pop[1]] = "excluded"

Drop ==
    /\ queue # <<>> /\ ~exhausted /\ Known
    /\ queue' = Tail(queue)
    /\ UNCHANGED <<worldVars, visited, polled, truncated, exhausted>>

\* Too deep, or no community: visited, and nothing is learned from it.
Leaf ==
    /\ queue # <<>> /\ ~exhausted /\ ~Known
    /\ Pop[2] > MaxDepth \/ role[Pop[1]] = "mute"
    /\ visited' = visited \cup {Pop[1]} /\ queue' = Tail(queue)
    /\ UNCHANGED <<worldVars, polled, truncated, exhausted>>

Walk ==
    /\ queue # <<>> /\ ~exhausted /\ ~Known
    /\ Pop[2] =< MaxDepth /\ role[Pop[1]] # "mute"
    /\ visited' = visited \cup {Pop[1]} /\ polled' = polled \cup {Pop[1]}
    /\ LET more == Enqueued(Pop[1], visited', Tail(queue)) IN
          /\ queue' = Tail(queue) \o [i \in DOMAIN more |-> <<more[i], Pop[2] + 1>>]
          /\ truncated' = (truncated \/ Len(more) < Len(Wanted(Pop[1], visited')))
    /\ UNCHANGED <<worldVars, exhausted>>

\* The time budget, looked at before each device.
OutOfBudget ==
    /\ queue # <<>> /\ ~exhausted
    /\ exhausted' = TRUE
    /\ UNCHANGED <<worldVars, queue, visited, polled, truncated>>

CrawlNext == Drop \/ Leaf \/ Walk \/ OutOfBudget
CrawlSpec == CrawlInit /\ [][CrawlNext]_crawlVars
-----------------------------------------------------------------------------
CrawlTypeOK ==
    /\ role \in [Network -> Roles] /\ hears \in [Network -> Seq(Network)]
    /\ queue \in Seq(Network \X (0..(MaxDepth + 1)))
    /\ polled \subseteq visited /\ visited \subseteq Network
    /\ truncated \in BOOLEAN /\ exhausted \in BOOLEAN

\* The devices within a number of hops of the seeds, counted on the network itself: over
\* switches that may be crawled and that answer, along the uplinks in scope "spine".
Follows(b, n) ==
    /\ n \in ToSet(hears[b]) /\ role[b] \notin {"mute", "excluded"}
    /\ role[n] \in {"switch", "mute"}
    /\ scope = "spine" => b # Gateway /\ uplink[b] \in {0, n} \cup (IF n = Gateway THEN Network ELSE {})
Within(k) ==
    {p[k] : p \in {q \in [0..k -> Network] :
        /\ q[0] \in ToSet(Seeds) /\ role[q[0]] # "excluded"
        /\ \A i \in 1..k : q[i] = q[i - 1] \/ Follows(q[i - 1], q[i])}}

\* A crawl that reports neither a cap nor its budget has walked exactly the devices
\* within its depth that answer: none was lost to the order in which the queue met
\* them.  One that reports them walked no other device.  It never asks an excluded
\* device, nor more devices than its cap (or its list of seeds).
CrawlExact ==
    /\ CrawlTypeOK
    /\ polled \subseteq {b \in Within(MaxDepth) : role[b] # "mute"}
    /\ queue = <<>> /\ ~truncated => polled = {b \in Within(MaxDepth) : role[b] # "mute"}
    /\ \A b \in visited : role[b] # "excluded"
    /\ Cardinality(visited) + Len(queue) =< Max({MaxNodes, Len(Seeds)})
=============================================================================
