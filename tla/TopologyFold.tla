----------------------------- MODULE TopologyFold -----------------------------
(***************************************************************************)
(* One device, several names.  A crawl keys a device by its LLDP chassis   *)
(* id; one that only a CDP neighbour named is keyed "cdp:" and one that    *)
(* answered without a chassis id "ip:".  Before a crawl is stored, such    *)
(* placeholders are folded into the device they are                        *)
(* (discovery/snmp_topology.py, _fold_synthetic_nodes and                  *)
(* _fold_polled_twins), for ever and with nothing to undo it.              *)
(*                                                                         *)
(* The network is a set of boxes; the crawl has met each in some of these  *)
(* ways.  A node remembers in `boxes' which boxes it really stands for.    *)
(***************************************************************************)
EXTENDS Naturals, FiniteSetsExt, Functions

CONSTANTS
    Boxes,      \* boxes of the network
    Addrs,      \* usable management addresses
    SysNames,      \* sysNames; boxes may share one
    NamesOf       \* the names each box may have, with NoSysName

NoSysName == <<>>
ASSUME FoldBounds ==
    Addrs \subseteq Nat \ {0} /\ NamesOf \in [Boxes -> SUBSET ({NoSysName} \cup ({"name"} \X SysNames))]

Mac(b) == <<"mac", b>>

VARIABLES
    seen,      \* how the crawl met each box
    nodes,     \* key -> node
    edges,     \* rows <<local, local port, remote>>
    remap,     \* placeholder -> the node it is folded into
    step

foldVars == <<seen, nodes, edges, remap, step>>

\* A box was identified by its chassis id (its own, or in a neighbour's LLDP table) with
\* the addresses `real'; it answered at the addresses `bare' without one, with or without
\* its bridge MAC; a CDP neighbour named it by MAC or sysName and gave `at', or no address.
Meetings(b) ==
    {m \in [chassis : BOOLEAN, real : SUBSET Addrs, bare : SUBSET Addrs, bridge : BOOLEAN,
            name : NamesOf[b], cdp : {"no", "mac", "name"}, at : Addrs \cup {0}] :
        /\ m.real # {} => m.chassis
        /\ m.real \cap m.bare = {}
        /\ m.bridge => m.bare # {}
        /\ m.cdp = "no" => m.at = 0
        /\ m.cdp = "name" => m.name # NoSysName}

CdpId(b, m) == IF m.cdp = "mac" THEN Mac(b) ELSE m.name
KeysOf(b, m) ==
    (IF m.chassis THEN {<<"real", Mac(b)>>} ELSE {}) \cup {<<"ip", a>> : a \in m.bare}
       \cup (IF m.cdp = "no" THEN {} ELSE {<<"cdp", CdpId(b, m)>>})
Behind(k) == {b \in Boxes : k \in KeysOf(b, seen[b])}
Bare(a) == CHOOSE b \in Behind(<<"ip", a>>) : TRUE

\* Two boxes a neighbour calls by the same name are one "cdp:" node with both addresses;
\* of two boxes that answer at one address the crawl asks one.
NodeOf(k) ==
    CASE k[1] = "real" ->
           [ips |-> UNION {seen[b].real : b \in Behind(k)}, boxes |-> Behind(k),
            name |-> seen[CHOOSE b \in Behind(k) : TRUE].name, bridge |-> NoSysName]
      [] k[1] = "cdp" ->
           [ips |-> {seen[b].at : b \in Behind(k)} \ {0}, boxes |-> Behind(k),
            name |-> k[2], bridge |-> NoSysName]
      [] OTHER ->
           [ips |-> {k[2]}, boxes |-> {Bare(k[2])}, name |-> seen[Bare(k[2])].name,
            bridge |-> IF seen[Bare(k[2])].bridge THEN Mac(Bare(k[2])) ELSE NoSysName]

FoldInit ==
    /\ seen \in {s \in [Boxes -> UNION {Meetings(b) : b \in Boxes}] :
                    \A b \in Boxes : s[b] \in Meetings(b)}
    /\ nodes = [k \in UNION {KeysOf(b, seen[b]) : b \in Boxes} |-> NodeOf(k)]
    \* Every walked switch sees every other node in its tables, on the port of the box.
    /\ edges = {<<k, <<l[1], nodes[l].boxes>>, l>> :
                   k \in {m \in DOMAIN nodes : m[1] # "cdp"}, l \in {m \in DOMAIN nodes : m[1] # "ip"}}
    /\ remap = <<>> /\ step = "rules"

Real == {k \in DOMAIN nodes : k[1] = "real"}
Placeholders == DOMAIN nodes \ Real
Claims(a) == {r \in Real : a \in nodes[r].ips}

\* Rules 1 to 3: named for a chassis id, an address of one real node, its sysName.
Same(k) == {r \in Real : r[2] = nodes[k].name}
Owners(k) == UNION {Claims(a) : a \in nodes[k].ips}
Namesakes(k) == {r \in Real : nodes[k].name # NoSysName /\ nodes[r].name = nodes[k].name}
AddressesAgree(k, r) == nodes[k].ips \subseteq nodes[r].ips
One(S) == Cardinality(S) = 1
Homes(k) ==
    IF One(Same(k)) THEN Same(k)
    ELSE IF One(Owners(k)) THEN Owners(k)
    ELSE IF One(Namesakes(k)) THEN {r \in Namesakes(k) : AddressesAgree(k, r)}
    ELSE {}

FoldIntoReal ==
    /\ step = "rules" /\ step' = "twins"
    /\ remap' = [k \in {p \in Placeholders : Homes(p) # {}} |-> CHOOSE r \in Homes(k) : TRUE]
    /\ UNCHANGED <<seen, nodes, edges>>

\* Rule 4: a "cdp:" node onto the "ip:" node polled at its address, if nothing else
\* claims the address and the box itself gave the MAC its neighbour names it by.
Polled(a) == {k \in Placeholders \ DOMAIN remap : k = <<"ip", a>>}
Callers(a) == {k \in Placeholders : k[1] = "cdp" /\ a \in nodes[k].ips}
Twins(k) == UNION {Polled(a) : a \in nodes[k].ips}
\* Mutant of TwinOf: the box need not have given the MAC its neighbour names it by.
AtSameAddress(k, t) ==
    /\ k[1] = "cdp" /\ k \notin DOMAIN remap
    /\ Twins(k) = {t} /\ nodes[k].ips \subseteq nodes[t].ips
    /\ \A a \in nodes[k].ips : Claims(a) = {} /\ Callers(a) = {k}
TwinOf(k, t) ==
    /\ k[1] = "cdp" /\ k \notin DOMAIN remap
    /\ Twins(k) = {t} /\ nodes[k].ips \subseteq nodes[t].ips
    /\ \A a \in nodes[k].ips : Claims(a) = {} /\ Callers(a) = {k}
    /\ nodes[t].bridge # NoSysName /\ nodes[t].bridge = k[2]

FoldTwins ==
    /\ step = "twins" /\ step' = "merge"
    /\ remap' = [k \in DOMAIN remap \cup {p \in Placeholders : \E t \in DOMAIN nodes : TwinOf(p, t)} |->
                    IF k \in DOMAIN remap THEN remap[k] ELSE CHOOSE t \in DOMAIN nodes : TwinOf(k, t)]
    /\ UNCHANGED <<seen, nodes, edges>>

\* The keeper takes the addresses, and a name only if it has none; edges follow, and
\* those from a device to itself or now twice in the list are dropped.
Folded(k) == {p \in DOMAIN remap : remap[p] = k}
Kept(k) == IF k \in DOMAIN remap THEN remap[k] ELSE k
Merge ==
    /\ step = "merge" /\ step' = "done"
    /\ nodes' = [k \in DOMAIN nodes \ DOMAIN remap |->
          [nodes[k] EXCEPT
             !.ips = @ \cup UNION {nodes[p].ips : p \in Folded(k)},
             !.name = IF @ # NoSysName \/ \A p \in Folded(k) : nodes[p].name = NoSysName THEN @
                      ELSE CHOOSE n \in {nodes[p].name : p \in Folded(k)} : n # NoSysName]]
    /\ edges' = {<<Kept(e[1]), e[2], Kept(e[3])>> : e \in {f \in edges : Kept(f[1]) # Kept(f[3])}}
    /\ UNCHANGED <<seen, remap>>

FoldNext == FoldIntoReal \/ FoldTwins \/ Merge
FoldSpec == FoldInit /\ [][FoldNext]_foldVars
-----------------------------------------------------------------------------
FoldTypeOK ==
    /\ step \in {"rules", "twins", "merge", "done"}
    /\ \A k \in DOMAIN nodes : k[1] \in {"real", "cdp", "ip"} /\ nodes[k].ips \subseteq Addrs
    /\ \A k \in DOMAIN remap : k[1] # "real"

\* What a box says of itself and what its neighbours say of it.
Says(b) == (seen[b].real \cup seen[b].bare \cup {seen[b].at}) \ {0}
AddressesTellBoxesApart == \A b, c \in Boxes : b # c => Says(b) \cap Says(c) = {}
NamesTellBoxesApart ==
    \A b, c \in Boxes : b # c => seen[b].name = NoSysName \/ seen[b].name # seen[c].name
Right(k) == nodes[k].boxes \subseteq nodes[remap[k]].boxes

\* A fold never fuses two boxes, as long as no two share an address or a sysName; one
\* onto a polled "ip:" node never does, whatever others claim.
NeverFused ==
    step = "merge" =>
       \A k \in DOMAIN remap :
          remap[k][1] = "ip" \/ (AddressesTellBoxesApart /\ NamesTellBoxesApart) => Right(k)

\* The fold loses nothing: every device identified by its chassis is still there, every
\* address is some node's, each link between two boxes is still a link between nodes that
\* are there, and no node is its own neighbour.
FoldLands ==
    step = "done" =>
       /\ \A b \in Boxes : seen[b].chassis => <<"real", Mac(b)>> \in DOMAIN nodes
       /\ UNION {Says(b) : b \in Boxes} \subseteq UNION {nodes[k].ips : k \in DOMAIN nodes}
       /\ \A e \in edges : {e[1], e[3]} \subseteq DOMAIN nodes /\ e[1] # e[3]
       /\ \A k, l \in DOMAIN nodes \cup DOMAIN remap :
             k[1] # "cdp" /\ l[1] # "ip" /\ Kept(k) # Kept(l) =>
                \E e \in edges : e[1] = Kept(k) /\ e[3] = Kept(l)

\* Together: what is folded is right, and nothing is lost by it.
FoldSafe == FoldTypeOK /\ NeverFused /\ FoldLands
=============================================================================
