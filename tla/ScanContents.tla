----------------------------- MODULE ScanContents -----------------------------
(***************************************************************************)
(* What a scan hears, what it makes of it and what it stores (scan.py from *)
(* the capture to _persist; the discovery modules it calls; the inserts of *)
(* db.py).  Two sources are required, the others cost the scan only their  *)
(* section.  The sources are merged into rows of devices, and the rows are *)
(* stored with the inventory of every scan in one transaction.             *)
(*                                                                         *)
(* A row is the address, the key it was merged under (a MAC, a chassis id  *)
(* that is none, or nothing), and the name the box is given.  A name may   *)
(* carry a NUL, as broadcast by some televisions.                          *)
(***************************************************************************)
EXTENDS Naturals, SequencesExt, FiniteSetsExt

CONSTANTS
    Ips,         \* addresses
    Macs,        \* MACs, numbers
    MaxHeard,    \* bound: answers in one scan
    MaxScans,    \* bound: scans
    MaxDbFaults  \* bound: statements the database fails

ASSUME ContentBounds ==
    /\ Ips \subseteq Nat /\ Macs \subseteq Nat \ {0}
    /\ IsFiniteSet(Ips) /\ IsFiniteSet(Macs)
    /\ MaxHeard \in Nat /\ MaxScans \in Nat /\ MaxDbFaults \in Nat

NoMac == 0
OtherId == Max(Macs \cup {0}) + 1   \* a chassis id that is no MAC
NoName == "none"
Names == {"plain", "nul"}
Scans == 1..MaxScans

VARIABLES
    stage,       \* where the scan is
    scan,        \* its number
    light,       \* a capture-only pass
    heard,       \* what each source answered
    failed,      \* whether a section failed
    tx,          \* the open transaction: device rows and inventory as it sees them
    runs,        \* scan_runs: "none", "open", "ok", "partial", "error"
    devices,     \* devices: rows of each scan
    inventory,   \* inventory_devices: name and times_seen of each MAC
    dbFaults

contentVars == <<stage, scan, light, heard, failed, tx, runs, devices, inventory, dbFaults>>

NothingHeard == [dhcp |-> {}, arp |-> {}, lldp |-> {}, nmap |-> {}, ptr |-> {}, svc |-> {}]
Idle == stage' = "idle" /\ heard' = NothingHeard /\ tx' = <<>> /\ light' = FALSE /\ failed' = FALSE

ContentInit ==
    /\ stage = "idle" /\ scan = 0 /\ light = FALSE /\ heard = NothingHeard /\ failed = FALSE
    /\ tx = <<>> /\ runs = [s \in Scans |-> "none"] /\ devices = [s \in Scans |-> {}]
    /\ inventory = [m \in Macs |-> [name |-> NoName, times |-> 0]] /\ dbFaults = 0

Begin ==
    /\ stage = "idle" /\ scan < MaxScans
    /\ scan' = scan + 1 /\ stage' = "capture" /\ light' \in BOOLEAN
    /\ runs' = [runs EXCEPT ![scan'] = "open"]
    /\ UNCHANGED <<heard, failed, tx, devices, inventory, dbFaults>>

\* What the tools print: names a client puts in its DHCP requests; the ARP table; hosts
\* that answer a ping; management addresses of neighbours, by MAC or another chassis id;
\* names the site's resolvers know; Bonjour and UPnP answers, of which a name may be none.
DhcpRequests == [mac : Macs, name : {"plain"}]
ArpTable == [ip : Ips, mac : Macs]
HostsUp == [ip : Ips, mac : Macs \cup {NoMac}, name : {NoName, "plain"}]
Neighbours == [ip : Ips, chassis : Macs \cup {OtherId}, name : {"plain"}]
PtrRecords == [ip : Ips, name : {"plain"}]
ServiceRecords == [ip : Ips, name : Names \cup {NoName}]
Answers == [dhcp |-> DhcpRequests, arp |-> ArpTable, nmap |-> HostsUp, lldp |-> Neighbours,
            ptr |-> PtrRecords, svc |-> ServiceRecords]
Count == MapThenSumSet(LAMBDA s : Cardinality(heard[s]), DOMAIN heard)
Hears(source) ==
    \E some \in UNION {kSubset(k, Answers[source]) : k \in 0..(MaxHeard - Count)} :
        /\ source = "nmap" => \A a, b \in some : a.ip = b.ip => a = b
        /\ heard' = [heard EXCEPT ![source] = some]
Collected == UNCHANGED <<scan, light, tx, runs, devices, inventory, dbFaults>>

Fails == stage' = "failed"
Capture == stage = "capture" /\ (Hears("dhcp") /\ stage' = "neighbors") /\ UNCHANGED failed /\ Collected
\* lldpcli failing is no neighbours; the pass without it goes straight on.
Neighbors ==
    /\ stage = "neighbors" /\ stage' = "sweep" /\ UNCHANGED failed /\ Collected
    /\ IF light THEN UNCHANGED heard ELSE Hears("lldp")
ArpSweep == stage = "sweep" /\ Hears("arp") /\ stage' = "hosts" /\ UNCHANGED failed /\ Collected
Section(source, from, to) ==
    /\ stage = from /\ stage' = to /\ Collected
    /\ IF light THEN UNCHANGED <<heard, failed>>
       ELSE \/ Hears(source) /\ UNCHANGED failed
            \/ failed' = TRUE /\ UNCHANGED heard
Hosts == Section("nmap", "hosts", "extras")
\* The sections that add no device: SNMP, the crawl, DNS health, reachability.  A light
\* pass has none of them.
Extras ==
    /\ stage = "extras" /\ stage' = "services" /\ Collected
    /\ failed' \in (IF light THEN {failed} ELSE {failed, TRUE}) /\ UNCHANGED heard
Services == Section("svc", "services", "resolve")
\* Reverse DNS is asked while the rows are made, and never fails.
Resolve ==
    /\ stage = "resolve" /\ Hears("ptr") /\ stage' = "devices" /\ UNCHANGED failed /\ Collected

\* The tools that a scan cannot do without.
RequiredFails ==
    /\ stage \in {"capture", "sweep"} /\ Fails
    /\ UNCHANGED heard /\ UNCHANGED failed /\ Collected

\* The merge, source by source; a row is known by its address and key.
Has(rows, ip, key) == \E i \in DOMAIN rows : rows[i].ip = ip /\ rows[i].key = key
FromArp == LET A == SetToSeq(heard.arp) IN
    [i \in DOMAIN A |-> [ip |-> A[i].ip, key |-> A[i].mac, mac |-> A[i].mac, name |-> NoName]]
\* says: the names each row may be given.
Named(rows, says) ==
    [i \in DOMAIN rows |-> IF rows[i].name = NoName /\ says[rows[i]] # {}
                           THEN [rows[i] EXCEPT !.name = CHOOSE n \in says[rows[i]] : TRUE]
                           ELSE rows[i]]
WithNmap(rows) ==
    LET new == SetToSeq({[ip |-> a.ip, key |-> a.mac, mac |-> a.mac, name |-> a.name] :
                            a \in {b \in heard.nmap : ~Has(rows, b.ip, b.mac)}})
        says == [r \in ToSet(rows) |->
                    {a.name : a \in {b \in heard.nmap : b.ip = r.ip /\ b.mac = r.key}} \ {NoName}]
    IN  Named(rows, says) \o new
\* Mutant of WithLldp: a neighbour adds no row to an address that has one.
LldpByAddress(rows) ==
    rows \o SetToSeq({[ip |-> a.ip, key |-> a.chassis, name |-> a.name,
                       mac |-> IF a.chassis = OtherId THEN NoMac ELSE a.chassis] :
                          a \in {b \in heard.lldp : \A i \in DOMAIN rows : rows[i].ip # b.ip}})
WithLldp(rows) ==
    rows \o SetToSeq({[ip |-> a.ip, key |-> a.chassis, name |-> a.name,
                       mac |-> IF a.chassis = OtherId THEN NoMac ELSE a.chassis] :
                          a \in {b \in heard.lldp : ~Has(rows, b.ip, b.chassis)}})
WithDhcp(rows) ==
    Named(rows, [r \in ToSet(rows) |-> {a.name : a \in {b \in heard.dhcp : b.mac = r.mac}}])
WithPtr(rows) ==
    Named(rows, [r \in ToSet(rows) |-> {a.name : a \in {b \in heard.ptr : b.ip = r.ip}}])
WithServices(rows) ==
    LET new == {a.ip : a \in heard.svc} \ {rows[i].ip : i \in DOMAIN rows}
        all == rows \o SetToSeq({[ip |-> ip, key |-> NoMac, mac |-> NoMac, name |-> NoName] : ip \in new})
    IN  Named(all, [r \in ToSet(all) |->
                       {a.name : a \in {b \in heard.svc : b.ip = r.ip}} \ {NoName}])
DeviceRows == WithServices(WithPtr(WithDhcp(WithLldp(WithNmap(FromArp)))))

\* One inventory row per MAC of the scan; what it did not learn leaves what was known.
Sightings(rows, m) == {i \in DOMAIN rows : rows[i].mac = m}
NameOf(rows, m) ==
    LET named == {i \in Sightings(rows, m) : rows[i].name # NoName}
    IN  IF named = {} THEN NoName ELSE rows[Min(named)].name
\* Mutant of Upserted: what a scan did not learn replaces what was known.
Overwritten(rows) ==
    [m \in Macs |-> IF Sightings(rows, m) = {} THEN inventory[m]
                    ELSE [name |-> NameOf(rows, m), times |-> inventory[m].times + 1]]
Upserted(rows) ==
    [m \in Macs |->
       IF Sightings(rows, m) = {} THEN inventory[m]
       ELSE [name |-> IF NameOf(rows, m) = NoName THEN inventory[m].name ELSE NameOf(rows, m),
             times |-> inventory[m].times + 1]]
StripNul(name) == IF name = "nul" THEN "plain" ELSE name
InsertedRows(rows) ==
    {[ip |-> rows[i].ip, mac |-> rows[i].mac, name |-> StripNul(rows[i].name)] : i \in DOMAIN rows}
\* The driver refuses a parameter with a NUL; only insert_many strips it.
Refused(rows) == \E m \in Macs : NameOf(rows, m) = "nul"

Persisting == UNCHANGED <<scan, light, heard, failed, runs, devices, inventory>>
InsertDevices ==
    /\ stage = "devices" /\ stage' = "inventory"
    /\ tx' = [rows |-> DeviceRows, stored |-> InsertedRows(DeviceRows), inventory |-> inventory]
    /\ UNCHANGED dbFaults /\ Persisting
UpsertInventory ==
    /\ stage = "inventory" /\ ~Refused(tx.rows) /\ stage' = "rest"
    /\ tx' = [tx EXCEPT !.inventory = Upserted(tx.rows)]
    /\ UNCHANGED dbFaults /\ Persisting
NulRefused ==
    /\ stage = "inventory" /\ Refused(tx.rows) /\ Fails
    /\ tx' = <<>> /\ UNCHANGED dbFaults /\ Persisting
\* Any statement, or the commit, may fail: rolled back.
DbFails ==
    /\ stage \in {"devices", "inventory", "rest", "commit"} /\ dbFaults < MaxDbFaults
    /\ dbFaults' = dbFaults + 1 /\ Fails /\ tx' = <<>> /\ Persisting
InsertRest ==
    /\ stage = "rest" /\ stage' = "commit"
    /\ UNCHANGED <<tx, dbFaults>> /\ Persisting
Commit ==
    /\ stage = "commit" /\ stage' = "stored"
    /\ devices' = [devices EXCEPT ![scan] = tx.stored] /\ inventory' = tx.inventory /\ tx' = <<>>
    /\ UNCHANGED <<scan, light, heard, failed, runs, dbFaults>>

\* The run is closed whatever happened, with the error or the failed sections.
Complete ==
    /\ stage \in {"stored", "failed"} /\ Idle
    /\ runs' = [runs EXCEPT ![scan] =
          IF stage = "failed" THEN "error" ELSE IF failed THEN "partial" ELSE "ok"]
    /\ UNCHANGED <<scan, devices, inventory, dbFaults>>
\* The collector dies; the transaction with it, and the run stays open.
Dies ==
    /\ stage # "idle" /\ Idle
    /\ UNCHANGED <<scan, runs, devices, inventory, dbFaults>>

ContentNext ==
    \/ Begin \/ Capture \/ Neighbors \/ ArpSweep \/ Hosts \/ Extras \/ Services \/ Resolve \/ RequiredFails
    \/ InsertDevices \/ UpsertInventory \/ NulRefused \/ DbFails \/ InsertRest \/ Commit \/ Complete \/ Dies
ContentSpec == ContentInit /\ [][ContentNext]_contentVars
-----------------------------------------------------------------------------
ContentTypeOK ==
    /\ scan \in 0..MaxScans /\ light \in BOOLEAN /\ failed \in BOOLEAN
    /\ runs \in [Scans -> {"none", "open", "ok", "partial", "error"}]
    /\ \A s \in Scans : \A d \in devices[s] : d.ip \in Ips /\ d.mac \in Macs \cup {NoMac}
    /\ \A m \in Macs : inventory[m].name \in {NoName, "plain"} /\ inventory[m].times \in 0..MaxScans

\* The inventory counts, for every MAC, the scans that are stored with a row of it: once
\* per scan however many addresses it had, never for a scan that was rolled back.
SeenCountsScans ==
    \A m \in Macs : inventory[m].times = Cardinality({s \in Scans : \E d \in devices[s] : d.mac = m})

\* A finished scan has a row for every address and every MAC that answered it, unless it
\* reports an error, and then it has none at all.
HeardIps == {a.ip : a \in heard.arp \cup heard.nmap \cup heard.lldp \cup heard.svc}
HeardMacs == {a.mac : a \in heard.arp \cup heard.nmap} \cup {a.chassis : a \in heard.lldp}
EvidenceKept ==
    /\ stage = "stored" =>
          /\ {d.ip : d \in devices[scan]} = HeardIps
          /\ HeardMacs \cap Macs \subseteq {d.mac : d \in devices[scan]}
    /\ \A s \in Scans : runs[s] = "error" => devices[s] = {}

\* Together: what a scan stores is what answered it, and the inventory counts it once.
InventoryExact == ContentTypeOK /\ SeenCountsScans /\ EvidenceKept

\* A name once known is not lost to a scan that could not resolve it, and a device that
\* broadcast its name has one.
InventoryRemembers ==
    [][\A m \in Macs :
          /\ inventory[m].name # NoName => inventory'[m].name # NoName
          /\ inventory'[m].times > inventory[m].times /\ (\E a \in heard.dhcp : a.mac = m) =>
                inventory'[m].name # NoName]_contentVars

\* What the code says of a NUL (db.py:872-881): it is stripped, so that one malformed
\* record does not fail the whole persist of a scan: one that got as far as the answers of
\* the services (the required tools come before them) fails only with the database.
NulCostsNothing == stage = "failed" /\ dbFaults = 0 => heard.svc = {}
=============================================================================
