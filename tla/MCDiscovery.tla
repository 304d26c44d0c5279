----------------------------- MODULE MCDiscovery -----------------------------
(* What a scan makes of what it hears, and what it asks of the devices it     *)
(* found: the stored inventory, reverse DNS, the crawl of the switches and    *)
(* the folding of what it met, the backup of their configurations and the     *)
(* redaction of it.  The parts share no state, so a behaviour runs one of     *)
(* them and leaves the others at rest.                                        *)
EXTENDS DeviceBackup, Redaction, PtrLookup, ScanContents, TopologyCrawl, TopologyFold, TLC

VARIABLE part

\* Two switches to start from, the gateway among the others.
MCSeeds == <<1, 2>>
\* A box that may have a name, and one that may have the same or one of its own.
MCNames == (1 :> {<<>>, <<"name", "x">>}) @@ (2 :> {<<"name", "x">>, <<"name", "y">>})

BackupRests == kind = "all"
RedactRests == printed = [i \in Places |-> "text"] /\ claims = {}
PtrRests == manner = [r \in Servers |-> "names"]
CrawlRests ==
    /\ scope = "full" /\ role = [b \in Network |-> "switch"]
    /\ hears = [b \in Network |-> <<>>] /\ uplink = [b \in Network |-> 0]
FoldRests ==
    seen = [b \in Boxes |->
        [chassis |-> TRUE, real |-> {}, bare |-> {}, bridge |-> FALSE,
         name |-> CHOOSE n \in NamesOf[b] : TRUE, cdp |-> "no", at |-> 0]]

DiscoveryInit ==
    /\ part \in {"backup", "redact", "ptr", "contents", "crawl", "fold"}
    /\ part # "backup" => BackupRests
    /\ part # "redact" => RedactRests
    /\ part # "ptr" => PtrRests
    /\ part # "crawl" => CrawlRests
    /\ part # "fold" => FoldRests
    /\ BackupInit /\ PtrInit /\ ContentInit
    \* In this order the many initial states of one are not tried against the others'.
    /\ CASE part = "redact" -> CrawlInit /\ FoldInit /\ RedactInit
         [] part = "crawl" -> RedactInit /\ FoldInit /\ CrawlInit
         [] OTHER -> RedactInit /\ CrawlInit /\ FoldInit

DiscoveryNext ==
    /\ \/ /\ part = "backup" /\ BackupNext
          /\ UNCHANGED <<redactVars, ptrVars, contentVars, crawlVars, foldVars>>
       \/ /\ part = "redact" /\ RedactNext
          /\ UNCHANGED <<backupVars, ptrVars, contentVars, crawlVars, foldVars>>
       \/ /\ part = "ptr" /\ PtrNext
          /\ UNCHANGED <<backupVars, redactVars, contentVars, crawlVars, foldVars>>
       \/ /\ part = "contents" /\ ContentNext
          /\ UNCHANGED <<backupVars, redactVars, ptrVars, crawlVars, foldVars>>
       \/ /\ part = "crawl" /\ CrawlNext
          /\ UNCHANGED <<backupVars, redactVars, ptrVars, contentVars, foldVars>>
       \/ /\ part = "fold" /\ FoldNext
          /\ UNCHANGED <<backupVars, redactVars, ptrVars, contentVars, crawlVars>>
    /\ UNCHANGED part

discoveryVars ==
    <<part, backupVars, redactVars, ptrVars, contentVars, crawlVars, foldVars>>
DiscoverySpec == DiscoveryInit /\ [][DiscoveryNext]_discoveryVars
=============================================================================
