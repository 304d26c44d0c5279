---------------------------- MODULE HourDelivery ----------------------------
(***************************************************************************)
(* What the bundle pipeline promises when only the automation builds       *)
(* bundles (nobody runs upload-now): an hour closes, its scans are bundled *)
(* once and whole, and the bundle is either delivered, after all of it has *)
(* reached the depot, or given up.  Both ends are final.                   *)
(***************************************************************************)
EXTENDS Naturals

CONSTANTS MaxHour, MaxScans

Hours == 1..MaxHour
Fates == {"unbundled", "bundled", "delivered", "given_up"}

VARIABLES
    hour,    \* the open hour
    scans,   \* scans finished per hour
    fate,    \* what has become of each hour
    depot    \* scans of each hour that the depot holds

vars == <<hour, scans, fate, depot>>

Init ==
    /\ hour = 1
    /\ scans = [h \in Hours |-> 0]
    /\ fate = [h \in Hours |-> "unbundled"]
    /\ depot = [h \in Hours |-> 0]

Scan ==
    /\ scans[hour] < MaxScans
    /\ scans' = [scans EXCEPT ![hour] = @ + 1]
    /\ UNCHANGED <<hour, fate, depot>>

HourPasses ==
    /\ hour < MaxHour
    /\ hour' = hour + 1
    /\ UNCHANGED <<scans, fate, depot>>

Bundle(h) ==
    /\ h < hour /\ scans[h] > 0
    /\ fate[h] = "unbundled"
    /\ fate' = [fate EXCEPT ![h] = "bundled"]
    /\ UNCHANGED <<hour, scans, depot>>

\* The whole hour reaches the depot, once or again (the answer may get lost).
Ship(h) ==
    /\ fate[h] = "bundled"
    /\ depot' = [depot EXCEPT ![h] = scans[h]]
    /\ UNCHANGED <<hour, scans, fate>>

Deliver(h) ==
    /\ fate[h] = "bundled" /\ depot[h] = scans[h]
    /\ fate' = [fate EXCEPT ![h] = "delivered"]
    /\ UNCHANGED <<hour, scans, depot>>

\* One sweep may give up several bundles.
GiveUp(S) ==
    /\ \A h \in S : fate[h] = "bundled"
    /\ fate' = [h \in Hours |-> IF h \in S THEN "given_up" ELSE fate[h]]
    /\ UNCHANGED <<hour, scans, depot>>

Next ==
    \/ Scan \/ HourPasses
    \/ \E h \in Hours : Bundle(h) \/ Ship(h) \/ Deliver(h)
    \/ \E S \in SUBSET Hours : GiveUp(S)

Spec == Init /\ [][Next]_vars
=============================================================================
