------------------------------ MODULE MCMonitors ------------------------------
(* What the box watches by the clock: scheduled probes, WAN-path captures and *)
(* their evidence, the watch list, and the scans of its networks.  Each part  *)
(* keeps its own files or rows, so a behaviour runs one of them and leaves    *)
(* the others at rest.                                                        *)
EXTENDS ProbeSlots, WanPath, WanLadder, WatchList, ScanCadence

VARIABLE part

MonitorParts == {"slots", "captures", "ladder", "watch", "scans"}

\* Nothing watched, one device at either of two addresses, and two devices.
MCLists == {<<>>, "a" :> 1, "a" :> 2, ("a" :> 1) @@ ("b" :> 3)}

MonitorsInit ==
    /\ part \in MonitorParts
    /\ SlotInit /\ PathInit /\ LadderInit /\ WatchInit /\ ScanInit
    /\ part # "ladder" => dest = "d1"
    /\ part # "watch" => list = <<>>

MonitorsNext ==
    /\ \/ /\ part = "slots" /\ SlotNext
          /\ UNCHANGED <<pathVars, ladderVars, watchVars, scanVars>>
       \/ /\ part = "captures" /\ PathNext
          /\ UNCHANGED <<slotVars, ladderVars, watchVars, scanVars>>
       \/ /\ part = "ladder" /\ LadderNext
          /\ UNCHANGED <<slotVars, pathVars, watchVars, scanVars>>
       \/ /\ part = "watch" /\ WatchNext
          /\ UNCHANGED <<slotVars, pathVars, ladderVars, scanVars>>
       \/ /\ part = "scans" /\ ScanNext
          /\ UNCHANGED <<slotVars, pathVars, ladderVars, watchVars>>
    /\ UNCHANGED part

MonitorsSpec ==
    MonitorsInit /\ [][MonitorsNext]_<<part, slotVars, pathVars, ladderVars, watchVars, scanVars>>

=============================================================================
