----------------------------- MODULE ConfigApply -----------------------------
(***************************************************************************)
(* How a configuration pushed by the dashboard reaches a running collector *)
(* (checkin.py run_checkin and _apply_config; netmon-checkin.sh).          *)
(*                                                                         *)
(* A check-in runs in the container.  It writes the pushed generation to   *)
(* the files the host mounts, lists first and netmon.env next, and last    *)
(* the applied version, which every later check-in reports as the box's    *)
(* acknowledgement.  netmon.env is read only when the container is         *)
(* created: the exit code asks the wrapper on the host to recreate it.     *)
(* A generation sets some keys and leaves the others as they are.          *)
(***************************************************************************)
EXTENDS Integers, Sequences

CONSTANTS
    Generations,     \* what the dashboard may push: [list, rescan, capture, sane]
    CaptureInterval, \* cadence of the light passes, 0 if there are none; never pushed
    MaxVersion,      \* bound: generations published
    MaxConfFaults,   \* bound: writes and recreates that fail
    MaxConfKills     \* bound: check-ins and wrappers killed

\* The environment the box starts with: the scan and the capture cadence.
FirstEnv == [gen |-> 0, rescan |-> 4, capture |-> 1]

ASSUME ConfBounds == MaxVersion \in Nat /\ MaxConfFaults \in Nat /\ MaxConfKills \in Nat
ASSUME ConfGenerations ==
    /\ CaptureInterval \in Nat
    /\ Generations \subseteq [list : BOOLEAN, rescan : Nat, capture : Nat, sane : BOOLEAN]

VARIABLES
    gens,        \* generations published, by version
    listGen,     \* generation in the JSON lists
    envFile,     \* netmon.env
    running,     \* environment the container was created with
    applied,     \* applied-config-version, 0 if there is none
    step,        \* where the check-in, then its wrapper, is
    version,     \* version in the answer of this check-in
    wanted,      \* commands in that answer the exit code depends on
    changed,     \* config_changed
    watched,     \* the wrapper still waits for the exit code
    confFaults, confKills

confVars == <<gens, listGen, envFile, running, applied, step, version, wanted, changed,
              watched, confFaults, confKills>>
confBox   == <<listGen, envFile, running, applied>>
confLocal == <<version, wanted, changed, watched>>

ConfSteps == {"idle", "lists", "env", "version", "tail", "exit", "pending"}

ConfInit ==
    /\ gens = <<>> /\ listGen = 0 /\ envFile = FirstEnv /\ running = FirstEnv
    /\ applied = 0 /\ step = "idle" /\ version = 0 /\ wanted = {} /\ changed = FALSE
    /\ watched = FALSE /\ confFaults = 0 /\ confKills = 0

ConfFault == confFaults < MaxConfFaults /\ confFaults' = confFaults + 1
ConfDone  == /\ step' = "idle" /\ version' = 0 /\ wanted' = {} /\ changed' = FALSE
             /\ watched' = FALSE

----------------------------------------------------------------------------
\* What a generation leaves in netmon.env: keys it does not set stay.
Merged(g, v, e) == [gen     |-> v,
                    rescan  |-> IF g.rescan # 0 THEN g.rescan ELSE e.rescan,
                    capture |-> IF g.capture # 0 THEN g.capture ELSE e.capture]
SetsEnv(g) == g.rescan # 0 \/ g.capture # 0

\* The bounds of the integers and the screening of the strings.
InBounds(g) == g.sane

\* _validate_desired_config.  The capture window is compared with the light
\* passes' interval and with the scan interval this push leaves on the box; where
\* the push has none, with the one the container *runs* with.  The scan interval
\* is compared with the light passes' only.
Valid(g, e) ==
    /\ InBounds(g)
    /\ CaptureInterval # 0 /\ g.rescan # 0 => g.rescan > CaptureInterval
    /\ CaptureInterval # 0 /\ g.capture # 0 => g.capture < CaptureInterval
    /\ g.capture # 0 => g.capture < Merged(g, 0, e).rescan

Publish(g) ==
    /\ Len(gens) < MaxVersion
    /\ gens' = Append(gens, g)
    /\ UNCHANGED <<confBox, confLocal, step, confFaults, confKills>>

\* The POST is answered with the latest version and the queued commands.  A
\* version the box has is not applied again; a generation that fails validation
\* writes nothing, and the check-in goes on with its commands.
Answered(A) ==
    /\ step = "idle"
    /\ version' = Len(gens) /\ wanted' = A /\ watched' = TRUE /\ changed' = FALSE
    /\ LET new == Len(gens) \notin {0, applied}
       IN  step' = IF new /\ Valid(gens[Len(gens)], running) THEN "lists" ELSE "tail"
    /\ UNCHANGED <<gens, confBox, confFaults, confKills>>

\* Each file is replaced atomically.  An exception leaves the others unwritten
\* and the version as it was.
WriteLists ==
    /\ step = "lists"
    /\ \/ /\ listGen' = IF gens[version].list THEN version ELSE listGen
          /\ step' = "env" /\ UNCHANGED confFaults
       \/ gens[version].list /\ ConfFault /\ step' = "tail" /\ UNCHANGED listGen
    /\ UNCHANGED <<gens, envFile, running, applied, confLocal, confKills>>

WriteEnv ==
    /\ step = "env"
    /\ \/ /\ envFile' = IF SetsEnv(gens[version])
                        THEN Merged(gens[version], version, envFile) ELSE envFile
          /\ step' = "version" /\ UNCHANGED confFaults
       \/ SetsEnv(gens[version]) /\ ConfFault /\ step' = "tail" /\ UNCHANGED envFile
    /\ UNCHANGED <<gens, listGen, running, applied, confLocal, confKills>>

WriteVersionEarly ==   \* mutant: acknowledged although the environment was not written
    /\ step \in {"env", "version"}
    /\ applied' = version /\ changed' = TRUE /\ step' = "tail"
    /\ UNCHANGED <<gens, listGen, envFile, running, version, wanted, watched, confFaults,
                   confKills>>
WriteVersion ==
    /\ step = "version"
    /\ \/ applied' = version /\ changed' = TRUE /\ UNCHANGED confFaults
       \/ ConfFault /\ UNCHANGED <<applied, changed>>
    /\ step' = "tail"
    /\ UNCHANGED <<gens, listGen, envFile, running, version, wanted, watched, confKills>>

\* The commands, the spool and the probes run; then the process exits.  Nobody
\* may be left to see with which code.
Exits ==
    /\ step = "tail"
    /\ IF watched THEN step' = "exit" /\ UNCHANGED confLocal ELSE ConfDone
    /\ UNCHANGED <<gens, confBox, confFaults, confKills>>

\* Exit 11 (update) and 12 (host action) imply the recreate of exit 10.
Recreates == changed \/ wanted # {}

WrapperRecreates ==
    /\ step = "exit" /\ Recreates
    /\ \/ running' = envFile /\ ConfDone /\ UNCHANGED confFaults
       \/ ConfFault /\ step' = "pending" /\ UNCHANGED <<running, confLocal>>
    /\ UNCHANGED <<gens, listGen, envFile, applied, confKills>>

WrapperLeaves ==
    /\ step = "exit" /\ ~Recreates
    /\ ConfDone
    /\ UNCHANGED <<gens, confBox, confFaults, confKills>>

\* mark_config_pending: the acknowledgement is taken back.  When even that fails
\* nobody will recreate the container for this version.
PendingKept ==  \* mutant: the version stays after a failed recreate
    /\ step = "pending"
    /\ ConfDone
    /\ UNCHANGED <<gens, confBox, confFaults, confKills>>
MarkPending ==
    /\ step = "pending"
    /\ \/ applied' = 0 /\ UNCHANGED confKills
       \/ confKills < MaxConfKills /\ confKills' = confKills + 1 /\ UNCHANGED applied
    /\ ConfDone
    /\ UNCHANGED <<gens, listGen, envFile, running, confFaults>>

\* The process in the container dies (exit 1: no recreate), or the wrapper is
\* killed: what runs in the container then goes on unobserved.
CheckinDies ==
    /\ step \in {"lists", "env", "version", "tail"}
    /\ confKills < MaxConfKills /\ confKills' = confKills + 1
    /\ ConfDone
    /\ UNCHANGED <<gens, confBox, confFaults>>
WrapperDies ==
    /\ step # "idle" /\ watched
    /\ confKills < MaxConfKills /\ confKills' = confKills + 1
    /\ IF step \in {"exit", "pending"} THEN ConfDone
       ELSE watched' = FALSE /\ UNCHANGED <<step, version, wanted, changed>>
    /\ UNCHANGED <<gens, confBox, confFaults>>

\* Weekly deep refresh, an update, an operator: `up' creates the container anew
\* when its environment changed; a check-in inside it ends there.
RefreshRecreates ==
    /\ running' = envFile
    /\ IF step \in {"lists", "env", "version", "tail"} THEN ConfDone
       ELSE UNCHANGED <<step, confLocal>>
    /\ UNCHANGED <<gens, listGen, envFile, applied, confFaults, confKills>>

ConfNext ==
    \/ \E g \in Generations : Publish(g)
    \/ \E A \in SUBSET {"update", "host"} : Answered(A)
    \/ WriteLists \/ WriteEnv \/ WriteVersion \/ Exits
    \/ WrapperRecreates \/ WrapperLeaves \/ MarkPending
    \/ CheckinDies \/ WrapperDies \/ RefreshRecreates

ConfSpec == ConfInit /\ [][ConfNext]_confVars

----------------------------------------------------------------------------
ConfEnvs == [gen : 0..MaxVersion, rescan : Nat, capture : Nat]
ConfTypeOK ==
    /\ gens \in Seq(Generations) /\ Len(gens) <= MaxVersion
    /\ listGen \in 0..MaxVersion /\ envFile \in ConfEnvs /\ running \in ConfEnvs
    /\ applied \in 0..MaxVersion /\ step \in ConfSteps /\ version \in 0..MaxVersion
    /\ wanted \subseteq {"update", "host"} /\ changed \in BOOLEAN /\ watched \in BOOLEAN
    /\ confFaults \in 0..MaxConfFaults /\ confKills \in 0..MaxConfKills

\* A version the box acknowledges is on its disk, every part of it, or a later
\* generation is; and once the wrapper is done, unless something was killed, the
\* container runs with it: the version is written last, the recreate follows or
\* the acknowledgement is withdrawn.
AckMeansApplied ==
    applied # 0 =>
        /\ gens[applied].list => listGen >= applied
        /\ SetsEnv(gens[applied]) =>
              /\ envFile.gen >= applied
              /\ step = "idle" /\ confKills = 0 => running.gen >= applied

\* The scan interval the container runs with leaves room for its capture window,
\* whatever generations were pushed, refused or half applied.
CadenceHolds == running.capture < running.rescan

\* The latest generation, unless validation refuses it, is at last acknowledged
\* and its files written, through failing writes and recreates, kills and withdrawn
\* acknowledgements; unless something was killed the container runs with it, and
\* the weekly refresh is not needed for that.
ConfigSettles ==
    <>[](\/ gens = <<>> \/ ~Valid(gens[Len(gens)], running)
         \/ applied = Len(gens) /\ (confKills = 0 => running = envFile))

\* What holds of the files, the acknowledgement and the container at every instant:
\* what is acknowledged is on disk and in effect, and the cadences fit.
ConfigSound == ConfTypeOK /\ CadenceHolds /\ AckMeansApplied
=============================================================================
