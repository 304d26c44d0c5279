----------------------------- MODULE CheckinProofs -----------------------------
(***************************************************************************)
(* What a check-in keeps, for every number of pushes, sessions, faults and *)
(* kills: the configuration a box acknowledges is the one it has, its      *)
(* cadences fit each other, a token the dashboard honours is not thrown    *)
(* away, a shell of the host goes to the session it was armed for, and no  *)
(* result of a measurement or a command vanishes unaccounted for, is       *)
(* delivered once too often or takes the spool over its cap.               *)
(***************************************************************************)
EXTENDS ConfigApply, Enrollment, Console, ResultSpool, ListLemmas, FiniteSetTheorems, TLAPS

----------------------------------------------------------------------------
(* The configuration.                                                      *)

\* A check-in is applying the version it was answered with.
Applying == step \in {"lists", "env", "version"}

\* Nothing on the box is newer than what was published, nor, while a version is
\* applied, than that version, which was found valid for the running container.
Versions ==
    /\ listGen <= Len(gens) /\ envFile.gen <= Len(gens) /\ applied <= Len(gens)
    /\ version <= Len(gens)
    /\ Applying => /\ version # 0 /\ Valid(gens[version], running)
                   /\ listGen <= version /\ envFile.gen <= version
    /\ step \in {"env", "version"} => (gens[version].list => listGen = version)
    /\ step = "version" => (SetsEnv(gens[version]) => envFile.gen = version)

\* The scan interval of an environment leaves room for its capture window, and the
\* file has the longer interval as soon as the container has.
Roomy(e) ==
    /\ e.rescan = FirstEnv.rescan \/ e.rescan > CaptureInterval
    /\ e.capture = FirstEnv.capture \/ e.capture < CaptureInterval
    /\ e.capture < e.rescan
Cadences ==
    /\ Roomy(envFile) /\ Roomy(running)
    /\ running.rescan > CaptureInterval => envFile.rescan > CaptureInterval

\* What is acknowledged is on disk; while nothing was killed it also runs, unless the
\* wrapper is still to recreate the container or to take the acknowledgement back.
Acknowledged ==
    /\ applied # 0 =>
          /\ gens[applied].list => listGen >= applied
          /\ SetsEnv(gens[applied]) => envFile.gen >= applied
    /\ step = "idle" => ~changed
    /\ confKills = 0 =>
          /\ step # "idle" => watched
          /\ applied # 0 /\ SetsEnv(gens[applied]) /\ ~changed /\ step # "pending"
                => running.gen >= applied

ConfIInv == ConfTypeOK /\ Versions /\ Cadences /\ Acknowledged

\* The values the files and the container may have.
LEMMA InitConf == ASSUME CaptureInterval # 0 PROVE ConfInit => ConfIInv
<1> SUFFICES ASSUME ConfInit PROVE ConfIInv
  OBVIOUS
<1> USE ConfBounds, ConfGenerations DEF ConfInit
<1>1. ConfTypeOK
  <2>1. gens \in Seq(Generations) /\ Len(gens) <= MaxVersion
    OBVIOUS
  <2>2. FirstEnv \in ConfEnvs
    BY DEF FirstEnv, ConfEnvs
  <2>3. /\ 0 \in 0..MaxVersion /\ 0 \in 0..MaxConfFaults /\ 0 \in 0..MaxConfKills
        /\ "idle" \in ConfSteps
    BY DEF ConfSteps
  <2> QED BY <2>1, <2>2, <2>3 DEF ConfTypeOK
<1>2. Versions /\ Acknowledged
  BY DEF Versions, Acknowledged, Applying, FirstEnv
<1>3. Cadences
  BY DEF Cadences, Roomy, FirstEnv
<1> QED BY <1>1, <1>2, <1>3 DEF ConfIInv

\* The keys of a generation, merged into an environment.
LEMMA MergedType ==
    ASSUME NEW g \in Generations, NEW v \in 0..MaxVersion, NEW e \in ConfEnvs
    PROVE  /\ Merged(g, v, e) \in ConfEnvs /\ Merged(g, v, e).gen = v
           /\ g.list \in BOOLEAN /\ g.rescan \in Nat /\ g.capture \in Nat
           /\ e.rescan \in Nat /\ e.capture \in Nat
           /\ Merged(g, v, e).rescan = IF g.rescan # 0 THEN g.rescan ELSE e.rescan
           /\ Merged(g, v, e).capture = IF g.capture # 0 THEN g.capture ELSE e.capture
<1>1. g \in [list : BOOLEAN, rescan : Nat, capture : Nat, sane : BOOLEAN]
  BY ConfGenerations
<1>2. g.list \in BOOLEAN /\ g.rescan \in Nat /\ g.capture \in Nat
  BY <1>1
<1>3. e.rescan \in Nat /\ e.capture \in Nat
  BY DEF ConfEnvs
<1> QED BY <1>2, <1>3 DEF Merged, ConfEnvs

\* A generation found valid for the running container leaves the file with cadences
\* that fit each other, whatever the file had become in between.
LEMMA MergedRoomy ==
    ASSUME CaptureInterval # 0, Cadences, NEW g \in Generations, NEW v \in 0..MaxVersion,
           envFile \in ConfEnvs, running \in ConfEnvs, Valid(g, running)
    PROVE  /\ Roomy(Merged(g, v, envFile))
           /\ running.rescan > CaptureInterval => Merged(g, v, envFile).rescan > CaptureInterval
<1> DEFINE m == Merged(g, v, envFile)
           c == CaptureInterval
<1>1. /\ g.rescan \in Nat /\ g.capture \in Nat /\ c \in Nat \ {0}
      /\ envFile.rescan \in Nat /\ envFile.capture \in Nat
      /\ running.rescan \in Nat /\ running.capture \in Nat
      /\ m.rescan = IF g.rescan # 0 THEN g.rescan ELSE envFile.rescan
      /\ m.capture = IF g.capture # 0 THEN g.capture ELSE envFile.capture
  BY MergedType, ConfGenerations
<1>2. /\ g.rescan # 0 => g.rescan > c
      /\ g.capture # 0 => g.capture < c
      /\ g.capture # 0 => g.capture < (IF g.rescan # 0 THEN g.rescan ELSE running.rescan)
  BY DEF Valid, Merged
<1>3. /\ envFile.rescan = 4 \/ envFile.rescan > c
      /\ envFile.capture = 1 \/ envFile.capture < c
      /\ envFile.capture < envFile.rescan
      /\ running.rescan = 4 \/ running.rescan > c
      /\ running.rescan > c => envFile.rescan > c
  BY DEF Cadences, Roomy, FirstEnv
<1> HIDE DEF m, c
<1>4. /\ m.rescan = 4 \/ m.rescan > c
      /\ m.capture = 1 \/ m.capture < c
      /\ m.capture < m.rescan
      /\ running.rescan > c => m.rescan > c
  BY <1>1, <1>2, <1>3
<1> QED BY <1>4 DEF m, c, Roomy, FirstEnv

\* What the invariant says of the generation that is being applied.
LEMMA ApplyingFacts ==
    ASSUME ConfIInv, Applying
    PROVE  /\ version \in 1..Len(gens) /\ version \in 0..MaxVersion
           /\ gens[version] \in Generations /\ Valid(gens[version], running)
           /\ listGen <= version /\ envFile.gen <= version
           /\ envFile.gen \in Nat /\ Len(gens) \in Nat /\ listGen \in Nat
<1>1. gens \in Seq(Generations) /\ version \in 0..MaxVersion /\ envFile \in ConfEnvs
      /\ listGen \in 0..MaxVersion
  BY DEF ConfIInv, ConfTypeOK
<1>2. version # 0 /\ Valid(gens[version], running) /\ version <= Len(gens)
      /\ listGen <= version /\ envFile.gen <= version
  BY DEF ConfIInv, Versions
<1>3. Len(gens) \in Nat /\ version \in 1..Len(gens) /\ gens[version] \in Generations
  BY <1>1, <1>2, ConfBounds
<1>4. envFile.gen \in Nat /\ listGen \in Nat
  BY <1>1, ConfBounds DEF ConfEnvs
<1> QED BY <1>1, <1>2, <1>3, <1>4

\* Versions of the files, of the container and of the acknowledgement are numbers.
LEMMA ConfNumbers ==
    ASSUME ConfTypeOK
    PROVE  /\ envFile.gen \in 0..MaxVersion /\ running.gen \in 0..MaxVersion
           /\ applied \in Nat /\ listGen \in Nat /\ version \in Nat /\ Len(gens) \in Nat
           /\ confKills \in Nat /\ confFaults \in Nat /\ MaxVersion \in Nat
           /\ envFile.gen \in Nat /\ running.gen \in Nat
BY ConfBounds DEF ConfTypeOK, ConfEnvs

\* A generation more on the dashboard changes nothing on the box.
LEMMA PublishKeeps ==
    ASSUME ConfIInv, NEW g \in Generations, Publish(g) PROVE ConfIInv'
<1>1. /\ Len(gens) < MaxVersion /\ gens' = Append(gens, g)
      /\ UNCHANGED <<listGen, envFile, running, applied, version, wanted, changed, watched, step,
                     confFaults, confKills>>
  BY DEF Publish, confBox, confLocal
<1>2. gens \in Seq(Generations)
  BY DEF ConfIInv, ConfTypeOK
<1>3. /\ gens' \in Seq(Generations) /\ Len(gens') = Len(gens) + 1
      /\ \A v \in 1..Len(gens) : gens'[v] = gens[v]
  BY <1>1, <1>2
<1>4. ConfTypeOK'
  BY <1>1, <1>3, ConfNumbers DEF ConfIInv, ConfTypeOK
<1>5. version # 0 => gens'[version] = gens[version]
  BY <1>2, <1>3, ConfNumbers DEF ConfIInv, Versions
<1>6. applied # 0 => gens'[applied] = gens[applied]
  BY <1>2, <1>3, ConfNumbers DEF ConfIInv, Versions
<1>7. Applying' = Applying /\ (Applying => version # 0)
  BY <1>1 DEF Applying, ConfIInv, Versions
<1>8. Versions'
  <2>1. /\ listGen <= Len(gens') /\ envFile.gen <= Len(gens') /\ applied <= Len(gens')
        /\ version <= Len(gens')
    BY <1>3, ConfNumbers DEF ConfIInv, Versions
  <2>2. Applying => Valid(gens'[version], running)
    BY <1>5, <1>7 DEF ConfIInv, Versions
  <2>3. Valid(gens[version], running)' = Valid(gens'[version], running)
    BY <1>1 DEF Valid, InBounds, Merged
  <2>4. /\ step \in {"env", "version"} => (gens'[version].list => listGen = version)
        /\ step = "version" => (SetsEnv(gens'[version]) => envFile.gen = version)
    BY <1>5, <1>7 DEF ConfIInv, Versions, Applying
  <2>5. SetsEnv(gens[version])' = SetsEnv(gens'[version])
    BY <1>1 DEF SetsEnv
  <2> QED BY <1>1, <1>7, <2>1, <2>2, <2>3, <2>4, <2>5 DEF ConfIInv, Versions
<1>9. Cadences'
  BY <1>1 DEF ConfIInv, Cadences, Roomy
<1>10. Acknowledged'
  <2>1. SetsEnv(gens[applied])' = SetsEnv(gens'[applied])
    BY <1>1 DEF SetsEnv
  <2> QED BY <1>1, <1>6, <2>1 DEF ConfIInv, Acknowledged
<1> QED BY <1>4, <1>8, <1>9, <1>10 DEF ConfIInv

\* The answer of the dashboard is read, and refused or taken up.
LEMMA AnsweredKeeps ==
    ASSUME ConfIInv, NEW A \in SUBSET {"update", "host"}, Answered(A) PROVE ConfIInv'
<1>1. /\ step = "idle" /\ version' = Len(gens) /\ wanted' = A /\ watched' = TRUE
      /\ changed' = FALSE /\ step' \in {"lists", "tail"}
      /\ step' = "lists" => Len(gens) # 0 /\ Valid(gens[Len(gens)], running)
      /\ UNCHANGED <<gens, listGen, envFile, running, applied, confFaults, confKills>>
  BY DEF Answered, confBox
<1>2. ConfTypeOK'
  <2>1. step' \in ConfSteps /\ version' \in 0..MaxVersion
    BY <1>1, ConfNumbers DEF ConfSteps, ConfIInv, ConfTypeOK
  <2>2. watched' \in BOOLEAN /\ changed' \in BOOLEAN /\ wanted' \subseteq {"update", "host"}
    BY <1>1
  <2> QED BY <1>1, <2>1, <2>2 DEF ConfIInv, ConfTypeOK
<1>3. Versions'
  <2>1. Valid(gens[version], running)' = Valid(gens[Len(gens)], running)
    BY <1>1 DEF Valid, InBounds, Merged
  <2> QED BY <1>1, <2>1, ConfNumbers DEF ConfIInv, Versions, Applying
<1>4. Cadences'
  BY <1>1 DEF ConfIInv, Cadences, Roomy
<1>5. Acknowledged'
  <2>1. SetsEnv(gens[applied])' = SetsEnv(gens[applied]) /\ (step = "idle" => ~changed)
    BY <1>1 DEF SetsEnv, ConfIInv, Acknowledged
  <2> QED BY <1>1, <2>1 DEF ConfIInv, Acknowledged
<1> QED BY <1>2, <1>3, <1>4, <1>5 DEF ConfIInv

\* The lists of a generation are written, or that fails.
LEMMA WriteListsKeeps == ASSUME ConfIInv, WriteLists PROVE ConfIInv'
<1>1. /\ step = "lists" /\ step' \in {"env", "tail"} /\ confFaults' \in 0..MaxConfFaults
      /\ listGen' = listGen \/ (gens[version].list /\ listGen' = version)
      /\ step' = "env" /\ gens[version].list => listGen' = version
      /\ UNCHANGED <<gens, envFile, running, applied, version, wanted, changed, watched, confKills>>
  <2>1. /\ step = "lists" /\ step' \in {"env", "tail"}
        /\ listGen' = listGen \/ (gens[version].list /\ listGen' = version)
        /\ step' = "env" /\ gens[version].list => listGen' = version
        /\ UNCHANGED <<gens, envFile, running, applied, version, wanted, changed, watched, confKills>>
    BY DEF WriteLists, confLocal
  <2>2. confFaults' \in 0..MaxConfFaults
    BY ConfBounds DEF WriteLists, ConfFault, ConfIInv, ConfTypeOK
  <2> QED BY <2>1, <2>2
<1>2. /\ Applying /\ version \in 1..Len(gens) /\ version \in 0..MaxVersion /\ listGen <= version
      /\ envFile.gen <= version /\ Valid(gens[version], running) /\ Len(gens) \in Nat
      /\ listGen \in Nat
  BY <1>1, ApplyingFacts DEF Applying
<1>3. listGen' >= listGen /\ listGen' <= version /\ listGen' \in 0..MaxVersion
  BY <1>1, <1>2 DEF ConfIInv, ConfTypeOK
<1>4. ConfTypeOK'
  BY <1>1, <1>3 DEF ConfIInv, ConfTypeOK, ConfSteps
<1>5. Versions'
  <2>1. Valid(gens[version], running)' = Valid(gens[version], running)
        /\ SetsEnv(gens[version])' = SetsEnv(gens[version])
    BY <1>1 DEF Valid, InBounds, Merged, SetsEnv
  <2> QED BY <1>1, <1>2, <1>3, <2>1 DEF ConfIInv, Versions, Applying
<1>6. Cadences'
  BY <1>1 DEF ConfIInv, Cadences, Roomy
<1>7. Acknowledged'
  <2>1. SetsEnv(gens[applied])' = SetsEnv(gens[applied])
    BY <1>1 DEF SetsEnv
  <2>2. applied # 0 /\ gens[applied].list => listGen' >= applied
    BY <1>2, <1>3, ConfNumbers DEF ConfIInv, Acknowledged
  <2> QED BY <1>1, <2>1, <2>2 DEF ConfIInv, Acknowledged
<1> QED BY <1>4, <1>5, <1>6, <1>7 DEF ConfIInv

\* What validation let through leaves a capture window that fits, on a box with light passes.
LEMMA WriteEnvKeeps == ASSUME ConfIInv, CaptureInterval # 0, WriteEnv PROVE ConfIInv'
<1>1. /\ step = "env" /\ step' \in {"version", "tail"} /\ confFaults' \in 0..MaxConfFaults
      /\ UNCHANGED <<gens, listGen, running, applied, version, wanted, changed, watched, confKills>>
  <2>1. /\ step = "env" /\ step' \in {"version", "tail"}
        /\ UNCHANGED <<gens, listGen, running, applied, version, wanted, changed, watched, confKills>>
    BY DEF WriteEnv, confLocal
  <2>2. confFaults' \in 0..MaxConfFaults
    BY ConfBounds DEF WriteEnv, ConfFault, ConfIInv, ConfTypeOK
  <2> QED BY <2>1, <2>2
<1>2. /\ Applying /\ version \in 1..Len(gens) /\ version \in 0..MaxVersion /\ gens[version] \in Generations
      /\ listGen <= version /\ envFile.gen <= version /\ Valid(gens[version], running)
      /\ Len(gens) \in Nat
      /\ envFile.gen \in Nat
  BY <1>1, ApplyingFacts DEF Applying
<1>3. \/ envFile' = envFile /\ (step' = "version" => ~SetsEnv(gens[version]))
      \/ envFile' = Merged(gens[version], version, envFile)
  BY DEF WriteEnv
<1>4. /\ envFile' \in ConfEnvs
      /\ envFile'.gen >= envFile.gen /\ envFile'.gen <= version /\ envFile'.gen \in Nat
      /\ step' = "version" /\ SetsEnv(gens[version]) => envFile'.gen = version
      /\ Roomy(envFile') /\ (running.rescan > CaptureInterval => envFile'.rescan > CaptureInterval)
  <2>1. envFile \in ConfEnvs /\ running \in ConfEnvs /\ Cadences
    BY DEF ConfIInv, ConfTypeOK
  <2>2. CASE envFile' = envFile /\ (step' = "version" => ~SetsEnv(gens[version]))
    BY <1>2, <2>1, <2>2 DEF Cadences
  <2>3. CASE envFile' = Merged(gens[version], version, envFile)
    <3>1. Merged(gens[version], version, envFile) \in ConfEnvs
          /\ Merged(gens[version], version, envFile).gen = version
      BY <1>2, <2>1, MergedType
    <3>2. /\ Roomy(Merged(gens[version], version, envFile))
          /\ running.rescan > CaptureInterval
                => Merged(gens[version], version, envFile).rescan > CaptureInterval
      BY <1>2, <2>1, MergedRoomy
    <3> QED BY <1>2, <2>3, <3>1, <3>2
  <2> QED BY <1>3, <2>2, <2>3
<1>5. ConfTypeOK'
  BY <1>1, <1>4 DEF ConfIInv, ConfTypeOK, ConfSteps
<1>6. Versions'
  <2>1. Valid(gens[version], running)' = Valid(gens[version], running)
        /\ SetsEnv(gens[version])' = SetsEnv(gens[version])
    BY <1>1 DEF Valid, InBounds, Merged, SetsEnv
  <2> QED BY <1>1, <1>2, <1>4, <2>1 DEF ConfIInv, Versions, Applying
<1>7. Cadences'
  <2>1. Roomy(envFile)' = Roomy(envFile') /\ Roomy(running)' = Roomy(running')
    BY DEF Roomy
  <2> QED BY <1>1, <1>4, <2>1 DEF ConfIInv, Cadences
<1>8. Acknowledged'
  <2>1. SetsEnv(gens[applied])' = SetsEnv(gens[applied])
    BY <1>1 DEF SetsEnv
  <2>2. applied # 0 /\ SetsEnv(gens[applied]) => envFile'.gen >= applied
    BY <1>2, <1>4, ConfNumbers DEF ConfIInv, Acknowledged
  <2> QED BY <1>1, <2>1, <2>2 DEF ConfIInv, Acknowledged
<1> QED BY <1>5, <1>6, <1>7, <1>8 DEF ConfIInv

\* The version is the last to be written: all it stands for is on disk.
LEMMA WriteVersionKeeps == ASSUME ConfIInv, WriteVersion PROVE ConfIInv'
<1>1. /\ step = "version" /\ step' = "tail" /\ confFaults' \in 0..MaxConfFaults
      /\ \/ applied' = version /\ changed' = TRUE
         \/ applied' = applied /\ changed' = changed
      /\ UNCHANGED <<gens, listGen, envFile, running, version, wanted, watched, confKills>>
  <2>1. /\ step = "version" /\ step' = "tail"
        /\ \/ applied' = version /\ changed' = TRUE
           \/ applied' = applied /\ changed' = changed
        /\ UNCHANGED <<gens, listGen, envFile, running, version, wanted, watched, confKills>>
    BY DEF WriteVersion
  <2>2. confFaults' \in 0..MaxConfFaults
    BY ConfBounds DEF WriteVersion, ConfFault, ConfIInv, ConfTypeOK
  <2> QED BY <2>1, <2>2
<1>2. /\ Applying /\ version \in 1..Len(gens) /\ version \in 0..MaxVersion
      /\ gens[version].list => listGen = version
      /\ SetsEnv(gens[version]) => envFile.gen = version
  BY <1>1, ApplyingFacts DEF Applying, ConfIInv, Versions
<1>3. ConfTypeOK'
  <2>1. changed' \in BOOLEAN
    BY <1>1 DEF ConfIInv, ConfTypeOK
  <2> QED BY <1>1, <1>2, <2>1 DEF ConfIInv, ConfTypeOK, ConfSteps
<1>4. Versions'
  BY <1>1, <1>2 DEF ConfIInv, Versions, Applying
<1>5. Cadences'
  BY <1>1 DEF ConfIInv, Cadences, Roomy
<1>6. Acknowledged'
  <2>1. CASE applied' = version /\ changed' = TRUE
    <3>1. SetsEnv(gens[applied])' = SetsEnv(gens[version])
      BY <1>1, <2>1 DEF SetsEnv
    <3> QED BY <1>1, <1>2, <2>1, <3>1, ConfNumbers DEF ConfIInv, Acknowledged
  <2>2. CASE applied' = applied /\ changed' = changed
    <3>1. SetsEnv(gens[applied])' = SetsEnv(gens[applied])
      BY <1>1, <2>2 DEF SetsEnv
    <3> QED BY <1>1, <2>2, <3>1 DEF ConfIInv, Acknowledged
  <2> QED BY <1>1, <2>1, <2>2
<1> QED BY <1>3, <1>4, <1>5, <1>6 DEF ConfIInv

\* A step that touches neither the files nor the container, and ends the check-in, takes
\* it past its writes or leaves it where it is.
LEMMA MovesOn ==
    ASSUME ConfIInv, UNCHANGED <<gens, listGen, envFile, running>>,
           applied' = applied \/ applied' = 0, step' \in ConfSteps,
           version' = version \/ version' = 0,
           Applying' => step' = step /\ version' = version
    PROVE  Versions' /\ Cadences' /\ version' \in 0..MaxVersion /\ applied' \in 0..MaxVersion
<1>1. Versions'
  <2>1. ASSUME Applying' PROVE Valid(gens[version], running)' = Valid(gens[version], running)
                               /\ SetsEnv(gens[version])' = SetsEnv(gens[version])
                               /\ step' = step /\ version' = version
    BY <2>1 DEF Valid, InBounds, Merged, SetsEnv
  <2>2. /\ listGen <= Len(gens) /\ envFile.gen <= Len(gens) /\ applied' <= Len(gens)
        /\ version' <= Len(gens)
    BY ConfNumbers DEF ConfIInv, Versions
  <2> QED BY <2>1, <2>2 DEF ConfIInv, Versions, Applying
<1>2. Cadences'
  BY DEF ConfIInv, Cadences, Roomy
<1>3. version' \in 0..MaxVersion /\ applied' \in 0..MaxVersion
  BY ConfNumbers DEF ConfIInv, ConfTypeOK
<1> QED BY <1>1, <1>2, <1>3

\* The values of what a check-in keeps in memory, when it is over and while it is not.
LEMMA ConfDoneType ==
    ASSUME ConfDone
    PROVE  /\ step' = "idle" /\ step' \in ConfSteps /\ version' = 0 /\ wanted' = {}
           /\ changed' = FALSE /\ watched' = FALSE /\ ~Applying'
BY DEF ConfDone, ConfSteps, Applying

\* The check-in ends with the exit code that says what it changed.
LEMMA ExitsKeeps == ASSUME ConfIInv, Exits PROVE ConfIInv'
<1>1. /\ step = "tail" /\ UNCHANGED <<gens, listGen, envFile, running, applied, confFaults, confKills>>
      /\ \/ watched /\ step' = "exit" /\ UNCHANGED <<version, wanted, changed, watched>>
         \/ ~watched /\ ConfDone
  BY DEF Exits, confBox, confLocal
<1>2. CASE watched /\ step' = "exit" /\ UNCHANGED <<version, wanted, changed, watched>>
  <2>1. step' \in ConfSteps /\ ~Applying'
    BY <1>2 DEF ConfSteps, Applying
  <2>2. Versions' /\ Cadences'
    BY <1>1, <1>2, <2>1, MovesOn
  <2>3. ConfTypeOK'
    BY <1>1, <1>2, <2>1 DEF ConfIInv, ConfTypeOK
  <2>4. Acknowledged'
    <3>1. SetsEnv(gens[applied])' = SetsEnv(gens[applied])
      BY <1>1 DEF SetsEnv
    <3> QED BY <1>1, <1>2, <3>1 DEF ConfIInv, Acknowledged
  <2> QED BY <2>2, <2>3, <2>4 DEF ConfIInv
<1>3. CASE ~watched /\ ConfDone
  <2>1. Versions' /\ Cadences' /\ version' \in 0..MaxVersion
    BY <1>1, <1>3, ConfDoneType, MovesOn
  <2>2. ConfTypeOK'
    <3>1. changed' \in BOOLEAN /\ watched' \in BOOLEAN /\ wanted' \subseteq {"update", "host"}
      BY <1>3, ConfDoneType
    <3> QED BY <1>1, <1>3, <2>1, <3>1, ConfDoneType DEF ConfIInv, ConfTypeOK
  <2>3. Acknowledged'
    <3>1. SetsEnv(gens[applied])' = SetsEnv(gens[applied])
      BY <1>1 DEF SetsEnv
    <3>2. confKills # 0
      BY <1>1, <1>3 DEF ConfIInv, Acknowledged
    <3> QED BY <1>1, <1>3, <3>1, <3>2, ConfDoneType DEF ConfIInv, Acknowledged
  <2> QED BY <2>1, <2>2, <2>3 DEF ConfIInv
<1> QED BY <1>1, <1>2, <1>3

\* A recreate puts the environment file into effect, or fails and leaves the mark.
LEMMA WrapperRecreatesKeeps == ASSUME ConfIInv, WrapperRecreates PROVE ConfIInv'
<1>1. /\ step = "exit" /\ UNCHANGED <<gens, listGen, envFile, applied, confKills>>
      /\ confFaults' \in 0..MaxConfFaults
  <2>1. confFaults' \in 0..MaxConfFaults
    BY ConfBounds DEF WrapperRecreates, ConfFault, ConfIInv, ConfTypeOK
  <2> QED BY <2>1 DEF WrapperRecreates
<1>2. CASE running' = envFile /\ ConfDone
  <2>1. ConfTypeOK'
    <3>1. changed' \in BOOLEAN /\ watched' \in BOOLEAN /\ wanted' \subseteq {"update", "host"}
          /\ version' \in 0..MaxVersion
      BY <1>2, ConfDoneType, ConfNumbers DEF ConfIInv
    <3> QED BY <1>1, <1>2, <3>1, ConfDoneType DEF ConfIInv, ConfTypeOK
  <2>2. Versions'
    BY <1>1, <1>2, ConfDoneType, ConfNumbers DEF ConfIInv, Versions, Applying
  <2>3. Cadences'
    BY <1>1, <1>2 DEF ConfIInv, Cadences, Roomy
  <2>4. Acknowledged'
    <3>1. SetsEnv(gens[applied])' = SetsEnv(gens[applied])
      BY <1>1 DEF SetsEnv
    <3> QED BY <1>1, <1>2, <3>1, ConfDoneType DEF ConfIInv, Acknowledged
  <2> QED BY <2>1, <2>2, <2>3, <2>4 DEF ConfIInv
<1>3. CASE step' = "pending" /\ UNCHANGED <<running, confLocal>>
  <2>1. step' \in ConfSteps /\ ~Applying' /\ UNCHANGED <<running, version, wanted, changed, watched>>
    BY <1>3 DEF ConfSteps, Applying, confLocal
  <2>2. Versions' /\ Cadences'
    BY <1>1, <2>1, MovesOn
  <2>3. ConfTypeOK'
    BY <1>1, <2>1 DEF ConfIInv, ConfTypeOK
  <2>4. Acknowledged'
    <3>1. SetsEnv(gens[applied])' = SetsEnv(gens[applied])
      BY <1>1 DEF SetsEnv
    <3> QED BY <1>1, <1>3, <2>1, <3>1 DEF ConfIInv, Acknowledged
  <2> QED BY <2>2, <2>3, <2>4 DEF ConfIInv
<1> QED BY <1>2, <1>3 DEF WrapperRecreates

\* The wrapper leaves the container only when nothing waits to take effect.
LEMMA WrapperLeavesKeeps == ASSUME ConfIInv, WrapperLeaves PROVE ConfIInv'
<1>1. /\ step = "exit" /\ ~changed /\ ConfDone
      /\ UNCHANGED <<gens, listGen, envFile, running, applied, confFaults, confKills>>
  BY DEF WrapperLeaves, Recreates, confBox
<1>2. Versions' /\ Cadences' /\ version' \in 0..MaxVersion
  BY <1>1, ConfDoneType, MovesOn
<1>3. ConfTypeOK'
  <2>1. changed' \in BOOLEAN /\ watched' \in BOOLEAN /\ wanted' \subseteq {"update", "host"}
    BY <1>1, ConfDoneType
  <2> QED BY <1>1, <1>2, <2>1, ConfDoneType DEF ConfIInv, ConfTypeOK
<1>4. Acknowledged'
  <2>1. SetsEnv(gens[applied])' = SetsEnv(gens[applied])
    BY <1>1 DEF SetsEnv
  <2> QED BY <1>1, <2>1, ConfDoneType DEF ConfIInv, Acknowledged
<1> QED BY <1>2, <1>3, <1>4 DEF ConfIInv

\* The acknowledgement is withdrawn, or the wrapper was killed before it was.
LEMMA MarkPendingKeeps == ASSUME ConfIInv, MarkPending PROVE ConfIInv'
<1>1. /\ step = "pending" /\ ConfDone /\ UNCHANGED <<gens, listGen, envFile, running, confFaults>>
      /\ \/ applied' = 0 /\ confKills' = confKills
         \/ applied' = applied /\ confKills' = confKills + 1
      /\ confKills' \in 0..MaxConfKills
  <2>1. confKills' \in 0..MaxConfKills
    BY ConfBounds DEF MarkPending, ConfIInv, ConfTypeOK
  <2> QED BY <2>1 DEF MarkPending
<1>2. Versions' /\ Cadences' /\ version' \in 0..MaxVersion /\ applied' \in 0..MaxVersion
  BY <1>1, ConfDoneType, MovesOn
<1>3. ConfTypeOK'
  <2>1. changed' \in BOOLEAN /\ watched' \in BOOLEAN /\ wanted' \subseteq {"update", "host"}
    BY <1>1, ConfDoneType
  <2> QED BY <1>1, <1>2, <2>1, ConfDoneType DEF ConfIInv, ConfTypeOK
<1>4. Acknowledged'
  <2>1. CASE applied' = 0
    BY <1>1, <2>1, ConfDoneType DEF Acknowledged
  <2>2. CASE applied' = applied /\ confKills' = confKills + 1
    <3>1. SetsEnv(gens[applied])' = SetsEnv(gens[applied]) /\ confKills' # 0
      BY <1>1, <2>2, ConfNumbers DEF SetsEnv, ConfIInv
    <3> QED BY <1>1, <2>2, <3>1, ConfDoneType DEF ConfIInv, Acknowledged
  <2> QED BY <1>1, <2>1, <2>2
<1> QED BY <1>2, <1>3, <1>4 DEF ConfIInv

\* The check-in or its wrapper is killed.
LEMMA ConfDiesKeeps == ASSUME ConfIInv, CheckinDies \/ WrapperDies PROVE ConfIInv'
<1>1. /\ confKills' = confKills + 1 /\ confKills' \in 0..MaxConfKills
      /\ UNCHANGED <<gens, listGen, envFile, running, applied, confFaults>>
      /\ \/ ConfDone
         \/ watched' = FALSE /\ step # "idle" /\ UNCHANGED <<step, version, wanted, changed>>
  <2>1. confKills' = confKills + 1 /\ confKills < MaxConfKills
    BY DEF CheckinDies, WrapperDies
  <2>2. /\ UNCHANGED <<gens, listGen, envFile, running, applied, confFaults>>
        /\ \/ ConfDone
           \/ watched' = FALSE /\ step # "idle" /\ UNCHANGED <<step, version, wanted, changed>>
    BY DEF CheckinDies, WrapperDies, confBox
  <2> QED BY <2>1, <2>2, ConfBounds DEF ConfIInv, ConfTypeOK
<1>2. /\ step' \in ConfSteps /\ (version' = version \/ version' = 0)
      /\ Applying' => step' = step /\ version' = version
      /\ step' = "idle" => ~changed'
  BY <1>1, ConfDoneType DEF ConfIInv, ConfTypeOK
<1>3. Versions' /\ Cadences' /\ version' \in 0..MaxVersion
  BY <1>1, <1>2, MovesOn
<1>4. ConfTypeOK'
  <2>1. changed' \in BOOLEAN /\ wanted' \subseteq {"update", "host"}
    BY <1>1, ConfDoneType DEF ConfIInv, ConfTypeOK
  <2>2. watched' \in BOOLEAN
    BY <1>1, ConfDoneType
  <2> QED BY <1>1, <1>2, <1>3, <2>1, <2>2 DEF ConfIInv, ConfTypeOK
<1>5. Acknowledged'
  <2>1. SetsEnv(gens[applied])' = SetsEnv(gens[applied]) /\ confKills' # 0
    BY <1>1, ConfNumbers DEF SetsEnv, ConfIInv
  <2> QED BY <1>1, <1>2, <2>1 DEF ConfIInv, Acknowledged
<1> QED BY <1>3, <1>4, <1>5 DEF ConfIInv

\* The container is created anew: it has the file's environment, and no check-in.
LEMMA RefreshKeeps == ASSUME ConfIInv, RefreshRecreates PROVE ConfIInv'
<1>1. /\ running' = envFile /\ UNCHANGED <<gens, listGen, envFile, applied, confFaults, confKills>>
      /\ \/ ConfDone
         \/ ~Applying /\ UNCHANGED <<step, version, wanted, changed, watched>>
  BY DEF RefreshRecreates, confLocal, Applying
<1>2. /\ step' \in ConfSteps /\ (version' = version \/ version' = 0) /\ ~Applying'
      /\ step' = "idle" => ~changed'
      /\ step' # "idle" => step' = step /\ watched' = watched
  <2>1. CASE ConfDone
    BY <2>1, ConfDoneType
  <2>2. CASE ~Applying /\ UNCHANGED <<step, version, wanted, changed, watched>>
    <3>1. ~Applying' /\ step \in ConfSteps
      BY <2>2 DEF Applying, ConfIInv, ConfTypeOK
    <3>2. step = "idle" => ~changed
      BY DEF ConfIInv, Acknowledged
    <3> QED BY <2>2, <3>1, <3>2
  <2> QED BY <1>1, <2>1, <2>2
<1>3. ConfTypeOK'
  <2>1. changed' \in BOOLEAN /\ wanted' \subseteq {"update", "host"}
    BY <1>1, ConfDoneType DEF ConfIInv, ConfTypeOK
  <2>2. watched' \in BOOLEAN
    BY <1>1, ConfDoneType DEF ConfIInv, ConfTypeOK
  <2>3. version' \in 0..MaxVersion
    BY <1>2, ConfBounds DEF ConfIInv, ConfTypeOK
  <2> QED BY <1>1, <1>2, <2>1, <2>2, <2>3 DEF ConfIInv, ConfTypeOK
<1>4. Versions'
  BY <1>1, <1>2, ConfNumbers DEF ConfIInv, Versions, Applying
<1>5. Cadences'
  BY <1>1 DEF ConfIInv, Cadences, Roomy
<1>6. Acknowledged'
  <2>1. SetsEnv(gens[applied])' = SetsEnv(gens[applied])
    BY <1>1 DEF SetsEnv
  <2> QED BY <1>1, <1>2, <2>1 DEF ConfIInv, Acknowledged
<1> QED BY <1>3, <1>4, <1>5, <1>6 DEF ConfIInv

\* Every step of check-in, wrapper and refresh keeps acknowledgement and effect together.
LEMMA StepConf ==
    ASSUME CaptureInterval # 0 PROVE ConfIInv /\ [ConfNext]_confVars => ConfIInv'
<1> SUFFICES ASSUME ConfIInv, [ConfNext]_confVars PROVE ConfIInv'
  OBVIOUS
<1>1. ASSUME NEW g \in Generations, Publish(g) PROVE ConfIInv'
  BY <1>1, PublishKeeps
<1>2. ASSUME NEW A \in SUBSET {"update", "host"}, Answered(A) PROVE ConfIInv'
  BY <1>2, AnsweredKeeps
<1>3. CASE WriteLists \/ WriteEnv \/ WriteVersion \/ Exits
  BY <1>3, WriteListsKeeps, WriteEnvKeeps, WriteVersionKeeps, ExitsKeeps
<1>4. CASE WrapperRecreates \/ WrapperLeaves \/ MarkPending
  BY <1>4, WrapperRecreatesKeeps, WrapperLeavesKeeps, MarkPendingKeeps
<1>5. CASE CheckinDies \/ WrapperDies \/ RefreshRecreates
  BY <1>5, ConfDiesKeeps, RefreshKeeps
<1>6. CASE UNCHANGED confVars
  <2> USE <1>6 DEF confVars
  <2>1. ConfTypeOK' /\ Cadences'
    BY DEF ConfIInv, ConfTypeOK, Cadences, Roomy
  <2>2. Versions'
    BY DEF ConfIInv, Versions, Applying, Valid, InBounds, Merged, SetsEnv
  <2>3. Acknowledged'
    BY DEF ConfIInv, Acknowledged, SetsEnv
  <2> QED BY <2>1, <2>2, <2>3 DEF ConfIInv
<1> QED BY <1>1, <1>2, <1>3, <1>4, <1>5, <1>6 DEF ConfNext

\* A version the box acknowledges is on its disk and, unless something was killed, in
\* effect; and the scan interval the container runs with leaves room for its capture
\* window, whatever was pushed, refused, half applied or recreated.  The window and the
\* interval are only held apart by the light passes' interval between them: a box
\* without light passes is not covered.
THEOREM ConfigIsSound == ASSUME CaptureInterval # 0 PROVE ConfSpec => []ConfigSound
<1>1. ConfInit => ConfIInv
  BY InitConf
<1>2. ConfIInv /\ [ConfNext]_confVars => ConfIInv'
  BY StepConf
<1>3. ConfIInv => ConfigSound
  <2> SUFFICES ASSUME ConfIInv PROVE ConfigSound
    OBVIOUS
  <2>1. CadenceHolds
    BY DEF ConfIInv, Cadences, Roomy, CadenceHolds
  <2>2. AckMeansApplied
    BY DEF ConfIInv, Acknowledged, AckMeansApplied
  <2> QED BY <2>1, <2>2 DEF ConfIInv, ConfigSound
<1> QED BY <1>1, <1>2, <1>3, PTL DEF ConfSpec

----------------------------------------------------------------------------
(* The console.                                                            *)

\* A request, on file or being worked through, comes from a process spawned in full
\* mode for that session id.
Spawned(i, sid) ==
    i \in Sessions /\ session[i].mode = "full" /\ session[i].sid = sid /\ session[i].phase # "none"
Requested(q) == \A k \in DOMAIN q : Spawned(q[k][2], q[k][1])

\* A server is armed for such a process, and its shell has it as a client.
Armed(s) ==
    server[s].phase # "none" =>
        /\ Spawned(server[s].nonce, s)
        /\ server[s].phase \in {"shell", "exited"} => server[s].client = server[s].nonce

\* The slots of a session are those of its workers.
SlotsTaken(i) ==
    /\ \A o \in LiveOps : workers[i][o] = IF o \in opsRunning[i] THEN 1 ELSE 0
    /\ IsFiniteSet(opsRunning[i]) /\ Cardinality(opsRunning[i]) <= MaxOps

ConsoleIInv ==
    /\ ConsoleTypeOK
    /\ Requested(request) /\ Requested(draining)
    /\ \A s \in Sids : Armed(s)
    /\ \A i \in Sessions : SlotsTaken(i)

Phases == {"none", "dial", "attach", "bridge", "serve", "ended"}
SessionRecords == [sid : Sids \cup {"none"}, mode : {"restricted", "full"}, phase : Phases]
ServerRecords == [phase : {"none", "listen", "hello", "shell", "exited"},
                  nonce : 0..MaxSessions, client : 0..MaxSessions, backlog : Seq(Sessions)]

\* Nothing runs at the start.
LEMMA InitConsole == ConsoleInit => ConsoleIInv
<1> SUFFICES ASSUME ConsoleInit PROVE ConsoleIInv
  OBVIOUS
<1> USE ConsoleBounds DEF ConsoleInit
<1>1. ConsoleTypeOK
  <2>1. NoSession \in SessionRecords
    BY DEF NoSession, SessionRecords, Phases
  <2>2. NoServer \in ServerRecords
    BY DEF NoServer, ServerRecords, Nobody
  <2>3. session \in [Sessions -> SessionRecords] /\ server \in [Sids -> ServerRecords]
    BY <2>1, <2>2
  <2>4. request \in Seq(Sids \X Sessions) /\ draining \in Seq(Sids \X Sessions)
    OBVIOUS
  <2>5. opsRunning \in [Sessions -> SUBSET LiveOps] /\ workers \in [Sessions -> [LiveOps -> Nat]]
        /\ drainKills \in 0..MaxDrainKills
    OBVIOUS
  <2> QED BY <2>3, <2>4, <2>5 DEF ConsoleTypeOK, SessionRecords, ServerRecords, Phases
<1>2. Requested(request) /\ Requested(draining)
  BY DEF Requested
<1>3. \A s \in Sids : Armed(s)
  BY DEF Armed, NoServer
<1>4. \A i \in Sessions : SlotsTaken(i)
  BY FS_EmptySet DEF SlotsTaken
<1> QED BY <1>1, <1>2, <1>3, <1>4 DEF ConsoleIInv

\* What was spawned stays spawned: a process changes its phase, not its session.
LEMMA SpawnedStays ==
    ASSUME \A i \in Sessions : session[i].phase # "none" =>
               /\ session'[i].phase # "none" /\ session'[i].mode = session[i].mode
               /\ session'[i].sid = session[i].sid
    PROVE  /\ \A i, sid : Spawned(i, sid) => Spawned(i, sid)'
           /\ \A q : Requested(q) => \A k \in DOMAIN q : Spawned(q[k][2], q[k][1])'
BY DEF Spawned, Requested

\* A step of a session process that leaves its operations and the requests alone.
LEMMA SessionMoves ==
    ASSUME ConsoleIInv, NEW i \in Sessions, NEW ph \in Phases \ {"none"},
           session[i].phase # "none", Goes(i, ph), UNCHANGED <<opVars, request, draining, drainKills>>,
           server' = server \/ \E s : server' = [server EXCEPT ![s].backlog = Append(@, i)]
    PROVE  ConsoleIInv'
<1>1. /\ session \in [Sessions -> SessionRecords] /\ server \in [Sids -> ServerRecords]
      /\ session' = [session EXCEPT ![i].phase = ph]
      /\ UNCHANGED <<opsRunning, workers, request, draining, drainKills>>
  BY DEF ConsoleIInv, ConsoleTypeOK, SessionRecords, ServerRecords, Phases, Goes, opVars
<1>2. /\ session' \in [Sessions -> SessionRecords]
      /\ \A j \in Sessions : session[j].phase # "none" =>
            /\ session'[j].phase # "none" /\ session'[j].mode = session[j].mode
            /\ session'[j].sid = session[j].sid
  BY <1>1 DEF SessionRecords
<1>3. /\ server' \in [Sids -> ServerRecords]
      /\ \A s \in Sids : /\ server'[s].phase = server[s].phase /\ server'[s].nonce = server[s].nonce
                         /\ server'[s].client = server[s].client
  <2>1. CASE server' = server
    BY <1>1, <2>1
  <2>2. ASSUME NEW s, server' = [server EXCEPT ![s].backlog = Append(@, i)]
        PROVE  /\ server' \in [Sids -> ServerRecords]
               /\ \A t \in Sids : /\ server'[t].phase = server[t].phase
                                  /\ server'[t].nonce = server[t].nonce
                                  /\ server'[t].client = server[t].client
    <3>1. CASE s \in Sids
      <4>1. server[s] \in ServerRecords /\ Append(server[s].backlog, i) \in Seq(Sessions)
        BY <1>1, <3>1 DEF ServerRecords
      <4> QED BY <1>1, <2>2, <3>1, <4>1 DEF ServerRecords
    <3>2. CASE s \notin Sids
      <4>1. server' = server
        BY <1>1, <2>2, <3>2
      <4> QED BY <1>1, <4>1
    <3> QED BY <3>1, <3>2
  <2> QED BY <2>1, <2>2
<1>4. ConsoleTypeOK'
  BY <1>1, <1>2, <1>3 DEF ConsoleIInv, ConsoleTypeOK, SessionRecords, ServerRecords, Phases
<1>5. Requested(request)' /\ Requested(draining)'
  BY <1>1, <1>2, SpawnedStays DEF ConsoleIInv, Requested
<1>6. \A s \in Sids : Armed(s)'
  <2>1. ASSUME NEW s \in Sids PROVE Armed(s)'
    <3>1. Armed(s)
      BY DEF ConsoleIInv
    <3>2. server[s].phase # "none" =>
              session[server[s].nonce].phase # "none" /\ server[s].nonce \in Sessions
      BY <3>1 DEF Armed, Spawned
    <3> QED BY <1>2, <1>3, <3>1, <3>2 DEF Armed, Spawned
  <2> QED BY <2>1
<1>7. \A j \in Sessions : SlotsTaken(j)'
  BY <1>1 DEF ConsoleIInv, SlotsTaken
<1> QED BY <1>4, <1>5, <1>6, <1>7 DEF ConsoleIInv

\* A process is spawned; in full mode its request is on file with it.
LEMMA SpawnKeeps ==
    ASSUME ConsoleIInv, NEW i \in Sessions, NEW sid \in Sids, NEW mode \in {"restricted", "full"},
           SpawnSession(i, sid, mode)
    PROVE  ConsoleIInv'
<1>1. PICK ph \in {"dial", "ended"} :
          session' = [session EXCEPT ![i] = [sid |-> sid, mode |-> mode, phase |-> ph]]
  BY DEF SpawnSession
<1>2. /\ session \in [Sessions -> SessionRecords] /\ session[i].phase = "none"
      /\ request' = (IF mode = "full" THEN Append(request, <<sid, i>>) ELSE request)
      /\ UNCHANGED <<opsRunning, workers, draining, server, drainKills>>
      /\ request \in Seq(Sids \X Sessions) /\ draining \in Seq(Sids \X Sessions)
  BY DEF SpawnSession, ConsoleIInv, ConsoleTypeOK, SessionRecords, Phases, opVars
<1>3. /\ session' \in [Sessions -> SessionRecords]
      /\ session'[i] = [sid |-> sid, mode |-> mode, phase |-> ph]
      /\ \A j \in Sessions : j # i => session'[j] = session[j]
  BY <1>1, <1>2 DEF SessionRecords, Phases
<1>4. \A j \in Sessions : session[j].phase # "none" =>
          /\ session'[j].phase # "none" /\ session'[j].mode = session[j].mode
          /\ session'[j].sid = session[j].sid
  BY <1>2, <1>3
<1>5. request' \in Seq(Sids \X Sessions)
  <2>1. CASE mode = "full"
    <3>1. <<sid, i>> \in Sids \X Sessions
      OBVIOUS
    <3> QED BY <1>2, <2>1, <3>1
  <2>2. CASE mode # "full"
    BY <1>2, <2>2
  <2> QED BY <2>1, <2>2
<1>6. ConsoleTypeOK'
  BY <1>2, <1>3, <1>5 DEF ConsoleIInv, ConsoleTypeOK, SessionRecords, Phases
<1>7. Requested(draining)'
  BY <1>2, <1>4, SpawnedStays DEF ConsoleIInv, Requested
<1>8. Requested(request)'
  <2>1. ASSUME NEW k \in DOMAIN request, NEW j, NEW t, <<t, j>> = request[k] PROVE Spawned(j, t)'
    <3>1. Spawned(j, t)
      BY <2>1 DEF ConsoleIInv, Requested
    <3> QED BY <3>1, <1>4, SpawnedStays
  <2>2. ASSUME NEW k \in DOMAIN request', NEW j, NEW t, <<t, j>> = request'[k] PROVE Spawned(j, t)'
    <3>1. CASE mode # "full"
      BY <1>2, <2>1, <2>2, <3>1
    <3>2. CASE mode = "full"
      <4>1. /\ Len(request) \in Nat /\ DOMAIN request = 1..Len(request)
            /\ DOMAIN request' = 1..(Len(request) + 1)
            /\ request'[Len(request) + 1] = <<sid, i>>
            /\ \A l \in 1..Len(request) : request'[l] = request[l]
        BY <1>2, <3>2
      <4>2. Spawned(i, sid)'
        BY <1>3, <3>2 DEF Spawned
      <4>3. CASE k = Len(request) + 1
        <5>1. j = i /\ t = sid
          BY <2>2, <4>1, <4>3
        <5> QED BY <4>2, <5>1
      <4>4. CASE k # Len(request) + 1
        <5>1. k \in DOMAIN request /\ request'[k] = request[k]
          BY <2>2, <4>1, <4>4
        <5> QED BY <2>1, <2>2, <5>1
      <4> QED BY <4>3, <4>4
    <3> QED BY <3>1, <3>2
  <2>3. \A k \in DOMAIN request' : \E t \in Sids, j \in Sessions : <<t, j>> = request'[k]
    BY <1>5
  <2> QED BY <2>2, <2>3 DEF Requested, Spawned
<1>9. \A s \in Sids : Armed(s)'
  <2>1. ASSUME NEW s \in Sids PROVE Armed(s)'
    <3>1. Armed(s)
      BY DEF ConsoleIInv
    <3> QED BY <1>2, <1>4, <3>1 DEF Armed, Spawned
  <2> QED BY <2>1
<1>10. \A j \in Sessions : SlotsTaken(j)'
  BY <1>2 DEF ConsoleIInv, SlotsTaken
<1> QED BY <1>6, <1>7, <1>8, <1>9, <1>10 DEF ConsoleIInv

\* Slots come and go with their workers.
LEMMA SlotsMove ==
    ASSUME ConsoleIInv, UNCHANGED <<session, hostVars>>,
           opsRunning' \in [Sessions -> SUBSET LiveOps], workers' \in [Sessions -> [LiveOps -> Nat]],
           \A j \in Sessions : SlotsTaken(j)'
    PROVE  ConsoleIInv'
<1>1. UNCHANGED <<session, request, draining, server, drainKills>>
  BY DEF hostVars
<1>2. ConsoleTypeOK'
  BY <1>1 DEF ConsoleIInv, ConsoleTypeOK
<1>3. Requested(request)' /\ Requested(draining)'
  BY <1>1 DEF ConsoleIInv, Requested, Spawned
<1>4. \A s \in Sids : Armed(s)'
  BY <1>1 DEF ConsoleIInv, Armed, Spawned
<1> QED BY <1>2, <1>3, <1>4 DEF ConsoleIInv

\* An operation takes a free slot, unless it runs already.
LEMMA RunOpKeeps ==
    ASSUME ConsoleIInv, NEW i \in Sessions, NEW o \in LiveOps, RunOp(i, o) PROVE ConsoleIInv'
<1>1. /\ o \notin opsRunning[i] /\ Cardinality(opsRunning[i]) < MaxOps
      /\ opsRunning \in [Sessions -> SUBSET LiveOps] /\ workers \in [Sessions -> [LiveOps -> Nat]]
      /\ UNCHANGED <<session, hostVars>>
  BY DEF RunOp, ConsoleIInv, ConsoleTypeOK
<1>2. CASE UNCHANGED opVars
  <2>1. \A j \in Sessions : SlotsTaken(j)'
    BY <1>2 DEF opVars, ConsoleIInv, SlotsTaken
  <2> QED BY <1>1, <1>2, <2>1, SlotsMove DEF opVars
<1>3. CASE /\ opsRunning' = [opsRunning EXCEPT ![i] = @ \cup {o}]
           /\ workers' = [workers EXCEPT ![i][o] = @ + 1]
  <2>1. /\ opsRunning' \in [Sessions -> SUBSET LiveOps] /\ workers' \in [Sessions -> [LiveOps -> Nat]]
        /\ opsRunning'[i] = opsRunning[i] \cup {o} /\ workers'[i][o] = workers[i][o] + 1
        /\ \A p \in LiveOps : p # o => workers'[i][p] = workers[i][p]
        /\ \A j \in Sessions : j # i => opsRunning'[j] = opsRunning[j] /\ workers'[j] = workers[j]
    BY <1>1, <1>3
  <2>2. SlotsTaken(i)'
    <3>1. SlotsTaken(i)
      BY DEF ConsoleIInv
    <3>2. /\ IsFiniteSet(opsRunning[i] \cup {o})
          /\ Cardinality(opsRunning[i] \cup {o}) = Cardinality(opsRunning[i]) + 1
          /\ Cardinality(opsRunning[i]) \in Nat
      BY <1>1, <3>1, FS_AddElement, FS_CardinalityType DEF SlotsTaken
    <3>3. IsFiniteSet(opsRunning'[i]) /\ Cardinality(opsRunning'[i]) <= MaxOps
      BY <1>1, <2>1, <3>2, ConsoleBounds
    <3>4. \A p \in LiveOps : workers'[i][p] = IF p \in opsRunning'[i] THEN 1 ELSE 0
      BY <1>1, <2>1, <3>1 DEF SlotsTaken
    <3> QED BY <3>3, <3>4 DEF SlotsTaken
  <2>3. \A j \in Sessions : j # i => SlotsTaken(j)'
    BY <2>1 DEF ConsoleIInv, SlotsTaken
  <2> QED BY <1>1, <2>1, <2>2, <2>3, SlotsMove
<1> QED BY <1>2, <1>3 DEF RunOp

\* An operation that ends gives its slot back.
LEMMA OpEndsKeeps ==
    ASSUME ConsoleIInv, NEW i \in Sessions, NEW o \in LiveOps, OpEnds(i, o) PROVE ConsoleIInv'
<1>1. /\ workers[i][o] > 0
      /\ opsRunning \in [Sessions -> SUBSET LiveOps] /\ workers \in [Sessions -> [LiveOps -> Nat]]
      /\ UNCHANGED <<session, hostVars>>
      /\ workers' = [workers EXCEPT ![i][o] = @ - 1]
      /\ opsRunning' = [opsRunning EXCEPT ![i] = @ \ {o}]
  BY DEF OpEnds, ConsoleIInv, ConsoleTypeOK
<1>2. /\ opsRunning' \in [Sessions -> SUBSET LiveOps] /\ workers' \in [Sessions -> [LiveOps -> Nat]]
      /\ opsRunning'[i] = opsRunning[i] \ {o} /\ workers'[i][o] = workers[i][o] - 1
      /\ \A p \in LiveOps : p # o => workers'[i][p] = workers[i][p]
      /\ \A j \in Sessions : j # i => opsRunning'[j] = opsRunning[j] /\ workers'[j] = workers[j]
  <2>1. workers[i] \in [LiveOps -> Nat] /\ workers[i][o] - 1 \in Nat
    BY <1>1
  <2> QED BY <1>1, <2>1
<1>3. SlotsTaken(i)'
  <2>1. SlotsTaken(i)
    BY DEF ConsoleIInv
  <2>2. o \in opsRunning[i] /\ workers[i][o] = 1
    BY <1>1, <2>1 DEF SlotsTaken
  <2>3. IsFiniteSet(opsRunning[i] \ {o}) /\ Cardinality(opsRunning[i] \ {o}) <= Cardinality(opsRunning[i])
    BY <2>1, FS_Subset DEF SlotsTaken
  <2>4. Cardinality(opsRunning[i] \ {o}) \in Nat /\ Cardinality(opsRunning[i]) \in Nat
    BY <2>1, <2>3, FS_CardinalityType DEF SlotsTaken
  <2>5. IsFiniteSet(opsRunning'[i]) /\ Cardinality(opsRunning'[i]) <= MaxOps
    BY <1>2, <2>1, <2>3, <2>4, ConsoleBounds DEF SlotsTaken
  <2>6. \A p \in LiveOps : workers'[i][p] = IF p \in opsRunning'[i] THEN 1 ELSE 0
    BY <1>2, <2>1, <2>2 DEF SlotsTaken
  <2> QED BY <2>5, <2>6 DEF SlotsTaken
<1>4. \A j \in Sessions : j # i => SlotsTaken(j)'
  BY <1>2 DEF ConsoleIInv, SlotsTaken
<1> QED BY <1>1, <1>2, <1>3, <1>4, SlotsMove

\* The process of a session ends, and all that was in it.
LEMMA SessionEndsKeeps ==
    ASSUME ConsoleIInv, NEW i \in Sessions, SessionEnds(i) PROVE ConsoleIInv'
<1>1. /\ session[i].phase \in {"serve", "bridge"} /\ Goes(i, "ended") /\ UNCHANGED hostVars
      /\ session \in [Sessions -> SessionRecords]
      /\ opsRunning \in [Sessions -> SUBSET LiveOps] /\ workers \in [Sessions -> [LiveOps -> Nat]]
      /\ opsRunning' = [opsRunning EXCEPT ![i] = {}]
      /\ workers' = [workers EXCEPT ![i] = [o \in LiveOps |-> 0]]
  BY DEF SessionEnds, ConsoleIInv, ConsoleTypeOK, SessionRecords, Phases
<1>2. /\ opsRunning' \in [Sessions -> SUBSET LiveOps] /\ workers' \in [Sessions -> [LiveOps -> Nat]]
      /\ opsRunning'[i] = {} /\ \A o \in LiveOps : workers'[i][o] = 0
      /\ \A j \in Sessions : j # i => opsRunning'[j] = opsRunning[j] /\ workers'[j] = workers[j]
  BY <1>1
<1>3. /\ session' \in [Sessions -> SessionRecords]
      /\ \A j \in Sessions : session[j].phase # "none" =>
            /\ session'[j].phase # "none" /\ session'[j].mode = session[j].mode
            /\ session'[j].sid = session[j].sid
  BY <1>1 DEF SessionRecords, Goes, Phases
<1>4. UNCHANGED <<request, draining, server, drainKills>>
  BY <1>1 DEF hostVars
<1>5. ConsoleTypeOK'
  BY <1>2, <1>3, <1>4 DEF ConsoleIInv, ConsoleTypeOK, SessionRecords, Phases
<1>6. Requested(request)' /\ Requested(draining)'
  BY <1>3, <1>4, SpawnedStays DEF ConsoleIInv, Requested
<1>7. ASSUME NEW s \in Sids PROVE Armed(s)'
  <2>1. Armed(s)
    BY DEF ConsoleIInv
  <2> QED BY <1>3, <1>4, <2>1 DEF Armed, Spawned
<1>8. ASSUME NEW j \in Sessions PROVE SlotsTaken(j)'
  <2>1. CASE j = i
    <3>1. Cardinality({}) = 0 /\ IsFiniteSet({})
      BY FS_EmptySet
    <3>2. opsRunning'[j] = {} /\ \A o \in LiveOps : workers'[j][o] = 0
      BY <1>2, <2>1
    <3>3. IsFiniteSet(opsRunning'[j]) /\ Cardinality(opsRunning'[j]) = 0
      BY <3>1, <3>2, Zenon
    <3> QED BY <3>2, <3>3, ConsoleBounds DEF SlotsTaken
  <2>2. CASE j # i
    BY <1>2, <2>2 DEF ConsoleIInv, SlotsTaken
  <2> QED BY <2>1, <2>2
<1> QED BY <1>5, <1>6, <1>7, <1>8 DEF ConsoleIInv

\* The requests are taken for the servers, armed or lost.
LEMMA RequestsMove ==
    ASSUME ConsoleIInv, UNCHANGED <<session, opVars>>,
           request' \in Seq(Sids \X Sessions), draining' \in Seq(Sids \X Sessions),
           server' \in [Sids -> ServerRecords], drainKills' \in 0..MaxDrainKills,
           \A k \in DOMAIN request' : \E l \in DOMAIN request : request'[k] = request[l],
           \A k \in DOMAIN draining' :
               \/ \E l \in DOMAIN draining : draining'[k] = draining[l]
               \/ \E l \in DOMAIN request : draining'[k] = request[l],
           \A s \in Sids : Armed(s)'
    PROVE  ConsoleIInv'
<1>1. UNCHANGED <<session, opsRunning, workers>>
  BY DEF opVars
<1>2. ConsoleTypeOK'
  BY <1>1 DEF ConsoleIInv, ConsoleTypeOK, ServerRecords
<1>3. Requested(request)' /\ Requested(draining)'
  BY <1>1 DEF ConsoleIInv, Requested, Spawned
<1>4. \A j \in Sessions : SlotsTaken(j)'
  BY <1>1 DEF ConsoleIInv, SlotsTaken
<1> QED BY <1>2, <1>3, <1>4 DEF ConsoleIInv

\* The servers stay as they are.
LEMMA ArmedStays ==
    ASSUME ConsoleIInv, UNCHANGED <<session, server>>
    PROVE  \A s \in Sids : Armed(s)'
BY DEF ConsoleIInv, Armed, Spawned

\* The poll takes the requests there are into its snapshot, or dies over it.
LEMMA DrainRequestsKeeps == ASSUME ConsoleIInv, DrainRequests \/ DrainKilled PROVE ConsoleIInv'
<1>1. /\ request \in Seq(Sids \X Sessions) /\ draining \in Seq(Sids \X Sessions)
      /\ server \in [Sids -> ServerRecords] /\ drainKills \in 0..MaxDrainKills
  BY DEF ConsoleIInv, ConsoleTypeOK, ServerRecords
<1>2. CASE DrainRequests
  <2>1. /\ draining' = request /\ request' = <<>> /\ UNCHANGED <<session, opVars, server, drainKills>>
    BY <1>2 DEF DrainRequests
  <2>2. request' \in Seq(Sids \X Sessions) /\ DOMAIN request' = {}
    BY <2>1
  <2> QED BY <1>1, <2>1, <2>2, ArmedStays, RequestsMove
<1>3. CASE DrainKilled
  <2>1. /\ draining' = <<>> /\ UNCHANGED <<session, opVars, server, request>>
        /\ drainKills' \in 0..MaxDrainKills
    BY <1>1, <1>3, ConsoleBounds DEF DrainKilled
  <2>2. draining' \in Seq(Sids \X Sessions) /\ DOMAIN draining' = {}
    BY <2>1
  <2> QED BY <1>1, <2>1, <2>2, ArmedStays, RequestsMove
<1> QED BY <1>2, <1>3

\* A server is started for the next request, unless one still runs for its session.
LEMMA ArmKeeps == ASSUME ConsoleIInv, Arm PROVE ConsoleIInv'
<1> DEFINE sid == draining[1][1]
           i == draining[1][2]
           armed == [NoServer EXCEPT !.phase = "listen", !.nonce = i]
<1>1. /\ request \in Seq(Sids \X Sessions) /\ draining \in Seq(Sids \X Sessions)
      /\ server \in [Sids -> ServerRecords] /\ drainKills \in 0..MaxDrainKills
  BY DEF ConsoleIInv, ConsoleTypeOK, ServerRecords
<1>2. /\ draining # <<>> /\ draining' = Tail(draining)
      /\ UNCHANGED <<session, opVars, request, drainKills>>
      /\ server' = server \/ server' = [server EXCEPT ![sid] = armed]
  BY DEF Arm
<1>3. 1 \in DOMAIN draining /\ sid \in Sids /\ i \in Sessions /\ Spawned(i, sid)
  <2>1. 1 \in DOMAIN draining /\ draining[1] \in Sids \X Sessions
    BY <1>1, <1>2
  <2> QED BY <2>1 DEF ConsoleIInv, Requested
<1>4. /\ draining' \in Seq(Sids \X Sessions)
      /\ \A k \in DOMAIN draining' : \E l \in DOMAIN draining : draining'[k] = draining[l]
  <2>1. /\ Len(draining) \in Nat \ {0} /\ DOMAIN draining = 1..Len(draining)
        /\ Tail(draining) \in Seq(Sids \X Sessions) /\ Len(Tail(draining)) = Len(draining) - 1
        /\ \A k \in 1..(Len(draining) - 1) : Tail(draining)[k] = draining[k + 1]
    BY <1>1, <1>2
  <2>2. DOMAIN Tail(draining) = 1..(Len(draining) - 1)
    BY <2>1
  <2>3. \A k \in 1..(Len(draining) - 1) : k + 1 \in 1..Len(draining)
    BY <2>1
  <2> QED BY <1>2, <2>1, <2>2, <2>3
<1>5. armed \in ServerRecords /\ armed.phase = "listen" /\ armed.nonce = i
  <2>1. i \in 0..MaxSessions /\ 0 \in 0..MaxSessions /\ <<>> \in Seq(Sessions)
    BY <1>3, ConsoleBounds DEF Sessions
  <2> HIDE DEF i
  <2> QED BY <2>1 DEF NoServer, Nobody, ServerRecords
<1> HIDE DEF sid, i, armed
<1>6. server' \in [Sids -> ServerRecords]
  BY <1>1, <1>2, <1>3, <1>5
<1>7. ASSUME NEW s \in Sids PROVE Armed(s)'
  <2>1. Armed(s) /\ session' = session
    BY <1>2 DEF ConsoleIInv
  <2>2. server'[s] = server[s] \/ (s = sid /\ server'[s] = armed)
    BY <1>1, <1>2, <1>3
  <2>3. CASE server'[s] = server[s]
    BY <2>1, <2>3 DEF Armed, Spawned
  <2>4. CASE s = sid /\ server'[s] = armed
    BY <1>3, <1>5, <2>1, <2>4 DEF Armed, Spawned
  <2> QED BY <2>2, <2>3, <2>4
<1>8. \A k \in DOMAIN request' : \E l \in DOMAIN request : request'[k] = request[l]
  BY <1>2
<1> QED BY <1>1, <1>2, <1>4, <1>6, <1>7, <1>8, RequestsMove

\* One server moves: it ends, or goes on for the process it was armed for.
LEMMA ServerMoves ==
    ASSUME ConsoleIInv, NEW s \in Sids, NEW r \in ServerRecords,
           server' = [server EXCEPT ![s] = r],
           r.phase # "none" =>
               /\ server[s].phase # "none" /\ r.nonce = server[s].nonce
               /\ r.phase \in {"shell", "exited"} => r.client = r.nonce,
           UNCHANGED <<session, opVars, request, draining, drainKills>>
    PROVE  ConsoleIInv'
<1>1. /\ request \in Seq(Sids \X Sessions) /\ draining \in Seq(Sids \X Sessions)
      /\ server \in [Sids -> ServerRecords] /\ drainKills \in 0..MaxDrainKills
  BY DEF ConsoleIInv, ConsoleTypeOK, ServerRecords
<1>2. server' \in [Sids -> ServerRecords] /\ server'[s] = r
      /\ \A t \in Sids : t # s => server'[t] = server[t]
  BY <1>1
<1>3. ASSUME NEW t \in Sids PROVE Armed(t)'
  <2>1. Armed(t) /\ session' = session
    BY DEF ConsoleIInv
  <2>2. CASE t = s
    BY <1>2, <2>1, <2>2 DEF Armed, Spawned
  <2>3. CASE t # s
    BY <1>2, <2>1, <2>3 DEF Armed, Spawned
  <2> QED BY <2>2, <2>3
<1>4. (\A k \in DOMAIN request' : \E l \in DOMAIN request : request'[k] = request[l])
      /\ (\A k \in DOMAIN draining' : \E l \in DOMAIN draining : draining'[k] = draining[l])
  OBVIOUS
<1> QED BY <1>1, <1>2, <1>3, <1>4, RequestsMove

\* A client is accepted, and shows the nonce or is refused; its shell exits, and its
\* server ends.
LEMMA ServerKeeps ==
    ASSUME ConsoleIInv, NEW s \in Sids,
           Accept(s) \/ NobodyCame(s) \/ Hello(s) \/ ShellExits(s) \/ Teardown(s)
    PROVE  ConsoleIInv'
<1>1. /\ server \in [Sids -> ServerRecords] /\ server[s] \in ServerRecords
      /\ UNCHANGED <<session, opVars, request, draining, drainKills>>
  <2>1. server \in [Sids -> ServerRecords]
    BY DEF ConsoleIInv, ConsoleTypeOK, ServerRecords
  <2> QED BY <2>1 DEF Accept, NobodyCame, Hello, ShellExits, Teardown, Server
<1>2. NoServer \in ServerRecords /\ NoServer.phase = "none"
  BY ConsoleBounds DEF NoServer, Nobody, ServerRecords
<1>3. CASE server' = [server EXCEPT ![s] = NoServer]
  BY <1>1, <1>2, <1>3, ServerMoves
<1>4. CASE Accept(s)
  <2> DEFINE r == [server[s] EXCEPT !.phase = "hello", !.client = Head(server[s].backlog),
                                    !.backlog = Tail(server[s].backlog)]
  <2>1. /\ server[s].phase = "listen" /\ server[s].backlog # <<>>
        /\ server[s].backlog \in Seq(Sessions)
    BY <1>1, <1>4 DEF Accept, Server, ServerRecords
  <2>2. Head(server[s].backlog) \in Sessions /\ Tail(server[s].backlog) \in Seq(Sessions)
    BY <2>1
  <2>3. Head(server[s].backlog) \in 0..MaxSessions
    BY <2>2, ConsoleBounds DEF Sessions
  <2>4. r \in ServerRecords /\ r.phase = "hello" /\ r.nonce = server[s].nonce
    BY <1>1, <2>2, <2>3 DEF ServerRecords
  <2>5. server' = [server EXCEPT ![s] = r]
    BY <1>1, <1>4 DEF Accept, ServerRecords
  <2> HIDE DEF r
  <2> QED BY <1>1, <2>1, <2>4, <2>5, ServerMoves
<1>5. CASE Hello(s) /\ server[s].client = server[s].nonce
  <2> DEFINE r == [server[s] EXCEPT !.phase = "shell"]
  <2>1. server[s].phase = "hello" /\ server' = [server EXCEPT ![s] = r]
    BY <1>1, <1>5 DEF Hello, Server, Serving, ServerRecords
  <2>2. r \in ServerRecords /\ r.nonce = server[s].nonce /\ r.client = server[s].client
    BY <1>1 DEF ServerRecords
  <2> HIDE DEF r
  <2> QED BY <1>1, <1>5, <2>1, <2>2, ServerMoves
<1>6. CASE ShellExits(s)
  <2> DEFINE r == [server[s] EXCEPT !.phase = "exited"]
  <2>1. server[s].phase = "shell" /\ server' = [server EXCEPT ![s] = r]
    BY <1>1, <1>6 DEF ShellExits, Server, Serving, ServerRecords
  <2>2. r \in ServerRecords /\ r.nonce = server[s].nonce /\ r.client = server[s].client
    BY <1>1 DEF ServerRecords
  <2>3. server[s].client = server[s].nonce
    BY <2>1 DEF ConsoleIInv, Armed
  <2> HIDE DEF r
  <2> QED BY <1>1, <2>1, <2>2, <2>3, ServerMoves
<1> QED BY <1>3, <1>4, <1>5, <1>6 DEF NobodyCame, Hello, Teardown

\* A session process goes from dialling to its end.
LEMMA SessionStepKeeps ==
    ASSUME ConsoleIInv, NEW i \in Sessions, SessionStep(i) PROVE ConsoleIInv'
<1>1. CASE Dial(i)
  <2>1. PICK ph \in {"attach", "serve", "ended"} : Goes(i, ph)
    BY <1>1 DEF Dial
  <2>2. session[i].phase # "none" /\ UNCHANGED <<opVars, request, draining, drainKills, server>>
    BY <1>1 DEF Dial, hostVars
  <2> QED BY <2>1, <2>2, SessionMoves DEF Phases
<1>2. CASE BridgeConnects(i)
  BY <1>2, SessionMoves DEF BridgeConnects, Phases
<1>3. CASE BridgeGivesUp(i) \/ BridgeEnds(i)
  <2>1. /\ session[i].phase # "none" /\ Goes(i, "ended")
        /\ UNCHANGED <<opVars, request, draining, drainKills, server>>
    BY <1>3 DEF BridgeGivesUp, BridgeEnds, hostVars
  <2> QED BY <2>1, SessionMoves DEF Phases
<1>4. CASE SessionEnds(i)
  BY <1>4, SessionEndsKeeps
<1> QED BY <1>1, <1>2, <1>3, <1>4 DEF SessionStep

\* Every step of sessions, polls and servers keeps shells with their sessions.
LEMMA StepConsole == ConsoleIInv /\ [ConsoleNext]_consoleVars => ConsoleIInv'
<1> SUFFICES ASSUME ConsoleIInv, [ConsoleNext]_consoleVars PROVE ConsoleIInv'
  OBVIOUS
<1>1. ASSUME NEW i \in Sessions, NEW sid \in Sids, NEW mode \in {"restricted", "full"},
             SpawnSession(i, sid, mode)
      PROVE  ConsoleIInv'
  BY <1>1, SpawnKeeps
<1>2. ASSUME NEW i \in Sessions, SessionStep(i) PROVE ConsoleIInv'
  BY <1>2, SessionStepKeeps
<1>3. ASSUME NEW i \in Sessions, NEW o \in LiveOps, RunOp(i, o) \/ OpEnds(i, o) PROVE ConsoleIInv'
  BY <1>3, RunOpKeeps, OpEndsKeeps
<1>4. CASE HostStep
  BY <1>4, DrainRequestsKeeps, ArmKeeps, ServerKeeps DEF HostStep
<1>5. CASE UNCHANGED consoleVars
  <2> USE <1>5 DEF consoleVars
  <2>1. ConsoleTypeOK'
    BY DEF ConsoleIInv, ConsoleTypeOK
  <2>2. Requested(request)' /\ Requested(draining)'
    BY DEF ConsoleIInv, Requested, Spawned
  <2>3. \A s \in Sids : Armed(s)'
    BY ArmedStays
  <2>4. \A j \in Sessions : SlotsTaken(j)'
    BY DEF ConsoleIInv, SlotsTaken
  <2> QED BY <2>1, <2>2, <2>3, <2>4 DEF ConsoleIInv
<1> QED BY <1>1, <1>2, <1>3, <1>4, <1>5 DEF ConsoleNext

\* A shell of the host is in the hands of the very process it was armed for, one spawned
\* in full mode for that session, however requests, polls, servers and clients of the
\* same session overlap; and in restricted mode no operation runs twice at once, nor
\* more of them than there are slots.
THEOREM ConsoleIsSound == ConsoleSpec => []ConsoleSound
<1>1. ConsoleIInv => ConsoleSound
  <2> SUFFICES ASSUME ConsoleIInv PROVE ConsoleSound
    OBVIOUS
  <2>1. ShellAuthorised
    BY DEF ConsoleIInv, Armed, Spawned, ShellAuthorised
  <2>2. OpsBounded
    <3>1. ASSUME NEW i \in Sessions
          PROVE  {o \in LiveOps : workers[i][o] > 0} = opsRunning[i]
      BY DEF ConsoleIInv, ConsoleTypeOK, SlotsTaken
    <3>2. ASSUME NEW i \in Sessions
          PROVE  Cardinality({o \in LiveOps : workers[i][o] > 0}) <= MaxOps
      <4>1. Cardinality({o \in LiveOps : workers[i][o] > 0}) = Cardinality(opsRunning[i])
        BY <3>1, Zenon
      <4> QED BY <4>1 DEF ConsoleIInv, SlotsTaken
    <3> QED BY <3>2 DEF ConsoleIInv, SlotsTaken, OpsBounded
  <2> QED BY <2>1, <2>2 DEF ConsoleIInv, ConsoleSound
<1> QED BY <1>1, InitConsole, StepConsole, PTL DEF ConsoleSpec

----------------------------------------------------------------------------
(* The credential.                                                         *)

\* Where a token comes from: a box enrols when it has none, presents the one it has,
\* and deletes none that is pinned.
Bearers ==
    /\ minted >= 1
    /\ phase \in {"enrol", "store"} => pinned = 0 /\ tokenFile = 0
    /\ phase = "store" => bearer # 0
    /\ phase \in {"checkin", "strike"} /\ pinned = 0 /\ tokenFile # 0 => bearer = tokenFile
    /\ phase = "clear" => pinned = 0

\* While nothing was killed the count on file stands for refusals in a row.
Row ==
    enrolKills = 0 =>
        /\ phase = "clear" => refusals >= ClearThreshold
        /\ phase \notin {"forgive", "reset"} =>
              \/ refusals >= ClearThreshold
              \/ refusals >= strikes + (IF phase = "strike" THEN 1 ELSE 0)

\* And each strike against the token the dashboard honours, or against one that could
\* not be stored, cost a stray answer or a failed write.
Strays ==
    enrolKills = 0 /\ pinned = 0 =>
        /\ phase = "clear" => tokenFile # enrolled \/ tokenFile = 0 \/ blips >= ClearThreshold
        /\ phase \notin {"clear", "reset"} /\ (tokenFile = 0 \/ tokenFile = enrolled) =>
              blips >= strikes + (IF phase = "strike" \/ (phase = "checkin" /\ tokenFile = 0)
                                  THEN 1 ELSE 0)

EnrolIInv == EnrolTypeOK /\ Bearers /\ Row /\ Strays

\* The action property of LiveTokenKept.
ClearedForCause ==
    tokenFile # 0 /\ tokenFile' = 0 =>
        \/ enrolKills > 0
        \/ /\ pinned = 0 /\ refusals >= ClearThreshold
           /\ tokenFile # enrolled \/ blips >= ClearThreshold

\* No token, no strikes.
LEMMA InitEnrol == EnrolInit => EnrolIInv
BY EnrolBounds DEF EnrolInit, EnrolIInv, EnrolTypeOK, EnrolPhases, Bearers, Row, Strays

\* Every number of the credential, as the provers are to see it.
LEMMA EnrolNumbers ==
    ASSUME EnrolTypeOK
    PROVE  /\ minted \in Nat /\ enrolled \in Nat /\ tokenFile \in Nat /\ strikes \in Nat
           /\ bearer \in Nat /\ refusals \in Nat /\ blips \in Nat /\ enrolKills \in Nat
           /\ enrolled <= minted /\ tokenFile <= minted /\ bearer <= minted
           /\ strikes <= ClearThreshold /\ refusals <= ClearThreshold
           /\ ClearThreshold \in Nat \ {0} /\ EnrollBackoff \in Nat \ {0}
           /\ MaxBlips \in Nat /\ MaxEnrolKills \in Nat /\ MaxMeddles \in Nat
BY EnrolBounds DEF EnrolTypeOK

\* A check-in starts with the token on disk.
LEMMA StartCheckinKeeps == ASSUME EnrolIInv, StartCheckin PROVE EnrolIInv'
<1> USE DEF StartCheckin, CurrentToken
<1>1. EnrolTypeOK'
  BY EnrolNumbers DEF EnrolIInv, EnrolTypeOK, EnrolPhases, Bearers
<1>2. Bearers'
  BY EnrolNumbers DEF EnrolIInv, EnrolTypeOK, Bearers
<1>3. Row'
  BY EnrolNumbers DEF EnrolIInv, Row
<1>4. Strays'
  BY EnrolNumbers DEF EnrolIInv, Strays
<1> QED BY <1>1, <1>2, <1>3, <1>4 DEF EnrolIInv

\* An enrolment stores the token it got, or learns that it must wait.
LEMMA EnrolKeeps == ASSUME EnrolIInv, Enrol PROVE EnrolIInv'
<1> USE DEF Enrol, Issue, EndCheckin, Blip
<1>1. EnrolTypeOK'
  BY EnrolNumbers DEF EnrolIInv, EnrolTypeOK, EnrolPhases
<1>2. Bearers'
  BY EnrolNumbers DEF EnrolIInv, EnrolTypeOK, Bearers
<1>3. Row'
  BY EnrolNumbers DEF EnrolIInv, Row
<1>4. Strays'
  BY EnrolNumbers DEF EnrolIInv, Bearers, Strays
<1> QED BY <1>1, <1>2, <1>3, <1>4 DEF EnrolIInv

\* A token that could not be stored is refused at the price of the write that failed.
LEMMA StoreTokenKeeps == ASSUME EnrolIInv, StoreToken PROVE EnrolIInv'
<1> USE DEF StoreToken, Blip
<1>1. EnrolTypeOK'
  BY EnrolNumbers DEF EnrolIInv, EnrolTypeOK, EnrolPhases
<1>2. Bearers'
  BY EnrolNumbers DEF EnrolIInv, EnrolTypeOK, Bearers
<1>3. Row'
  BY EnrolNumbers DEF EnrolIInv, Row
<1>4. Strays'
  BY EnrolNumbers DEF EnrolIInv, Bearers, Strays
<1> QED BY <1>1, <1>2, <1>3, <1>4 DEF EnrolIInv

\* A refusal of the token a check-in carries.
LEMMA Answer401Keeps == ASSUME EnrolIInv, Answer401 PROVE EnrolIInv'
<1> USE DEF Answer401, Blip
<1>1. EnrolTypeOK'
  BY EnrolNumbers DEF EnrolIInv, EnrolTypeOK, EnrolPhases
<1>2. Bearers'
  BY EnrolNumbers DEF EnrolIInv, EnrolTypeOK, Bearers
<1>3. Row'
  BY EnrolNumbers DEF EnrolIInv, Row
<1>4. Strays'
  BY EnrolNumbers DEF EnrolIInv, Bearers, Strays
<1> QED BY <1>1, <1>2, <1>3, <1>4 DEF EnrolIInv

\* Any other answer, or none.
LEMMA AnswerOtherKeeps == ASSUME EnrolIInv, AnswerOther PROVE EnrolIInv'
<1> USE DEF AnswerOther, Blip
<1>1. EnrolTypeOK'
  BY EnrolNumbers DEF EnrolIInv, EnrolTypeOK, EnrolPhases
<1>2. Bearers'
  BY EnrolNumbers DEF EnrolIInv, EnrolTypeOK, Bearers
<1>3. Row' /\ Strays'
  BY EnrolNumbers DEF EnrolIInv, Row, Strays
<1> QED BY <1>1, <1>2, <1>3 DEF EnrolIInv

\* The count rises by the strike that was noted, or starts anew.
LEMMA StrikeKeeps == ASSUME EnrolIInv, Strike PROVE EnrolIInv'
<1> USE DEF Strike, EndCheckin
<1>1. EnrolTypeOK'
  BY EnrolNumbers DEF EnrolIInv, EnrolTypeOK, EnrolPhases
<1>2. Bearers'
  BY EnrolNumbers DEF EnrolIInv, EnrolTypeOK, Bearers
<1>3. Row'
  BY EnrolNumbers DEF EnrolIInv, Row
<1>4. Strays'
  BY EnrolNumbers DEF EnrolIInv, Bearers, Strays
<1> QED BY <1>1, <1>2, <1>3, <1>4 DEF EnrolIInv

\* The strikes on disk are forgiven, or go with the token they condemned.
LEMMA CountEndsKeeps ==
    ASSUME EnrolIInv, Forgive \/ ClearToken \/ ResetStrikes PROVE EnrolIInv'
<1> USE DEF Forgive, ClearToken, ResetStrikes, EndCheckin
<1>1. EnrolTypeOK'
  BY EnrolNumbers DEF EnrolIInv, EnrolTypeOK, EnrolPhases
<1>2. Bearers'
  BY EnrolNumbers DEF EnrolIInv, EnrolTypeOK, Bearers
<1>3. Row'
  BY EnrolNumbers DEF EnrolIInv, Row
<1>4. Strays'
  BY EnrolNumbers DEF EnrolIInv, Strays
<1> QED BY <1>1, <1>2, <1>3, <1>4 DEF EnrolIInv

\* What happens to a box: a kill, time, and what the dashboard's administrator does.
LEMMA EnrolOutsideKeeps ==
    ASSUME EnrolIInv, EnrolKilled \/ HoldPasses \/ AdminClears \/ AdminMeddles PROVE EnrolIInv'
<1> USE DEF EnrolKilled, HoldPasses, AdminClears, AdminMeddles, EndCheckin
<1>1. EnrolTypeOK'
  BY EnrolNumbers DEF EnrolIInv, EnrolTypeOK, EnrolPhases
<1>2. Bearers'
  BY EnrolNumbers DEF EnrolIInv, EnrolTypeOK, Bearers
<1>3. Row'
  BY EnrolNumbers DEF EnrolIInv, Row
<1>4. Strays'
  BY EnrolNumbers DEF EnrolIInv, Strays
<1> QED BY <1>1, <1>2, <1>3, <1>4 DEF EnrolIInv

\* Every step of check-in, dashboard and administrator keeps the strikes with the refusals of the stored token.
LEMMA StepEnrol == EnrolIInv /\ [EnrolNext]_enrolVars => EnrolIInv'
<1> SUFFICES ASSUME EnrolIInv, [EnrolNext]_enrolVars PROVE EnrolIInv'
  OBVIOUS
<1>1. CASE EnrolNext
  BY <1>1, StartCheckinKeeps, EnrolKeeps, StoreTokenKeeps, Answer401Keeps, AnswerOtherKeeps,
     StrikeKeeps, CountEndsKeeps, EnrolOutsideKeeps DEF EnrolNext, EnrolSteps
<1>2. CASE UNCHANGED enrolVars
  BY <1>2 DEF enrolVars, EnrolIInv, EnrolTypeOK, Bearers, Row, Strays
<1> QED BY <1>1, <1>2

\* Only ClearToken removes a token that is stored.
LEMMA StepCleared == EnrolIInv /\ [EnrolNext]_enrolVars => ClearedForCause
<1> SUFFICES ASSUME EnrolIInv, [EnrolNext]_enrolVars, tokenFile # 0, tokenFile' = 0
             PROVE  ClearedForCause
  BY DEF ClearedForCause
<1>1. ClearToken
  <2>1. tokenFile' # tokenFile
    OBVIOUS
  <2>2. ~StoreToken
    BY DEF StoreToken, EnrolIInv, Bearers
  <2> QED BY <2>1, <2>2 DEF EnrolNext, EnrolSteps, enrolVars, StartCheckin, Enrol, Answer401,
                 AnswerOther, Forgive, Strike, ResetStrikes, EnrolKilled, HoldPasses, AdminClears,
                 AdminMeddles
<1> QED BY <1>1, EnrolNumbers DEF ClearToken, EnrolIInv, Bearers, Row, Strays, ClearedForCause

\* A stored token is deleted only after the threshold of refusals in a row; and one the
\* dashboard still honours only if as many answers were strays or writes failed, unless
\* a check-in was killed: a refusal of an earlier token, or before a check-in that was
\* not refused, never counts.
THEOREM TokenIsKept == EnrolSpec => LiveTokenKept
<1>1. EnrolIInv => EnrolTypeOK
  BY DEF EnrolIInv
<1>2. EnrolSpec => []EnrolTypeOK /\ [][ClearedForCause]_enrolVars
  BY <1>1, InitEnrol, StepEnrol, StepCleared, PTL DEF EnrolSpec
<1> QED BY <1>2, PTL DEF LiveTokenKept, ClearedForCause

----------------------------------------------------------------------------
(* The spool of results.  At any time a result is in one place only, a     *)
(* process or one file, once; while it may be sent again from there, each  *)
(* time it has arrived already was paid for by a fault.                    *)

Draining == at["checkin"] \in {"send", "rewrite"}
Distinct(s) == \A k, l \in DOMAIN s : s[k] = s[l] => k = l

\* Where a result can be: in a file, in the file being drained, in a process.
InFile(i, n) == n \in DOMAIN spool /\ i \in ToSet(spool[n])
InDoc(i) == Draining /\ i \in ToSet(doc)
InHand(i, p) == i \in ToSet(held[p])

\* The steps of each process, and what it holds at them.
Steps ==
    /\ at["poll"] \in {"idle", "post", "evict", "write"}
    /\ \A p \in Posters :
          /\ held[p] # <<>> <=> at[p] \in {"post", "evict", "write"}
          /\ at[p] = "post" => Len(held[p]) = 1
    /\ Draining => todo # <<>>
    /\ at["checkin"] = "rewrite" => sent

Items == 1..MaxItems

\* Every file is named after a result at the latest measured, and named but once.
NamesPaid ==
    /\ \A n \in DOMAIN spool : n < clock
    /\ \A k \in DOMAIN todo : todo[k] < clock
    /\ clock + (IF held["checkin"] = <<>> THEN 0 ELSE 1) + (IF held["poll"] = <<>> THEN 0 ELSE 1)
          <= items + 1

\* A file, a process and the drain name a result but once.
NoRepeats ==
    /\ \A n \in DOMAIN spool : Distinct(spool[n])
    /\ \A p \in Posters : Distinct(held[p])
    /\ Draining => Distinct(doc)

\* A result is in one place.
OnePlace ==
    \A i \in Items :
        /\ \A n, m \in Items : InFile(i, n) /\ InFile(i, m) => n = m
        /\ \A p, q \in Posters : InHand(i, p) /\ InHand(i, q) => p = q
        /\ \A n \in Items, p \in Posters : ~(InFile(i, n) /\ InHand(i, p))
        /\ \A p \in Posters : ~(InDoc(i) /\ InHand(i, p))
        /\ \A n \in Items : InDoc(i) /\ InFile(i, n) => n = todo[1]
        /\ (\E n \in Items : InFile(i, n)) \/ InDoc(i) \/ (\E p \in Posters : InHand(i, p))
               => i <= items

\* What the drain has not left to send of its file has arrived, and of a file it has
\* delivered nothing of all is left.
DocLeft ==
    Draining =>
        \A i, n \in Items : InFile(i, n) /\ n = todo[1] =>
            /\ InDoc(i) \/ arrivals[i] > 0
            /\ ~sent => InDoc(i)

\* A result that may be sent again was paid for each time it arrived.
Pending(i) ==
    \/ \E p \in Posters : InHand(i, p)
    \/ InDoc(i)
    \/ \E n \in Items : InFile(i, n) /\ ~(Draining /\ n = todo[1])
PaidFor ==
    \A i \in Items :
        /\ arrivals[i] <= 1 + spoolFaults
        /\ Pending(i) => arrivals[i] <= spoolFaults
        /\ i > items => arrivals[i] = 0

Accounted(i) ==
    \/ arrivals[i] > 0 \/ i \in evicted \/ i \in lost
    \/ \E n \in Items : InFile(i, n)
    \/ \E p \in Posters : InHand(i, p)
AllAccounted == \A i \in Items : i <= items => Accounted(i)

\* Room was made for the file of each process that is about to write one; a file that
\* was removed while it was drained may come back.
One(P) == IF P THEN 1 ELSE 0
RoomMade ==
    Cardinality(DOMAIN spool) + One(at["checkin"] = "write") + One(at["poll"] = "write")
        + One(Draining /\ todo[1] \notin DOMAIN spool) <= SpoolMax + 1

Book == OnePlace /\ DocLeft /\ PaidFor /\ AllAccounted

\* The inductive invariant.
SpoolInv == SpoolTypeOK /\ Steps /\ NamesPaid /\ NoRepeats /\ Book /\ RoomMade

----------------------------------------------------------------------------
(* Facts about sequences, files and rooms.                                 *)

\* The first element of a sequence and the others.
LEMMA TailFacts ==
    ASSUME NEW S, NEW s \in Seq(S), s # <<>>
    PROVE  /\ s[1] \in S /\ Tail(s) \in Seq(S)
           /\ \A k \in DOMAIN Tail(s) : \E j \in DOMAIN s : Tail(s)[k] = s[j]
           /\ ToSet(s) = {s[1]} \cup ToSet(Tail(s))
           /\ Distinct(s) => Distinct(Tail(s)) /\ s[1] \notin ToSet(Tail(s))
<1>1. /\ Len(s) \in Nat \ {0} /\ DOMAIN s = 1..Len(s) /\ s[1] \in S
      /\ Tail(s) \in Seq(S) /\ Len(Tail(s)) = Len(s) - 1
      /\ \A k \in 1..(Len(s) - 1) : Tail(s)[k] = s[k + 1]
  OBVIOUS
<1>2. DOMAIN Tail(s) = 1..(Len(s) - 1)
  BY <1>1
<1>3. ToSet(s) = {s[1]} \cup ToSet(Tail(s))
  <2>1. ASSUME NEW k \in 1..Len(s) PROVE s[k] \in {s[1]} \cup ToSet(Tail(s))
    <3>1. CASE k = 1
      BY <3>1
    <3>2. CASE k # 1
      <4>1. k - 1 \in 1..(Len(s) - 1) /\ Tail(s)[k - 1] = s[k]
        BY <1>1, <3>2
      <4> QED BY <1>2, <4>1 DEF ToSet
    <3> QED BY <3>1, <3>2
  <2>2. ASSUME NEW k \in 1..(Len(s) - 1) PROVE Tail(s)[k] \in ToSet(s)
    BY <1>1 DEF ToSet
  <2>3. s[1] \in ToSet(s)
    BY <1>1 DEF ToSet
  <2> QED BY <1>1, <1>2, <2>1, <2>2, <2>3 DEF ToSet
<1>4. ASSUME Distinct(s) PROVE Distinct(Tail(s)) /\ s[1] \notin ToSet(Tail(s))
  BY <1>1, <1>2, <1>4 DEF Distinct, ToSet
<1>5. \A k \in DOMAIN Tail(s) : \E j \in DOMAIN s : Tail(s)[k] = s[j]
  BY <1>1, <1>2
<1> QED BY <1>1, <1>3, <1>4, <1>5

\* The files can be counted.
LEMMA SpoolFinite ==
    ASSUME SpoolTypeOK
    PROVE  IsFiniteSet(DOMAIN spool) /\ Cardinality(DOMAIN spool) \in Nat
<1>1. IsFiniteSet(1..MaxItems)
  BY SpoolBounds, FS_Interval
<1>2. IsFiniteSet(DOMAIN spool)
  BY <1>1, FS_Subset DEF SpoolTypeOK
<1> QED BY <1>2, FS_CardinalityType

----------------------------------------------------------------------------
(* Steps that move no result.                                              *)

\* At the start there is no result and no file.
LEMMA SpoolStarts == SpoolInit => SpoolInv
<1> SUFFICES ASSUME SpoolInit PROVE SpoolInv
  OBVIOUS
<1> USE SpoolBounds DEF SpoolInit, Posters
<1>1. SpoolTypeOK
  <2>1. DOMAIN spool = {} /\ held \in [Posters -> Seq(1..MaxItems)]
    OBVIOUS
  <2>2. /\ items \in 0..MaxItems /\ clock \in 1..(MaxItems + 1) /\ budget \in 0..DrainPayloads
        /\ arrivals \in [1..MaxItems -> Nat] /\ outages \in 0..MaxOutages
        /\ spoolFaults \in 0..MaxSpoolFaults
    OBVIOUS
  <2> QED BY <2>1, <2>2 DEF SpoolTypeOK
<1>2. Steps /\ NamesPaid /\ NoRepeats
  BY DEF Steps, NamesPaid, NoRepeats, Draining, Distinct
<1>3. \A i \in Items : ~InDoc(i) /\ (\A n \in Items : ~InFile(i, n)) /\ \A p \in Posters : ~InHand(i, p)
  BY DEF Items, InDoc, Draining, InFile, InHand, ToSet
<1>4. Book
  BY <1>3 DEF Book, OnePlace, DocLeft, Draining, PaidFor, Pending, AllAccounted, Items
<1>5. RoomMade
  <2>1. Cardinality(DOMAIN spool) = 0
    BY FS_EmptySet
  <2> QED BY <2>1 DEF RoomMade, One, Draining
<1> QED BY <1>1, <1>2, <1>4, <1>5 DEF SpoolInv

\* Where everything stays while the drain is between files.
LEMMA BookRests ==
    ASSUME SpoolInv, ~Draining, ~Draining',
           UNCHANGED <<items, spool, held, arrivals, evicted, lost, spoolFaults>>,
           at'["poll"] = at["poll"], at'["checkin"] # "write"
    PROVE  NoRepeats' /\ Book' /\ RoomMade'
<1>1. \A i, n \in Items : InFile(i, n)' = InFile(i, n)
  BY DEF InFile
<1>2. \A i \in Items : ~InDoc(i)' /\ ~InDoc(i)
  BY DEF InDoc
<1>3. \A i \in Items, p \in Posters : InHand(i, p)' = InHand(i, p)
  BY DEF InHand
<1>4. OnePlace' /\ DocLeft'
  BY <1>1, <1>2, <1>3 DEF SpoolInv, Book, OnePlace, DocLeft
<1>5. PaidFor' /\ AllAccounted'
  BY <1>1, <1>2, <1>3 DEF SpoolInv, Book, PaidFor, Pending, AllAccounted, Accounted
<1>6. NoRepeats'
  BY DEF SpoolInv, NoRepeats, Distinct
<1>7. RoomMade'
  <2>1. Cardinality(DOMAIN spool) \in Nat
    BY SpoolFinite DEF SpoolInv
  <2>2. One(Draining /\ todo[1] \notin DOMAIN spool) = 0
        /\ One(Draining /\ todo[1] \notin DOMAIN spool)' = 0
    BY DEF One
  <2>3. /\ One(at["checkin"] = "write") \in {0, 1} /\ One(at["checkin"] = "write")' = 0
        /\ One(at["poll"] = "write") \in {0, 1}
        /\ One(at["poll"] = "write")' = One(at["poll"] = "write")
    BY DEF One
  <2>4. Cardinality(DOMAIN spool') = Cardinality(DOMAIN spool)
    OBVIOUS
  <2> QED BY <2>1, <2>2, <2>3, <2>4, SpoolBounds DEF SpoolInv, RoomMade
<1> QED BY <1>4, <1>5, <1>6, <1>7 DEF Book

\* The dashboard goes and comes.
LEMMA AllRests ==
    ASSUME SpoolInv, UNCHANGED <<items, spool, clock, at, held, drainVars, arrivals, evicted, lost,
                             spoolFaults>>,
           up' \in BOOLEAN, outages' \in 0..MaxOutages
    PROVE  SpoolInv'
<1> USE DEF drainVars
<1>1. SpoolTypeOK' /\ Steps' /\ NamesPaid'
  <2>1. SpoolTypeOK'
    BY DEF SpoolInv, SpoolTypeOK
  <2>2. Steps' /\ NamesPaid'
    BY DEF SpoolInv, Steps, NamesPaid, Draining
  <2> QED BY <2>1, <2>2
<1>2. \A i, n \in Items : InFile(i, n)' = InFile(i, n)
  BY DEF InFile
<1>3. \A i \in Items : InDoc(i)' = InDoc(i)
  BY DEF InDoc, Draining
<1>4. \A i \in Items, p \in Posters : InHand(i, p)' = InHand(i, p)
  BY DEF InHand
<1>5. Draining' = Draining
  BY DEF Draining
<1>6. OnePlace' /\ DocLeft'
  <2>1. OnePlace'
    BY <1>2, <1>3, <1>4 DEF SpoolInv, Book, OnePlace
  <2>2. DocLeft'
    BY <1>2, <1>3, <1>5 DEF SpoolInv, Book, DocLeft
  <2> QED BY <2>1, <2>2
<1>7. PaidFor' /\ AllAccounted'
  BY <1>2, <1>3, <1>4, <1>5 DEF SpoolInv, Book, PaidFor, Pending, AllAccounted, Accounted
<1>8. NoRepeats' /\ RoomMade'
  BY <1>5 DEF SpoolInv, NoRepeats, Distinct, RoomMade
<1> QED BY <1>1, <1>6, <1>7, <1>8 DEF SpoolInv, Book

\* The dashboard goes out of reach.
LEMMA GoesDownKeeps == ASSUME SpoolInv, GoesDown PROVE SpoolInv'
<1>1. up' \in BOOLEAN /\ outages' \in 0..MaxOutages
  <2>1. outages' \in 0..MaxOutages
    BY SpoolBounds DEF GoesDown, SpoolInv, SpoolTypeOK
  <2>2. up' \in BOOLEAN
    BY Zenon DEF GoesDown
  <2> QED BY <2>1, <2>2
<1> QED BY <1>1, AllRests DEF GoesDown

\* The dashboard can be reached again.
LEMMA ComesBackKeeps == ASSUME SpoolInv, ComesBack PROVE SpoolInv'
BY AllRests DEF ComesBack, SpoolInv, SpoolTypeOK

\* A drain lists the oldest files, as many as it may.
LEMMA DrainStartsKeeps == ASSUME SpoolInv, DrainStarts PROVE SpoolInv'
<1> USE SpoolBounds DEF DrainStarts, Posters
<1>1. PICK s \in Names : todo' = IF Len(s) > DrainFiles THEN SubSeq(s, 1, DrainFiles) ELSE s
  OBVIOUS
<1>2. s \in Seq(DOMAIN spool)
  <2>1. Cardinality(DOMAIN spool) \in Nat
    BY SpoolFinite DEF SpoolInv
  <2> QED BY <1>1, <2>1 DEF Names
<1>3. todo' \in Seq(DOMAIN spool)
  <2>1. CASE Len(s) > DrainFiles
    <3>1. DrainFiles \in Nat /\ DrainFiles <= Len(s)
      BY <1>2, <2>1
    <3>2. \A k \in 1..DrainFiles : s[k] \in DOMAIN spool
      BY <1>2, <3>1
    <3>3. SubSeq(s, 1, DrainFiles) \in Seq(DOMAIN spool)
      BY <1>2, <3>1, <3>2, SubSeqProperties
    <3> QED BY <1>1, <2>1, <3>3
  <2>2. CASE ~(Len(s) > DrainFiles)
    BY <1>1, <1>2, <2>2
  <2> QED BY <2>1, <2>2
<1>4. /\ at["checkin"] = "idle" /\ at'["checkin"] = "read" /\ at'["poll"] = at["poll"]
      /\ ~Draining /\ ~Draining'
  BY DEF SpoolInv, SpoolTypeOK, Draining
<1>5. SpoolTypeOK'
  <2>1. todo' \in Seq(1..MaxItems)
    BY <1>3 DEF SpoolInv, SpoolTypeOK
  <2>2. at' \in [Posters -> {"idle", "post", "evict", "write", "read", "send", "rewrite"}]
        /\ budget' \in 0..DrainPayloads
    BY DEF SpoolInv, SpoolTypeOK
  <2> QED BY <2>1, <2>2 DEF SpoolInv, SpoolTypeOK
<1>6. Steps'
  BY <1>4 DEF SpoolInv, Steps
<1>7. NamesPaid'
  <2>1. \A k \in DOMAIN todo' : todo'[k] \in DOMAIN spool
    BY <1>3, ElementIn
  <2>2. \A k \in DOMAIN todo' : todo'[k] < clock
    BY <2>1 DEF SpoolInv, NamesPaid
  <2>3. UNCHANGED <<spool, clock, held, items>>
    OBVIOUS
  <2> QED BY <2>2, <2>3 DEF SpoolInv, NamesPaid
<1> QED BY <1>4, <1>5, <1>6, <1>7, BookRests DEF SpoolInv

----------------------------------------------------------------------------
(* Steps of a process with results in its hand.                            *)

\* Where nothing new is anywhere, everything still has one place.
LEMMA Shrinks ==
    ASSUME OnePlace, items' = items,
           \A i, n \in Items : InFile(i, n)' => InFile(i, n),
           \A i \in Items : InDoc(i)' => InDoc(i) /\ todo'[1] = todo[1],
           \A i \in Items, q \in Posters : InHand(i, q)' => InHand(i, q)
    PROVE  OnePlace'
BY DEF OnePlace

\* What a process has at hand when it is at work.
LEMMA HandFacts ==
    ASSUME SpoolInv, NEW p \in Posters
    PROVE  /\ held[p] \in Seq(Items) /\ DOMAIN held = Posters /\ DOMAIN at = Posters
           /\ at[p] \in {"post", "evict", "write"} => held[p] # <<>>
           /\ at[p] = "idle" => held[p] = <<>>
           /\ \A i \in ToSet(held[p]) : i \in Items
BY SetType DEF SpoolInv, SpoolTypeOK, Steps, Items

\* A result that is posted is the only one in its process' hand.
LEMMA PostedFacts ==
    ASSUME SpoolInv, NEW p \in Posters, at[p] = "post"
    PROVE  /\ held[p][1] \in Items
           /\ \A i : InHand(i, p) <=> i = held[p][1]
<1>1. held[p] \in Seq(Items) /\ Len(held[p]) = 1
  BY HandFacts DEF SpoolInv, Steps
<1>2. DOMAIN held[p] = {1} /\ held[p][1] \in Items
  BY <1>1
<1> QED BY <1>2 DEF InHand, ToSet

\* A post that is answered puts the result with the dashboard and out of hand.
LEMMA PostAcceptedKeeps ==
    ASSUME SpoolInv, NEW p \in Posters, PostResult(p),
           Accepted(held[p][1]), at' = [at EXCEPT ![p] = "idle"],
           held' = [held EXCEPT ![p] = <<>>]
    PROVE  SpoolInv'
<1> DEFINE x == held[p][1]
<1>1. /\ at[p] = "post" /\ at'[p] = "idle" /\ held'[p] = <<>>
      /\ \A q \in Posters : q # p => at'[q] = at[q] /\ held'[q] = held[q]
      /\ UNCHANGED <<items, spool, clock, todo, doc, sent, evicted, lost, spoolFaults>>
  BY HandFacts DEF PostResult, Accepted, drainVars
<1>2. x \in Items /\ \A i : InHand(i, p) <=> i = x
  BY <1>1, PostedFacts
<1>3. /\ arrivals' \in [Items -> Nat] /\ arrivals'[x] = arrivals[x] + 1
      /\ \A i \in Items : i # x => arrivals'[i] = arrivals[i]
      /\ \A i \in Items : arrivals[i] \in Nat
  BY <1>2 DEF Accepted, Arrives, SpoolInv, SpoolTypeOK, Items
<1> HIDE DEF x
<1>4. Draining' = Draining /\ at'["poll"] \in {"idle", "post", "evict", "write"}
  BY <1>1 DEF Draining, Posters, SpoolInv, Steps
<1>5. SpoolTypeOK'
  <2>1. held' \in [Posters -> Seq(1..MaxItems)]
    BY DEF SpoolInv, SpoolTypeOK
  <2>2. at' \in [Posters -> {"idle", "post", "evict", "write", "read", "send", "rewrite"}]
    BY DEF SpoolInv, SpoolTypeOK
  <2>3. UNCHANGED <<up, items, spool, clock, drainVars, evicted, lost, outages, spoolFaults>>
    BY DEF PostResult, Accepted
  <2> QED BY <1>3, <2>1, <2>2, <2>3 DEF SpoolInv, SpoolTypeOK, Items, drainVars
<1>6. Steps'
  <2>1. at'["checkin"] = "rewrite" => at["checkin"] = "rewrite"
    BY <1>1 DEF Posters
  <2> QED BY <1>1, <1>4, <2>1 DEF SpoolInv, Steps
<1>7. NamesPaid'
  BY <1>1 DEF SpoolInv, NamesPaid, Posters, SpoolTypeOK
<1>8. NoRepeats'
  BY <1>1, <1>4 DEF SpoolInv, NoRepeats, Distinct
<1>9. /\ \A i, n \in Items : InFile(i, n)' = InFile(i, n)
      /\ \A i \in Items : InDoc(i)' = InDoc(i)
      /\ \A i \in Items : ~InHand(i, p)'
      /\ \A i \in Items, q \in Posters : q # p => InHand(i, q)' = InHand(i, q)
  BY <1>1, <1>4 DEF InFile, InDoc, InHand, ToSet
<1>10. OnePlace' /\ DocLeft'
  <2>1. OnePlace'
    BY <1>1, <1>9, Shrinks DEF SpoolInv, Book
  <2>2. DocLeft'
    BY <1>1, <1>3, <1>4, <1>9 DEF SpoolInv, Book, DocLeft
  <2> QED BY <2>1, <2>2
<1>11. PaidFor'
  <2>1. \A i \in Items : Pending(i)' => Pending(i) /\ i # x
    BY <1>1, <1>2, <1>4, <1>9 DEF SpoolInv, Book, OnePlace, Pending
  <2>2. Pending(x) /\ x <= items
    BY <1>2 DEF Pending, SpoolInv, Book, OnePlace
  <2>3. spoolFaults \in Nat /\ spoolFaults' = spoolFaults /\ items' = items
    BY <1>1 DEF SpoolInv, SpoolTypeOK
  <2>4. PaidFor /\ items \in Nat
    BY DEF SpoolInv, Book, SpoolTypeOK
  <2> QED BY <1>2, <1>3, <2>1, <2>2, <2>3, <2>4 DEF PaidFor, Items
<1>12. AllAccounted'
  <2>1. \A i \in Items : Accounted(i) => Accounted(i)'
    BY <1>1, <1>2, <1>3, <1>9 DEF Accounted
  <2> QED BY <1>1, <2>1 DEF SpoolInv, Book, AllAccounted
<1>13. RoomMade'
  <2>1. One(at["poll"] = "write")' = One(at["poll"] = "write")
        /\ One(at["checkin"] = "write")' = One(at["checkin"] = "write")
    BY <1>1 DEF Posters, One
  <2> QED BY <1>1, <1>4, <2>1 DEF SpoolInv, RoomMade
<1> QED BY <1>5, <1>6, <1>7, <1>8, <1>10, <1>11, <1>12, <1>13 DEF SpoolInv, Book

\* A post that fails, or whose answer is lost, leaves the result to be spooled.
LEMMA PostFailedKeeps ==
    ASSUME SpoolInv, NEW p \in Posters, PostResult(p),
           Failed(held[p][1]), at' = [at EXCEPT ![p] = "evict"], UNCHANGED held
    PROVE  SpoolInv'
<1> DEFINE x == held[p][1]
<1>1. /\ at[p] = "post" /\ at'[p] = "evict"
      /\ \A q \in Posters : q # p => at'[q] = at[q]
      /\ UNCHANGED <<items, spool, clock, todo, doc, sent, evicted, lost, held>>
  BY HandFacts DEF PostResult, drainVars
<1>2. x \in Items /\ \A i : InHand(i, p) <=> i = x
  BY <1>1, PostedFacts
<1>3. /\ arrivals' \in [Items -> Nat] /\ arrivals \in [Items -> Nat]
      /\ \A i \in Items : i # x => arrivals'[i] = arrivals[i]
      /\ arrivals'[x] >= arrivals[x]
      /\ spoolFaults \in Nat /\ spoolFaults' \in 0..MaxSpoolFaults
      /\ \/ arrivals'[x] = arrivals[x] /\ spoolFaults' = spoolFaults
         \/ arrivals'[x] = arrivals[x] + 1 /\ spoolFaults' = spoolFaults + 1
  <2>1. arrivals \in [Items -> Nat] /\ spoolFaults \in 0..MaxSpoolFaults
    BY DEF SpoolInv, SpoolTypeOK, Items
  <2>2. CASE Arrives(x) /\ SpoolFault
    BY <1>2, <2>1, <2>2, SpoolBounds DEF Arrives, SpoolFault
  <2>3. CASE UNCHANGED <<arrivals, spoolFaults>>
    BY <1>2, <2>1, <2>3, SpoolBounds
  <2> QED BY <2>2, <2>3 DEF Failed
<1> HIDE DEF x
<1>4. Draining' = Draining /\ at'["poll"] \in {"idle", "post", "evict", "write"}
  BY <1>1 DEF Draining, Posters, SpoolInv, Steps
<1>5. SpoolTypeOK'
  <2>1. at' \in [Posters -> {"idle", "post", "evict", "write", "read", "send", "rewrite"}]
    BY DEF SpoolInv, SpoolTypeOK
  <2>2. UNCHANGED <<up, items, spool, clock, held, drainVars, evicted, lost, outages>>
    BY DEF PostResult
  <2> QED BY <1>3, <2>1, <2>2 DEF SpoolInv, SpoolTypeOK, Items, drainVars
<1>6. Steps'
  <2>1. at'["checkin"] = "rewrite" => at["checkin"] = "rewrite"
    BY <1>1 DEF Posters
  <2> QED BY <1>1, <1>4, <2>1 DEF SpoolInv, Steps
<1>7. NamesPaid' /\ NoRepeats'
  <2>1. NamesPaid'
    BY <1>1 DEF SpoolInv, NamesPaid
  <2>2. NoRepeats'
    BY <1>1, <1>4 DEF SpoolInv, NoRepeats, Distinct
  <2> QED BY <2>1, <2>2
<1>8. /\ \A i, n \in Items : InFile(i, n)' = InFile(i, n)
      /\ \A i \in Items : InDoc(i)' = InDoc(i)
      /\ \A i \in Items, q \in Posters : InHand(i, q)' = InHand(i, q)
  BY <1>1, <1>4 DEF InFile, InDoc, InHand
<1>9. OnePlace' /\ DocLeft'
  <2>1. OnePlace'
    BY <1>1, <1>8, Shrinks DEF SpoolInv, Book
  <2>2. \A i \in Items : arrivals'[i] >= arrivals[i]
    BY <1>3
  <2>3. DocLeft'
    BY <1>1, <1>3, <1>4, <1>8, <2>2 DEF SpoolInv, Book, DocLeft
  <2> QED BY <2>1, <2>3
<1>10. PaidFor'
  <2>1. \A i \in Items : Pending(i)' = Pending(i)
    BY <1>1, <1>4, <1>8 DEF Pending
  <2>2. Pending(x) /\ x <= items
    BY <1>2 DEF Pending, SpoolInv, Book, OnePlace
  <2>3. PaidFor /\ items \in Nat /\ items' = items
    BY <1>1 DEF SpoolInv, Book, SpoolTypeOK
  <2> QED BY <1>2, <1>3, <2>1, <2>2, <2>3 DEF PaidFor, Items
<1>11. AllAccounted'
  <2>1. \A i \in Items : Accounted(i) => Accounted(i)'
    BY <1>1, <1>2, <1>3, <1>8 DEF Accounted
  <2> QED BY <1>1, <2>1 DEF SpoolInv, Book, AllAccounted
<1>12. RoomMade'
  <2>1. One(at["poll"] = "write")' = One(at["poll"] = "write")
        /\ One(at["checkin"] = "write")' = One(at["checkin"] = "write")
    BY <1>1 DEF Posters, One
  <2> QED BY <1>1, <1>4, <2>1 DEF SpoolInv, RoomMade
<1> QED BY <1>5, <1>6, <1>7, <1>9, <1>10, <1>11, <1>12 DEF SpoolInv, Book

\* A posted result arrives, or is held for the spool.
LEMMA PostResultKeeps == ASSUME SpoolInv, NEW p \in Posters, PostResult(p) PROVE SpoolInv'
BY PostAcceptedKeeps, PostFailedKeeps DEF PostResult

\* New results are in the hand of the process that measured them.
LEMMA MeasureKeeps ==
    ASSUME SpoolInv, NEW p \in Posters, NEW n \in 1..2, Measure(p, n) PROVE SpoolInv'
<1> DEFINE new == [k \in 1..n |-> items + k]
<1>1. /\ at[p] = "idle" /\ held[p] = <<>> /\ at'[p] = (IF n > 1 THEN "evict" ELSE "post")
      /\ held'[p] = new /\ items' = items + n /\ items + n <= MaxItems
      /\ items \in Nat /\ MaxItems \in Nat
      /\ \A q \in Posters : q # p => at'[q] = at[q] /\ held'[q] = held[q]
      /\ UNCHANGED <<spool, clock, todo, doc, sent, evicted, lost, arrivals, spoolFaults>>
  <2>1. /\ at[p] = "idle" /\ items + n <= MaxItems /\ items' = items + n
        /\ held' = [held EXCEPT ![p] = new]
        /\ at' = [at EXCEPT ![p] = IF n > 1 THEN "evict" ELSE "post"]
        /\ UNCHANGED <<spool, clock, todo, doc, sent, evicted, lost, arrivals, spoolFaults>>
    BY DEF Measure, drainVars
  <2>2. DOMAIN held = Posters /\ DOMAIN at = Posters /\ held[p] = <<>>
    BY <2>1, HandFacts DEF SpoolInv, SpoolTypeOK
  <2>3. items \in Nat /\ MaxItems \in Nat
    BY SpoolBounds DEF SpoolInv, SpoolTypeOK
  <2> QED BY <2>1, <2>2, <2>3
<1>2. new \in Seq(Items) /\ Len(new) = n /\ Distinct(new) /\ new # <<>>
  <2>1. n \in Nat /\ n # 0 /\ \A k \in 1..n : items + k \in Items
    BY <1>1 DEF Items
  <2>2. new \in [1..n -> Items]
    BY <2>1
  <2>3. new \in Seq(Items) /\ Len(new) = n
    BY <2>1, <2>2
  <2>4. Distinct(new)
    BY <1>1 DEF Distinct
  <2> QED BY <2>1, <2>3, <2>4
<1>3. \A i \in Items : i \in ToSet(new) <=> i > items /\ i <= items + n
  <2>1. ASSUME NEW i \in Items, i > items, i <= items + n PROVE i \in ToSet(new)
    <3>1. i - items \in 1..n /\ new[i - items] = i
      BY <1>1, <2>1 DEF Items
    <3> QED BY <3>1 DEF ToSet
  <2>2. ASSUME NEW i \in ToSet(new) PROVE i > items /\ i <= items + n
    BY <1>1 DEF ToSet
  <2> QED BY <2>1, <2>2
<1> HIDE DEF new
<1>4. Draining' = Draining /\ at'["poll"] \in {"idle", "post", "evict", "write"}
  BY <1>1 DEF Draining, Posters, SpoolInv, Steps
<1>5. SpoolTypeOK'
  <2>1. held' \in [Posters -> Seq(1..MaxItems)]
    BY <1>2 DEF SpoolInv, SpoolTypeOK, Measure, Items, new
  <2>2. at' \in [Posters -> {"idle", "post", "evict", "write", "read", "send", "rewrite"}]
    BY DEF SpoolInv, SpoolTypeOK, Measure
  <2>3. UNCHANGED <<up, spool, clock, drainVars, arrivals, evicted, lost, outages, spoolFaults>>
    BY DEF Measure
  <2>4. items' \in 0..MaxItems
    BY <1>1
  <2> QED BY <2>1, <2>2, <2>3, <2>4 DEF SpoolInv, SpoolTypeOK, drainVars
<1>6. Steps'
  <2>1. at'["checkin"] = "rewrite" => at["checkin"] = "rewrite"
    BY <1>1 DEF Posters
  <2>2. \A q \in Posters : /\ held'[q] # <<>> <=> at'[q] \in {"post", "evict", "write"}
                           /\ at'[q] = "post" => Len(held'[q]) = 1
    <3>1. /\ held'[p] # <<>> /\ at'[p] \in {"post", "evict", "write"}
          /\ at'[p] = "post" => Len(held'[p]) = 1
      BY <1>1, <1>2
    <3>2. ASSUME NEW q \in Posters, q # p
          PROVE  /\ held'[q] # <<>> <=> at'[q] \in {"post", "evict", "write"}
                 /\ at'[q] = "post" => Len(held'[q]) = 1
      BY <1>1, <3>2 DEF SpoolInv, Steps
    <3> QED BY <3>1, <3>2
  <2> QED BY <1>1, <1>4, <2>1, <2>2 DEF SpoolInv, Steps
<1>7. NamesPaid'
  <2>1. clock \in Nat
    BY DEF SpoolInv, SpoolTypeOK
  <2> QED BY <1>1, <2>1 DEF SpoolInv, NamesPaid, Posters
<1>8. NoRepeats'
  <2>1. \A q \in Posters : Distinct(held'[q])
    BY <1>1, <1>2 DEF SpoolInv, NoRepeats
  <2>2. UNCHANGED <<spool, doc>> /\ Draining' = Draining
    BY <1>1, <1>4
  <2>3. NoRepeats
    BY DEF SpoolInv
  <2> QED BY <2>1, <2>2, <2>3 DEF NoRepeats, Distinct
<1>9. /\ \A i, m \in Items : InFile(i, m)' = InFile(i, m)
      /\ \A i \in Items : InDoc(i)' = InDoc(i)
      /\ \A i \in Items : ~InHand(i, p)
      /\ \A i \in Items : InHand(i, p)' <=> i > items /\ i <= items'
      /\ \A i \in Items, q \in Posters : q # p => InHand(i, q)' = InHand(i, q)
  BY <1>1, <1>3, <1>4 DEF InFile, InDoc, InHand, ToSet
<1>10. OnePlace' /\ DocLeft'
  <2>1. OnePlace'
    BY <1>1, <1>9 DEF SpoolInv, Book, OnePlace, Items
  <2>2. DocLeft'
    BY <1>1, <1>4, <1>9 DEF SpoolInv, Book, DocLeft
  <2> QED BY <2>1, <2>2
<1>11. PaidFor'
  <2>1. \A i \in Items : Pending(i)' => Pending(i) \/ i > items
    BY <1>1, <1>4, <1>9 DEF Pending
  <2>2. PaidFor /\ spoolFaults \in Nat
    BY <1>1 DEF SpoolInv, Book, SpoolTypeOK
  <2> QED BY <1>1, <2>1, <2>2 DEF PaidFor, Items
<1>12. AllAccounted'
  <2>1. \A i \in Items : Accounted(i) => Accounted(i)'
    BY <1>1, <1>9 DEF Accounted
  <2>2. \A i \in Items : i > items /\ i <= items' => Accounted(i)'
    BY <1>9 DEF Accounted
  <2>3. AllAccounted
    BY DEF SpoolInv, Book
  <2> QED BY <1>1, <2>1, <2>2, <2>3 DEF AllAccounted, Items
<1>13. RoomMade'
  <2>1. One(at["poll"] = "write")' = One(at["poll"] = "write")
        /\ One(at["checkin"] = "write")' = One(at["checkin"] = "write")
    BY <1>1 DEF Posters, One
  <2> QED BY <1>1, <1>4, <2>1 DEF SpoolInv, RoomMade
<1> QED BY <1>5, <1>6, <1>7, <1>8, <1>10, <1>11, <1>12, <1>13 DEF SpoolInv, Book

----------------------------------------------------------------------------
(* Room at the cap.                                                        *)

\* What the cap removes leaves room for the file to be written.
LEMMA EvictMakesRoom ==
    ASSUME SpoolTypeOK
    PROVE  Cardinality(DOMAIN spool \ OverCap) <= SpoolMax - 1
<1> DEFINE D == DOMAIN spool
           K == Cardinality(D) + 1 - SpoolMax
           S == D \ OverCap
<1>1. IsFiniteSet(D) /\ Cardinality(D) \in Nat /\ SpoolMax \in Nat \ {0} /\ D \subseteq Nat
  BY SpoolFinite, SpoolBounds DEF SpoolTypeOK
<1>2. CASE S = {}
  <2>1. Cardinality(S) = 0
    BY <1>2, FS_EmptySet
  <2> QED BY <1>1, <2>1
<1>3. CASE S # {}
  <2>1. PICK n \in S : \A m \in S : n <= m
    <3>1. S \in SUBSET Nat
      BY <1>1
    <3> HIDE DEF S
    <3> QED BY <1>3, <3>1, MinOfNumbers
  <2> DEFINE Below == {m \in D : m < n}
  <2>2. Below \subseteq OverCap /\ OverCap \subseteq D
    <3>1. ASSUME NEW m \in Below PROVE m \in OverCap
      <4>1. m \in D /\ m < n /\ m \in Nat /\ n \in Nat
        BY <1>1
      <4>2. m \notin S
        BY <2>1, <4>1
      <4> QED BY <4>1, <4>2
    <3> QED BY <3>1 DEF OverCap
  <2>3. ~(Cardinality(Below) < K)
    BY <2>1 DEF OverCap
  <2>4. IsFiniteSet(OverCap) /\ Cardinality(Below) <= Cardinality(OverCap)
    BY <1>1, <2>2, FS_Subset
  <2>5. IsFiniteSet(Below)
    BY <1>1, FS_Subset
  <2>6. Cardinality(Below) \in Nat /\ Cardinality(OverCap) \in Nat
    BY <2>4, <2>5, FS_CardinalityType
  <2>7. Cardinality(S) = Cardinality(D) - Cardinality(D \cap OverCap)
    BY <1>1, FS_Difference
  <2>8. Cardinality(D \cap OverCap) = Cardinality(OverCap)
    <3>1. D \cap OverCap = OverCap
      BY <2>2
    <3> QED BY Zenon, <3>1
  <2>9. Cardinality(S) <= SpoolMax - 1
    <3> HIDE DEF Below, D, S
    <3> QED BY <1>1, <2>3, <2>4, <2>6, <2>7, <2>8 DEF K
  <2> QED BY <2>9
<1> QED BY <1>2, <1>3

\* At the cap the oldest file goes on the record of what was dropped.
LEMMA EvictKeeps == ASSUME SpoolInv, NEW p \in Posters, Evict(p) PROVE SpoolInv'
<1>1. /\ at[p] = "evict" /\ at'[p] = "write"
      /\ \A q \in Posters : q # p => at'[q] = at[q]
      /\ DOMAIN spool' = DOMAIN spool \ OverCap
      /\ \A n \in DOMAIN spool' : spool'[n] = spool[n]
      /\ UNCHANGED <<items, clock, todo, doc, sent, lost, held, arrivals, spoolFaults>>
  BY HandFacts DEF Evict, Drop, drainVars
<1>2. Draining' = Draining /\ at'["poll"] \in {"idle", "post", "evict", "write"}
  BY <1>1 DEF Draining, Posters, SpoolInv, Steps
<1>3. OverCap \subseteq Items /\ evicted' \subseteq Items
      /\ \A i \in Items, n \in OverCap : InFile(i, n) => i \in evicted'
  <2>1. OverCap \subseteq DOMAIN spool
    BY DEF OverCap
  <2>2. DOMAIN spool \subseteq Items /\ \A n \in DOMAIN spool : ToSet(spool[n]) \subseteq Items
    BY SetType DEF SpoolInv, SpoolTypeOK, Items
  <2>3. evicted \subseteq Items /\ evicted' = evicted \cup UNION {ToSet(spool[n]) : n \in OverCap}
    BY DEF SpoolInv, SpoolTypeOK, Items, Evict
  <2> QED BY <2>1, <2>2, <2>3 DEF InFile
<1>4. SpoolTypeOK'
  <2>1. at' \in [Posters -> {"idle", "post", "evict", "write", "read", "send", "rewrite"}]
    BY DEF SpoolInv, SpoolTypeOK, Evict
  <2>2. UNCHANGED <<up, items, clock, held, drainVars, arrivals, lost, outages, spoolFaults>>
    BY DEF Evict
  <2>3. DOMAIN spool' \subseteq 1..MaxItems /\ \A n \in DOMAIN spool' : spool'[n] \in Seq(1..MaxItems)
    BY <1>1 DEF SpoolInv, SpoolTypeOK
  <2> QED BY <1>3, <2>1, <2>2, <2>3 DEF SpoolInv, SpoolTypeOK, Items, drainVars
<1>5. Steps'
  <2>1. at'["checkin"] = "rewrite" => at["checkin"] = "rewrite"
    BY <1>1 DEF Posters
  <2> QED BY <1>1, <1>2, <2>1 DEF SpoolInv, Steps
<1>6. NamesPaid' /\ NoRepeats'
  <2>1. NamesPaid'
    BY <1>1 DEF SpoolInv, NamesPaid
  <2>2. NoRepeats'
    BY <1>1, <1>2 DEF SpoolInv, NoRepeats, Distinct
  <2> QED BY <2>1, <2>2
<1>7. /\ \A i, n \in Items : InFile(i, n)' <=> InFile(i, n) /\ n \notin OverCap
      /\ \A i \in Items : InDoc(i)' = InDoc(i)
      /\ \A i \in Items, q \in Posters : InHand(i, q)' = InHand(i, q)
  BY <1>1, <1>2 DEF InFile, InDoc, InHand
<1>8. OnePlace' /\ DocLeft'
  <2>1. OnePlace'
    BY <1>1, <1>7, Shrinks DEF SpoolInv, Book
  <2>2. DocLeft'
    BY <1>1, <1>2, <1>7 DEF SpoolInv, Book, DocLeft
  <2> QED BY <2>1, <2>2
<1>9. PaidFor'
  <2>1. \A i \in Items : Pending(i)' => Pending(i)
    BY <1>1, <1>2, <1>7 DEF Pending
  <2> QED BY <1>1, <2>1 DEF SpoolInv, Book, PaidFor
<1>10. AllAccounted'
  <2>1. evicted \subseteq evicted'
    BY DEF Evict
  <2>2. \A i \in Items : Accounted(i) => Accounted(i)'
    BY <1>1, <1>3, <1>7, <2>1 DEF Accounted
  <2> QED BY <1>1, <2>2 DEF SpoolInv, Book, AllAccounted
<1>11. RoomMade'
  <2>1. Cardinality(DOMAIN spool') <= SpoolMax - 1
    BY <1>1, EvictMakesRoom DEF SpoolInv
  <2>2. Cardinality(DOMAIN spool') \in Nat
    BY <1>4, SpoolFinite, FS_Subset, FS_CardinalityType, <1>1 DEF SpoolInv
  <2>3. /\ One(at["poll"] = "write")' \in {0, 1}
        /\ One(at["checkin"] = "write")' + One(Draining /\ todo[1] \notin DOMAIN spool)' \in {0, 1}
    BY DEF One, Draining
  <2>4. One(at["checkin"] = "write")' \in Int /\ One(Draining /\ todo[1] \notin DOMAIN spool)' \in Int
    BY DEF One
  <2> QED BY <2>1, <2>2, <2>3, <2>4, SpoolBounds DEF RoomMade
<1> QED BY <1>4, <1>5, <1>6, <1>8, <1>9, <1>10, <1>11 DEF SpoolInv, Book

----------------------------------------------------------------------------
(* A file is written, or what it would have held is lost.                  *)

\* A file more is one more, and none if it was there already.
LEMMA OneFileMore ==
    ASSUME SpoolTypeOK, NEW n
    PROVE  /\ n \notin DOMAIN spool =>
                 Cardinality(DOMAIN spool \cup {n}) = Cardinality(DOMAIN spool) + 1
           /\ n \in DOMAIN spool =>
                 Cardinality(DOMAIN spool \cup {n}) = Cardinality(DOMAIN spool)
           /\ Cardinality(DOMAIN spool \ {n}) <= Cardinality(DOMAIN spool)
           /\ Cardinality(DOMAIN spool \ {n}) \in Nat
<1>1. IsFiniteSet(DOMAIN spool) /\ Cardinality(DOMAIN spool) \in Nat
  BY SpoolFinite
<1>2. n \notin DOMAIN spool => Cardinality(DOMAIN spool \cup {n}) = Cardinality(DOMAIN spool) + 1
  BY <1>1, FS_AddElement
<1>3. ASSUME n \in DOMAIN spool
      PROVE  Cardinality(DOMAIN spool \cup {n}) = Cardinality(DOMAIN spool)
  <2>1. DOMAIN spool \cup {n} = DOMAIN spool
    BY <1>3
  <2> QED BY Zenon, <2>1
<1>4. DOMAIN spool \ {n} \subseteq DOMAIN spool
  OBVIOUS
<1>5. IsFiniteSet(DOMAIN spool \ {n})
      /\ Cardinality(DOMAIN spool \ {n}) <= Cardinality(DOMAIN spool)
  BY <1>1, <1>4, FS_Subset
<1>6. Cardinality(DOMAIN spool \ {n}) \in Nat
  BY <1>5, FS_CardinalityType
<1> QED BY <1>2, <1>3, <1>5, <1>6

\* A result goes from hand to a new file, or on the record of failed writes.
LEMMA WriteKeeps ==
    ASSUME SpoolInv, NEW p \in Posters, WriteSpool(p),
           spool' = Put(clock, held[p]), clock' = clock + 1, UNCHANGED <<lost, spoolFaults>>
    PROVE  SpoolInv'
<1>1. /\ at[p] = "write" /\ at'[p] = "idle" /\ held'[p] = <<>> /\ held[p] # <<>>
      /\ \A q \in Posters : q # p => at'[q] = at[q] /\ held'[q] = held[q]
      /\ UNCHANGED <<items, todo, doc, sent, evicted, arrivals>>
      /\ held[p] \in Seq(Items)
  BY HandFacts DEF WriteSpool, drainVars
<1>2. /\ clock \in Items /\ clock \notin DOMAIN spool /\ items \in Nat /\ clock < items + 1
      /\ clock + 1 \in 1..(MaxItems + 1)
  <2>1. clock \in Nat \ {0} /\ items \in Nat /\ items <= MaxItems /\ MaxItems \in Nat
    BY SpoolBounds DEF SpoolInv, SpoolTypeOK
  <2>2. clock + 1 <= items + 1
    BY <1>1, <2>1 DEF SpoolInv, NamesPaid, Posters
  <2>3. clock \notin DOMAIN spool
    BY <2>1 DEF SpoolInv, NamesPaid
  <2> QED BY <2>1, <2>2, <2>3 DEF Items
<1>3. /\ DOMAIN spool' = DOMAIN spool \cup {clock} /\ spool'[clock] = held[p]
      /\ \A n \in DOMAIN spool : spool'[n] = spool[n]
  BY <1>2 DEF Put
<1>4. Draining' = Draining /\ at'["poll"] \in {"idle", "post", "evict", "write"}
  BY <1>1 DEF Draining, Posters, SpoolInv, Steps
<1>5. Draining => todo[1] # clock
  <2>1. ASSUME Draining PROVE todo[1] < clock /\ clock \in Nat
    <3>1. todo # <<>> /\ todo \in Seq(Items)
      BY <2>1 DEF SpoolInv, Steps, SpoolTypeOK, Items
    <3>2. 1 \in DOMAIN todo
      BY <3>1
    <3> QED BY <3>2, <1>2 DEF SpoolInv, NamesPaid, Items
  <2> QED BY <2>1
<1>6. SpoolTypeOK'
  <2>1. held' \in [Posters -> Seq(1..MaxItems)]
    BY DEF SpoolInv, SpoolTypeOK, WriteSpool
  <2>2. at' \in [Posters -> {"idle", "post", "evict", "write", "read", "send", "rewrite"}]
    BY DEF SpoolInv, SpoolTypeOK, WriteSpool
  <2>3. UNCHANGED <<up, items, drainVars, arrivals, evicted, lost, outages, spoolFaults>>
    BY DEF WriteSpool
  <2>4. DOMAIN spool' \subseteq 1..MaxItems /\ \A n \in DOMAIN spool' : spool'[n] \in Seq(1..MaxItems)
    BY <1>1, <1>2, <1>3 DEF SpoolInv, SpoolTypeOK, Items
  <2> QED BY <1>2, <2>1, <2>2, <2>3, <2>4 DEF SpoolInv, SpoolTypeOK, drainVars
<1>7. Steps'
  <2>1. at'["checkin"] = "rewrite" => at["checkin"] = "rewrite"
    BY <1>1 DEF Posters
  <2> QED BY <1>1, <1>4, <2>1 DEF SpoolInv, Steps
<1>8. NamesPaid'
  <2>1. \A n \in DOMAIN spool' : n < clock + 1
    BY <1>2, <1>3 DEF SpoolInv, NamesPaid, Items, SpoolTypeOK
  <2>2. \A k \in DOMAIN todo' : todo'[k] < clock + 1
    <3>1. ASSUME NEW k \in DOMAIN todo PROVE todo[k] \in Items
      BY ElementIn DEF SpoolInv, SpoolTypeOK, Items
    <3> QED BY <1>1, <1>2, <3>1 DEF SpoolInv, NamesPaid, Items
  <2>3. clock + 1 + (IF held'["checkin"] = <<>> THEN 0 ELSE 1)
            + (IF held'["poll"] = <<>> THEN 0 ELSE 1) <= items + 1
    BY <1>1, <1>2 DEF SpoolInv, NamesPaid, Posters, Items
  <2> QED BY <1>1, <2>1, <2>2, <2>3 DEF NamesPaid
<1>9. NoRepeats'
  <2>1. \A n \in DOMAIN spool' : Distinct(spool'[n])
    BY <1>3 DEF SpoolInv, NoRepeats
  <2>2. \A q \in Posters : Distinct(held'[q])
    <3>1. Distinct(<<>>)
      BY DEF Distinct
    <3> QED BY <1>1, <3>1 DEF SpoolInv, NoRepeats
  <2>3. Draining' => Distinct(doc')
    BY <1>1, <1>4 DEF SpoolInv, NoRepeats
  <2>4. /\ \A n : Distinct(spool[n])' = Distinct(spool'[n])
        /\ \A q : Distinct(held[q])' = Distinct(held'[q])
        /\ Distinct(doc)' = Distinct(doc')
    BY DEF Distinct
  <2> QED BY <2>1, <2>2, <2>3, <2>4 DEF NoRepeats
<1>10. /\ \A i, n \in Items : InFile(i, n)' <=> InFile(i, n) \/ (n = clock /\ InHand(i, p))
       /\ \A i \in Items : InDoc(i)' = InDoc(i)
       /\ \A i \in Items : ~InHand(i, p)'
       /\ \A i \in Items, q \in Posters : q # p => InHand(i, q)' = InHand(i, q)
  BY <1>1, <1>2, <1>3, <1>4 DEF InFile, InDoc, InHand, ToSet
<1>11. OnePlace' /\ DocLeft'
  <2>1. OnePlace'
    BY <1>1, <1>2, <1>10 DEF SpoolInv, Book, OnePlace
  <2>2. DocLeft'
    BY <1>1, <1>4, <1>5, <1>10 DEF SpoolInv, Book, DocLeft
  <2> QED BY <2>1, <2>2
<1>12. PaidFor'
  <2>1. \A i \in Items : Pending(i)' => Pending(i)
    BY <1>1, <1>2, <1>4, <1>10 DEF Pending
  <2> QED BY <1>1, <2>1 DEF SpoolInv, Book, PaidFor
<1>13. AllAccounted'
  <2>1. \A i \in Items : Accounted(i) => Accounted(i)'
    BY <1>1, <1>2, <1>10 DEF Accounted
  <2> QED BY <1>1, <2>1 DEF SpoolInv, Book, AllAccounted
<1>14. RoomMade'
  <2>1. Cardinality(DOMAIN spool') = Cardinality(DOMAIN spool) + 1
        /\ Cardinality(DOMAIN spool) \in Nat
    BY <1>2, <1>3, OneFileMore, SpoolFinite DEF SpoolInv
  <2>2. One(Draining /\ todo[1] \notin DOMAIN spool)' = One(Draining /\ todo[1] \notin DOMAIN spool)
    BY <1>1, <1>3, <1>4, <1>5 DEF One
  <2>3. One(at[p] = "write") = 1 /\ One(at[p] = "write")' = 0
        /\ \A q \in Posters : q # p => One(at[q] = "write")' = One(at[q] = "write")
    BY <1>1 DEF One
  <2>4. \A P \in BOOLEAN : One(P) \in {0, 1}
    BY DEF One
  <2>5. /\ One(at["checkin"] = "write") \in {0, 1} /\ One(at["poll"] = "write") \in {0, 1}
        /\ One(Draining /\ todo[1] \notin DOMAIN spool) \in {0, 1}
    BY <2>4 DEF One
  <2>6. One(at["checkin"] = "write")' + One(at["poll"] = "write")'
           = One(at["checkin"] = "write") + One(at["poll"] = "write") - 1
    <3>1. CASE p = "checkin"
      BY <2>3, <2>5, <3>1 DEF Posters
    <3>2. CASE p = "poll"
      BY <2>3, <2>5, <3>2 DEF Posters
    <3> QED BY <3>1, <3>2 DEF Posters
  <2>7. One(at["checkin"] = "write")' \in {0, 1} /\ One(at["poll"] = "write")' \in {0, 1}
    BY DEF One
  <2> QED BY <2>1, <2>2, <2>5, <2>6, <2>7, SpoolBounds DEF SpoolInv, RoomMade
<1> QED BY <1>6, <1>7, <1>8, <1>9, <1>11, <1>12, <1>13, <1>14 DEF SpoolInv, Book

\* A result in a hand is there no more when the process lets go of it; what the drain
\* had of a file is in the file still.
LEMMA LetGoKeeps ==
    ASSUME SpoolInv, NEW p \in Posters,
           at[p] # "idle", at' = [at EXCEPT ![p] = "idle"], held' = [held EXCEPT ![p] = <<>>],
           lost' = lost \cup ToSet(held[p]), SpoolFault,
           UNCHANGED <<up, items, spool, clock, drainVars, arrivals, evicted, outages>>
    PROVE  SpoolInv'
<1>1. /\ at'[p] = "idle" /\ held'[p] = <<>> /\ held[p] \in Seq(Items)
      /\ \A q \in Posters : q # p => at'[q] = at[q] /\ held'[q] = held[q]
      /\ UNCHANGED <<items, spool, clock, todo, doc, sent, evicted, arrivals>>
      /\ spoolFaults \in Nat /\ spoolFaults' = spoolFaults + 1 /\ spoolFaults' \in 0..MaxSpoolFaults
  BY HandFacts, SpoolBounds DEF drainVars, SpoolFault, SpoolInv, SpoolTypeOK
<1>2. (Draining' => Draining) /\ at'["poll"] \in {"idle", "post", "evict", "write"}
  BY <1>1 DEF Draining, Posters, SpoolInv, Steps
<1>3. SpoolTypeOK'
  <2>1. held' \in [Posters -> Seq(1..MaxItems)]
    BY DEF SpoolInv, SpoolTypeOK
  <2>2. at' \in [Posters -> {"idle", "post", "evict", "write", "read", "send", "rewrite"}]
    BY DEF SpoolInv, SpoolTypeOK
  <2>3. lost' \subseteq 1..MaxItems
    BY <1>1, SetType DEF SpoolInv, SpoolTypeOK, Items
  <2> QED BY <1>1, <2>1, <2>2, <2>3 DEF SpoolInv, SpoolTypeOK, drainVars
<1>4. Steps'
  <2>1. at'["checkin"] = "rewrite" => at["checkin"] = "rewrite"
    BY <1>1 DEF Posters
  <2> QED BY <1>1, <1>2, <2>1 DEF SpoolInv, Steps
<1>5. NamesPaid'
  <2>1. clock \in Nat /\ items \in Nat
    BY DEF SpoolInv, SpoolTypeOK
  <2> QED BY <1>1, <2>1 DEF SpoolInv, NamesPaid, Posters
<1>6. NoRepeats'
  <2>1. \A q \in Posters : Distinct(held'[q])
    <3>1. Distinct(<<>>)
      BY DEF Distinct
    <3> QED BY <1>1, <3>1 DEF SpoolInv, NoRepeats
  <2>2. UNCHANGED <<spool, doc>> /\ (Draining' => Draining)
    BY <1>1, <1>2
  <2>3. NoRepeats
    BY DEF SpoolInv
  <2> QED BY <2>1, <2>2, <2>3 DEF NoRepeats, Distinct
<1>7. /\ \A i, n \in Items : InFile(i, n)' = InFile(i, n)
      /\ \A i \in Items : InDoc(i)' => InDoc(i)
      /\ \A i \in Items : InHand(i, p) => i \in lost'
      /\ \A i \in Items : ~InHand(i, p)'
      /\ \A i \in Items, q \in Posters : q # p => InHand(i, q)' = InHand(i, q)
  BY <1>1, <1>2 DEF InFile, InDoc, InHand, ToSet
<1>8. OnePlace' /\ DocLeft'
  <2>1. OnePlace'
    BY <1>1, <1>7, Shrinks DEF SpoolInv, Book
  <2>2. \A i \in Items : Draining' => InDoc(i)' = InDoc(i)
    BY <1>1, <1>2 DEF InDoc
  <2>3. DocLeft'
    BY <1>1, <1>2, <1>7, <2>2 DEF SpoolInv, Book, DocLeft
  <2> QED BY <2>1, <2>3
<1>9. PaidFor'
  <2>1. PaidFor
    BY DEF SpoolInv, Book
  <2>2. \A i \in Items : arrivals[i] \in Nat
    BY DEF SpoolInv, SpoolTypeOK, Items
  <2> QED BY <1>1, <2>1, <2>2 DEF PaidFor
<1>10. AllAccounted'
  <2>1. lost \subseteq lost'
    OBVIOUS
  <2>2. \A i \in Items : Accounted(i) => Accounted(i)'
    BY <1>1, <1>7, <2>1 DEF Accounted
  <2> QED BY <1>1, <2>2 DEF SpoolInv, Book, AllAccounted
<1>11. RoomMade'
  <2>1. Cardinality(DOMAIN spool') = Cardinality(DOMAIN spool) /\ Cardinality(DOMAIN spool) \in Nat
    BY <1>1, SpoolFinite DEF SpoolInv
  <2>3. /\ (at["checkin"] = "write")' => at["checkin"] = "write"
        /\ (at["poll"] = "write")' => at["poll"] = "write"
        /\ (Draining /\ todo[1] \notin DOMAIN spool)' => (Draining /\ todo[1] \notin DOMAIN spool)
    BY <1>1, <1>2 DEF Posters
  <2>6. One(at["checkin"] = "write") \in {0, 1}
        /\ One(at["poll"] = "write") \in {0, 1}
        /\ One(Draining /\ todo[1] \notin DOMAIN spool) \in {0, 1}
        /\ One(at["checkin"] = "write")' \in {0, 1}
        /\ One(at["poll"] = "write")' \in {0, 1}
        /\ One(Draining /\ todo[1] \notin DOMAIN spool)' \in {0, 1}
    BY DEF One
  <2>7. One(at["checkin"] = "write")' <= One(at["checkin"] = "write")
        /\ One(at["poll"] = "write")' <= One(at["poll"] = "write")
        /\ One(Draining /\ todo[1] \notin DOMAIN spool)' <= One(Draining /\ todo[1] \notin DOMAIN spool)
    BY <2>3 DEF One
  <2> QED BY <2>1, <2>6, <2>7, SpoolBounds DEF SpoolInv, RoomMade
<1> QED BY <1>3, <1>4, <1>5, <1>6, <1>8, <1>9, <1>10, <1>11 DEF SpoolInv, Book

\* The write of a process that spools, under a name that no file has.
LEMMA WriteSpoolKeeps == ASSUME SpoolInv, NEW p \in Posters, WriteSpool(p) PROVE SpoolInv'
<1>1. CASE spool' = Put(clock, held[p]) /\ clock' = clock + 1 /\ UNCHANGED <<lost, spoolFaults>>
  BY <1>1, WriteKeeps
<1>2. CASE SpoolFault /\ lost' = lost \cup ToSet(held[p]) /\ UNCHANGED <<spool, clock>>
  BY <1>2, LetGoKeeps DEF WriteSpool
<1> QED BY <1>1, <1>2 DEF WriteSpool

\* What a killed process held goes on the record; its files stay.
LEMMA SpoolKilledKeeps == ASSUME SpoolInv, NEW p \in Posters, SpoolKilled(p) PROVE SpoolInv'
BY LetGoKeeps DEF SpoolKilled

----------------------------------------------------------------------------
(* Steps of the drain.                                                     *)

\* What the drain works with: the check-in holds no results meanwhile.
LEMMA DrainFacts ==
    ASSUME SpoolInv, at["checkin"] \in {"read", "send", "rewrite"}
    PROVE  /\ todo \in Seq(Items) /\ doc \in Seq(Items)
           /\ DOMAIN at = Posters /\ "checkin" \in Posters /\ "poll" \in Posters
           /\ held["checkin"] = <<>>
           /\ \A i \in Items : ~InHand(i, "checkin")
           /\ at["poll"] \in {"idle", "post", "evict", "write"}
           /\ Draining => todo # <<>> /\ todo[1] \in Items /\ todo[1] < clock
<1>1. todo \in Seq(Items) /\ doc \in Seq(Items) /\ DOMAIN at = Posters
  BY DEF SpoolInv, SpoolTypeOK, Items
<1>2. held["checkin"] = <<>> /\ at["poll"] \in {"idle", "post", "evict", "write"}
  BY DEF SpoolInv, Steps, Posters
<1>3. \A i \in Items : ~InHand(i, "checkin")
  BY <1>2, SetOfEmpty DEF InHand
<1>4. ASSUME Draining PROVE todo # <<>> /\ todo[1] \in Items /\ todo[1] < clock
  <2>1. todo # <<>>
    BY <1>4 DEF SpoolInv, Steps
  <2>2. 1 \in DOMAIN todo
    BY <1>1, <2>1
  <2> QED BY <1>1, <2>1, <2>2, ElementIn DEF SpoolInv, NamesPaid
<1> QED BY <1>1, <1>2, <1>3, <1>4 DEF Posters

\* The check-in moves from step to step of its drain; the poll stays where it is.
LEMMA DrainMoves ==
    ASSUME SpoolInv, at["checkin"] \in {"read", "send", "rewrite"},
           NEW s \in {"idle", "read", "send", "rewrite"},
           at' = [at EXCEPT !["checkin"] = s], UNCHANGED held
    PROVE  /\ at' \in [Posters -> {"idle", "post", "evict", "write", "read", "send", "rewrite"}]
           /\ at'["checkin"] = s /\ at'["poll"] = at["poll"]
           /\ Draining' <=> s \in {"send", "rewrite"}
           /\ (Draining' => todo' # <<>>) /\ (s = "rewrite" => sent') => Steps'
<1>1. /\ at' \in [Posters -> {"idle", "post", "evict", "write", "read", "send", "rewrite"}]
      /\ at'["checkin"] = s /\ at'["poll"] = at["poll"]
  BY DrainFacts DEF SpoolInv, SpoolTypeOK, Posters
<1>2. Draining' <=> s \in {"send", "rewrite"}
  BY <1>1 DEF Draining
<1>3. \A q \in Posters : /\ held'[q] # <<>> <=> at'[q] \in {"post", "evict", "write"}
                         /\ at'[q] = "post" => Len(held'[q]) = 1
  BY <1>1, DrainFacts DEF Posters, SpoolInv, Steps
<1> QED BY <1>1, <1>2, <1>3, DrainFacts DEF Steps

\* A step of the drain that adds no file, but perhaps writes back the one it works on,
\* keeps the room in the spool.
LEMMA DrainRoom ==
    ASSUME SpoolInv, at["checkin"] \in {"read", "send", "rewrite"},
           Cardinality(DOMAIN spool') <= Cardinality(DOMAIN spool) + One(Draining /\ todo[1] \notin DOMAIN spool),
           Cardinality(DOMAIN spool') \in Nat,
           at'["checkin"] # "write", at'["poll"] = at["poll"],
           Draining' => todo'[1] \in DOMAIN spool'
    PROVE  RoomMade'
<1>1. Cardinality(DOMAIN spool) \in Nat
  BY SpoolFinite DEF SpoolInv
<1>2. One(at["checkin"] = "write") = 0 /\ One(at["checkin"] = "write")' = 0
      /\ One(at["poll"] = "write")' = One(at["poll"] = "write")
      /\ One(at["poll"] = "write") \in {0, 1}
      /\ One(Draining /\ todo[1] \notin DOMAIN spool)' = 0
      /\ One(Draining /\ todo[1] \notin DOMAIN spool) \in {0, 1}
  BY DEF One
<1> QED BY <1>1, <1>2, SpoolBounds DEF SpoolInv, RoomMade

\* The drain reads a file of its list, or steps over one that is gone.
LEMMA ReadFileKeeps ==
    ASSUME SpoolInv, at["checkin"] = "read", todo # <<>>, todo[1] \in DOMAIN spool,
           doc' = spool[todo[1]], sent' = FALSE,
           at' = [at EXCEPT !["checkin"] = "send"],
           UNCHANGED <<todo, up, items, spool, clock, held, budget, arrivals, evicted, lost, outages,
                       spoolFaults>>
    PROVE  SpoolInv'
<1>1. /\ ~Draining /\ Draining' /\ at'["checkin"] = "send" /\ at'["poll"] = at["poll"]
      /\ at' \in [Posters -> {"idle", "post", "evict", "write", "read", "send", "rewrite"}]
      /\ Steps'
  BY DrainMoves DEF Draining
<1>2. SpoolTypeOK' /\ NamesPaid'
  <2>1. doc' \in Seq(1..MaxItems)
    BY DEF SpoolInv, SpoolTypeOK
  <2>2. SpoolTypeOK'
    BY <1>1, <2>1 DEF SpoolInv, SpoolTypeOK
  <2>3. NamesPaid'
    BY DEF SpoolInv, NamesPaid
  <2> QED BY <2>2, <2>3
<1>3. NoRepeats'
  BY DEF SpoolInv, NoRepeats, Distinct
<1>4. /\ \A i, n \in Items : InFile(i, n)' = InFile(i, n)
      /\ \A i, n \in Items : n = todo[1] => InDoc(i)' = InFile(i, n)
      /\ todo[1] \in Items
      /\ \A i \in Items : ~InDoc(i)
      /\ \A i \in Items, q \in Posters : InHand(i, q)' = InHand(i, q)
  BY <1>1 DEF InFile, InDoc, InHand, SpoolInv, SpoolTypeOK, Items
<1>5. Book'
  <2>1. OnePlace'
    BY <1>4 DEF SpoolInv, Book, OnePlace
  <2>2. DocLeft'
    BY <1>4 DEF DocLeft
  <2>3. \A i \in Items : Pending(i)' => Pending(i)
    BY <1>1, <1>4 DEF Pending
  <2>4. PaidFor'
    BY <2>3 DEF SpoolInv, Book, PaidFor
  <2>5. AllAccounted'
    BY <1>4 DEF SpoolInv, Book, AllAccounted, Accounted
  <2> QED BY <2>1, <2>2, <2>4, <2>5 DEF Book
<1>6. RoomMade'
  <2>1. Cardinality(DOMAIN spool) \in Nat /\ One(Draining /\ todo[1] \notin DOMAIN spool) \in {0, 1}
    BY SpoolFinite DEF SpoolInv, One
  <2>2. Cardinality(DOMAIN spool') <= Cardinality(DOMAIN spool) + One(Draining /\ todo[1] \notin DOMAIN spool)
    BY <2>1
  <2> QED BY <1>1, <2>1, <2>2, DrainRoom
<1> QED BY <1>1, <1>2, <1>3, <1>5, <1>6 DEF SpoolInv

\* The next file is read, one that is gone is passed over, or the drain is done.
LEMMA DrainReadKeeps == ASSUME SpoolInv, DrainRead PROVE SpoolInv'
<1> USE DEF DrainRead
<1>1. CASE todo # <<>> /\ todo[1] \in DOMAIN spool
  BY <1>1, ReadFileKeeps
<1>2. CASE todo = <<>> \/ todo[1] \notin DOMAIN spool
  <2>1. /\ todo' \in Seq(Items) /\ \A k \in DOMAIN todo' : todo'[k] < clock
        /\ UNCHANGED <<up, items, spool, clock, held, doc, sent, budget, arrivals, evicted, lost, outages,
                       spoolFaults>>
    <3>1. todo \in Seq(Items) /\ \A k \in DOMAIN todo : todo[k] < clock
      BY DrainFacts DEF SpoolInv, NamesPaid
    <3>2. CASE todo = <<>>
      BY <3>1, <3>2
    <3>3. CASE todo # <<>>
      <4>1. todo' = Tail(todo)
        BY <1>2, <3>3
      <4>2. Tail(todo) \in Seq(Items) /\ \A k \in DOMAIN Tail(todo) : Tail(todo)[k] < clock
        BY <3>1, <3>3, TailFacts
      <4>3. UNCHANGED <<up, items, spool, clock, held, doc, sent, budget, arrivals, evicted, lost,
                        outages, spoolFaults>>
        BY <1>2, <3>3
      <4> QED BY <4>1, <4>2, <4>3
    <3> QED BY <3>2, <3>3
  <2>2. PICK s \in {"idle", "read"} : at' = [at EXCEPT !["checkin"] = s]
    <3>1. CASE todo = <<>>
      BY <3>1
    <3>2. CASE todo # <<>>
      <4>1. at' = at /\ at["checkin"] = "read" /\ at \in [Posters -> {"idle", "post", "evict", "write", "read", "send", "rewrite"}]
        BY <1>2, <3>2 DEF SpoolInv, SpoolTypeOK
      <4>2. at' = [at EXCEPT !["checkin"] = "read"]
        BY <4>1
      <4> QED BY <4>2
    <3> QED BY <3>1, <3>2
  <2>3. /\ ~Draining /\ ~Draining' /\ at'["checkin"] # "write" /\ at'["poll"] = at["poll"] /\ Steps'
        /\ at' \in [Posters -> {"idle", "post", "evict", "write", "read", "send", "rewrite"}]
    BY <2>1, <2>2, DrainMoves DEF Draining
  <2>4. SpoolTypeOK'
    BY <2>1, <2>3 DEF SpoolInv, SpoolTypeOK, Items
  <2>5. NamesPaid'
    BY <2>1 DEF SpoolInv, NamesPaid
  <2> QED BY <2>1, <2>3, <2>4, <2>5, BookRests DEF SpoolInv
<1> QED BY <1>1, <1>2

\* One more payload of the file has been delivered.
LEMMA SendAcceptedKeeps ==
    ASSUME SpoolInv, at["checkin"] = "send", doc # <<>>, budget > 0, Accepted(doc[1]),
           doc' = Tail(doc), sent' = TRUE, budget' = budget - 1,
           UNCHANGED <<at, up, items, spool, clock, held, todo, evicted, lost, outages>>
    PROVE  SpoolInv'
<1> DEFINE x == doc[1]
<1>1. /\ Draining /\ Draining' /\ spoolFaults' = spoolFaults
      /\ doc \in Seq(Items) /\ todo # <<>> /\ todo \in Seq(Items)
  BY DrainFacts DEF Draining, Accepted
<1>2. /\ x \in Items /\ Tail(doc) \in Seq(Items)
      /\ ToSet(doc) = {x} \cup ToSet(Tail(doc)) /\ x \notin ToSet(Tail(doc)) /\ Distinct(Tail(doc))
  BY <1>1, TailFacts DEF SpoolInv, NoRepeats
<1>3. /\ arrivals' \in [Items -> Nat] /\ arrivals'[x] = arrivals[x] + 1
      /\ \A i \in Items : i # x => arrivals'[i] = arrivals[i]
      /\ \A i \in Items : arrivals[i] \in Nat
  <2>1. arrivals \in [Items -> Nat]
    BY DEF SpoolInv, SpoolTypeOK, Items
  <2>2. Arrives(x)
    BY DEF Accepted
  <2> QED BY <1>2, <2>1, <2>2 DEF Arrives
<1> HIDE DEF x
<1>4. SpoolTypeOK'
  <2>1. budget' \in 0..DrainPayloads
    BY SpoolBounds DEF SpoolInv, SpoolTypeOK
  <2> QED BY <1>1, <1>2, <1>3, <2>1 DEF SpoolInv, SpoolTypeOK, Items
<1>5. Steps' /\ NamesPaid'
  <2>1. Steps'
    BY DEF SpoolInv, Steps, Draining
  <2>2. NamesPaid'
    BY DEF SpoolInv, NamesPaid
  <2> QED BY <2>1, <2>2
<1>6. NoRepeats'
  <2>1. Distinct(doc)' = Distinct(doc') /\ Distinct(doc')
    BY <1>2 DEF Distinct
  <2>2. (\A n \in DOMAIN spool : Distinct(spool[n]))' /\ (\A q \in Posters : Distinct(held[q]))'
    BY DEF SpoolInv, NoRepeats, Distinct
  <2> QED BY <2>1, <2>2 DEF NoRepeats
<1>7. /\ \A i, n \in Items : InFile(i, n)' = InFile(i, n)
      /\ \A i \in Items : InDoc(i)' <=> InDoc(i) /\ i # x
      /\ InDoc(x)
      /\ \A i \in Items, q \in Posters : InHand(i, q)' = InHand(i, q)
  BY <1>1, <1>2 DEF InFile, InDoc, InHand
<1>8. OnePlace' /\ DocLeft'
  <2>1. OnePlace'
    BY <1>7, Shrinks DEF SpoolInv, Book
  <2>2. arrivals'[x] > 0 /\ \A i \in Items : arrivals[i] > 0 => arrivals'[i] > 0
    BY <1>2, <1>3
  <2>3. DocLeft'
    BY <1>1, <1>7, <2>2 DEF SpoolInv, Book, DocLeft
  <2> QED BY <2>1, <2>3
<1>9. PaidFor'
  <2>1. \A i \in Items : Pending(i)' => Pending(i) /\ i # x
    BY <1>1, <1>2, <1>7 DEF SpoolInv, Book, OnePlace, Pending
  <2>2. Pending(x) /\ x <= items
    BY <1>2, <1>7 DEF Pending, SpoolInv, Book, OnePlace
  <2>3. spoolFaults \in Nat /\ PaidFor /\ items \in Nat
    BY DEF SpoolInv, Book, SpoolTypeOK
  <2> QED BY <1>1, <1>2, <1>3, <2>1, <2>2, <2>3 DEF PaidFor, Items
<1>10. AllAccounted'
  <2>1. \A i \in Items : Accounted(i) => Accounted(i)'
    BY <1>2, <1>3, <1>7 DEF Accounted
  <2> QED BY <2>1 DEF SpoolInv, Book, AllAccounted
<1>11. RoomMade'
  BY <1>1 DEF SpoolInv, RoomMade
<1> QED BY <1>4, <1>5, <1>6, <1>8, <1>9, <1>10, <1>11 DEF SpoolInv, Book

\* A payload could not be delivered: what was is taken off the file, or the drain ends.
LEMMA SendFailedKeeps ==
    ASSUME SpoolInv, at["checkin"] = "send", doc # <<>>,
           Failed(doc[1]) \/ UNCHANGED <<arrivals, spoolFaults>>,
           at' = [at EXCEPT !["checkin"] = IF sent THEN "rewrite" ELSE "idle"],
           UNCHANGED <<doc, sent, budget, up, items, spool, clock, held, todo, evicted, lost, outages>>
    PROVE  SpoolInv'
<1> DEFINE x == doc[1]
<1>1. PICK s \in {"idle", "rewrite"} :
          s = (IF sent THEN "rewrite" ELSE "idle") /\ at' = [at EXCEPT !["checkin"] = s]
  OBVIOUS
<1>2. /\ Draining /\ (Draining' <=> s = "rewrite") /\ (s = "rewrite" <=> sent)
      /\ at' \in [Posters -> {"idle", "post", "evict", "write", "read", "send", "rewrite"}]
      /\ at'["checkin"] = s /\ at'["poll"] = at["poll"] /\ todo # <<>> /\ doc \in Seq(Items)
      /\ Steps'
  BY <1>1, DrainMoves, DrainFacts DEF Draining
<1>3. x \in Items /\ x \in ToSet(doc)
  BY <1>2, TailFacts
<1>4. /\ arrivals' \in [Items -> Nat] /\ arrivals \in [Items -> Nat]
      /\ \A i \in Items : i # x => arrivals'[i] = arrivals[i]
      /\ arrivals'[x] >= arrivals[x]
      /\ spoolFaults \in Nat /\ spoolFaults' \in 0..MaxSpoolFaults
      /\ \/ arrivals'[x] = arrivals[x] /\ spoolFaults' = spoolFaults
         \/ arrivals'[x] = arrivals[x] + 1 /\ spoolFaults' = spoolFaults + 1
  <2>1. arrivals \in [Items -> Nat] /\ spoolFaults \in 0..MaxSpoolFaults
    BY DEF SpoolInv, SpoolTypeOK, Items
  <2>2. CASE Arrives(x) /\ SpoolFault
    BY <1>3, <2>1, <2>2, SpoolBounds DEF Arrives, SpoolFault
  <2>3. CASE UNCHANGED <<arrivals, spoolFaults>>
    BY <1>3, <2>1, <2>3, SpoolBounds
  <2> QED BY <2>2, <2>3 DEF Failed
<1> HIDE DEF x
<1>5. SpoolTypeOK' /\ NamesPaid' /\ NoRepeats'
  <2>1. SpoolTypeOK'
    BY <1>2, <1>4 DEF SpoolInv, SpoolTypeOK, Items
  <2>2. NamesPaid'
    BY DEF SpoolInv, NamesPaid
  <2>3. NoRepeats'
    BY <1>2 DEF SpoolInv, NoRepeats, Distinct
  <2> QED BY <2>1, <2>2, <2>3
<1>6. /\ \A i, n \in Items : InFile(i, n)' = InFile(i, n)
      /\ \A i \in Items : InDoc(i)' <=> InDoc(i) /\ sent
      /\ InDoc(x)
      /\ \A i \in Items, q \in Posters : InHand(i, q)' = InHand(i, q)
  BY <1>2, <1>3 DEF InFile, InDoc, InHand
<1>7. OnePlace' /\ DocLeft'
  <2>1. OnePlace'
    BY <1>6, Shrinks DEF SpoolInv, Book
  <2>2. \A i \in Items : arrivals'[i] >= arrivals[i]
    BY <1>4
  <2>3. DocLeft'
    BY <1>2, <1>4, <1>6, <2>2 DEF SpoolInv, Book, DocLeft
  <2> QED BY <2>1, <2>3
<1>8. PaidFor'
  <2>1. \A i \in Items : Pending(i)' => Pending(i)
    <3>1. CASE sent
      BY <1>2, <1>6, <3>1 DEF Pending
    <3>2. CASE ~sent
      <4>1. \A i, n \in Items : InFile(i, n) /\ n = todo[1] => InDoc(i)
        BY <1>2, <3>2 DEF SpoolInv, Book, DocLeft
      <4> QED BY <1>2, <1>6, <3>2, <4>1 DEF Pending
    <3> QED BY <3>1, <3>2
  <2>2. Pending(x) /\ x <= items
    BY <1>3, <1>6 DEF Pending, SpoolInv, Book, OnePlace
  <2>3. PaidFor /\ items \in Nat /\ items' = items
    BY DEF SpoolInv, Book, SpoolTypeOK
  <2> QED BY <1>3, <1>4, <2>1, <2>2, <2>3 DEF PaidFor, Items
<1>9. AllAccounted'
  <2>1. \A i \in Items : Accounted(i) => Accounted(i)'
    BY <1>3, <1>4, <1>6 DEF Accounted
  <2> QED BY <2>1 DEF SpoolInv, Book, AllAccounted
<1>10. RoomMade'
  <2>1. Cardinality(DOMAIN spool) \in Nat
    BY SpoolFinite DEF SpoolInv
  <2>2. /\ One(at["checkin"] = "write")' = One(at["checkin"] = "write")
        /\ One(at["poll"] = "write")' = One(at["poll"] = "write")
        /\ One(Draining /\ todo[1] \notin DOMAIN spool)' \in {0, 1}
        /\ One(Draining /\ todo[1] \notin DOMAIN spool) \in {0, 1}
        /\ One(Draining /\ todo[1] \notin DOMAIN spool)' <= One(Draining /\ todo[1] \notin DOMAIN spool)
        /\ One(at["checkin"] = "write") \in {0, 1} /\ One(at["poll"] = "write") \in {0, 1}
    BY <1>2 DEF One
  <2>3. Cardinality(DOMAIN spool)' = Cardinality(DOMAIN spool)
    OBVIOUS
  <2> QED BY <2>1, <2>2, <2>3, SpoolBounds DEF SpoolInv, RoomMade
<1> QED BY <1>2, <1>5, <1>7, <1>8, <1>9, <1>10 DEF SpoolInv, Book

\* The drain sends the next result of a file, and stops at one that fails.
LEMMA DrainSendKeeps == ASSUME SpoolInv, DrainSend PROVE SpoolInv'
BY SendAcceptedKeeps, SendFailedKeeps DEF DrainSend

\* The remainder of a file is a file, under the name the whole had.
LEMMA RewrittenKeeps ==
    ASSUME SpoolInv, at["checkin"] = "rewrite", spool' = Put(todo[1], doc),
           at' = [at EXCEPT !["checkin"] = "idle"],
           UNCHANGED <<up, items, clock, held, drainVars, arrivals, evicted, lost, outages, spoolFaults>>
    PROVE  SpoolInv'
<1> USE DEF drainVars
<1>1. /\ Draining /\ ~Draining' /\ at'["checkin"] = "idle" /\ at'["poll"] = at["poll"] /\ Steps'
      /\ at' \in [Posters -> {"idle", "post", "evict", "write", "read", "send", "rewrite"}]
      /\ todo[1] \in Items /\ todo[1] < clock /\ doc \in Seq(Items) /\ Distinct(doc)
  BY DrainMoves, DrainFacts DEF Draining, SpoolInv, NoRepeats
<1>2. /\ DOMAIN spool' = DOMAIN spool \cup {todo[1]} /\ spool'[todo[1]] = doc
      /\ \A n \in DOMAIN spool : n # todo[1] => spool'[n] = spool[n]
  BY DEF Put
<1>3. SpoolTypeOK'
  <2>1. DOMAIN spool' \subseteq 1..MaxItems /\ \A n \in DOMAIN spool' : spool'[n] \in Seq(1..MaxItems)
    BY <1>1, <1>2 DEF SpoolInv, SpoolTypeOK, Items
  <2> QED BY <1>1, <2>1 DEF SpoolInv, SpoolTypeOK
<1>4. NamesPaid'
  BY <1>1, <1>2 DEF SpoolInv, NamesPaid
<1>5. NoRepeats'
  <2>1. \A n \in DOMAIN spool' : Distinct(spool'[n])
    BY <1>1, <1>2 DEF SpoolInv, NoRepeats
  <2>2. /\ \A n : Distinct(spool[n])' = Distinct(spool'[n])
        /\ (\A q \in Posters : Distinct(held[q]))'
    BY DEF Distinct, SpoolInv, NoRepeats
  <2> QED BY <1>1, <2>1, <2>2 DEF NoRepeats
<1>6. /\ \A i, n \in Items : n # todo[1] => InFile(i, n)' = InFile(i, n)
      /\ \A i, n \in Items : n = todo[1] => InFile(i, n)' = InDoc(i)
      /\ \A i \in Items : ~InDoc(i)'
      /\ \A i \in Items, q \in Posters : InHand(i, q)' = InHand(i, q)
  BY <1>1, <1>2 DEF InFile, InDoc, InHand
<1>7. OnePlace' /\ DocLeft'
  <2>1. OnePlace'
    BY <1>1, <1>6 DEF SpoolInv, Book, OnePlace
  <2> QED BY <1>1, <2>1 DEF DocLeft
<1>8. PaidFor'
  <2>1. \A i \in Items : Pending(i)' => Pending(i)
    BY <1>1, <1>6 DEF Pending
  <2> QED BY <2>1 DEF SpoolInv, Book, PaidFor
<1>9. AllAccounted'
  <2>1. \A i \in Items : Accounted(i) => Accounted(i)'
    BY <1>1, <1>6 DEF Accounted, SpoolInv, Book, DocLeft
  <2> QED BY <2>1 DEF SpoolInv, Book, AllAccounted
<1>10. RoomMade'
  <2>1. Cardinality(DOMAIN spool') = Cardinality(DOMAIN spool) + One(Draining /\ todo[1] \notin DOMAIN spool)
        /\ Cardinality(DOMAIN spool') \in Nat
    <3>1. CASE todo[1] \in DOMAIN spool
      <4>1. Cardinality(DOMAIN spool') = Cardinality(DOMAIN spool) /\ Cardinality(DOMAIN spool) \in Nat
        BY <1>2, <3>1, OneFileMore, SpoolFinite DEF SpoolInv
      <4>2. One(Draining /\ todo[1] \notin DOMAIN spool) = 0
        BY <3>1 DEF One
      <4> QED BY <4>1, <4>2
    <3>2. CASE todo[1] \notin DOMAIN spool
      <4>1. Cardinality(DOMAIN spool') = Cardinality(DOMAIN spool) + 1 /\ Cardinality(DOMAIN spool) \in Nat
        BY <1>2, <3>2, OneFileMore, SpoolFinite DEF SpoolInv
      <4>2. One(Draining /\ todo[1] \notin DOMAIN spool) = 1
        BY <1>1, <3>2 DEF One
      <4> QED BY <4>1, <4>2
    <3> QED BY <3>1, <3>2
  <2>2. Cardinality(DOMAIN spool') <= Cardinality(DOMAIN spool) + One(Draining /\ todo[1] \notin DOMAIN spool)
    BY <2>1
  <2> QED BY <1>1, <2>1, <2>2, DrainRoom
<1> QED BY <1>1, <1>3, <1>4, <1>5, <1>7, <1>8, <1>9, <1>10 DEF SpoolInv, Book

\* A rewrite that fails leaves the whole file, which may then be sent again.
LEMMA RewriteFailedKeeps ==
    ASSUME SpoolInv, at["checkin"] = "rewrite", SpoolFault,
           at' = [at EXCEPT !["checkin"] = "idle"],
           UNCHANGED <<up, items, spool, clock, held, drainVars, arrivals, evicted, lost, outages>>
    PROVE  SpoolInv'
<1>1. held["checkin"] = <<>> /\ held \in [Posters -> Seq(1..MaxItems)]
  BY DrainFacts DEF SpoolInv, SpoolTypeOK
<1>2. held' = [held EXCEPT !["checkin"] = <<>>]
  BY <1>1, Zenon DEF Posters
<1>3. lost' = lost \cup ToSet(held["checkin"])
  BY <1>1, SetOfEmpty
<1> QED BY <1>2, <1>3, LetGoKeeps DEF Posters

\* What is left of a file is written back, or that fails and the file stays whole.
LEMMA DrainRewriteKeeps == ASSUME SpoolInv, DrainRewrite PROVE SpoolInv'
<1>1. CASE spool' = Put(todo[1], doc) /\ UNCHANGED spoolFaults
  BY <1>1, RewrittenKeeps DEF DrainRewrite
<1>2. CASE SpoolFault /\ UNCHANGED spool
  BY <1>2, RewriteFailedKeeps DEF DrainRewrite
<1> QED BY <1>1, <1>2 DEF DrainRewrite

\* A file that is delivered goes.
LEMMA DrainUnlinkKeeps == ASSUME SpoolInv, DrainUnlink PROVE SpoolInv'
<1> DEFINE n0 == todo[1]
<1>1. /\ at["checkin"] = "send" /\ at' = [at EXCEPT !["checkin"] = "read"]
      /\ doc = <<>> /\ spool' = Drop({n0}) /\ todo' = Tail(todo)
      /\ UNCHANGED <<up, items, clock, held, doc, sent, budget, arrivals, evicted, lost, outages,
                     spoolFaults>>
  BY DEF DrainUnlink
<1>2. /\ Draining /\ ~Draining' /\ at'["checkin"] = "read" /\ at'["poll"] = at["poll"] /\ Steps'
      /\ at' \in [Posters -> {"idle", "post", "evict", "write", "read", "send", "rewrite"}]
      /\ todo # <<>> /\ todo \in Seq(Items) /\ n0 \in Items
  BY <1>1, DrainMoves, DrainFacts DEF Draining
<1>3. DOMAIN spool' = DOMAIN spool \ {n0} /\ \A n \in DOMAIN spool' : spool'[n] = spool[n]
  BY <1>1 DEF Drop
<1> HIDE DEF n0
<1>4. todo' \in Seq(Items) /\ \A k \in DOMAIN todo' : todo'[k] < clock
  <2>1. Tail(todo) \in Seq(Items) /\ \A k \in DOMAIN Tail(todo) : Tail(todo)[k] < clock
    BY <1>2, TailFacts DEF SpoolInv, NamesPaid
  <2> QED BY <1>1, <2>1
<1>5. SpoolTypeOK' /\ NamesPaid' /\ NoRepeats'
  <2>1. SpoolTypeOK'
    BY <1>1, <1>2, <1>3, <1>4 DEF SpoolInv, SpoolTypeOK, Items
  <2>2. NamesPaid'
    BY <1>1, <1>3, <1>4 DEF SpoolInv, NamesPaid
  <2>3. NoRepeats'
    <3>1. \A n \in DOMAIN spool' : Distinct(spool[n])'
      BY <1>3 DEF SpoolInv, NoRepeats, Distinct
    <3>2. \A q \in Posters : Distinct(held[q])'
      BY <1>1 DEF SpoolInv, NoRepeats, Distinct
    <3> QED BY <1>2, <3>1, <3>2 DEF NoRepeats
  <2> QED BY <2>1, <2>2, <2>3
<1>6. /\ \A i, n \in Items : InFile(i, n)' <=> InFile(i, n) /\ n # n0
      /\ \A i \in Items : ~InDoc(i) /\ ~InDoc(i)'
      /\ \A i \in Items, q \in Posters : InHand(i, q)' = InHand(i, q)
  BY <1>1, <1>2, <1>3, SetOfEmpty DEF InFile, InDoc, InHand
<1>7. OnePlace' /\ DocLeft'
  <2>1. OnePlace'
    BY <1>1, <1>6 DEF SpoolInv, Book, OnePlace
  <2> QED BY <1>2, <2>1 DEF DocLeft
<1>8. PaidFor'
  <2>1. \A i \in Items : Pending(i)' => Pending(i)
    BY <1>2, <1>6 DEF Pending, n0
  <2> QED BY <1>1, <2>1 DEF SpoolInv, Book, PaidFor
<1>9. AllAccounted'
  <2>1. \A i \in Items : InFile(i, n0) => arrivals[i] > 0
    BY <1>2, <1>6 DEF SpoolInv, Book, DocLeft, n0
  <2>2. \A i \in Items : Accounted(i) => Accounted(i)'
    BY <1>1, <1>2, <1>6, <2>1 DEF Accounted
  <2> QED BY <1>1, <2>2 DEF SpoolInv, Book, AllAccounted
<1>10. RoomMade'
  <2>1. Cardinality(DOMAIN spool') \in Nat /\ Cardinality(DOMAIN spool') <= Cardinality(DOMAIN spool)
    BY <1>3, OneFileMore DEF SpoolInv
  <2>2. Cardinality(DOMAIN spool) \in Nat /\ One(Draining /\ todo[1] \notin DOMAIN spool) \in {0, 1}
    BY SpoolFinite DEF SpoolInv, One
  <2>3. Cardinality(DOMAIN spool') <= Cardinality(DOMAIN spool) + One(Draining /\ todo[1] \notin DOMAIN spool)
    BY <2>1, <2>2
  <2> QED BY <1>1, <1>2, <2>1, <2>3, DrainRoom
<1> QED BY <1>2, <1>5, <1>7, <1>8, <1>9, <1>10 DEF SpoolInv, Book

----------------------------------------------------------------------------
(* The spool at every instant.                                             *)

\* Every step of check-in, poll and drain keeps the results in their places.
LEMMA SpoolStepKeeps == SpoolInv /\ [SpoolNext]_spoolVars => SpoolInv'
<1> SUFFICES ASSUME SpoolInv, [SpoolNext]_spoolVars PROVE SpoolInv'
  OBVIOUS
<1>1. ASSUME NEW p \in Posters, SpoolStep(p) \/ SpoolKilled(p) \/ \E n \in 1..2 : Measure(p, n)
      PROVE  SpoolInv'
  <2>1. CASE SpoolStep(p)
    BY <2>1, PostResultKeeps, EvictKeeps, WriteSpoolKeeps DEF SpoolStep
  <2>2. CASE SpoolKilled(p)
    BY <2>2, SpoolKilledKeeps
  <2>3. CASE \E n \in 1..2 : Measure(p, n)
    BY <2>3, MeasureKeeps
  <2> QED BY <1>1, <2>1, <2>2, <2>3
<1>2. CASE DrainStep
  BY <1>2, DrainStartsKeeps, DrainReadKeeps, DrainSendKeeps, DrainRewriteKeeps, DrainUnlinkKeeps
     DEF DrainStep
<1>3. CASE GoesDown
  BY <1>3, GoesDownKeeps
<1>4. CASE ComesBack
  BY <1>4, ComesBackKeeps
<1>5. CASE UNCHANGED spoolVars
  <2>1. up \in BOOLEAN /\ outages \in 0..MaxOutages
    BY DEF SpoolInv, SpoolTypeOK
  <2>2. UNCHANGED <<up, items, spool, clock, at, held, drainVars, arrivals, evicted, lost, outages,
                    spoolFaults>>
    BY <1>5 DEF spoolVars, drainVars
  <2>3. up' \in BOOLEAN
    BY <2>1, <2>2
  <2>4. outages' \in 0..MaxOutages
    BY <2>1, <2>2
  <2> QED BY <2>2, <2>3, <2>4, AllRests
<1> QED BY <1>1, <1>2, <1>3, <1>4, <1>5 DEF SpoolNext

\* The inductive invariant holds at every step of the check-in, the poll and the drain:
\* a result has one place, and each time it arrived while it could still be sent again
\* was paid for by a fault.
LEMMA SpoolInductive == SpoolSpec => []SpoolInv
BY SpoolStarts, SpoolStepKeeps, PTL DEF SpoolSpec

\* The book of the results says what is promised of them.
LEMMA BookSound == SpoolInv => SpoolSound
<1> SUFFICES ASSUME SpoolInv PROVE SpoolSound
  OBVIOUS
<1>1. EveryResultAccounted
  <2>1. SUFFICES ASSUME NEW i \in 1..items
                 PROVE  arrivals[i] > 0 \/ i \in ItemsIn(spool) \cup ItemsIn(held) \cup evicted \cup lost
    BY DEF EveryResultAccounted
  <2>2. i \in Items /\ Accounted(i)
    BY SpoolBounds DEF SpoolInv, SpoolTypeOK, Items, Book, AllAccounted
  <2>3. \A n : InFile(i, n) => i \in ItemsIn(spool)
    BY DEF InFile, ItemsIn
  <2>4. \A p \in Posters : InHand(i, p) => i \in ItemsIn(held)
    BY HandFacts DEF InHand, ItemsIn
  <2> QED BY <2>2, <2>3, <2>4 DEF Accounted
<1>2. DeliveredOnce
  <2>1. \A i \in 1..items : arrivals[i] <= 1 + spoolFaults
    BY SpoolBounds DEF SpoolInv, SpoolTypeOK, Items, Book, PaidFor
  <2>2. Cardinality(DOMAIN spool) \in Nat
    BY SpoolFinite DEF SpoolInv
  <2>3. /\ One(at["checkin"] = "write") \in {0, 1} /\ One(at["poll"] = "write") \in {0, 1}
        /\ One(Draining /\ todo[1] \notin DOMAIN spool) \in {0, 1}
    BY DEF One
  <2>4. Cardinality(DOMAIN spool) <= SpoolMax + 1
    BY <2>2, <2>3, SpoolBounds DEF SpoolInv, RoomMade
  <2> QED BY <2>1, <2>4 DEF DeliveredOnce
<1> QED BY <1>1, <1>2 DEF SpoolInv, SpoolSound

\* No result of a measurement or a command vanishes: it has arrived, waits on disk or in
\* a process, or is on the record of what the cap, a failed write or a kill took.  None
\* arrives more often than once and once for each fault, and the spool never outgrows
\* its cap by more than a file, whatever the two processes do.
THEOREM SpoolIsSound == SpoolSpec => []SpoolSound
BY SpoolInductive, BookSound, PTL
===============================================================================
