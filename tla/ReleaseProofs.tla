---------------------------- MODULE ReleaseProofs ----------------------------
(***************************************************************************)
(* Safety of the nightly update for every number of releases, migrations,  *)
(* failures and kills: type correctness; the release the dashboard is told *)
(* has passed the healthcheck here, if nothing but the update touches the  *)
(* box; and no collector lacks a migration of its release, nor does a      *)
(* rollback load a snapshot newer than the code it goes back to, if        *)
(* nothing is killed either.                                               *)
(***************************************************************************)
EXTENDS Release, TLAPS

\* What a script has read of its target before it uses it.
TargetsRead ==
    /\ pc["update"] \in {"save", "dump", "reset", "pull", "tag"} => remote \in Rels
    /\ \A p \in Procs : pc[p] \in {"down", "retag", "checkout"} => target[p] \in Rels

\* Nobody else is at work until somebody comes.
Alone == guests = 0 => \A p \in Procs \ {"update"} : At(p, "idle")

\* Then the update's steps each find what the one before left: the checkout,
\* the image, the tag and the container are those of the target ...
OnTarget ==
    /\ pc["update"] \in {"pull", "tag", "up", "check", "record"} => head = remote
    /\ pc["update"] \in {"tag", "up", "check"} => images[remote] = remote
    /\ pc["update"] \in {"up", "check"} => tag = remote
    /\ At("update", "check") => collector = remote
    /\ At("update", "record") => remote \in proved

\* ... or, on the way back, of the rollback's target ...
OnReturn ==
    /\ pc["update"] \in {"checkout", "postgres", "load", "fetch", "boot"}
          => tag = target["update"]
    /\ pc["update"] \in {"postgres", "load", "fetch", "boot"} => head = target["update"]

\* ... and an image holds the code its tag names.
ImagesTrue == \A r \in Rels : images[r] \in {0, r}

Undisturbed == guests = 0 => OnTarget /\ OnReturn /\ ImagesTrue

\* A rollback that found no trouble has removed the container.
Removed ==
    pc["update"] \in {"retag", "checkout", "postgres", "load", "fetch", "boot"}
        => collector = 0
Stopped == guests = 0 /\ wrecks = 0 => Removed

\* The inductive invariant.
IInv ==
    /\ TypeOK /\ TargetsRead /\ Alone /\ Undisturbed /\ Stopped
    /\ CurrentProven /\ MigratedUp

----------------------------------------------------------------------------
(* Type correctness.                                                       *)

\* Budgets stay within their bounds.
LEMMA CostTypes ==
    ASSUME TypeOK, Fault \/ Wreck \/ Guest \/ UNCHANGED costs
    PROVE  faults' \in 0..MaxFaults /\ wrecks' \in 0..MaxWrecks /\ guests' \in 0..MaxGuests
BY ReleaseBounds DEF TypeOK, Fault, Wreck, Guest, costs

\* A script that ends leaves types as they are, and no target behind.
LEMMA EndTypes ==
    ASSUME TypeOK, NEW p \in Procs, End(p)
    PROVE  /\ pc' \in [Procs -> PCs] /\ target' \in [Procs -> 0..MaxRel]
           /\ local' \in 0..MaxRel /\ remote' \in 0..MaxRel
           /\ pc'[p] = "idle"
           /\ \A q \in Procs \ {p} : pc'[q] = pc[q] /\ target'[q] = target[q]
           /\ p # "update" => remote' = remote
BY ReleaseBounds DEF TypeOK, End, Goto, PCs

\* Numbers of releases.
LEMMA RelArith ==
    /\ 0 \in 0..MaxRel
    /\ \A r \in 0..MaxRel : r # 0 => r \in Rels
    /\ \A r \in Rels : r < MaxRel => r + 1 \in Rels
BY ReleaseBounds DEF Rels

\* A script that goes on moves its own program counter only.
LEMMA GotoTypes ==
    ASSUME TypeOK, NEW p \in Procs, NEW l \in PCs, Goto(p, l)
    PROVE  /\ pc' \in [Procs -> PCs] /\ pc'[p] = l
           /\ \A q \in Procs \ {p} : pc'[q] = pc[q]
BY DEF TypeOK, Goto

\* An image under one tag more, of some release.
LEMMA ImageTypes ==
    ASSUME TypeOK, NEW t \in Rels, NEW r \in Rels
    PROVE  [images EXCEPT ![t] = r] \in [Rels -> 0..MaxRel]
BY ReleaseBounds DEF TypeOK, Rels

\* So pulling or building one keeps docker's images in their type.
LEMMA ObtainedTypes ==
    ASSUME TypeOK, NEW t \in Rels, images' \in Obtained(t)
    PROVE  images' \in [Rels -> 0..MaxRel]
<1>1. PICK r \in {t, head} : images' = [images EXCEPT ![t] = r]
  BY DEF Obtained
<1>2. r \in Rels
  BY DEF TypeOK
<1> QED BY <1>1, <1>2, ImageTypes

\* Bringing the containers up, or failing to, keeps docker's types.
LEMMA StackTypes ==
    ASSUME TypeOK, StartStack \/ StackFails
    PROVE  /\ images' \in [Rels -> 0..MaxRel] /\ collector' \in 0..MaxRel
           /\ postgres' \in BOOLEAN /\ db' \in SUBSET Migrations
<1>1. CASE StartStack
  <2>1. images' = images \/ images' \in Obtained(tag)
    BY <1>1 DEF StartStack, Obtained
  <2>2. images' \in [Rels -> 0..MaxRel]
    BY <2>1, ObtainedTypes DEF TypeOK
  <2>3. collector' \in 0..MaxRel
    BY <1>1, <2>2 DEF StartStack, TypeOK
  <2>4. postgres' \in BOOLEAN
    BY <1>1 DEF StartStack
  <2>5. db' \in SUBSET Migrations
    BY <1>1 DEF StartStack, Shipped, TypeOK
  <2> QED BY <2>2, <2>3, <2>4, <2>5
<1>2. CASE StackFails
  <2>1. images' \in [Rels -> 0..MaxRel] /\ db' \in SUBSET Migrations
    BY <1>2 DEF StackFails, TypeOK
  <2>2. collector' \in 0..MaxRel
    BY <1>2, ReleaseBounds DEF StackFails, TypeOK
  <2>3. postgres' \in BOOLEAN
    BY <1>2 DEF StackFails, TypeOK
  <2> QED BY <2>1, <2>2, <2>3
<1> QED BY <1>1, <1>2

\* Where a script has a target still to use.
LEMMA TargetsKept ==
    ASSUME TypeOK, TargetsRead, NEW p \in Procs, NEW l \in PCs,
           (Goto(p, l) /\ UNCHANGED locals) \/ End(p),
           l \in {"save", "dump", "reset", "pull", "tag"} => p # "update" \/ remote \in Rels,
           l \in {"down", "retag", "checkout"} => target[p] \in Rels
    PROVE  TargetsRead'
<1>1. CASE Goto(p, l) /\ UNCHANGED locals
  BY <1>1, GotoTypes DEF TargetsRead, locals, Procs
<1>2. CASE End(p)
  BY <1>2, EndTypes DEF TargetsRead, Procs
<1> QED BY <1>1, <1>2


\* Every step of the update keeps every variable in its type.
LEMMA UpdateTyped ==
    ASSUME TypeOK, TargetsRead, UpdateStarts \/ SaveSha \/ Snapshot \/ MoveHead \/ GetImage \/ WriteTag
                             \/ BringUp \/ CheckHealth \/ RecordCurrent
    PROVE  TypeOK' /\ TargetsRead'
<1>. USE ReleaseBounds, ReleaseWants, CostTypes, GotoTypes, EndTypes, TargetsKept
     DEF TypeOK, At, repo, docker, data, marks, world, locals
<1>1. CASE UpdateStarts
  <2>1. Fault \/ Wreck \/ Guest \/ UNCHANGED costs
    BY <1>1 DEF UpdateStarts
  <2>2. Goto("update", "save") \/ Goto("update", "reset")
    BY <1>1 DEF UpdateStarts, FirstStep
  <2>3. pc' \in [Procs -> PCs] /\ pc'["update"] \in PCs
        /\ \A q \in Procs \ {"update"} : pc'[q] = pc[q]
    BY <2>2 DEF PCs, Procs
  <2>4. local' \in 0..MaxRel /\ remote' \in Rels /\ remote' \in 0..MaxRel
    BY <1>1 DEF UpdateStarts, Rels
  <2>6. UNCHANGED target /\ At("update", "idle")
    BY <1>1 DEF UpdateStarts
  <2>7. pc'["update"] \notin {"down", "retag", "checkout"}
    BY <2>2 DEF Procs, PCs
  <2>8. \A q \in Procs : pc'[q] \in {"down", "retag", "checkout"} => target'[q] \in Rels
    BY <2>3, <2>6, <2>7 DEF TargetsRead
  <2>5. TargetsRead'
    BY <2>4, <2>8 DEF TargetsRead
  <2> QED BY <1>1, <2>1, <2>3, <2>4, <2>5 DEF UpdateStarts
<1>2. CASE SaveSha
  BY <1>2 DEF SaveSha, TargetsRead, PCs, Procs, Rels
<1>3. CASE Snapshot
  BY <1>3 DEF Snapshot, TargetsRead, PCs, Procs, costs
<1>4. CASE MoveHead
  BY <1>4 DEF MoveHead, TargetsRead, PCs, Procs
<1>5. CASE GetImage
  BY <1>5, ObtainedTypes DEF GetImage, TargetsRead, PCs, Procs
<1>6. CASE WriteTag
  BY <1>6 DEF WriteTag, TargetsRead, PCs, Procs
<1>7. CASE BringUp
  BY <1>7, StackTypes DEF BringUp, PCs, Procs
<1>8. CASE CheckHealth
  <2>1. Fault \/ Wreck \/ Guest \/ UNCHANGED costs
    BY <1>8 DEF CheckHealth
  <2>2. Goto("update", "record") \/ Goto("update", "rollback")
    BY <1>8 DEF CheckHealth
  <2>3. pc' \in [Procs -> PCs] /\ TargetsRead'
    BY <1>8, <2>2 DEF CheckHealth, PCs, Procs
  <2>4. proved' = proved \/ (proved' = proved \cup {collector} /\ collector # 0)
    BY <1>8 DEF CheckHealth, Healthy
  <2>5. proved' \in SUBSET Rels
    BY <2>4, RelArith
  <2> QED BY <1>8, <2>1, <2>3, <2>5 DEF CheckHealth
<1>9. CASE RecordCurrent
  BY <1>9 DEF RecordCurrent, PCs, Procs
<1> QED BY <1>1, <1>2, <1>3, <1>4, <1>5, <1>6, <1>7, <1>8, <1>9

\* So does every step of a rollback, whoever runs it.
LEMMA RollbackTyped ==
    ASSUME TypeOK, TargetsRead, NEW p \in Procs, Rollback(p)
    PROVE  TypeOK' /\ TargetsRead'
<1>. USE ReleaseBounds, ReleaseWants, CostTypes, GotoTypes, EndTypes, TargetsKept
     DEF TypeOK, At, repo, docker, data, marks, world, locals
<1>1. CASE RollbackStarts(p)
  <2>1. CASE End(p)
    BY <1>1, <2>1 DEF RollbackStarts, PCs
  <2>2. CASE sha \notin {0, head}
    <3>1. Goto(p, "down") /\ target' = [target EXCEPT ![p] = sha] /\ sha # 0
      BY <1>1, <2>2 DEF RollbackStarts
    <3>4. sha \in Rels /\ UNCHANGED remote
      BY <1>1, <2>2, RelArith DEF RollbackStarts
    <3>5. /\ pc'[p] = "down" /\ target'[p] \in Rels
          /\ \A q \in Procs \ {p} : pc'[q] = pc[q] /\ target'[q] = target[q]
      BY <3>1, <3>4 DEF PCs
    <3>2. TargetsRead'
      BY <3>4, <3>5 DEF TargetsRead, Procs
    <3> QED BY <1>1, <2>2, <3>1, <3>2 DEF RollbackStarts, PCs
  <2> QED BY <1>1, <2>1, <2>2 DEF RollbackStarts
<1>2. CASE Down(p)
  <2>1. Fault \/ Wreck \/ Guest \/ UNCHANGED costs
    BY <1>2 DEF Down
  <2>2. Goto(p, "retag") /\ UNCHANGED locals /\ target[p] \in Rels
    BY <1>2 DEF Down, TargetsRead
  <2>3. pc' \in [Procs -> PCs] /\ TargetsRead'
    BY <2>2 DEF PCs
  <2>4. collector' = 0 \/ collector' = collector
    BY <1>2 DEF Down
  <2>5. postgres' = FALSE \/ postgres' = postgres
    BY <1>2 DEF Down
  <2> QED BY <1>2, <2>1, <2>3, <2>4, <2>5, RelArith DEF Down
<1>3. CASE Retag(p)
  BY <1>3 DEF Retag, TargetsRead, PCs
<1>4. CASE Checkout(p)
  BY <1>4 DEF Checkout, TargetsRead, PCs
<1>5. CASE StartPostgres(p)
  BY <1>5 DEF StartPostgres, PCs
<1>6. CASE Load(p)
  BY <1>6 DEF Load, PCs
<1>7. CASE FetchImage(p)
  BY <1>7, ObtainedTypes DEF FetchImage, PCs
<1>8. CASE Boot(p)
  BY <1>8, StackTypes DEF Boot, PCs
<1> QED BY <1>1, <1>2, <1>3, <1>4, <1>5, <1>6, <1>7, <1>8 DEF Rollback

\* So does everybody else.
LEMMA OthersTyped ==
    ASSUME TypeOK, TargetsRead, OperatorRollsBack \/ Refresh \/ Checkin \/ World
    PROVE  TypeOK' /\ TargetsRead'
<1>. USE ReleaseBounds, ReleaseWants, CostTypes, GotoTypes, EndTypes, TargetsKept
     DEF TypeOK, At, repo, docker, data, marks, world, locals
<1>1. CASE OperatorRollsBack
  BY <1>1 DEF OperatorRollsBack, PCs, Procs
<1>2. CASE RefreshStarts
  BY <1>2 DEF RefreshStarts, PCs, Procs
<1>3. CASE RefreshPostgres
  BY <1>3 DEF RefreshPostgres, PCs, Procs
<1>4. CASE RefreshBuild
  <2>1. images' \in [Rels -> 0..MaxRel]
    BY <1>4, ImageTypes DEF RefreshBuild
  <2>2. (Fault \/ UNCHANGED costs) /\ UNCHANGED <<world, repo, collector, postgres, data, marks>>
    BY <1>4 DEF RefreshBuild
  <2>3. CASE Goto("refresh", "up") /\ UNCHANGED locals
    <3>1. pc' \in [Procs -> PCs] /\ pc'["refresh"] = "up"
          /\ \A q \in Procs \ {"refresh"} : pc'[q] = pc[q]
      BY <2>3 DEF Procs, PCs
    <3>2. TargetsRead'
      BY <2>3, <3>1 DEF TargetsRead, Procs
    <3> QED BY <2>1, <2>2, <2>3, <3>1, <3>2
  <2>4. CASE End("refresh")
    <3>1. /\ pc' \in [Procs -> PCs] /\ target' \in [Procs -> 0..MaxRel]
          /\ local' \in 0..MaxRel /\ remote' \in 0..MaxRel /\ remote' = remote
          /\ pc'["refresh"] = "idle"
          /\ \A q \in Procs \ {"refresh"} : pc'[q] = pc[q] /\ target'[q] = target[q]
      BY <2>4 DEF Procs
    <3>2. TargetsRead'
      BY <3>1 DEF TargetsRead, Procs
    <3> QED BY <2>1, <2>2, <3>1, <3>2
  <2> QED BY <1>4, <2>3, <2>4 DEF RefreshBuild
<1>5. CASE RefreshUp
  BY <1>5, StackTypes DEF RefreshUp, PCs, Procs
<1>6. CASE CheckinPush
  BY <1>6 DEF CheckinPush, PCs, Procs
<1>7. CASE CheckinRecreates
  BY <1>7, StackTypes DEF CheckinRecreates, PCs, Procs
<1>8. CASE MainAdvances
  <2>1. main' \in Rels
    BY <1>8, RelArith DEF MainAdvances
  <2> QED BY <1>8, <2>1 DEF MainAdvances, TargetsRead, costs
<1>9. CASE \E w \in Wants : SetChannel(w)
  BY <1>9 DEF SetChannel, TargetsRead, costs
<1>10. CASE CollectorRestarts
  BY <1>10 DEF CollectorRestarts, Shipped, TargetsRead, costs
<1>11. ASSUME NEW S \in SUBSET Procs, Killed(S) PROVE TypeOK' /\ TargetsRead'
  <2>1. /\ pc' \in [Procs -> PCs] /\ target' \in [Procs -> 0..MaxRel]
        /\ local' \in 0..MaxRel /\ remote' \in 0..MaxRel
    BY <1>11 DEF Killed, PCs
  <2>2. TypeOK'
    BY <1>11, <2>1 DEF Killed
  <2>3. TargetsRead'
    BY <1>11 DEF Killed, TargetsRead, Procs
  <2> QED BY <2>2, <2>3
<1>. HIDE ReleaseBounds, ReleaseWants, CostTypes, GotoTypes, EndTypes, TargetsKept
          DEF TypeOK, At, repo, docker, data, marks, world, locals
<1>12. CASE Refresh
  BY <1>12, <1>2, <1>3, <1>4, <1>5 DEF Refresh
<1>13. CASE Checkin
  BY <1>13, <1>6, <1>7 DEF Checkin
<1>14. CASE World
  BY <1>14, <1>8, <1>9, <1>10, <1>11 DEF World
<1> QED BY <1>1, <1>12, <1>13, <1>14

----------------------------------------------------------------------------
(* The steps of an update that nobody disturbs.                            *)

\* Every step costs nothing, or is counted once.
LEMMA StepCosts == [Next]_vars => Fault \/ Wreck \/ Guest \/ UNCHANGED costs
<1> SUFFICES ASSUME [Next]_vars PROVE Fault \/ Wreck \/ Guest \/ UNCHANGED costs
  OBVIOUS
<1>1. CASE UpdateStarts
  BY <1>1 DEF UpdateStarts
<1>2. CASE SaveSha \/ Snapshot \/ MoveHead \/ GetImage
  BY <1>2 DEF SaveSha, Snapshot, MoveHead, GetImage
<1>3. CASE WriteTag \/ BringUp \/ CheckHealth \/ RecordCurrent
  BY <1>3 DEF WriteTag, BringUp, CheckHealth, RecordCurrent
<1>4. ASSUME NEW p \in Procs, Rollback(p) PROVE Fault \/ Wreck \/ Guest \/ UNCHANGED costs
  BY <1>4 DEF Rollback, RollbackStarts, Down, Retag, Checkout, StartPostgres, Load,
              FetchImage, Boot
<1>5. CASE OperatorRollsBack \/ Refresh \/ Checkin
  BY <1>5 DEF OperatorRollsBack, Refresh, RefreshStarts, RefreshPostgres, RefreshBuild,
              RefreshUp, Checkin, CheckinPush, CheckinRecreates
<1>6. CASE World
  BY <1>6 DEF World, MainAdvances, SetChannel, CollectorRestarts, Killed
<1>7. CASE UNCHANGED vars
  BY <1>7 DEF vars, costs
<1> QED BY <1>1, <1>2, <1>3, <1>4, <1>5, <1>6, <1>7 DEF Next, UpdateStep, Procs

\* A step that starts with visitors ends with them, and likewise for wrecks.
LEMMA CostsGrow ==
    ASSUME TypeOK, [Next]_vars
    PROVE  /\ guests' = 0 => guests = 0 /\ ~Guest
           /\ wrecks' = 0 => wrecks = 0 /\ ~Wreck
BY StepCosts, ReleaseBounds DEF TypeOK, Fault, Wreck, Guest, costs

\* As long as nobody came, only the update and the world take steps.
LEMMA OnlyUpdate ==
    ASSUME TypeOK, Alone, Next, guests' = 0
    PROVE  UpdateStarts \/ UpdateStep \/ World
<1>1. guests = 0 /\ ~Guest
  BY CostsGrow
<1>2. /\ pc["operator"] = "idle" /\ pc["refresh"] = "idle" /\ pc["checkin"] = "idle"
  BY <1>1 DEF Alone, At, Procs
<1>3. ~OperatorRollsBack /\ ~Checkin
  BY <1>1, <1>2 DEF OperatorRollsBack, Checkin, CheckinPush, CheckinRecreates, At
<1>4. ~Refresh
  BY <1>1, <1>2 DEF Refresh, RefreshStarts, RefreshPostgres, RefreshBuild, RefreshUp, At
<1>5. ~Rollback("operator")
  BY <1>2 DEF Rollback, RollbackStarts, Down, Retag, Checkout, StartPostgres, Load,
              FetchImage, Boot, At
<1> QED BY <1>3, <1>4, <1>5 DEF Next

\* Steps of the update move no other script.
LEMMA UpdateMoves ==
    ASSUME TypeOK, UpdateStarts \/ UpdateStep
    PROVE  \A p \in Procs \ {"update"} : pc'[p] = pc[p]
<1>1. (\E l \in PCs : Goto("update", l)) \/ End("update")
  <2>1. CASE UpdateStarts
    BY <2>1 DEF UpdateStarts, FirstStep, PCs
  <2>2. CASE SaveSha \/ Snapshot \/ MoveHead \/ GetImage
    BY <2>2 DEF SaveSha, Snapshot, MoveHead, GetImage, PCs
  <2>3. CASE WriteTag \/ BringUp \/ CheckHealth \/ RecordCurrent
    BY <2>3 DEF WriteTag, BringUp, CheckHealth, RecordCurrent, PCs
  <2>4. CASE Rollback("update")
    BY <2>4 DEF Rollback, RollbackStarts, Down, Retag, Checkout, StartPostgres, Load,
                FetchImage, Boot, PCs
  <2> QED BY <2>1, <2>2, <2>3, <2>4 DEF UpdateStep
<1> QED BY <1>1, GotoTypes, EndTypes DEF Procs

\* Nobody comes without being counted.
LEMMA AloneStep == TypeOK /\ Alone /\ [Next]_vars => Alone'
<1> SUFFICES ASSUME TypeOK, Alone, [Next]_vars, guests' = 0
             PROVE  \A p \in Procs \ {"update"} : pc'[p] = "idle"
  BY DEF Alone, At
<1>1. \A p \in Procs \ {"update"} : pc[p] = "idle"
  BY CostsGrow DEF Alone, At
<1>2. CASE UpdateStarts \/ UpdateStep
  BY <1>1, <1>2, UpdateMoves
<1>3. CASE World
  <2>1. ASSUME NEW S \in SUBSET Procs, Killed(S)
        PROVE  \A p \in Procs \ {"update"} : pc'[p] = "idle"
    BY <1>1, <2>1 DEF Killed
  <2> QED BY <1>1, <1>3, <2>1 DEF World, MainAdvances, SetChannel, CollectorRestarts
<1>4. CASE UNCHANGED vars
  BY <1>1, <1>4 DEF vars
<1> QED BY <1>2, <1>3, <1>4, OnlyUpdate

Steady == OnTarget /\ OnReturn /\ ImagesTrue /\ current \in proved

\* Bringing up a checkout, an image and a tag that agree starts their release.
LEMMA StackTrue ==
    ASSUME TypeOK, ImagesTrue, head = tag, StartStack
    PROVE  /\ ImagesTrue' /\ images'[tag] = tag /\ collector' = tag
           /\ \A r \in Rels : images[r] # 0 => images'[r] = images[r]
<1>1. tag \in Rels /\ 0 \notin Rels
  BY DEF TypeOK, Rels
<1>2. CASE images[tag] # 0
  BY <1>1, <1>2 DEF StartStack, ImagesTrue
<1>3. CASE images[tag] = 0
  <2>1. images' = [images EXCEPT ![tag] = tag]
    BY <1>3 DEF StartStack
  <2>2. images'[tag] = tag /\ \A r \in Rels : r # tag => images'[r] = images[r]
    BY <1>1, <2>1 DEF TypeOK
  <2> QED BY <1>1, <1>3, <2>2 DEF StartStack, ImagesTrue
<1> QED BY <1>2, <1>3

\* The image a script gets for the release it is on holds that release.
LEMMA ObtainedTrue ==
    ASSUME TypeOK, ImagesTrue, NEW t \in Rels, head = t, images' \in Obtained(t)
    PROVE  ImagesTrue' /\ images'[t] = t
<1>1. images' = [images EXCEPT ![t] = t]
  BY DEF Obtained
<1> QED BY <1>1 DEF TypeOK, ImagesTrue

\* The update finds what its last step left, and so does the rollback it runs.
LEMMA UpdateSteady ==
    ASSUME TypeOK, TargetsRead, Steady, UpdateStarts \/ UpdateStep
    PROVE  Steady'
<1> USE GotoTypes, EndTypes
    DEF Steady, OnTarget, OnReturn, At, repo, docker, data, marks, world, locals, Procs
<1>1. CASE UpdateStarts
  BY <1>1 DEF UpdateStarts, FirstStep, ImagesTrue, PCs
<1>2. CASE SaveSha
  BY <1>2 DEF SaveSha, ImagesTrue, PCs
<1>3. CASE Snapshot
  BY <1>3 DEF Snapshot, ImagesTrue, PCs
<1>4. CASE MoveHead
  BY <1>4 DEF MoveHead, ImagesTrue, PCs
<1>5. CASE GetImage
  BY <1>5, ObtainedTrue DEF GetImage, TargetsRead, ImagesTrue, PCs
<1>6. CASE WriteTag
  BY <1>6 DEF WriteTag, ImagesTrue, PCs
<1>7. CASE BringUp
  BY <1>7, StackTrue DEF BringUp, StackFails, ImagesTrue, PCs
<1>8. CASE CheckHealth
  BY <1>8 DEF CheckHealth, ImagesTrue, PCs
<1>9. CASE RecordCurrent
  BY <1>9 DEF RecordCurrent, ImagesTrue
<1>10. CASE RollbackStarts("update")
  BY <1>10 DEF RollbackStarts, ImagesTrue, PCs
<1>11. CASE Down("update")
  BY <1>11 DEF Down, ImagesTrue, PCs
<1>12. CASE Retag("update")
  BY <1>12 DEF Retag, ImagesTrue, PCs
<1>13. CASE Checkout("update")
  BY <1>13 DEF Checkout, ImagesTrue, PCs
<1>14. CASE StartPostgres("update")
  BY <1>14 DEF StartPostgres, ImagesTrue, PCs
<1>15. CASE Load("update")
  BY <1>15 DEF Load, ImagesTrue, PCs
<1>16. CASE FetchImage("update")
  BY <1>16, ObtainedTrue DEF FetchImage, ImagesTrue, TypeOK, PCs
<1>17. CASE Boot("update")
  BY <1>17, StackTrue DEF Boot, StackFails, ImagesTrue, PCs
<1> QED BY <1>1, <1>2, <1>3, <1>4, <1>5, <1>6, <1>7, <1>8, <1>9, <1>10, <1>11, <1>12,
           <1>13, <1>14, <1>15, <1>16, <1>17 DEF UpdateStep, Rollback

\* The world changes neither checkout, images, tag nor container; a kill ends
\* the update.
LEMMA WorldSteady == ASSUME TypeOK, Steady, World PROVE Steady'
<1> USE DEF Steady, OnTarget, OnReturn, ImagesTrue, At, repo, docker, data, marks, world,
            locals
<1>1. CASE MainAdvances \/ (\E w \in Wants : SetChannel(w))
  BY <1>1 DEF MainAdvances, SetChannel
<1>2. CASE CollectorRestarts
  BY <1>2 DEF CollectorRestarts
<1>3. ASSUME NEW S \in SUBSET Procs, Killed(S) PROVE Steady'
  <2>1. CASE "update" \in S
    BY <1>3, <2>1 DEF Killed, Procs
  <2>2. CASE "update" \notin S
    BY <1>3, <2>2 DEF Killed, Procs, TypeOK
  <2> QED BY <2>1, <2>2
<1> QED BY <1>1, <1>2, <1>3 DEF World

Migrated == collector = 0 \/ Shipped(collector) \subseteq db

\* An update that nothing breaks leaves the collector, if there is one, on a
\* database with the migrations of its release.
LEMMA UpdateMigrates ==
    ASSUME TypeOK, Steady, Removed, Migrated, UpdateStarts \/ UpdateStep, ~Wreck
    PROVE  Removed' /\ Migrated'
<1> USE GotoTypes, EndTypes
    DEF Removed, Migrated, At, repo, docker, data, marks, world, locals, Procs
<1>1. CASE UpdateStarts \/ SaveSha \/ Snapshot \/ MoveHead
  BY <1>1 DEF UpdateStarts, FirstStep, SaveSha, Snapshot, MoveHead, PCs
<1>2. CASE GetImage \/ WriteTag \/ CheckHealth \/ RecordCurrent
  BY <1>2 DEF GetImage, WriteTag, CheckHealth, RecordCurrent, PCs
<1>3. CASE BringUp
  <2>1. head = tag /\ ImagesTrue
    BY <1>3 DEF BringUp, Steady, OnTarget
  <2>2. pc'["update"] \in {"check", "rollback"}
    BY <1>3 DEF BringUp, PCs
  <2>3. Migrated'
    BY <1>3, <2>1, StackTrue DEF BringUp, StartStack, StackFails
  <2> QED BY <2>2, <2>3
<1>4. CASE RollbackStarts("update") \/ Down("update")
  BY <1>4 DEF RollbackStarts, Down, PCs
<1>5. CASE Retag("update") \/ Checkout("update") \/ StartPostgres("update")
  BY <1>5 DEF Retag, Checkout, StartPostgres, PCs
<1>6. CASE Load("update") \/ FetchImage("update")
  BY <1>6 DEF Load, FetchImage, PCs
<1>7. CASE Boot("update")
  <2>1. head = tag /\ ImagesTrue
    BY <1>7 DEF Boot, Steady, OnReturn
  <2>2. pc'["update"] = "idle"
    BY <1>7 DEF Boot
  <2>3. Migrated'
    BY <1>7, <2>1, StackTrue DEF Boot, StartStack, StackFails
  <2> QED BY <2>2, <2>3
<1> QED BY <1>1, <1>2, <1>3, <1>4, <1>5, <1>6, <1>7 DEF UpdateStep, Rollback

\* A restart only adds migrations.
LEMMA WorldMigrates ==
    ASSUME TypeOK, Removed, Migrated, World, ~Wreck
    PROVE  Removed' /\ Migrated'
BY DEF World, MainAdvances, SetChannel, CollectorRestarts, Killed, Removed, Migrated,
       repo, docker, data, marks, world, locals

----------------------------------------------------------------------------
(* The theorems.                                                           *)

\* A fresh box satisfies the strengthening: every script idle, release 1 proved.
LEMMA InitIInv == Init => IInv
<1> SUFFICES ASSUME Init PROVE IInv
  OBVIOUS
<1> USE ReleaseBounds, ReleaseWants, ReleaseBreaks DEF Init
<1>1. 1 \in Rels
  BY DEF Rels
<1>2. images \in [Rels -> 0..MaxRel] /\ ImagesTrue
  BY <1>1 DEF ImagesTrue
<1>3. TypeOK
  <2>1. /\ main \in Rels /\ want \in Wants /\ broken \in SUBSET Rels /\ head \in Rels
        /\ tag \in Rels /\ current \in Rels /\ proved \in SUBSET Rels
    BY <1>1
  <2>2. db \in SUBSET Migrations /\ snap \in SUBSET Migrations
    BY DEF Shipped
  <2>3. pc \in [Procs -> PCs] /\ target \in [Procs -> 0..MaxRel]
    BY RelArith DEF PCs
  <2>4. /\ collector \in 0..MaxRel /\ sha \in 0..MaxRel /\ local \in 0..MaxRel
        /\ remote \in 0..MaxRel /\ faults \in 0..MaxFaults /\ wrecks \in 0..MaxWrecks
        /\ guests \in 0..MaxGuests
    BY RelArith
  <2> QED BY <1>2, <2>1, <2>2, <2>3, <2>4 DEF TypeOK
<1>4. TargetsRead /\ Alone /\ Undisturbed /\ Stopped
  BY <1>2 DEF TargetsRead, Alone, Undisturbed, OnTarget, OnReturn, Stopped, Removed, At, Procs
<1>5. CurrentProven /\ MigratedUp
  BY DEF CurrentProven, MigratedUp
<1> QED BY <1>3, <1>4, <1>5 DEF IInv

\* Every step of whoever is at work on the box keeps it.
LEMMA StepIInv == IInv /\ [Next]_vars => IInv'
<1> SUFFICES ASSUME IInv, [Next]_vars PROVE IInv'
  OBVIOUS
<1>1. TypeOK /\ TargetsRead /\ Alone
  BY DEF IInv
<1>2. CASE UNCHANGED vars
  BY <1>2 DEF IInv, TypeOK, TargetsRead, Alone, Undisturbed, OnTarget, OnReturn, ImagesTrue,
              Stopped, Removed, CurrentProven, MigratedUp, At, vars
<1>3. CASE Next
  <2>1. TypeOK' /\ TargetsRead'
    BY <1>1, <1>3, UpdateTyped, RollbackTyped, OthersTyped DEF Next, UpdateStep, Procs
  <2>2. Alone'
    BY <1>1, <1>3, AloneStep
  <2>3. guests' = 0 => Steady'
    <3>1. SUFFICES ASSUME guests' = 0 PROVE Steady'
      OBVIOUS
    <3>2. guests = 0 /\ Steady
      BY <1>1, <3>1, CostsGrow DEF IInv, Undisturbed, Steady, CurrentProven
    <3> QED BY <1>1, <1>3, <3>1, <3>2, OnlyUpdate, UpdateSteady, WorldSteady
  <2>4. guests' = 0 /\ wrecks' = 0 => Removed' /\ Migrated'
    <3>1. SUFFICES ASSUME guests' = 0, wrecks' = 0 PROVE Removed' /\ Migrated'
      OBVIOUS
    <3>2. guests = 0 /\ wrecks = 0 /\ ~Wreck
      BY <1>1, <3>1, CostsGrow
    <3>3. Steady /\ Removed /\ Migrated
      BY <3>2 DEF IInv, Undisturbed, Steady, CurrentProven, Stopped, MigratedUp, Migrated
    <3> QED BY <1>1, <1>3, <3>1, <3>2, <3>3, OnlyUpdate, UpdateMigrates, WorldMigrates
  <2> QED BY <2>1, <2>2, <2>3, <2>4
          DEF IInv, Undisturbed, Steady, CurrentProven, Stopped, MigratedUp, Migrated
<1> QED BY <1>2, <1>3

\* The strengthening holds in every reachable state.
THEOREM Inductive == Spec => []IInv
<1>1. Init => IInv
  BY InitIInv
<1>2. IInv /\ [Next]_vars => IInv'
  BY StepIInv
<1> QED BY <1>1, <1>2, PTL DEF Spec

\* No script leaves the types, whatever interferes.
THEOREM TypeCorrect == Spec => []TypeOK
<1>1. IInv => TypeOK
  BY DEF IInv
<1> QED BY <1>1, Inductive, PTL

\* The release shown on the dashboard has passed the healthcheck on this box, as
\* long as nobody but the update touches it, in spite of kills and failures.
THEOREM ShownIsProven == Spec => []CurrentProven
<1>1. IInv => CurrentProven
  BY DEF IInv
<1> QED BY <1>1, Inductive, PTL

\* No collector runs on a database that lacks a migration of its release, as long
\* as also nothing is killed: the restored database and the code go together.
THEOREM NeverBehind == Spec => []MigratedUp
<1>1. IInv => MigratedUp
  BY DEF IInv
<1> QED BY <1>1, Inductive, PTL

----------------------------------------------------------------------------
(* What a rollback restores.                                               *)

\* As long as nothing is killed: the rollback target is no newer than the
\* checkout, and the snapshot no newer than the target; whoever moves the
\* checkout has read where it is; the database has outgrown the checkout only
\* between a rollback's checkout and its load, and then there is a snapshot and
\* a database to load it into.
Fits ==
    /\ sha <= head /\ snap \subseteq Shipped(sha)
    /\ pc["update"] \in {"save", "dump", "reset"} => local = head /\ head <= remote
    /\ At("update", "dump") => sha = head
    /\ pc["update"] \in {"down", "retag", "checkout", "postgres", "load", "fetch", "boot"}
          => target["update"] = sha
    /\ pc["update"] \notin {"postgres", "load"} => db \subseteq Shipped(head)
    /\ snapped \/ postgres
    /\ sha # 0 /\ ~At("update", "dump") => snapped
    /\ At("update", "load") => postgres
Fitting == guests = 0 /\ wrecks = 0 => Fits

\* A later release has the migrations of an earlier one.
LEMMA ShippedGrows ==
    ASSUME NEW a \in 0..MaxRel, NEW b \in 0..MaxRel, a <= b
    PROVE  Shipped(a) \subseteq Shipped(b)
<1> SUFFICES ASSUME NEW m \in Migrations, m <= a PROVE m <= b
  BY DEF Shipped
<1>1. m \in Int /\ a \in Int /\ b \in Int
  BY ReleaseBounds, ReleaseWants DEF Rels
<1> QED BY <1>1

\* Bringing the containers up gives the database nothing newer than the checkout.
LEMMA StackFits ==
    ASSUME TypeOK, StartStack \/ StackFails, db \subseteq Shipped(head)
    PROVE  db' \subseteq Shipped(head) /\ (postgres => postgres')
<1>1. db' \subseteq Shipped(head)
  BY DEF StartStack, StackFails
<1>2. postgres' = TRUE \/ postgres' = postgres
  BY DEF StartStack, StackFails
<1> QED BY <1>1, <1>2

\* Each step of the update and of its rollback leaves what the next relies on.
LEMMA UpdateFits ==
    ASSUME TypeOK, TargetsRead, Steady, Fits, UpdateStarts \/ UpdateStep, ~Wreck
    PROVE  Fits'
<1> USE GotoTypes, EndTypes, ReleaseBounds
    DEF Fits, At, repo, docker, data, marks, world, locals, Procs
<1>0. sha \in 0..MaxRel /\ head \in Rels /\ head \in 0..MaxRel
  BY DEF TypeOK, Rels
<1>1. CASE UpdateStarts
  <2>1. pc'["update"] \in {"save", "reset"} /\ local' = head /\ head <= remote'
    BY <1>0, <1>1 DEF UpdateStarts, FirstStep, PCs
  <2> QED BY <1>1, <2>1 DEF UpdateStarts
<1>2. CASE SaveSha
  <2>1. Shipped(sha) \subseteq Shipped(sha')
    BY <1>0, <1>2, ShippedGrows DEF SaveSha
  <2> QED BY <1>0, <1>2, <2>1 DEF SaveSha, PCs
<1>3. CASE Snapshot
  BY <1>3 DEF Snapshot, PCs
<1>4. CASE MoveHead
  <2>1. head' = remote /\ pc'["update"] = "pull" /\ remote \in 0..MaxRel
    BY <1>4 DEF MoveHead, PCs, TypeOK
  <2>2. head <= head' /\ Shipped(head) \subseteq Shipped(head')
    BY <1>0, <1>4, <2>1, ShippedGrows DEF MoveHead
  <2>3. sha <= head'
    BY <1>0, <2>1, <2>2
  <2> QED BY <1>4, <2>1, <2>2, <2>3 DEF MoveHead
<1>5. CASE GetImage
  BY <1>5 DEF GetImage, PCs
<1>6. CASE WriteTag
  BY <1>6 DEF WriteTag, PCs
<1>7. CASE BringUp
  BY <1>7, StackFits DEF BringUp, PCs
<1>8. CASE CheckHealth
  BY <1>8 DEF CheckHealth, PCs
<1>9. CASE RecordCurrent
  BY <1>9 DEF RecordCurrent
<1>10. CASE RollbackStarts("update")
  BY <1>10 DEF RollbackStarts, PCs, TypeOK
<1>11. CASE Down("update")
  BY <1>11, RelArith DEF Down, PCs, TargetsRead, Rels
<1>12. CASE Retag("update")
  BY <1>12 DEF Retag, PCs
<1>13. CASE Checkout("update")
  <2>1. head' = sha /\ pc'["update"] = "postgres" /\ snapped
    BY <1>13 DEF Checkout, PCs, TargetsRead, Rels
  <2> QED BY <1>0, <1>13, <2>1 DEF Checkout
<1>14. CASE StartPostgres("update")
  <2>1. sha # 0
    BY <1>14 DEF StartPostgres, OnReturn, Steady, TypeOK, Rels
  <2> QED BY <1>14, <2>1 DEF StartPostgres, PCs
<1>15. CASE Load("update")
  <2>1. head = sha
    BY <1>15 DEF Load, OnReturn, Steady
  <2> QED BY <1>15, <2>1 DEF Load, PCs
<1>16. CASE FetchImage("update")
  BY <1>16 DEF FetchImage, PCs
<1>17. CASE Boot("update")
  BY <1>17, StackFits DEF Boot
<1> QED BY <1>1, <1>2, <1>3, <1>4, <1>5, <1>6, <1>7, <1>8, <1>9, <1>10, <1>11, <1>12,
           <1>13, <1>14, <1>15, <1>16, <1>17 DEF UpdateStep, Rollback

\* The world only restarts a collector that is there, and the one a rollback
\* has removed is not.
LEMMA WorldFits ==
    ASSUME TypeOK, Removed, Fits, World, ~Wreck
    PROVE  Fits'
BY DEF World, MainAdvances, SetChannel, CollectorRestarts, Killed, Removed, Fits, At,
       repo, docker, data, marks, world, locals

\* The strengthening for what a rollback restores holds in every reachable state.
THEOREM FittingInductive == Spec => [](IInv /\ Fitting)
<1>1. Init => Fitting
  <2> SUFFICES ASSUME Init PROVE Fits
    BY DEF Fitting
  <2> QED BY DEF Init, Fits, At, Procs
<1>2. IInv /\ Fitting /\ [Next]_vars => Fitting'
  <2> SUFFICES ASSUME IInv, Fitting, [Next]_vars, guests' = 0, wrecks' = 0 PROVE Fits'
    BY DEF Fitting
  <2>1. TypeOK /\ TargetsRead /\ Alone
    BY DEF IInv
  <2>2. guests = 0 /\ wrecks = 0 /\ ~Wreck
    BY <2>1, CostsGrow
  <2>3. Steady /\ Removed /\ Fits
    BY <2>2 DEF IInv, Undisturbed, Steady, CurrentProven, Stopped, Fitting
  <2>4. CASE Next
    BY <2>1, <2>2, <2>3, <2>4, OnlyUpdate, UpdateFits, WorldFits
  <2>5. CASE UNCHANGED vars
    BY <2>3, <2>5 DEF Fits, At, vars
  <2> QED BY <2>4, <2>5
<1> QED BY <1>1, <1>2, InitIInv, StepIInv, PTL DEF Spec

\* A rollback that nobody disturbs never loads a snapshot newer than the code it
\* goes back to: old code does not find a new schema.
THEOREM RestoresFit == Spec => RestoreFits
<1>1. IInv /\ Fitting /\ [Next]_vars
        => [\A p \in Procs : Load(p) /\ guests = 0 /\ wrecks = 0
               => snap \subseteq Shipped(target[p])]_vars
  <2> SUFFICES ASSUME IInv, Fitting, NEW p \in Procs, Load(p), guests = 0, wrecks = 0
               PROVE  snap \subseteq Shipped(target[p])
    OBVIOUS
  <2>1. p = "update"
    BY DEF IInv, Alone, At, Load
  <2> QED BY <2>1 DEF Fitting, Fits, Load, At
<1> QED BY <1>1, FittingInductive, PTL DEF Spec, RestoreFits
=============================================================================
