------------------------------- MODULE Release -------------------------------
(***************************************************************************)
(* Which release a box runs.  The nightly auto-update.sh saves a rollback  *)
(* target and a database snapshot, moves the checkout, gets the image,     *)
(* brings the containers up and asks the collector whether it is healthy;  *)
(* if not, rollback.sh takes checkout, image and database back.  Nothing   *)
(* keeps others from the same checkout and containers meanwhile: a         *)
(* rollback by hand or from the dashboard, the weekly deep refresh, a      *)
(* check-in that recreates the collector.                                  *)
(*                                                                         *)
(* A release is the position of its commit on main.  The database is the   *)
(* set of migrations applied to it; a migration is named by the release    *)
(* that brought it.  The migrations a starting collector applies are those *)
(* of the CHECKOUT (docker-compose.yml mounts db/migrations), whatever     *)
(* image it runs.                                                          *)
(***************************************************************************)
EXTENDS Integers

CONSTANTS
    MaxRel,     \* bound: commits on main
    Migrations, \* the releases that bring a migration
    Wants,      \* what the channel may ask for: 0 main, r pinned to r, MaxRel + 1
                \* a hold, or a pin that is no commit on main
    Breakages,  \* which releases may all not pass the healthcheck
    MaxFaults,  \* bound: network, registry, docker, health failing
    MaxWrecks,  \* bound: kills, pinned downgrades, and failures of dump, load,
                \* down, git
    MaxGuests   \* bound: interventions from outside the nightly update

Rels == 1..MaxRel

ASSUME ReleaseBounds ==
    /\ MaxRel \in Nat \ {0}
    /\ MaxFaults \in Nat /\ MaxWrecks \in Nat /\ MaxGuests \in Nat
ASSUME ReleaseWants == Migrations \subseteq Rels /\ Wants \subseteq 0..(MaxRel + 1) /\ 0 \in Wants
ASSUME ReleaseBreaks == Breakages \subseteq SUBSET Rels

Procs == {"update", "operator", "refresh", "checkin"}

VARIABLES
    main,      \* head of origin/main
    want,      \* NETMON_UPDATE_CHANNEL and NETMON_UPDATE_REF
    broken,    \* releases that do not pass the healthcheck
    head,      \* HEAD of the checkout
    tag,       \* NETMON_IMAGE_TAG in the repo's .env
    images,    \* docker's images: for each tag the code it holds (0: none)
    collector, \* the code the collector container runs (0: no container)
    postgres,  \* the database container runs
    db,        \* migrations applied to the database
    snap,      \* the migrations in the latest snapshot
    snapped,   \* there is a snapshot
    sha,       \* last-known-good-sha (0: no file)
    current,   \* current-sha, which the dashboard shows
    pc,        \* where each script is
    local, remote, \* of auto-update: HEAD when it started, the resolved target
    target,    \* of a rollback: the SHA it goes back to
    fresh,     \* the latest snapshot was taken by the update that is running
    proved,    \* releases that have passed the healthcheck on this box
    faults, wrecks, guests \* used budgets

repo   == <<head, tag>>
docker == <<images, collector, postgres>>
data   == <<db, snap, snapped, fresh>>
marks  == <<sha, current, proved>>
world  == <<main, want, broken>>
locals == <<local, remote, target>>
costs  == <<faults, wrecks, guests>>
vars   == <<main, want, broken, head, tag, images, collector, postgres, db, snap,
            snapped, sha, current, pc, local, remote, target, fresh, proved,
            faults, wrecks, guests>>

----------------------------------------------------------------------------
Fault == faults < MaxFaults /\ faults' = faults + 1 /\ UNCHANGED <<wrecks, guests>>
Wreck == wrecks < MaxWrecks /\ wrecks' = wrecks + 1 /\ UNCHANGED <<faults, guests>>
Guest == guests < MaxGuests /\ guests' = guests + 1 /\ UNCHANGED <<faults, wrecks>>

Shipped(r) == {m \in Migrations : m <= r}  \* db/migrations at release r

Resolved == IF want = 0 THEN main ELSE want

At(p, l)    == pc[p] = l
Goto(p, l)  == pc' = [pc EXCEPT ![p] = l]

\* A script ends, whatever its exit code: its locals are gone.
End(p) ==
    /\ Goto(p, "idle")
    /\ target' = [target EXCEPT ![p] = 0]
    /\ IF p = "update" THEN local' = 0 /\ remote' = 0 ELSE UNCHANGED <<local, remote>>

\* `docker compose up -d': postgres first, then the collector on the image of
\* the tag in .env; an image that is not there is pulled, or built from the
\* checkout.  A starting collector applies the checkout's migrations; one that
\* runs that image already may be left running.
StartStack ==
    /\ images' \in IF images[tag] # 0 THEN {images}
                   ELSE {[images EXCEPT ![tag] = r] : r \in {tag, head}}
    /\ collector' = images'[tag]
    /\ postgres' = TRUE
    /\ \/ db' = db \cup Shipped(head)
       \/ collector' = collector /\ db' = db

\* It fails: the old collector may already be gone, the database already up.
StackFails ==
    /\ collector' \in {collector, 0} /\ postgres' \in {postgres, TRUE}
    /\ UNCHANGED <<images, db>>

\* Pull the image of tag t, or build it from the checkout.
Obtained(t) == {[images EXCEPT ![t] = r] : r \in {t, head}}

Init ==
    /\ main = 1 /\ want = 0 /\ broken \in Breakages
    /\ head = 1 /\ tag = 1 /\ images = [r \in Rels |-> IF r = 1 THEN 1 ELSE 0]
    /\ collector = 1 /\ postgres = TRUE /\ db = Shipped(1)
    /\ snap = {} /\ snapped = FALSE /\ fresh = FALSE
    /\ sha = 0 /\ current = 1 /\ proved = {1}
    /\ pc = [p \in Procs |-> "idle"]
    /\ local = 0 /\ remote = 0 /\ target = [p \in Procs |-> 0]
    /\ faults = 0 /\ wrecks = 0 /\ guests = 0

----------------------------------------------------------------------------
(* auto-update.sh                                                          *)

\* An unchanged target is reconciled: image and containers, but no new
\* rollback state.
FirstStepBails == IF head # Resolved THEN "save" ELSE "idle"  \* mutant: up to date, exit
FirstStepDumps == IF head # Resolved THEN "save" ELSE "dump"  \* mutant: always a snapshot
FirstStep == IF head # Resolved THEN "save" ELSE "reset"

UpdateStarts ==
    /\ At("update", "idle")
    /\ Resolved \in 1..main
    /\ Goto("update", FirstStep)
    /\ local' = head /\ remote' = Resolved
    /\ fresh' = FALSE
    /\ IF Resolved < head THEN Wreck ELSE UNCHANGED costs  \* a pinned downgrade
    /\ UNCHANGED <<world, repo, docker, db, snap, snapped, marks, target>>

\* 3a: what the box was on becomes the rollback target.
SaveSha ==
    /\ At("update", "save")
    /\ sha' = local
    /\ Goto("update", "dump")
    /\ UNCHANGED <<world, repo, docker, data, current, proved, locals, costs>>

\* 3b: db-snapshot.sh.  Without a database there is nothing to dump; a dump that
\* fails is removed, and the update goes on with the old snapshot.
Snapshot ==
    /\ At("update", "dump")
    /\ \/ postgres /\ snap' = db /\ snapped' = TRUE /\ fresh' = TRUE /\ UNCHANGED costs
       \/ Wreck /\ UNCHANGED <<snap, snapped, fresh>>
       \/ ~postgres /\ UNCHANGED <<snap, snapped, fresh, costs>>
    /\ Goto("update", "reset")
    /\ UNCHANGED <<world, repo, docker, db, marks, locals>>

\* 4: git reset --hard.
MoveHead ==
    /\ At("update", "reset")
    /\ \/ head' = remote /\ Goto("update", "pull") /\ UNCHANGED <<locals, costs>>
       \/ Wreck /\ End("update") /\ UNCHANGED head
    /\ UNCHANGED <<world, tag, docker, data, marks>>

\* 5: the image of the target, pulled or built; neither works: try next night.
GetImage ==
    /\ At("update", "pull")
    /\ \/ images' \in Obtained(remote) /\ Goto("update", "tag") /\ UNCHANGED <<locals, costs>>
       \/ Fault /\ End("update") /\ UNCHANGED images
    /\ UNCHANGED <<world, repo, collector, postgres, data, marks>>

WriteTagNot ==  \* mutant: .env keeps the old tag
    /\ At("update", "tag")
    /\ Goto("update", "up")
    /\ UNCHANGED <<world, repo, docker, data, marks, locals, costs>>
WriteTag ==
    /\ At("update", "tag")
    /\ tag' = remote
    /\ Goto("update", "up")
    /\ UNCHANGED <<world, head, docker, data, marks, locals, costs>>

\* 6: bring it up; a failure is rolled back at once.
BringUp ==
    /\ At("update", "up")
    /\ \/ StartStack /\ Goto("update", "check") /\ UNCHANGED costs
       \/ StackFails /\ Fault /\ Goto("update", "rollback")
    /\ UNCHANGED <<world, repo, snap, snapped, fresh, marks, locals>>

\* 7: two minutes later, the healthcheck.
Healthy == collector # 0 /\ collector \notin broken /\ postgres

CheckHealth ==
    /\ At("update", "check")
    /\ \/ Healthy /\ proved' = proved \cup {collector} /\ Goto("update", "record")
          /\ UNCHANGED costs
       \/ ~Healthy /\ Goto("update", "rollback") /\ UNCHANGED <<proved, costs>>
       \/ Fault /\ Goto("update", "rollback") /\ UNCHANGED proved
    /\ UNCHANGED <<world, repo, docker, data, sha, current, locals>>

\* record_current_sha asks git, not the container.
RecordCurrent ==
    /\ At("update", "record")
    /\ current' = head
    /\ End("update")
    /\ UNCHANGED <<world, repo, docker, data, sha, proved, costs>>

----------------------------------------------------------------------------
(* rollback.sh, run by auto-update or by hand                              *)

RollbackStarts(p) ==
    /\ At(p, "rollback")
    /\ IF sha \in {0, head}       \* nothing saved, or already there
       THEN End(p)
       ELSE /\ target' = [target EXCEPT ![p] = sha]
            /\ Goto(p, "down")
            /\ UNCHANGED <<local, remote>>
    /\ UNCHANGED <<world, repo, docker, data, marks, costs>>

\* `compose down || true'.
DownNot(p) ==  \* mutant: the containers are left running
    /\ At(p, "down")
    /\ Goto(p, "retag")
    /\ UNCHANGED <<world, repo, docker, data, marks, locals, costs>>
Down(p) ==
    /\ At(p, "down")
    /\ \/ collector' = 0 /\ postgres' = FALSE /\ UNCHANGED costs
       \/ Wreck /\ UNCHANGED <<collector, postgres>>
    /\ Goto(p, "retag")
    /\ UNCHANGED <<world, repo, images, data, marks, locals>>

Retag(p) ==
    /\ At(p, "retag")
    /\ tag' = target[p]
    /\ Goto(p, "checkout")
    /\ UNCHANGED <<world, head, docker, data, marks, locals, costs>>

Checkout(p) ==
    /\ At(p, "checkout")
    /\ \/ head' = target[p] /\ Goto(p, "postgres") /\ UNCHANGED <<locals, costs>>
       \/ Wreck /\ End(p) /\ UNCHANGED head
    /\ UNCHANGED <<world, tag, docker, data, marks>>

\* Postgres alone, if there is a snapshot to load.
StartPostgres(p) ==
    /\ At(p, "postgres")
    /\ \/ snapped /\ postgres' = TRUE /\ Goto(p, "load") /\ UNCHANGED <<locals, costs>>
       \/ snapped /\ Wreck /\ End(p) /\ UNCHANGED postgres
       \/ ~snapped /\ Goto(p, "fetch") /\ UNCHANGED <<postgres, locals, costs>>
    /\ UNCHANGED <<world, repo, images, collector, data, marks>>

\* One transaction drops the schema and loads the snapshot, or changes nothing.
Load(p) ==
    /\ At(p, "load")
    /\ \/ postgres /\ db' = snap /\ UNCHANGED costs
       \/ ~postgres /\ UNCHANGED <<db, costs>>
       \/ Wreck /\ UNCHANGED db
    /\ Goto(p, "fetch")
    /\ UNCHANGED <<world, repo, docker, snap, snapped, fresh, marks, locals>>

\* Pull or build for the tag in .env; that neither works is only logged.
FetchImage(p) ==
    /\ At(p, "fetch")
    /\ \/ images' \in Obtained(tag) /\ UNCHANGED costs
       \/ Fault /\ UNCHANGED images
    /\ Goto(p, "boot")
    /\ UNCHANGED <<world, repo, collector, postgres, data, marks, locals>>

Boot(p) ==
    /\ At(p, "boot")
    /\ \/ StartStack /\ UNCHANGED costs
       \/ StackFails /\ Fault
    /\ End(p)
    /\ UNCHANGED <<world, repo, snap, snapped, fresh, marks>>

\* netmon-rollback, or the host action of that name.
OperatorRollsBack ==
    /\ At("operator", "idle")
    /\ Guest
    /\ Goto("operator", "rollback")
    /\ UNCHANGED <<world, repo, docker, data, marks, locals>>

Rollback(p) ==
    \/ RollbackStarts(p) \/ Down(p) \/ Retag(p) \/ Checkout(p)
    \/ StartPostgres(p) \/ Load(p) \/ FetchImage(p) \/ Boot(p)

----------------------------------------------------------------------------
(* weekly-deep-refresh.sh; without its pull it is the host action rebuild  *)

\* A box that follows main is fast-forwarded to it, with no rollback state.
RefreshStarts ==
    /\ At("refresh", "idle")
    /\ Guest
    /\ head' \in {head} \cup (IF want = 0 THEN {main} ELSE {})
    /\ Goto("refresh", "postgres")
    /\ UNCHANGED <<world, tag, docker, data, marks, locals>>

RefreshPostgres ==
    /\ At("refresh", "postgres")
    /\ postgres' \in {postgres, TRUE}
    /\ Goto("refresh", "build")
    /\ UNCHANGED <<world, repo, images, collector, data, marks, locals, costs>>

\* The checkout is built into whatever tag .env names.
RefreshBuild ==
    /\ At("refresh", "build")
    /\ \/ images' = [images EXCEPT ![tag] = head] /\ Goto("refresh", "up")
          /\ UNCHANGED <<locals, costs>>
       \/ Fault /\ End("refresh") /\ UNCHANGED images
    /\ UNCHANGED <<world, repo, collector, postgres, data, marks>>

RefreshUp ==
    /\ At("refresh", "up")
    /\ \/ StartStack /\ UNCHANGED costs
       \/ StackFails /\ Fault
    /\ End("refresh")
    /\ UNCHANGED <<world, repo, snap, snapped, fresh, marks>>

Refresh == RefreshStarts \/ RefreshPostgres \/ RefreshBuild \/ RefreshUp

----------------------------------------------------------------------------
(* A check-in that ends in exit 10 or 12 recreates the collector.          *)

CheckinPush ==
    /\ At("checkin", "idle")
    /\ collector # 0
    /\ Guest
    /\ Goto("checkin", "recreate")
    /\ UNCHANGED <<world, repo, docker, data, marks, locals>>

CheckinRecreates ==
    /\ At("checkin", "recreate")
    /\ \/ StartStack /\ UNCHANGED costs
       \/ StackFails /\ Fault
    /\ End("checkin")
    /\ UNCHANGED <<world, repo, snap, snapped, fresh, marks>>

Checkin == CheckinPush \/ CheckinRecreates

----------------------------------------------------------------------------
(* The world around the scripts                                            *)

MainAdvances ==
    /\ main < MaxRel
    /\ main' = main + 1
    /\ UNCHANGED <<want, broken, repo, docker, data, marks, pc, locals, costs>>

SetChannel(w) ==
    /\ w # want
    /\ want' = w
    /\ UNCHANGED <<main, broken, repo, docker, data, marks, pc, locals, costs>>

\* The container restarts: a crash, a config change, docker's restart policy.
CollectorRestarts ==
    /\ collector # 0 /\ postgres
    /\ db' = db \cup Shipped(head)
    /\ UNCHANGED <<world, repo, docker, snap, snapped, fresh, marks, pc, locals, costs>>

\* The watchdog's check_db_stall restarts a stopped container; one that
\* `compose down' removed stays away.  A kill ends one script; a reboot ends
\* all of them, and docker brings the containers back that were there.
Killed(S) ==
    /\ \E p \in S : ~At(p, "idle")
    /\ Wreck
    /\ pc' = [p \in Procs |-> IF p \in S THEN "idle" ELSE pc[p]]
    /\ target' = [p \in Procs |-> IF p \in S THEN 0 ELSE target[p]]
    /\ IF "update" \in S THEN local' = 0 /\ remote' = 0 ELSE UNCHANGED <<local, remote>>
    /\ UNCHANGED <<world, repo, docker, data, marks>>

World ==
    \/ MainAdvances \/ (\E w \in Wants : SetChannel(w)) \/ CollectorRestarts
    \/ Killed(Procs) \/ \E p \in Procs : Killed({p})

UpdateStep ==
    \/ SaveSha \/ Snapshot \/ MoveHead \/ GetImage \/ WriteTag \/ BringUp
    \/ CheckHealth \/ RecordCurrent \/ Rollback("update")

Next ==
    \/ UpdateStarts \/ UpdateStep
    \/ OperatorRollsBack \/ Rollback("operator")
    \/ Refresh \/ Checkin \/ World

Spec == Init /\ [][Next]_vars

\* The timer fires every night and no update hangs.  Nobody else need finish.
Fairness == WF_vars(UpdateStarts) /\ WF_vars(UpdateStep)

FairSpec == Spec /\ Fairness

----------------------------------------------------------------------------
(* What a box may count on.                                                *)

PCs == {"idle", "save", "dump", "reset", "pull", "tag", "up", "check", "record",
        "rollback", "down", "retag", "checkout", "postgres", "load", "fetch",
        "boot", "build", "recreate"}

\* Every variable stays in its type.
TypeOK ==
    /\ main \in Rels /\ want \in Wants /\ broken \in SUBSET Rels
    /\ head \in Rels /\ tag \in Rels /\ images \in [Rels -> 0..MaxRel]
    /\ collector \in 0..MaxRel /\ postgres \in BOOLEAN
    /\ db \in SUBSET Migrations /\ snap \in SUBSET Migrations
    /\ snapped \in BOOLEAN /\ fresh \in BOOLEAN
    /\ sha \in 0..MaxRel /\ current \in Rels /\ proved \in SUBSET Rels
    /\ pc \in [Procs -> PCs]
    /\ local \in 0..MaxRel /\ remote \in 0..MaxRel /\ target \in [Procs -> 0..MaxRel]
    /\ faults \in 0..MaxFaults /\ wrecks \in 0..MaxWrecks /\ guests \in 0..MaxGuests

\* As long as nobody but the nightly update touches the box, and in spite of
\* kills and failures anywhere, the release the dashboard is told has passed
\* the healthcheck on this very box.
CurrentProven == guests = 0 => current \in proved

\* As long as also nothing is killed and the database obeys, no collector runs
\* on a database that lacks a migration of its release.
MigratedUp == guests = 0 /\ wrecks = 0 => collector = 0 \/ Shipped(collector) \subseteq db

\* And a rollback never loads a snapshot that is newer than the code it goes
\* back to, which would leave old code on a new schema.
RestoreFits ==
    [][\A p \in Procs : Load(p) /\ guests = 0 /\ wrecks = 0
          => snap \subseteq Shipped(target[p])]_vars

\* Whatever happened to a box that follows main, the nightly update gets it to
\* the newest release in the end, if that release is any good.
Converges ==
    <>[](want = 0 /\ main \notin broken)
       => <>[](head = main /\ collector = main /\ current = main)

\* What an update rolls the database back to is what it found.
RestoreFresh == [][At("update", "load") /\ db' # db => fresh]_vars

\* The "last known-good" release was good once.
TargetProven == sha # 0 => sha \in proved
=============================================================================
