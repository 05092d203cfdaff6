------------------------------- MODULE Deployment -------------------------------
(***************************************************************************)
(* The life of the database: scripts/install.py, run as a job that may be  *)
(* killed, retried or run twice at a time; app.bootstrap; a downgrade by   *)
(* hand; scripts/backup.py and scripts/restore.py beside a live product.   *)
(* A migration is one transaction (PostgreSQL rolls schema changes back),  *)
(* but Alembic reads the version row before it, and takes no lock on it.   *)
(***************************************************************************)
EXTENDS Schema

CONSTANTS
  Jobs,         \* deploys that run install.py
  MaxTries,     \* bound: how often a job is started (backoffLimit in migrate-job.yaml)
  MaxRuns,      \* bound on the executions of the product
  MaxByHand,    \* bound on what operators do beside the jobs
  Keys,         \* idempotency keys
  LeftBehind,   \* rows that an older release may have left
  Admin, Home   \* the account and the workspace that bootstrap creates

ASSUME DeploymentAssumption ==
  /\ {MaxTries, MaxRuns, MaxByHand} \subseteq Nat
  /\ NoKey \notin Keys
  /\ Admin \in People
  /\ \A rows \in LeftBehind :
       /\ DOMAIN rows = DOMAIN NoRows
       /\ rows.users # {} /\ rows.orgMember = NoRows.orgMember
       /\ rows.runs \in Seq(Keys \cup {NoKey}) /\ rows.strays \subseteq DOMAIN rows.runs
       /\ rows.engines \in Nat

VARIABLES
  db,       \* objects, version row, rows, the key its credentials are sealed with
  job,      \* per job: the step of install.py, the version it read, starts so far
  building, \* bootstrap --schema has created the tables and not stamped them
  image,    \* the backup: the dump, then its manifest, then whether it was verified; the key
            \* where it was taken, and whether that opened what was dumped
  target,   \* the database a restore is filling or has filled, and of its image: whether its
            \* revision was let through all the same, the key it was compared with, what is known
  key,      \* SECRET_ENCRYPTION_KEY of the deployment
  overlap,  \* whether the database may change while a backup is taken
  byHand    \* operations begun by hand so far

deploymentVars == <<db, job, building, image, target, key, overlap, byHand>>

Database(objects, version, rows) ==
  [objects |-> objects, version |-> version, rows |-> rows, sealedBy |-> 1]

KeyUnset == 0   \* no SECRET_ENCRYPTION_KEY in an environment, no fingerprint in a manifest

NoImage == [at |-> "none", dump |-> Database({}, 0, NoRows), revision |-> 0, counts |-> 0,
            key |-> KeyUnset, opens |-> FALSE, verified |-> FALSE]
NoTarget == [at |-> "none", db |-> NoImage.dump, forced |-> FALSE, key |-> KeyUnset,
             opens |-> FALSE, verified |-> FALSE]

\* Nothing at all, or what a former release left: a revision, and rows its constraints
\* admit.
DeploymentInit ==
  /\ \/ db = Database({}, 0, NoRows)
     \/ \E r \in 1..(HeadRevision - 1), rows \in LeftBehind :
          /\ \A object \in ObjectsAt[r] : Satisfied(object, rows)
          /\ db = Database(ObjectsAt[r], r, rows)
  /\ job = [j \in Jobs |-> [at |-> "idle", seen |-> 0, tries |-> 0]]
  /\ building = FALSE
  /\ image = NoImage /\ target = NoTarget
  /\ key = 1
  /\ overlap \in BOOLEAN
  /\ byHand = 0

Stopped(j) == job[j].at \in {"idle", "done", "failed", "crashed"}

\* Without overlap nothing changes the database between the dump and its manifest.
MayChange == overlap \/ image.at \in {"none", "complete"}

----------------------------------------------------------------------------
(* install.py *)

JobGoes(j, at) == job' = [job EXCEPT ![j].at = at]
OnlyJobs == UNCHANGED <<db, building, image, target, key, overlap, byHand>>
OnlyDb == UNCHANGED <<building, image, target, key, overlap, byHand>>

\* `alembic upgrade head` reads the version row ...
StartMigration(j) ==
  /\ Stopped(j) /\ job[j].tries < MaxTries
  /\ job' = [job EXCEPT ![j] =
       [at |-> "migrating", seen |-> db.version, tries |-> @.tries + 1]]
  /\ OnlyJobs

\* A fault to detect: the version row is written whatever it holds by now.
VersionRowUnchecked(seen) == TRUE

\* The UPDATE of the version row must find the one that was read.
VersionRowMatches(seen) == seen = HeadRevision \/ db.version = seen

\* ... and runs every revision after it, in one transaction.
Migrate(j) ==
  LET result == Run(db.objects, db.rows, Chain(job[j].seen + 1, HeadRevision))
  IN  /\ job[j].at = "migrating" /\ MayChange
      /\ IF result.ok /\ VersionRowMatches(job[j].seen)
         THEN /\ db' = IF job[j].seen = HeadRevision THEN db
                       ELSE [db EXCEPT !.objects = result.objects, !.rows = result.rows,
                                       !.version = HeadRevision]
              /\ JobGoes(j, "checking")
         ELSE db' = db /\ JobGoes(j, "failed")
      /\ OnlyDb

\* What scripts/schema_drift.py reports; `alembic check` refuses on either count.
Problems(d) ==
  (IF d.version # HeadRevision THEN {"revision"} ELSE {})
  \cup (IF d.objects # Metadata THEN {"models"} ELSE {})

Check(j) ==
  /\ job[j].at = "checking"
  /\ JobGoes(j, IF Problems(db) = {} THEN "engine" ELSE "failed")
  /\ OnlyJobs

\* bootstrap.seed_engine_instance
ReadEngine(j) ==
  /\ job[j].at = "engine"
  /\ JobGoes(j, IF db.rows.engines = 0 THEN "add engine" ELSE "admin")
  /\ OnlyJobs

\* A fault to detect: two instances may have the name "default".
EngineNameFree == TRUE

\* uq_engine_instances_name
EngineUnique ==
  <<"engine_instances", "uq_engine_instances_name">> \in db.objects => db.rows.engines = 0

AddEngine(j) ==
  /\ job[j].at = "add engine" /\ MayChange
  /\ IF EngineUnique
     THEN db' = [db EXCEPT !.rows.engines = @ + 1] /\ JobGoes(j, "admin")
     ELSE db' = db /\ JobGoes(j, "failed")
  /\ OnlyDb

\* bootstrap.seed_admin: an account only when there is no user at all, and the default
\* workspace whenever it is missing.
ReadAdmin(j) ==
  /\ job[j].at = "admin"
  /\ JobGoes(j, IF db.rows.users = {} THEN "add admin"
                ELSE IF Home \notin DOMAIN db.rows.organization THEN "add home" ELSE "done")
  /\ OnlyJobs

\* The unique slugs and addresses refuse the second of two.
AddAdmin(j) ==
  /\ job[j].at = "add admin" /\ MayChange
  /\ IF db.rows.users = {}
     THEN /\ db' = [db EXCEPT !.rows.users = {Admin}, !.rows.admins = {Admin},
                      !.rows.organization = [w \in {Home} |-> "appbi-automation"],
                      !.rows.member = [w \in {Home} |->
                         [u \in People |-> IF u = Admin THEN "OWNER" ELSE NoRole]],
                      !.rows.orgMember[Admin] = "ORG_OWNER"]
          /\ JobGoes(j, "done")
     ELSE db' = db /\ JobGoes(j, "failed")
  /\ OnlyDb

AddHome(j) ==
  /\ job[j].at = "add home" /\ MayChange
  /\ IF Home \notin DOMAIN db.rows.organization
     THEN /\ db' = [db EXCEPT
                !.rows.organization = [w \in DOMAIN @ \cup {Home} |->
                   IF w \in DOMAIN @ THEN @[w] ELSE "appbi-automation"],
                !.rows.member = [w \in DOMAIN @ \cup {Home} |->
                   IF w \in DOMAIN @ THEN @[w] ELSE [u \in People |-> NoRole]]]
          /\ JobGoes(j, "done")
     ELSE db' = db /\ JobGoes(j, "failed")
  /\ OnlyDb

\* The pod is killed; an open transaction is rolled back.
Crash(j) ==
  /\ ~Stopped(j)
  /\ JobGoes(j, "crashed")
  /\ OnlyJobs

----------------------------------------------------------------------------
(* By hand *)

ByHand == byHand < MaxByHand /\ byHand' = byHand + 1

\* What bootstrap --schema is for (create_schema): on the tables of an older release it would
\* add the missing ones and stamp the head all the same.
FirstRun == db.objects \in {{}, Metadata}

\* bootstrap --schema: create_all, and the stamp in a second transaction.
CreateAll ==
  /\ ByHand
  /\ FirstRun
  /\ ~building /\ MayChange
  /\ building' = TRUE
  /\ db' = [db EXCEPT !.objects = Metadata]
  /\ UNCHANGED <<job, image, target, key, overlap>>

Stamp ==
  /\ building /\ MayChange
  /\ building' = FALSE
  /\ db' = [db EXCEPT !.version = HeadRevision]
  /\ UNCHANGED <<job, image, target, key, overlap, byHand>>

CrashBuilding ==
  /\ building
  /\ building' = FALSE
  /\ UNCHANGED <<db, job, image, target, key, overlap, byHand>>

\* `alembic downgrade -1`, while no job is past its migration.
StepDown ==
  LET result == Run(db.objects, db.rows, Downgrade[db.version])
  IN  /\ ByHand
      /\ \A j \in Jobs : Stopped(j) \/ job[j].at \in {"migrating", "checking"}
      /\ ~building /\ MayChange
      /\ db.version > 0 /\ result.ok
      /\ db' = [db EXCEPT !.objects = result.objects, !.rows = result.rows, !.version = @ - 1]
      /\ UNCHANGED <<job, building, image, target, key, overlap>>

\* The product queues a run, of a workflow of its workspace; of one key there is one.
QueueRun ==
  /\ db.version = HeadRevision /\ db.rows.users # {} /\ MayChange
  /\ Cardinality(DOMAIN db.rows.runs) < MaxRuns
  /\ \E k \in Keys \cup {NoKey} :
       /\ k = NoKey \/ \A i \in DOMAIN db.rows.runs : db.rows.runs[i] # k
       /\ db' = [db EXCEPT !.rows.runs =
            [i \in DOMAIN @ \cup {1 + Max(DOMAIN @ \cup {0})} |-> IF i \in DOMAIN @ THEN @[i] ELSE k]]
  /\ UNCHANGED <<job, building, image, target, key, overlap, byHand>>

\* A rotation as a whole, once: everything rewrapped, then the environment changed.
Rotate ==
  /\ key = 1 /\ db.version = HeadRevision /\ MayChange
  /\ key' = 2 /\ db' = [db EXCEPT !.sealedBy = 2]
  /\ UNCHANGED <<job, building, image, target, overlap, byHand>>

----------------------------------------------------------------------------
(* backup.py and restore.py *)

\* COUNTED_TABLES: those that lose no row by themselves.
RowCounts(d) == <<Cardinality(DOMAIN d.rows.runs), Cardinality(d.rows.users),
                  Cardinality(DOMAIN d.rows.organization)>>

\* The key where a script runs: none, the deployment's, or one that a rotation replaced.
Environments == {KeyUnset} \cup 1..key

\* pg_dump: one snapshot.
Dump ==
  /\ ByHand
  /\ image.at \in {"none", "complete"}
  /\ \E env \in Environments :
       image' = [NoImage EXCEPT !.at = "dumped", !.dump = db, !.key = env,
                   !.opens = (env = db.sealedBy)]
  /\ UNCHANGED <<db, job, building, target, key, overlap>>

\* _manifest, queried afterwards from the live database, with the fingerprint of the key.
ReadRevision ==
  /\ image.at = "dumped" /\ db.version > 0
  /\ image' = [image EXCEPT !.at = "revision", !.revision = db.version]
  /\ UNCHANGED <<db, job, building, target, key, overlap, byHand>>

WriteManifest ==
  /\ image.at = "revision"
  /\ image' = [image EXCEPT !.at = "complete", !.counts = RowCounts(db)]
  /\ UNCHANGED <<db, job, building, target, key, overlap, byHand>>

\* Without a key or without a fingerprint there is nothing to compare: a warning at most.
KeyCompared(env) == KeyUnset \notin {env, image.key}

\* do_verify: the dump in a scratch database against its manifest, then the key. Where it
\* fails, nothing is kept.
Verify ==
  /\ image.at = "complete" /\ ~image.verified
  /\ RowCounts(image.dump) = image.counts /\ image.dump.version = image.revision
  /\ \E env \in Environments : KeyCompared(env) => image.key = env
  /\ image' = [image EXCEPT !.verified = TRUE]
  /\ UNCHANGED <<db, job, building, target, key, overlap, byHand>>

\* A fault to detect: a key that is not the dump's is only warned of.
RestorableByRevision(env, forced) ==
  image.at = "complete" /\ (image.revision = HeadRevision \/ forced)

\* The manifest is for this checkout, or --ignore-revision-mismatch is given (or the checkout
\* has no head to read), and for this key, where there are two to compare.
Restorable(env, forced) ==
  /\ image.at = "complete"
  /\ image.revision = HeadRevision \/ forced
  /\ KeyCompared(env) => image.key = env

\* The checks, once, and then the target is created anew: it is partial until pg_restore of
\* the dump is through.
BeginRestore ==
  /\ ByHand
  /\ \E env \in Environments, forced \in {FALSE, image.revision # HeadRevision} :
       /\ Restorable(env, forced)
       /\ target' = [at |-> "partial", db |-> image.dump, forced |-> forced,
                      key |-> IF KeyCompared(env) THEN env ELSE KeyUnset,
                      opens |-> image.opens, verified |-> image.verified]
  /\ UNCHANGED <<db, job, building, image, key, overlap>>

FinishRestore ==
  /\ target.at = "partial"
  /\ target' = [target EXCEPT !.at = "whole"]
  /\ UNCHANGED <<db, job, building, image, key, overlap, byHand>>

\* DATABASE_URL is pointed at it.
Adopt ==
  /\ target.at = "whole"
  /\ \A j \in Jobs : Stopped(j)
  /\ ~building /\ MayChange
  /\ db' = target.db /\ target' = NoTarget
  /\ UNCHANGED <<job, building, image, key, overlap, byHand>>

DeploymentNext ==
  \/ \E j \in Jobs :
       StartMigration(j) \/ Migrate(j) \/ Check(j) \/ ReadEngine(j) \/ AddEngine(j)
         \/ ReadAdmin(j) \/ AddAdmin(j) \/ AddHome(j) \/ Crash(j)
  \/ CreateAll \/ Stamp \/ CrashBuilding \/ StepDown \/ QueueRun \/ Rotate
  \/ Dump \/ ReadRevision \/ WriteManifest \/ Verify \/ BeginRestore \/ FinishRestore \/ Adopt

DeploymentSpec == DeploymentInit /\ [][DeploymentNext]_deploymentVars

----------------------------------------------------------------------------
(* Whatever runs, overtakes and crashes, a version row says what the database has: the  *)
(* revisions up to it have run, and no later one; at the head the tables are those of   *)
(* the models. So a deploy that was killed or overtaken can be run again (install.py).  *)
SchemaAsStamped ==
  db.version > 0 =>
    db.objects = IF db.version = HeadRevision THEN Metadata ELSE ObjectsAt[db.version]

(* Every revision can be taken back on the rows that are really there, and taken again: *)
(* what the CI tries on an empty database only (.github/workflows/ci.yml).              *)
Reversible ==
  db.version > 0 =>
    LET back == Run(db.objects, db.rows, Downgrade[db.version])
    IN  /\ back.ok /\ back.objects = ObjectsAt[db.version - 1]
        /\ Run(back.objects, back.rows, Upgrade[db.version]).ok

(* An upgrade keeps the run whose id the caller of a key was told, the first one, and   *)
(* leaves nobody with less than they had in a workspace (the two data migrations).      *)
UpgradeTakesNothingAway ==
  [][\A j \in Jobs : db'.version > db.version /\ Migrate(j) =>
       /\ \A i \in DOMAIN db.rows.runs :
            (\A k \in DOMAIN db.rows.runs : k < i => db.rows.runs[k] # db.rows.runs[i])
              => i \in DOMAIN db'.rows.runs
       /\ \A u \in People, w \in DOMAIN db.rows.organization :
            Reach(db.rows, u, w) \in {NoRole, Reach(db'.rows, u, w)}]_deploymentVars

(* No duplicate runs, and no workspaces or members of an older release, stop an upgrade: *)
(* a job fails only if someone else moved the schema since it read the version row, if   *)
(* the tables were made by create_all and never stamped, or for rows that no revision    *)
(* repairs: two engines of one name (upgrade of 20260905_0900), or a run filed against   *)
(* another workspace's workflow (upgrade of 20260908_1200).                              *)
FailsOnlyWhenOvertaken ==
  [][\A j \in Jobs :
       /\ job[j].at = "migrating" /\ job'[j].at = "failed" =>
            \/ db.version # job[j].seen
            \/ db.version = 0 /\ db.objects = Metadata
            \/ db.rows.engines > 1
            \/ db.rows.strays # {}
       /\ job[j].at = "checking" /\ job'[j].at = "failed" => db.version # HeadRevision
    ]_deploymentVars

(* Two jobs that bootstrap at the same time leave one default engine, also beside what  *)
(* an older release left: every dispatch would otherwise pick either.                   *)
SeededOnce == db.version = HeadRevision => db.rows.engines <= 1

(* What restore.py calls restored, no mismatch ignored, is a database that this release   *)
(* runs on, whatever moved since - the manifest is read after the dump: it is of the same *)
(* revision if nothing changed while the backup was taken, or if it was verified. Its     *)
(* credentials are ones that the key of restore.py opens, if the backup's key opened them *)
(* and both were there to compare, whatever was rotated since.                            *)
RestoredFits ==
  target.at = "whole" =>
    /\ ~target.forced /\ (overlap => target.verified) => Problems(target.db) = {}
    /\ target.key # KeyUnset /\ target.opens => target.db.sealedBy = target.key
=============================================================================
