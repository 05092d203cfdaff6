# Formal models of the AppBI workflow automation product

AppBI Workflow is a multi-tenant product around an embedded workflow engine. A
FastAPI backend (`src/backend`) keeps everything in PostgreSQL. A worker process
(`src/backend/app/worker.py`) moves queued runs to a separate engine service
(`src/workflow-engine`), which runs graphs in memory on the n8n libraries and keeps
nothing on disk. A Next.js frontend talks to the backend only.

This directory holds TLA+ models of the parts of the system that are concurrent,
retried and crash-prone, TLC configurations that check them, and TLAPS proofs.

| file | what it is |
| --- | --- |
| `RunSaga.tla` | a run of a workflow, from the queue to its terminal status: database rows, workers, cancel requests, engine |
| `RunLifecycle.tla` | what the product promises of a run's status; `RunSaga` implements it while work is prompt |
| `ExecutionCreate.tla` | creation of a run under concurrent requests, statement by statement |
| `RunQueue.tla` | creation as if it were atomic; `ExecutionCreate` implements it |
| `WorkflowStore.tla` | one workflow under concurrent edits: draft, versions, activation, deletion, its schedule |
| `Firing.tla` | schedules that come due: ticks of several workers over several bindings and workspaces |
| `Tenancy.tla`, `Permissions.tla` | organisations, workspaces, memberships, owners; who may do what |
| `Accounts.tla` | one account: password, sessions, failed attempts |
| `Gateway.tla` | calls of one webhook: rate limit, checks, answer |
| `Vault.tla` | credentials, their sealed values, and the rotation of the key |
| `Alerts.tla` | notifications, rules, cooldowns |
| `Schema.tla`, `Deployment.tla` | the migrations object by object; install, bootstrap, downgrade, backup and restore |
| `MCRunSaga`, `MCExecutionCreate`, `MCWorkflowStore`, `MCFiring`, `MCDeployment` | instances of the modules of these names |
| `MCAccess`, `MCPlatform` | instances of Tenancy and Accounts, and of these with Gateway, Vault and Alerts |
| `RunSagaProofs`, `ExecutionCreateProofs`, `WorkflowStoreProofs`, `FiringProofs`, `VaultProofs`, `DeploymentProofs` | proofs about the modules of these names; the first two also about `RunLifecycle` and `RunQueue`, the last also about `Schema` |
| `AccessProofs`, `PlatformProofs` | proofs about Tenancy and Accounts; about Gateway and Alerts |

## 1. Inventory

| component | state it keeps | operations | hard part | correct when |
| --- | --- | --- | --- | --- |
| run saga (`services/executions.py`, `worker.py`) | `executions` rows: status, engine_ref, last_seen_at; per loop turn the ORM objects it loaded | claim, dispatch, poll, ingest, mark_interrupted, cancel, retry | several processes write one row blindly from copies; engine calls between two transactions; crashes | rows tell the truth, no execution is dispatched by two, every run settles |
| run creation (`executions.create`) | rows, unique index on the idempotency key, advisory lock per workspace | create, retry | count-then-insert and look-up-then-insert under READ COMMITTED | ceilings kept, one key one run, everyone answered |
| engine execution manager (`runtime/execution-manager.ts`) | maps `active`, `results`, `idempotency` | start, status, cancel, finish, sweep | process memory, TTL, a start that throws half-way | one live run per key, every run ends in a result |
| engine adapter (`n8n_service_adapter.py`) | none | HTTP calls | a timeout says nothing about whether the call was handled | classes of answer kept apart |
| workflow store (`services/workflows.py`) | workflows, drafts (revision), versions (number), trigger bindings | save_draft, publish, activate, deactivate, duplicate, delete | revision and max+1 are read then written; publish spans engine calls | versions numbered once and valid, enabled bindings only on active workflows |
| triggers and schedules (`services/triggers.py`, `schedules.py`) | bindings: enabled, next_run_at | due_schedules, fire_schedule | one transaction over all due bindings, several advisory locks, re-arming in `finally` | one firing per due time, every due time answered |
| inbound webhooks (`api/hooks.py`, `triggers.py`) | bindings' keys and secrets, audit rows | receive, resolve, authenticate, handle | some errors commit, others roll back | the answer is what the database holds |
| rate limiter (`core/rate_limit.py`) | bucket rows | hit, check, prune | clocks of replicas and order of statements | at most `limit` per window |
| credentials, secret store (`services/credentials.py`, `core/secrets.py`) | credentials, secret records (wrapped key + ciphertext) | create, update, delete, resolve, record_test, mark_invalid, write, rewrap_all | rotation from copies, in batches, interrupted | every stored value can be opened |
| alerts (`services/alerts.py`) | rules, notifications | raise_alert, evaluate_execution, upsert_rule, delete_rule | read-then-insert deduplication in a transaction that may be rolled back | no failed run untold |
| access, organisations (`services/access.py`, `organizations.py`, `core/permissions.py`) | users, memberships, roles, overrides | invite, update, remove, authenticate, change_password, switch_workspace | last-owner guards without a lock; tokens outlive what they were issued for | an owner remains; old sessions end |
| provisioning (`services/provisioning.py`) | organisations, workspaces, quotas | provision, set_quota, set_status | several tables at once | all or nothing |
| audit (`services/audit.py`) | audit_events | record | swallows its own errors | the event is there when the change is |
| housekeeping (`worker.py`) | engine status, retention | probe, missed schedules, prune, purge | overlaps the other loops | alerts once per change |
| migrations (`backend/migrations`) | the schema, the version row | upgrade, downgrade, two data migrations | what PostgreSQL keeps after a drop; rows of old releases | the schema is what the version row says |
| deployment (`scripts/install.py`, `app/bootstrap.py`, `deploy/`) | seeds | upgrade, check, seed | jobs run twice, are killed, are retried | a deploy can be run again |
| backup and restore (`scripts/backup.py`, `restore.py`) | dump, manifest | dump, verify, restore | beside a live product | what is restored can be run on |
| database sessions (`core/db.py`) | one transaction per request | get_session | rollback on every exception | writes that must survive an error are committed first |
| graph validation, compiler, node mappers | none (pure) | validate_graph, compile | cycles, reachability, merges | see "Not modelled" |
| monitoring, catalogue, payload vault, egress guard, frontend, release gate, doctor | reads, static data | | | see "Not modelled" |

How they interact: an API request, a webhook or the schedule tick calls
`executions.create` in its own transaction. The dispatch loop claims QUEUED rows
(`FOR UPDATE SKIP LOCKED`), commits DISPATCHING, then calls the engine outside any
transaction and records the answer. The reconcile loop polls the engine for every
DISPATCHING, RUNNING or CANCEL_REQUESTED row, and ends the ones the engine no longer
knows or has not confirmed for `execution_stale_after_seconds`. A terminal status is
recorded together with its alerts and the health of its credential. A cancel request
calls the engine from within its own transaction. The engine never calls back. Every
change of a membership writes its audit event in its own transaction. Migrations and
bootstrap run as a job beside whatever is up.

The hazards of the code, each at its line, are in `PROJECT.json` under `hazards` with the
properties that would catch them.

## 2. The models and the code

### RunSaga

| in the model | in the code |
| --- | --- |
| `row` | the `executions` table: status, `engine_ref` (`ref`), and whether `last_seen_at` (or `queued_at`) lies beyond the stale window (`old`) |
| `batch`, `call` | the objects a turn of `dispatch_loop` claimed and the engine call in progress |
| `copy`, `heard` | the objects a turn of `reconcile_loop` loaded and the poll answer not yet written |
| `cancel` | an API request in `executions.cancel`, with the row as it loaded it |
| `run` | the engine's maps `active` (`active`, `stuck`) and `results` (`stored`); a ref in neither is `lost` |
| `idem` | the engine's map `idempotency` |
| `late` | a dispatch request whose caller has given up and which the engine has not handled yet |

Every action is one committed transaction, one engine handler, or one failure:

| action | code |
| --- | --- |
| `Create` | `executions.create`, as one step (see ExecutionCreate) |
| `Claim` | `claim_queued` and the statuses set under its row locks |
| `Post` | `dispatch` up to the commit at line 393 and the request being sent |
| `Accept`, `AcceptLate` | `startExecution` and its route: sweep, idempotency hit (202), busy (503), compile error (422), started (202), thrown (500) |
| `DispatchStarted`, `DispatchDeferred`, `DispatchRefused` | the three ends of `dispatch` |
| `DispatchAborts`, `PassAborts` | any other exception in a turn |
| `PassBegin`, `Poll`, `PollIngest`, `CheckUnpolled` | a turn of `reconcile_loop`: `active_executions`, the poll, then ingest or mark_interrupted, `_interrupt_if_stale` and the commit |
| `CancelBegin`, `CancelUndispatched`, `CancelAnswered`, `CancelHears`, `CancelRecords`, `CancelDeferred`, `CancelDies` | `executions.cancel` |
| `Finish` | `finish` / `failRun`, with the precedence CANCELLED, TIMED_OUT, FAILED, SUCCEEDED of `normalize.ts` |
| `EngineCrash`, `WorkerCrash` | a process dies and starts again with nothing in memory |
| `Silence` | the stale window passes for a row |

What matters for faithfulness:

* **Writes are blind.** SQLAlchemy's UPDATE names only the columns whose value differs
  from the loaded one and has no condition on the old status. So `Post` writes only
  `last_seen_at` (the status it assigns is the one its object already has), `Ingest` of
  RUNNING leaves the status alone unless the *copy* says DISPATCHING, and a cancel of
  a copy that already says CANCEL_REQUESTED does not write the status (`Flushed`).
* **A poll and the write of its answer are two steps**, because the request is awaited
  in between; the same holds for a dispatch call. A cancel is a load followed by one
  step: its UPDATE takes the row lock before the engine is asked and keeps it until
  the commit, so no other writer of the row comes between. Only when its copy says
  CANCEL_REQUESTED already there is no UPDATE and no lock, and the engine's answer
  (`CancelHears`) is written later (`CancelRecords`).
* **Exceptions abandon the rest of a turn.** After the rollback the objects of the
  session are expired, and the log line of the handler reads `execution.id`, which
  cannot load lazily in an async session; the error leaves the `for` loop.
* **A timed-out dispatch** may not have been handled yet. At most one such request
  per execution is remembered (`late`), and a restart of the engine drops it.
* **Time.** With `Prompt = FALSE` the staleness check may come out either way at any
  moment: everything that holds then holds for every value of every timeout. With
  `Prompt = TRUE` a row is stale only once `Silence` has happened, which no row does
  while a worker still has it in its batch. This stands for a window (120 s) that
  outlasts the queue, a batch and a pass. Nothing in the code enforces it.

Left out of RunSaga: the order by `queued_at` and the limit of 200 in a pass, node
results and log lines (replaced as a whole with the status), `_on_terminal` (alerts and
credential health write other tables), and the content of graphs, which decides only
whether `startExecution` accepts and how a run ends.

### ExecutionCreate

One action per statement of `create`; a row is named by the request that made it.
`Begin` is the first idempotency lookup, `Lock` the advisory lock, `Check` the two
counts, `SecondLookup` the lookup after a refusal, `Insert` the INSERT in its savepoint
under the unique index, `ReadWinner` the IntegrityError branch, `Commit` the caller's
commit, `Fail` every other error and a dying process. `EndRun` and `SetQuota` are the
rest of the system: a worker ends a run, an operator changes a quota. The counts of
`Check` are one step because no row can be added while the lock is held, and a row that
ends between them only makes both counts smaller. The ceiling is read either from the
workspace object loaded with the request's context or afresh, whichever the session's
identity map still holds. `create` assumes that a run which has ended stays ended;
the run `calm` shows when that is so, and `races` allows the opposite.

`RunQueue` is the promise: a request is handled at one instant. The refinement hides
uncommitted rows and unsent replies.

### WorkflowStore

| in the model | in the code |
| --- | --- |
| `workflow`, `draft`, `binding`, `versions` | the four tables, for one workflow; a version is named by its number, NULL is 0; `armed` is `next_run_at IS NOT NULL` |
| `running` | some execution of the workflow has an active status |
| `request` | an API request: the copies of the three rows its session loaded, and the number `publish` has read |
| `torn` | whether the three SELECTs of a load may see three moments; chosen once, at the start |

| action | code |
| --- | --- |
| `Load`, `LoadDraft`, `LoadTriggers` | `get_workflow` and the two `selectin` loads that follow it |
| `Save` | `save_draft` with `_sync_trigger_from_graph` (`Synced`, `Switched`) |
| `Number`, `Publish` | `publish` up to the `max + 1`, and from the insert to the commit |
| `Activate`, `Deactivate` | the functions of these names |
| `CountNoRun`, `Delete` | `delete` up to the count of active runs, and its writes |
| `Run` | `executions.create` for a manual run, in one step |
| `Tick` | `due_schedules` and `fire_schedule` for this binding, in one step (see Firing) |
| `RunEnds` | a worker records a terminal status |
| `Refuse` | any exception: a 409 of a revision that is not the loaded one, an invalid graph, a taken number, a credential problem, a deadlock victim |

A request decides from its copies and its UPDATEs name only the columns it changed
(`Flushed`), so what it leaves of a row mixes its own columns with those of others. A
commit is one step although it writes up to three rows: two transactions that wrote two
rows in opposite orders would be a deadlock, which PostgreSQL resolves by failing one.
`Tick` is one step because it locks the binding's row. `next_run_at` is computed again
by a save and an activation and may equal the loaded time, in which case the column is
not written: `Rearmed` allows both. READ COMMITTED permits torn loads; what holds only
without them is stated with `~torn`.

Left out: names and descriptions, the cached validation verdict (written, but never read to
decide anything), the webhook key and its secret, and the row lock that `publish` takes on
the draft when its verdict is new (without it the model has more behaviours, not fewer).
The schedule's overlap policy is the default, SKIP_IF_RUNNING. The engine's dry run and
the catalogue are the fixed set `Valid`; credential problems are `Refuse`.

### Firing

One tick of `schedule_loop` is one transaction over every binding `due_schedules` returns;
each statement of it that can wait, fail or see others is an action, and nothing of it is
visible before `CommitTick`.

| in the model | in the code |
| --- | --- |
| `binding` | the committed row: `enabled`, `next_run_at`, and the workflow's `deleted_at` |
| `tick` | per worker: the bindings still to do, the rows as its transaction has them, the runs it has inserted |
| `space` | who holds the advisory lock of `executions.create` for a workspace |
| `calls` | requests of the editor that have read a binding and not yet written it |
| `fired` | when the runs of a binding started since it was last armed |

| action | code |
| --- | --- |
| `BeginTick` | `due_schedules`: due, free (`SKIP LOCKED`), ordered by `next_run_at`, limited |
| `FindsDeleted`, `SkipsOverlap` | the early returns of `fire_schedule` |
| `Asks`, `Creates` | `executions.create` up to the lock, and from the counts on; then the `finally` clause (`Advanced`) |
| `CommitTick`, `RollBack` | the end of the transaction; a raise, a deadlock victim, a lost connection |
| `EditReads`, `EditWrites`, `Stop` | activate, save_draft, delete; deactivate |
| `StartByHand`, `RunEnds`, `TimePasses` | a manual run, its end, the clock |

Cron arithmetic is an interval; its two ends are kept: a binding whose expression names a
year has no date after `EndOfDates` and `next_run_at` raises what is no AppError
(`Dated`), a timezone the database drops raises one (`Zoned`).

### Tenancy, Permissions, Accounts

`Tenancy` has the rows of `users`, `workspaces`, `memberships` and
`organization_memberships`, the role that the last audit event about a membership names
(`trail`), and requests. A request is two steps: its authority, its checks and its guard are
read (`InviteMember` ... `SetStatus`, one per service function), then what it decided is
written, with the constraints of the tables (`CommitInvite` ... `CommitStatus`) or rolled back
(`Fail`). As the ORM does, a write changes only what differs from the copy the request loaded, finds its
row by the primary key (`memberKey`, `orgKey`: a member who is removed and invited again has another one), raises
when it finds none and, if it is a deletion, goes on; the event is recorded whether or not anything was written. `overlap` says whether other requests may come between. `Permissions` has the
role matrix, overrides and `effective_role`. `FirstSignIn` is all that Tenancy sees of
`change_password`.

`Accounts` is the other half of access: one row of `users`, the tokens issued for it, and
per device a call (login, switch of workspace, change of password) that read the row and
has not written. `WrongPassword` is `authenticate` up to the error, with what
`get_session` leaves of it (`AfterRaise`). A token is named by its `sv` and the password in
force when it was issued. Expiry of tokens and locks, and the profile, are left out.

### Gateway

A call arrives and reads its replica's clock (`Arrives`), is counted by one statement and
answered 429 when it is over the limit (`Counts`) or passes when the counter fails
(`PassesUncounted`); it is then unknown, refused with an audit row, or creates a run
(`Unknown`, `Rejects` and `RefusalSent`, `StartsRun` and `AcceptanceSent`), or fails and is
rolled back (`Fails`). The acknowledgement of a commit may be lost: the caller is then answered 500 as well, and
what was committed stays (`Accepted`, `Refused`). `Prune` is housekeeping's. A window is a minute. Method, type, size,
signature and age are one refusal: what they have in common, that the audit row of it is
committed although the request raises, is what the model is about.

### Vault

A credential is a slot in the order of `SecretRecord.id`. Its record says which key wraps
which data key and which data key seals the payload; data keys are named by the number
of the write. `Create`, `Update`, `DeleteCredential`, `Resolve`, `RunEndsWith`
(`mark_invalid`) and `Test` are the operations of `credentials.py`; `BeginRotation`, `ReadPage`,
`CommitPage` and `EndRotation` are `rewrap_all`, which pages by offset and commits
batch by batch. A page is the set of the rows whose `Position` in the order of ids is past the
offset and within the limit: the order inside a batch has no effect, since each row is written
by itself and the batch commits as one. `Restart` gives the process the new key. `raced` and
`disturbed` remember what the two properties have to except.

### Alerts

`EvaluateFailure` and `KeepHouse` evaluate in a transaction, `CommitEnd` and `CommitHouse`
commit it, `Abandon` rolls it back; a rolled back end of a run is found again by a later
poll. `Picks` is the query for the one rule, `Raised` the deduplication against committed
notifications. `Threshold` lets any rule of the event give the number, as the query does.
Nothing in the code reads whether a notification was acknowledged, so that is left out.

### Schema and Deployment

`Schema` has the six revisions as sequences of steps on objects (tables, the parts of tables
that some revision touches, enumerated types), with the rows that the data migrations
and the constraints are about (duplicate and unkeyed runs, runs filed against a workflow of another workspace,
workspaces, members, engines), and `Metadata`, the same from the models. `Run` applies steps as
PostgreSQL does: it refuses to create what exists, to drop what is missing or referenced, and a
constraint the rows break; it drops with a table its parts and keeps the enumerated types. Whether
the objects let a step through (`Allowed`) and whether the rows do (`Admits`) are separate questions,
and so are what becomes of the objects (`Changed`) and of the rows (`Rewritten`). `Layout` runs steps on the
objects alone. Two assumptions, `LayoutsAssumption` and `StepsAssumption`, say what the text of the revisions
amounts to; they contain no constant and no row, so TLC settles them by evaluation when it starts.

`Deployment` runs them: `StartMigration` and `Migrate` are `alembic upgrade head`, which reads
the version row before its transaction and updates it with a condition at the end; `Check`,
`ReadEngine`, `AddEngine`, `ReadAdmin`, `AddHome`, `AddAdmin` are the rest of `install.py`; `Crash` kills the
job; `CreateAll` and `Stamp` are `bootstrap --schema`, on an empty or complete database as its docstring intends
(`FirstRun`; nothing checks it, and on the tables of an older release it would stamp a head they do not have); `StepDown` is a downgrade by hand;
`Dump`, `ReadRevision`, `WriteManifest`, `Verify` are `backup.py` and `BeginRestore`, `FinishRestore`
`restore.py`; `Adopt` points the product at the restored database. Each script runs in an environment of its own
(`Environments`: no key, the deployment's, or one of before a rotation). `restore.py` checks once, before it
writes (`BeginRestore`): the manifest's revision, unless `--ignore-revision-mismatch` is given, and its key, if it
has one and there is one to compare with (`KeyCompared`); else it warns. `target` remembers under what it was let
through, and `image.opens` whether the key where the backup was taken opened the database: the manifest records that
key and not the one the secrets are sealed with, and these differ once a backup of before a rotation is adopted. A restore fills a database of
its own; overwriting an existing one, which needs a long flag, is left out.

### RunLifecycle

The status machine of `models/enums.py` over one variable, with one run per workflow.
`RunSaga` implements it only while work is `Prompt`, a single worker runs and nobody
cancels; the other instances show what of it survives otherwise.

## 3. What is checked

| run | instance | shows |
| --- | --- | --- |
| `races` | 1 execution, 2 workers, 1 cancel request, 3 refs, 2 crashes, not prompt, results expire, starts may throw | types; a row that can be claimed is held by nobody; the engine runs one copy at a time; recorded outcomes are real; rows carry a ref exactly when they need one; refs never change |
| `calm` | 3 executions of 2 workflows, 1 worker with batches of 2, engine capacity 1, 2 refs, 1 crash, prompt | the saga implements `RunLifecycle`; one active run per workflow |
| `settles` | 1 execution, 2 workers, 1 cancel request, 1 crash, prompt, fair | every run comes to rest and stays at rest |
| `create` | 3 requests, 2 workflows of one workspace, 1 key or none, limits 1 and 2, quota 1 or unset, fair | types; both ceilings kept; a replay is not refused; `RunQueue` is implemented; everyone is answered |
| `edits` | 2 requests, 3 graphs (a schedule, a webhook, no trigger), 2 revisions, 2 versions, loads whole or torn, fair | types; versions numbered in order; only valid graphs published; an enabled binding can fire; with whole loads the workflow row and its binding agree; a deleted workflow comes to rest |
| `schedules` | 2 workers, batches of 2; either 4 schedules of 2 workspaces due at once and nobody editing, or 2 schedules, 2 edits or manual runs and 1 lost tick; ceiling 1, 2 intervals, fair | no burst, no run of a stopped schedule, every due time answered |
| `services` | one of: 2 users, 2 workspaces, 2 organisations, 2 requests, 4 commits; 3 devices, 3 passwords; 3 calls of a hook, limit 1, 3 windows; 3 credentials, batches of 1, 3 writes, 2 rotations; 2 workflows, 2 rules, 2 loops, 2 days | types; owners remain; roles change only on record; old sessions end; the limit is kept; answers are true; secrets survive a rotation and it reaches all; a failed run is told of |
| `schema` | 2 jobs of one start each (the second is the retry of a first that was killed, or overlaps it), 2 operations by hand (downgrade, backup, adoption), a rotation at any time, an empty database or one of an older release, of four: with runs of one key; without the default workspace; with a run of another workspace's workflow; with 2 engines of one name | the version row is true; every revision can be taken back and again; one seed; upgrades take nothing away and fail only when overtaken; a restored database fits |
| `lockout`, `erased`, `poisoned` | parts of the instances above | three statements of the code's comments that do not hold, below |

`services` puts five modules into one run. They share no variable, so a behaviour runs one of
them and the others stand still; the states are the sum of the five, not the product.

**Bounds.** One execution is enough for `races` and `settles` because no rule of the
saga relates two executions except the engine's capacity, the batch and the limit per
workflow; those are in `calm`, which has two executions contending for one workflow,
batches that hold two rows, and an engine that is full with one run. Two workers and one
cancel request give every pair of writers; three refs allow a start, a lost start and
another one; two crashes allow a crash during the recovery from a crash. In `create` three
requests allow a winner, a loser and one more in the way, two workflows share the
workspace's lock and ceiling, and quotas move the ceiling above and below what is running.
In `edits` two requests give every pair of overlapping edits, since no rule relates three, and two
versions are a current one and one to roll back to. In `schedules` two workers and two
workspaces with two schedules each are what a deadlock needs; two intervals are what a missed
time needs. In Tenancy two users are what the last-owner guard needs, and four commits are an
invitation, a removal, and an invitation again, so that a fourth finds another row in the place of the one it
loaded. Three passwords let a session
of the first meet the second and the third. Three calls of a hook with limit 1 go through three
windows, so that a statement can be late by one and a bucket be pruned. Three credentials
in batches of one give an offset that a deletion moves; two rotations are an interrupted one
and its repetition. The proofs of section 5 hold for any numbers.
`MaxCrashes`, `MaxRevision`, `MaxVersions`, `MaxTime`, `MaxEdits`, `MaxCrashesOfTicks`, `MaxChanges`,
`MaxPasswords`, `MaxWindow`, `MaxWrites`, `MaxRotations`, `MaxUses`, `MaxStreak`, `MaxDay`, `MaxRounds`,
`MaxTries`, `MaxRuns` and `MaxByHand` are bounds of the models only; the other bounds are sizes of
constants. Deadlock is not reported as an error because a system whose runs have all ended,
or whose bounds are used up, stops; waiting for ever is what the liveness properties are for.

**Fairness.** `RunSaga`: the loops of a worker are endless `while` loops that catch every
exception (`WF` of each worker's two loops); an engine run ends, since a timer cancels
it (`WF(Finish)`, deliberately not for a `stuck` run, which has no timer); time passes
(`SF(Silence)`: a row that is again and again unconfirmed becomes stale unless something
confirms it). The engine is assumed to be reachable again and again: a dispatch attempted
infinitely often is eventually handled and its answer received (`SF(Accept)` and
`SF(DispatchStarted \/ DispatchRefused)`). Without it a run may be put back in the queue for
ever, which is what the code intends. Cancel requests, crashes and creation get no
fairness. `ExecutionCreate`: a handler that is not waiting goes on (`WF`), and PostgreSQL
grants an advisory lock in the order in which it was asked for (`SF(Lock)`). `WorkflowStore`:
the schedule loop (`WF(Tick)`) and the end of runs (`WF(RunEnds)`, which `settles` shows);
requests get none, so a copy may be held for ever. `Firing`: `schedule_loop` catches every
exception and ticks again (`WF` of each worker's steps); an exception does end its transaction
and PostgreSQL does resolve a deadlock (`WF` of `RollBack` where one of the two is there, and not
of losing a tick); locks are handed on in `Release`. Nothing else there is fair: not the end of
runs, which is why a full workspace must not stop the schedules of another.

## 4. Where the code does not do what it says

* `lockout`: a wrong password is counted, flushed, and then raised out of the session
  (`access.py:139-147`); `get_session` rolls back on every exception (`core/db.py:112-114`). The
  count never grows and no account is ever locked ("Failed attempts are counted and the
  account locks temporarily", `access.py:117`).
* `erased`: `credentials.update` seals the submitted fields as the whole new payload. For a
  type with two secret fields the omitted one is gone ("an omitted secret on update means
  *unchanged*, not *cleared*", `credentials.py:8-9`).
* `poisoned`: a cron expression that names a year runs out of dates; croniter's error is no
  AppError, leaves the `finally` of `fire_schedule` and rolls back the tick. The binding is the
  first of the next tick again, and with it the schedules of its batch, of any tenant, stay due
  for ever ("Disable rather than retry forever", `triggers.py:334`).

Met while modelling, visible in the models, and without a run of their own:

* A row claimed by a worker has no `engine_ref` until the engine has answered. A cancel in
  that window answers CANCELLED on the spot (`executions.py:669`) and the worker then starts it.
* A row whose ref was lost with the worker's transaction is recorded as FAILED_TO_START
  ("the engine cannot know about it", `worker.py:110`) while the engine runs it.
* The engine's idempotency (`executions.py:410`) does not outlive the engine process; a
  dispatch retried after a restart runs the execution a second time. What remains is
  `OneLiveRunPerExecution`: never two at the same time.
* A start that throws after the run is registered leaves an `active` entry with no timer and a
  key that points to it. Polls confirm RUNNING for ever (`enums.py:71`: "never left RUNNING forever").
* `save_draft` compares the stated revision with a copy it read without a lock. Two saves at
  one revision both pass and the second canvas replaces the first (`models/workflow.py:98-100`).
* `activate` pins a version to a binding whose type and config follow the draft: a version
  published with a schedule and activated after a webhook was saved never fires
  (`workflows.py:938` against `:595-597`). An activation from a copy older than a save that made
  the binding a schedule leaves it enabled and never due.
* With torn loads the workflow row and its binding may disagree.
* The last-owner guards count without a lock: two owners who demote each other at the same
  moment leave none. Two changes of one password at the same time count one version.
* A secret saved between the SELECT and the commit of a batch of `rewrap_all` keeps its new
  ciphertext under the old data key and is lost. A deletion during a pass moves the offset, and the
  pass skips a record, which stays under the old key.
* An update of a role that equals the one the request loaded writes nothing, and a removal of a member who
  was removed meanwhile deletes nothing; both are recorded. When another request changes the role, or invites
  the member again, in between, the last audit event names another role than the row (`TrailIsTrue` of `Tenancy`,
  which is therefore claimed of requests served one by one; the other half of `RolesOnRecord` is not).
* A rule that names one workflow is picked for the failures of every other workflow, and then drops them
  (`alerts.py:68-78`). `ALWAYS_ON` promises otherwise only for a workspace without rules (`:36-38`), where
  it is so: `ToldUnlessSilenced` excepts nothing else.
* `mark_invalid` sets INVALID on a credential that was deleted or replaced since its run began.
* Of two equal alerts raised at the same time both are kept; which rule's threshold counts for
  consecutive failures is left to the order of rows.
* A statement of the rate limiter that comes after one of a later window starts the count again.
* The organisations migration makes an owner of any one workspace an owner of the single
  default organisation, and so of every other workspace there is.
* The counts of a backup's manifest are read after the dump: a backup of a live product may
  fail its own verification, and a manifest may name a later revision than its dump has; `restore.py` does not
  notice. Its key is the environment's: a backup of a database that was restored
  from before a rotation passes as being of the new key, while its secrets are sealed with the old.
* Before the second revision two bootstraps could leave two engines of one name, and that revision
  makes names unique without collapsing them (`20260905_0900`, `:89-90`): the upgrade then fails.
* Before the fifth revision nothing stopped a run from naming a workflow of another workspace; its foreign key
  (`20260908_1200`, `:52-57`) is validated against the rows there are, and with such a run the upgrade fails.

## 5. What is proved

Every safety property that a passing run checks is proved for all values of the constants.
The theorems rest on the named assumptions about constants, and in `Schema` about the text of
the revisions, which TLC evaluates on every run.

| module | theorem | property |
| --- | --- | --- |
| `RunSagaProofs` | `TypeCorrectness` | `TypeOK` |
| | `DispatchIsExclusive` | `ExclusiveDispatch` |
| | `OneLiveRun` | `OneLiveRunPerExecution` |
| | `HistoryIsTrue` | `TruthfulHistory` |
| | `RowsCanBeResolved` | `RowCanBeResolved` |
| | `RefsAreForever` | `RefIsForever` (an action property) |
| | `RestIsFinal` | a recorded outcome is final once nobody holds an older copy of the row |
| | `SagaImplementsLifecycle` | `ImplementsLifecycle` (a refinement, under `Calm`) |
| | `OneActiveRun` | `OneActiveRunPerWorkflow` (under `Calm`) |
| | `RunsDoNotOverlap` | `Lifecycle!OneRunAtATime`, of the abstract machine |
| `ExecutionCreateProofs` | `TypesHold` | `TypeOK` |
| | `CeilingsAreKept` | `CeilingsKept` |
| | `ReplaysAreNeverRefused` | `ReplayNeverRefused` |
| | `AtomicForCallers` | `ImplementsRunQueue` (a refinement) |
| | `OneAnswerPerKey` | `Queue!SameKeySameAnswer`, of what callers see |
| | `HolderGoesOn` | whoever holds the lock can take its next step |
| `WorkflowStoreProofs` | `RowsAreTyped` | `TypeOK` |
| | `NumberedInOrder` | `VersionsInOrder` |
| | `OnlyValidIsPublished` | `PublishedIsValid` |
| | `EnabledHasVersion` | `EnabledCanFire` |
| | `BindingAgrees` | `BindingFollowsWorkflow` |
| | `NothingIsUndone` | a deletion, a version and the pointer to the last one are for good (an action property) |
| `FiringProofs` | `FiresOncePerTime` | `NoBurst` |
| | `TurnedOffIsOff` | `StartsOnlyWhileOn` (an action property) |
| `AccessProofs` | `TenancyIsTyped` | `Tenancy`'s `TypeOK` |
| | `RolesStayOnRecord` | `RolesOnRecord` (an invariant and an action property) |
| | `WorkspacesKeepOwners`, `OrganisationsKeepOwners` | `SerialOwners`, `SerialOrgOwners` |
| | `AccountIsTyped`, `OldSessionsEnd` | `AccountsTypeOK`, `CurrentSessionsOnly` |
| `PlatformProofs` | `TheLimitHolds` | `LimitKept` |
| | `AnswersHold` | `AnswersAreTrue` |
| | `FailuresAreTold` | `ToldUnlessSilenced` |
| `VaultProofs` | `RotationIsSafe` | `SecretsSurvive` |
| | `RotationIsComplete` | `RotationReachesAll` |
| `DeploymentProofs` | `VersionRowIsTrue` | `SchemaAsStamped` |
| | `RevisionsReverse` | `Reversible` |
| | `OneDefaultEngine` | `SeededOnce` |
| | `UpgradesTakeNothing` | `UpgradeTakesNothingAway` (an action property) |
| | `DeploysPass` | `FailsOnlyWhenOvertaken` (an action property) |
| | `RestoresFit` | `RestoredFits` |

Hardly one of these properties is inductive. Each module defines the strengthening `IInv` (in
`AccessProofs`, `AccountInv` for the account; in `PlatformProofs`, `GatewayInv` and `AlertsInv`), each of these was checked by TLC on the module's
instance before it was proved, and each action has a lemma, with a step for every conjunct
that it can disturb.

**Runs.** The properties are about rows, while what a writer does to a row depends on what it
loaded earlier. `IInv` says what loop-local state may be relied on:

* `RunShape`, `KeysKnowRuns`: an unused ref belongs to nobody, a live run has no outcome
  yet, and the key of a live run's execution points to it, so that a repeated start finds it.
* `CallShape`: a dispatch call is about a row of its worker's batch, and a started one
  carries the ref of a run of this very execution.
* `HeldRows`: a row in some batch has no ref and is not QUEUED; batches are disjoint.
  This makes exclusive dispatch survive stale reconcilers and cancels: they move a held
  row only to a status that cannot be claimed.
* `CopiesAgree`: a copy's ref, if it has one, is the row's ref; refs are written once.
* `HeardIsTrue`, `CancelsAreTrue`: an outcome heard, from a poll or by a cancel that holds no lock, is the
  outcome of the run asked about, for ever, though the engine may forget the run meanwhile.
* `RefsAreOwn`, `RowsAreTrue`: a row's ref is a run of its own execution; a recorded outcome
  is that run's.

An outcome may be overwritten while somebody still holds the row as it was (the first two of those without a run in section 4
come from that). `RestIsFinal` says when this is over: from a moment on at which no batch, no reconciler's copy and
no cancel in progress is about the row (`AtRest`), nothing changes it again. That is the safety half of
`EveryRunSettles`; that the moment comes is left to TLC.

The refinement of `RunLifecycle` needs `Calm`: work is `Prompt` (no batch of dispatches and no turn of
the reconcile loop outlasts the stale window), there is one worker, and nobody cancels. Without any
one of the three TLC finds a step that the status machine does not have. They are assumptions about
constants, and the instance `calm` meets them; results may expire and starts may throw. The proof adds `CalmInv`: nothing is
cancelled (`NothingCancelled`), a held row is DISPATCHING (`HeldAreDispatching`), and a copy that will
be written is as the row is (`CopiesAreCurrent`). Then each writer is a step of the status machine,
by its own lemma, and every other action leaves the statuses alone. `OneActiveRun` follows from the
refinement and from `RunsDoNotOverlap` of the abstract machine.

**Creation.** The conjuncts of `IInv` say what the advisory lock is for. A request that relies
on what it counted or looked up holds the lock of its workspace (`LockIsHeld`); until it commits nobody
else in the workspace is let in, so its counts are upper bounds and a key that was free stays free
(`KeyIsFree`); a run that was given is the caller's own or one of its key committed before
(`ReplyIsOwn`); of one key one run is visible (`OneRunPerKey`). Counts only fall while the lock
is held: `FewerRuns` states that once with the library's facts on cardinality. `HolderGoesOn` is the safety half of
`EveryRequestAnswered`: a request never waits at the unique index while it holds the lock (the row it would wait
for is of a request that holds the same lock, `LockIsHeld`), and the row it collided with is still there to be
read (`WinnerIsThere`). For the refinement each
statement maps to a stutter and the end of a transaction to the one step of `RunQueue`.

**Workflow store.** `IInv` adds what a copy guarantees however old it is: the versions it names
exist and the binding has not gone back to naming none (`CopyIsPast`); a number given out is at
most the next one and belongs to a valid graph (`NumberIsNext`); and, while loads are whole, a copy is
as coherent as the rows were (`CopyIsWhole`), which is why writing only the changed columns
keeps two rows in agreement. `WriteKeeps` reduces every writer to its effect on the rows. `NothingIsUndone` holds with torn loads too: every
writer but `delete` leaves `deleted` as its copy has it, so that its UPDATE does not name the column.

**Schedules.** Row locks make a tick's rows its own (`LockedOnce`), and as due in the table as when it
read them (`LockedIsDue`). The tick moves a time only forward (`RowsMoveOn`), starts a run no sooner
than it was due and leaves the next time an interval after it (`StartsMoveOn`); so the last run that was
committed is an interval before the next time (`LastBeforeNext`), and a tick that is rolled back
leaves no trace. `FiringAssumption` takes the set of bindings to be finite, since a tick reads them
in the order in which they are due.

**Access.** The owners need an invariant about requests: what a request has found out and
nobody can take back (`AllDecided`: the workspace it writes to exists, the organisation it adds to has
an owner), and, when requests do not overlap, that at most one is in progress and what its guard
counted is still so (`OneByOne`); what it loaded is then the row as it is, so that it writes what it records. `EndKeeps` reduces every commit to what it did to the tables.
For the account, both theorems assume `~ChangesOverlap`, which is what the property is claimed for:
versions count the changes of the password, in the row, in every copy and in every token
(`VersionsCountChanges`), and the one change in progress read the row as it is (`ChangeIsCurrent`). A
login's copy may be old: then its token carries the old version with the old password, and does
not authenticate.

**Webhooks.** While statements come in the order of their windows, the bucket is of the latest
window counted, or it was pruned and nobody will count in that window again (`BucketIsLatest`); its
hits are at least the calls of the window that passed (`HitsCover`). A call is in the audit table
exactly as it was answered (`RowOf`), and of a key one run was started (`StartedOnce`).

**Credentials.** For `SecretsSurvive`: what a batch has still to write back is what the row holds,
unless the secret was saved since (`PageIsCurrent`). For `RotationReachesAll`: a secret that is
left lies behind the offset, or in the batch that is about to be written (`LeftIsAhead`). It needs what
ORDER BY, OFFSET and LIMIT do to a finite set of rows, which the lemmas on `Position` say: positions are
distinct, rise with the ids, are without gaps, a new row only moves others back, and a page has at
most `LIMIT` rows; the empty page is then the end. `VaultAssumption` takes the ids to be numbers and the
set of them to be finite.

**Alerts.** An evaluated failure will have been told of when its transaction commits
(`EvaluatedIsTold`), by a notification it adds or by one it found; notifications speak of what their
key names (`NotesAreTrue`), and are never taken back, whatever rules change meanwhile.

**Deployment.** The proofs have to say what a revision makes of a schema and of any rows. They do it
in two halves. What the revisions do to the *objects* depends on nothing but their text: that they
lead from each one's objects to the next one's and back, and from nothing to the objects of the
models, is `LayoutsAssumption`, and that every constraint is preceded by the statement that makes the
rows meet it, and what is dropped on the way, is `StepsAssumption`. TLC evaluates both when it starts;
they mention no constant, so that one evaluation settles them for all instances. What the revisions do to the *rows* is
proved for every row and every sequence of steps, by induction over the steps: `Run` is a recursive function,
`RunUnfolds` gives its graph, and `SetInduction`, from the least element of a set of numbers (`WFMin` and the
well-foundedness of <), goes along it. So `RunLaysOut`: the objects do not depend on the rows;
`RunKeepsConstraints`: the constraints that stand are met; `RunsThrough`: what the objects let through
the rows do too, if the constraints were prepared, no two engines have one name and no run is filed against another
workspace's workflow; `RunEmpties`:
what is dropped leaves no rows; `RunKeepsRows` and `Keeps`: an upgrade keeps the first run of each
key, the memberships and the platform's administrators.

`IInv` says of every database there is, the live one, the dumped and the restored, that it is `Fitting`:
its objects are those of its version row (without a version row it is empty, or what `create_all`
made), its rows meet its constraints, without a revision it has no rows, and before the head nobody has a
role in an organisation (which is why the backfill takes nothing away). A job that is past the check has a
database at the head to seed (`CheckedAtHead`), as no downgrade is made under it; whoever is between
`create_all` and the stamp has the tables of the models (`BuildingAll`). While nothing changes during a
backup, and whenever it was verified, the manifest's revision is the dump's (`ManifestIsOfDump`). `RestoredFits` is an
invariant of the target: what is in it is the dump, with what the checks saw when they let it through, and neither
a rotation nor a migration of the live database afterwards touches it. It needs `target.opens`: a
dump of an adopted old backup is let through under a key that does not open it (dump, restore, rotate, adopt, dump,
restore).

Only model-checked: all liveness (`EveryRunSettles`, `EveryRequestAnswered`, `DeletedComesToRest`,
`DueAnswered`), which needs fairness and ENABLED, and these TLAPS does not treat; and the two closed
assumptions about the revisions, which TLC evaluates.

## 6. Plan

1. `WorkflowStore`, further: what `save_draft`'s revision does guarantee while saves do not overlap, and the
   binding that follows the draft; then their theorems.
2. `ExecutionCreate` composed with `WorkflowStore` in place of `Run`, and with `Firing` in place of the
   ceiling that `Firing` keeps for itself.

### Not modelled

* Graph validation, graph compiler, node mappers, normalising, redaction, payload vault, egress
  guard: functions from data to data without state or concurrency. A reference definition would
  repeat them; their unit tests go over the shapes of graphs and addresses.
* Cryptography: a key opens what it sealed and nothing else. Cron arithmetic: an interval.
* Monitoring, metrics, health, catalogue and node registry: queries and static data.
* Release gate, doctor, end-to-end tests: they read a deployment and report.
* Frontend: presentation over the API.
* The listings, profiles, names, retention of previews and logs, and the rotation of a hook's key.
