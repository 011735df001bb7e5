------------------------------ MODULE StartUp -------------------------------
(* From an empty database to a service: API processes and the command-line    *)
(* seeder migrate the schema, add the demo users and load the sample data,    *)
(* each in its own transactions and all at once if started together; a worker *)
(* waits for the schema; users create models and page through them while some *)
(* process is still starting (app/main.py, app/db/, alembic/env.py).          *)
EXTENDS Catalogue, Monitoring

CONSTANTS
  Apis, Clis,      \* API processes; runs of python -m app.db.seed_sample
  DEMO_USERS,      \* seed.DEMO_USERS
  Sample,          \* models.json: the names of the sample's models, in order
  SampleMetrics,   \* metrics.csv
  Points,          \* length of a metric series
  MaxCrashes       \* bound: crashes, and waits for the schema that are given up

Starters == Apis \union Clis

ASSUME StarterAssumption ==
  Apis \intersect Clis = {} /\ "committed" \notin Starters /\ Starters \intersect Handlers = {}
ASSUME UserAssumption == {"engineer", "approver"} \subseteq DEMO_USERS /\ NoUser \notin DEMO_USERS
ASSUME SampleAssumption == Sample \in Seq(Names) /\ Sample # <<>> /\ SampleMetrics # {}
ASSUME MetricsAssumption ==
  /\ IsFiniteSet(SampleMetrics) /\ DistinctTimes(SampleMetrics)
  /\ \A m \in SampleMetrics : m.timestamp \in Int /\ "null" \notin {m.version, m.environment}
ASSUME PointsAssumption == Points \in Nat \ {0}
ASSUME CrashAssumption == MaxCrashes \in Nat

\* What the upgrades create, by revision: tables, constraints that the model relies on,
\* and columns that are added later.
users_053655f24cad == {"users", "users.username unique"}
registry_24a98049d246 ==
  {"models", "models.key unique", "model_versions", "uq_model_version"}
deployments_0d5b7f5c84e5 == {"deployments", "uq_active_deployment", "deployment_events"}
audit_76a83c527317 == {"model_version_events"}
metrics_9407ef90f9f5 == {"metrics"}
link_24861727ed25 == {"metrics.deployment_id"}

\* In the order of their down_revision.
Revisions == <<users_053655f24cad, registry_24a98049d246, deployments_0d5b7f5c84e5,
               audit_76a83c527317, metrics_9407ef90f9f5, link_24861727ed25>>
HEAD == Len(Revisions)
Created(n) == UNION {Revisions[i] : i \in 1..n}

VARIABLES
  schema,    \* revisions applied
  users,     \* committed rows of users
  metrics,   \* committed rows of metrics
  pc, memo,  \* per starter: where it is, and what it has read
  worker,    \* the worker: waiting for the schema, running, or gave up
  crashes

startVars == <<schema, users, metrics, pc, memo, worker, crashes>>
vars == <<catalogueVars, startVars>>

NoMemo == [schema |-> 0, missing |-> {}, created_by |-> NoUser]

TypeOK ==
  /\ models \subseteq [id : Nat \ {0}, key : Seq(Nat), name : Names, created_by : DEMO_USERS \union {NoUser},
                       tx : Handlers \union Starters \union {"committed"}]
  /\ \A m, o \in models : m.key = o.key \/ m.id = o.id => m = o
  /\ schema \in 0..HEAD
  /\ users \subseteq DEMO_USERS
  /\ metrics \subseteq SampleMetrics
  /\ pc \in [Starters -> {"down", "migrate", "users", "add_users", "seed", "insert", "serving", "done"}]
  /\ memo \in [Starters -> [schema : 0..HEAD, missing : SUBSET DEMO_USERS,
                            created_by : DEMO_USERS \union {NoUser}]]
  /\ worker \in {"waiting", "running", "gave_up"}
  /\ crashes \in 0..MaxCrashes

Init ==
  /\ CatalogueInit
  /\ schema = 0 /\ users = {} /\ metrics = {}
  /\ pc = [p \in Starters |-> "down"] /\ memo = [p \in Starters |-> NoMemo]
  /\ worker = "waiting" /\ crashes = 0

-----------------------------------------------------------------------------
(* Processes that start                                                       *)

Goto(p, label, read) == pc' = [pc EXCEPT ![p] = label] /\ memo' = [memo EXCEPT ![p] = read]

\* An exception nobody catches, or a kill, ends the process; its transaction rolls back.
Dies(p) == models' = Rollback(p) /\ Goto(p, "down", NoMemo)

\* Mutant: the sample before the users.
SampleBeforeUsers(p) == "seed"

AfterMigration(p) == IF p \in Apis THEN "users" ELSE "seed"
Started(p) == IF p \in Apis THEN "serving" ELSE "done"

\* Alembic compares the version in the database with its own head.
BeginMigration(p) ==
  /\ pc[p] = "down"
  /\ IF schema = HEAD THEN Goto(p, AfterMigration(p), NoMemo)
                      ELSE Goto(p, "migrate", [NoMemo EXCEPT !.schema = schema])
  /\ UNCHANGED <<catalogueVars, schema, users, metrics, worker, crashes>>

\* Mutant: one transaction per revision (transaction_per_migration).
OneByOne(p) ==
  /\ pc[p] = "migrate"
  /\ IF schema = memo[p].schema
     THEN /\ schema' = schema + 1
          /\ IF schema' = HEAD THEN Goto(p, AfterMigration(p), NoMemo)
                               ELSE Goto(p, "migrate", [NoMemo EXCEPT !.schema = schema'])
          /\ UNCHANGED models
     ELSE Dies(p) /\ UNCHANGED schema
  /\ UNCHANGED <<creating, walk, users, metrics, worker, crashes>>

\* All pending revisions in one transaction; if another process has applied them since, the
\* first CREATE TABLE fails.
upgrade_to_head(p) ==
  /\ pc[p] = "migrate"
  /\ IF schema = memo[p].schema
     THEN schema' = HEAD /\ Goto(p, AfterMigration(p), NoMemo) /\ UNCHANGED models
     ELSE Dies(p) /\ UNCHANGED schema
  /\ UNCHANGED <<creating, walk, users, metrics, worker, crashes>>

\* Mutant: who finds the users takes the sample for loaded.
UsersMeanSeeded(p) ==
  /\ pc[p] = "users"
  /\ IF DEMO_USERS \subseteq users
     THEN Goto(p, Started(p), NoMemo)
     ELSE Goto(p, "add_users", [NoMemo EXCEPT !.missing = DEMO_USERS \ users])
  /\ UNCHANGED <<catalogueVars, schema, users, metrics, worker, crashes>>

\* The SELECTs of seed_demo_users, whose rows only ever come all together.
BeginUsers(p) ==
  /\ pc[p] = "users"
  /\ IF DEMO_USERS \subseteq users
     THEN Goto(p, "seed", NoMemo)
     ELSE Goto(p, "add_users", [NoMemo EXCEPT !.missing = DEMO_USERS \ users])
  /\ UNCHANGED <<catalogueVars, schema, users, metrics, worker, crashes>>

\* username is unique.
seed_demo_users(p) ==
  /\ pc[p] = "add_users"
  /\ IF memo[p].missing \intersect users = {}
     THEN users' = users \union memo[p].missing /\ Goto(p, "seed", NoMemo) /\ UNCHANGED models
     ELSE Dies(p) /\ UNCHANGED users
  /\ UNCHANGED <<creating, walk, schema, metrics, worker, crashes>>

\* Mutant: no look whether the registry is empty.
SeedAlways(p) ==
  /\ pc[p] = "seed"
  /\ Goto(p, "insert", [NoMemo EXCEPT !.created_by = IF "engineer" \in users THEN "engineer" ELSE NoUser])
  /\ UNCHANGED <<catalogueVars, schema, users, metrics, worker, crashes>>

\* seed_sample_data up to its first INSERT; _user_id returns None for a user that is missing.
BeginSeed(p) ==
  /\ pc[p] = "seed"
  /\ IF Committed # {}
     THEN Goto(p, Started(p), NoMemo)
     ELSE Goto(p, "insert", [NoMemo EXCEPT !.created_by =
                               IF "engineer" \in users THEN "engineer" ELSE NoUser])
  /\ UNCHANGED <<catalogueVars, schema, users, metrics, worker, crashes>>

\* The flush of the next model of the file, which waits or fails like any INSERT.  Its key
\* is the file's model_id, which there is the slug of the name.
InsertModel(p) ==
  LET n == Cardinality(HeldBy(p)) + 1 IN
  /\ pc[p] = "insert" /\ n <= Len(Sample)
  /\ LET key == slugify(Sample[n]) IN
       /\ MayInsert(key)
       /\ IF Taken(key)
          THEN Dies(p)
          ELSE /\ models' = models \union {Row(key, Sample[n], memo[p].created_by, p)}
               /\ UNCHANGED <<pc, memo>>
  /\ UNCHANGED <<creating, walk, schema, users, metrics, worker, crashes>>

\* Mutant: metrics that cannot be loaded are left out.
MetricsOptional(p) ==
  /\ pc[p] = "insert" /\ Cardinality(HeldBy(p)) = Len(Sample)
  /\ models' = Commit(p) /\ metrics' \in {{}, SampleMetrics}
  /\ Goto(p, Started(p), NoMemo)
  /\ UNCHANGED <<creating, walk, schema, users, worker, crashes>>

\* One commit for everything: models, versions, trails, deployments and metrics.
seed_sample_data(p) ==
  /\ pc[p] = "insert" /\ Cardinality(HeldBy(p)) = Len(Sample)
  /\ models' = Commit(p) /\ metrics' = SampleMetrics
  /\ Goto(p, Started(p), NoMemo)
  /\ UNCHANGED <<creating, walk, schema, users, worker, crashes>>

Crash(p) ==
  /\ pc[p] \notin {"down", "done"} /\ crashes < MaxCrashes
  /\ Dies(p) /\ crashes' = crashes + 1
  /\ UNCHANGED <<creating, walk, schema, users, metrics, worker>>

-----------------------------------------------------------------------------
(* The worker, which compose starts when the backend's container has started  *)

\* has_table("deployments") once a second; sixty times in vain is a RuntimeError.
_wait_for_schema ==
  /\ worker = "waiting"
  /\ \/ "deployments" \in Created(schema) /\ worker' = "running" /\ UNCHANGED crashes
     \/ crashes < MaxCrashes /\ worker' = "gave_up" /\ crashes' = crashes + 1
  /\ UNCHANGED <<catalogueVars, schema, users, metrics, pc, memo>>

RestartWorker ==
  /\ worker = "gave_up" /\ worker' = "waiting"
  /\ UNCHANGED <<catalogueVars, schema, users, metrics, pc, memo, crashes>>

-----------------------------------------------------------------------------
Serving == \E p \in Apis : pc[p] = "serving"

Start(p) ==
  \/ upgrade_to_head(p) \/ BeginUsers(p) \/ seed_demo_users(p)
  \/ BeginSeed(p) \/ InsertModel(p) \/ seed_sample_data(p)

Requests ==
  /\ \/ \E h \in Handlers : \/ Serving /\ \E name \in Wanted : BeginCreateModel(h, name)
                            \/ Create(h)
     \/ Serving /\ Read
  /\ UNCHANGED startVars

Next ==
  \/ \E p \in Starters : BeginMigration(p) \/ Start(p) \/ Crash(p)
  \/ _wait_for_schema \/ RestartWorker
  \/ Requests

Spec == Init /\ [][Next]_vars

\* What has started goes on, and an API process or a worker that died is started again.
Fairness ==
  /\ \A p \in Starters : WF_vars(Start(p))
  /\ \A p \in Apis : WF_vars(BeginMigration(p))
  /\ WF_vars(_wait_for_schema /\ worker' = "running") /\ WF_vars(RestartWorker)

FairSpec == Spec /\ Fairness

-----------------------------------------------------------------------------
(* Properties                                                                 *)

SampleKeys == {slugify(Sample[i]) : i \in DOMAIN Sample}

\* Who serves, serves everything the start-up promises, whatever processes raced or died
\* on the way: the schema, the demo users, the whole sample with its metrics.
ServesComplete ==
  Serving => /\ schema = HEAD /\ DEMO_USERS \subseteq users /\ metrics = SampleMetrics
             /\ SampleKeys \subseteq {m.key : m \in Committed}

\* The sample is whole or not there at all, and it is older than whatever users add: no
\* process ever loads it into a registry that is in use.
SampleFirst ==
  /\ metrics = {} <=> Committed = {}
  /\ Committed # {} =>
       \A m, o \in models : m.key \in SampleKeys /\ o.key \notin SampleKeys => m.id < o.id

\* A model that an API process loads has an author, because the users come before it; only
\* the command line can load the sample into a database without users.
SampleSigned == \A m \in models : m.tx \in Apis => m.created_by # NoUser

\* A worker that has found its one table finds everything else its mappings name, also what
\* later revisions create.
WorkerSeesHead == worker = "running" => Created(HEAD) \subseteq Created(schema)

\* The overview and the summaries agree about what has been loaded.
MonitoringAgrees ==
  LET shown == {m.key : m \in Committed}
  IN SameStory(metrics, shown, Points) /\ SeriesFaithful(metrics, shown, Points)

\* Once crashes have ended, every API process serves and the worker runs: losing a race
\* against another start-up costs a restart, never the service.
EverythingStarts == <>[](worker = "running" /\ \A p \in Apis : pc[p] = "serving")
=============================================================================
