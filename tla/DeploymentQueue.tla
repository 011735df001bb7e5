-------------------------- MODULE DeploymentQueue --------------------------
(* The deployments table as a queue: API handlers that request, retry and     *)
(* roll back (app/services/deployment_service.py) and workers that claim,     *)
(* execute and reap (app/worker/).                                            *)
(*                                                                            *)
(* A step is one database transaction, or the read that opens one: a process  *)
(* loads a row (a plain SELECT, no lock), decides, and later commits.  The    *)
(* commit flushes only the columns whose value differs from the loaded one,   *)
(* by primary key, over whatever others committed in between.  Only the claim *)
(* reads FOR UPDATE; the row stays locked until the claim commits.            *)
EXTENDS Lifecycle, Naturals, Sequences

CONSTANTS
  Workers, Handlers,    \* worker processes; API requests served at a time
  Versions, ModelOf,    \* model versions, and the model of each
  InitStage,            \* stage of each version when the run begins
  Seeded,               \* the deployments of the sample data, in order
  Environments,         \* environments that requests name
  Keys, NoKey,          \* idempotency keys; NULL
  MAX_ATTEMPTS,         \* queue.MAX_ATTEMPTS
  WorkersMayStall,      \* may a live worker exceed the visibility timeout?
  MaxDeployments,       \* bound: rows in the table
  RetryBound,           \* bound: claims of a row a user still retries
  MaxCrashes            \* bound: worker crashes

\* The stages that the trail of a sample version names (_record_lifecycle).
Led(s) == {"DRAFT"} \union {_STAGE_CHAIN[s][i] : i \in DOMAIN _STAGE_CHAIN[s]}

ASSUME EnvironmentsAssumption == Environments \subseteq EnvironmentNames
ASSUME StageAssumption == InitStage \in [Versions -> Stages]
ASSUME SeedAssumption ==
  Seeded \in Seq([version : Versions, environment : Environments,
                  error : {"null", "approval_validation_failed", "runtime_timeout"}])
\* The sample data deploy what its model has reached.
ASSUME SuccessAssumption ==
  \A i \in DOMAIN Seeded : Seeded[i].error = "null" =>
    Led(InitStage[Seeded[i].version]) \intersect DEPLOYABLE_STAGES[Seeded[i].environment] # {}
ASSUME ProcessAssumption == Workers \intersect Handlers = {}
ASSUME KeyAssumption == NoKey \notin Keys
ASSUME BoundAssumption ==
  /\ MAX_ATTEMPTS \in Nat \ {0}
  /\ WorkersMayStall \in BOOLEAN
  /\ MaxDeployments \in Nat /\ RetryBound \in Nat /\ MaxCrashes \in Nat

VARIABLES
  stage,         \* model_versions.stage
  trail,         \* per version, the stages that its model_version_events name
  deployments,   \* the table; a row's index is its (time-ordered) id
  session,       \* what each process is doing, and the rows it has loaded
  crashes        \* worker crashes so far

vars == <<stage, trail, deployments, session, crashes>>
registry == <<stage, trail>>

------------------------------------------------------------------------------
\* Rows

DeploymentStatus ==
  {"REQUESTED", "VALIDATING", "DEPLOYING", "SUCCEEDED", "FAILED", "ROLLED_BACK"}
STUCK_STATES == {"VALIDATING", "DEPLOYING"}
IN_FLIGHT == STUCK_STATES \union {"REQUESTED"}

EventNames ==
  {"requested", "retry_requested", "rolled_back", "validation_started", "deployment_started",
   "deployment_completed", "requeued", "approval_validation_failed", "runtime_timeout",
   "worker_lost"}

\* last is the latest DeploymentEvent of the row, without its message and actor.
\* locked_at is NULL, or before or after the reaper's cutoff.
Deployment ==
  [version : Versions, environment : Environments, idempotency_key : Keys \union {NoKey},
   simulate_failure : BOOLEAN, status : DeploymentStatus,
   worker_id : Workers \union {"null"}, locked_at : {"null", "fresh", "stale"},
   attempts : Nat, error : {"null", "approval_validation_failed", "runtime_timeout",
                            "worker_lost"},
   rolled_back_to_id : Nat,
   last : [event : EventNames, status : DeploymentStatus]]

Ids == DOMAIN deployments
Status(i) == deployments[i].status
SameSlot(r, s) ==
  ModelOf[r.version] = ModelOf[s.version] /\ r.environment = s.environment

\* Mutant: the index leaves out the rows that are being deployed.
IndexWithoutDeploying(r, others) ==
  r.status \in IN_FLIGHT \ {"DEPLOYING"} =>
    ~ \E i \in others : /\ SameSlot(deployments[i], r)
                        /\ Status(i) \in IN_FLIGHT \ {"DEPLOYING"}

\* The partial unique index: may a row like r be in flight, next to others?
uq_active_deployment(r, others) ==
  r.status \in IN_FLIGHT =>
    ~ \E i \in others : SameSlot(deployments[i], r) /\ Status(i) \in IN_FLIGHT

------------------------------------------------------------------------------
\* Sessions

Processes == Workers \union Handlers
At(p) == session[p].at
Job(p) == session[p].job
Enter(p, s) == session' = [session EXCEPT ![p] = s]

\* Mutant: the claim reads without FOR UPDATE.
NeverLocked(i) == FALSE

\* A row another transaction holds FOR UPDATE; writers of it wait.
Locked(i) == \E w \in Workers : At(w) = "claim" /\ Job(w) = i

Net(loaded, new, current) == IF new = loaded THEN current ELSE new

\* The row after an UPDATE of the columns in which new differs from old.
Flush(old, new, current) ==
  [current EXCEPT
     !.status            = Net(old.status, new.status, @),
     !.worker_id         = Net(old.worker_id, new.worker_id, @),
     !.locked_at         = Net(old.locked_at, new.locked_at, @),
     !.attempts          = Net(old.attempts, new.attempts, @),
     !.error             = Net(old.error, new.error, @),
     !.rolled_back_to_id = Net(old.rolled_back_to_id, new.rolled_back_to_id, @)]

\* record_event reads the status off the loaded row, as the process sees it.
record_event(row, event, seen) == [row EXCEPT !.last = [event |-> event, status |-> seen.status]]

\* The index is consulted when the UPDATE carries a new status.
Refused(i, old, new) ==
  new.status # old.status /\ ~uq_active_deployment([deployments[i] EXCEPT !.status = new.status],
                                                   Ids \ {i})

\* Commit new over old, with an event, in p's session on its job.
Save(p, new, event) ==
  LET i == Job(p) IN
  deployments' = [deployments EXCEPT ![i] = record_event(Flush(session[p].row, new, @), event, new)]

------------------------------------------------------------------------------
\* API handlers

HandlerStep(h, at) == At(h) = at /\ UNCHANGED <<registry, crashes>>

NewDeployment(v, e, k, fail) ==
  [version |-> v, environment |-> e, idempotency_key |-> k, simulate_failure |-> fail,
   status |-> "REQUESTED", worker_id |-> "null", locked_at |-> "null", attempts |-> 0,
   error |-> "null", rolled_back_to_id |-> 0,
   last |-> [event |-> "requested", status |-> "REQUESTED"]]

KeyTaken(k) == k # NoKey /\ \E i \in Ids : deployments[i].idempotency_key = k

\* Mutant: the API leaves the stage gate to the worker.
RequestUngated(h, v, e, k, fail) ==
  /\ HandlerStep(h, "idle")
  /\ ~KeyTaken(k)
  /\ Enter(h, [at |-> "insert", row |-> NewDeployment(v, e, k, fail)])
  /\ UNCHANGED deployments

\* request_deployment up to its INSERT: no row has the key (else that row is the
\* answer) and the version may be deployed (else 409).
BeginRequest(h, v, e, k, fail) ==
  /\ HandlerStep(h, "idle")
  /\ ~KeyTaken(k)
  /\ is_deployable(stage[v], e)
  /\ Enter(h, [at |-> "insert", row |-> NewDeployment(v, e, k, fail)])
  /\ UNCHANGED deployments

\* Mutant: idempotency_key is looked up but not unique in the table.
InsertAnyKey(h) ==
  /\ HandlerStep(h, "insert")
  /\ Len(deployments) < MaxDeployments
  /\ LET row == session[h].row IN
     deployments' = IF uq_active_deployment(row, Ids) THEN Append(deployments, row)
                    ELSE deployments
  /\ Enter(h, [at |-> "idle"])

\* The flush: a violated index, or key, is answered with 409.
request_deployment(h) ==
  /\ HandlerStep(h, "insert")
  /\ Len(deployments) < MaxDeployments
  /\ LET row == session[h].row IN
     deployments' = IF uq_active_deployment(row, Ids) /\ ~KeyTaken(row.idempotency_key)
                    THEN Append(deployments, row)
                    ELSE deployments
  /\ Enter(h, [at |-> "idle"])

BeginRetry(h, i) ==
  /\ HandlerStep(h, "idle")
  /\ Status(i) = "FAILED"
  /\ deployments[i].attempts < RetryBound
  /\ Enter(h, [at |-> "retry", job |-> i, row |-> deployments[i]])
  /\ UNCHANGED deployments

\* Mutant: the error of the failed run stays.
RetryKeepsError(h) ==
  /\ HandlerStep(h, "retry")
  /\ ~Locked(Job(h))
  /\ LET old == session[h].row
         new == [old EXCEPT !.status = "REQUESTED",
                            !.worker_id = "null", !.locked_at = "null"]
     IN IF Refused(Job(h), old, new)
        THEN UNCHANGED deployments
        ELSE Save(h, new, "retry_requested")
  /\ Enter(h, [at |-> "idle"])

\* attempts is kept; an IntegrityError is answered with 409.
retry_deployment(h) ==
  /\ HandlerStep(h, "retry")
  /\ ~Locked(Job(h))
  /\ LET old == session[h].row
         new == [old EXCEPT !.status = "REQUESTED", !.error = "null",
                            !.worker_id = "null", !.locked_at = "null"]
     IN IF Refused(Job(h), old, new)
        THEN UNCHANGED deployments
        ELSE Save(h, new, "retry_requested")
  /\ Enter(h, [at |-> "idle"])

\* Mutants: any other success will do, older or not; or any older one, whatever
\* its version.
TargetsOfAnyAge(i) ==
  { j \in Ids \ {i} : /\ Status(j) = "SUCCEEDED"
                      /\ SameSlot(deployments[j], deployments[i])
                      /\ deployments[j].version # deployments[i].version }
TargetsOfAnyVersion(i) ==
  { j \in Ids : j < i /\ Status(j) = "SUCCEEDED" /\ SameSlot(deployments[j], deployments[i]) }

\* Earlier successful deployments of another version to the same slot.
RollbackTargets(i) ==
  { j \in Ids : /\ j < i
                /\ Status(j) = "SUCCEEDED"
                /\ SameSlot(deployments[j], deployments[i])
                /\ deployments[j].version # deployments[i].version }

BeginRollback(h, i) ==
  /\ HandlerStep(h, "idle")
  /\ Status(i) = "SUCCEEDED"
  /\ \E target \in RollbackTargets(i) :
       /\ \A j \in RollbackTargets(i) : j <= target
       /\ Enter(h, [at |-> "rollback", job |-> i, row |-> deployments[i], target |-> target])
  /\ UNCHANGED deployments

rollback_deployment(h) ==
  /\ HandlerStep(h, "rollback")
  /\ ~Locked(Job(h))
  /\ Save(h, [session[h].row EXCEPT !.status = "ROLLED_BACK",
                                    !.rolled_back_to_id = session[h].target], "rolled_back")
  /\ Enter(h, [at |-> "idle"])

\* The API process dies, or the client's connection does, before the commit.
Abandon(h) ==
  /\ At(h) # "idle"
  /\ Enter(h, [at |-> "idle"])
  /\ UNCHANGED <<registry, deployments, crashes>>

\* approve_version or transition_version: the version is read without a lock and
\* judged.  (Whoever reads a governed stage reads the approval with it.)
BeginStageChange(h, v, target) ==
  /\ HandlerStep(h, "idle")
  /\ can_transition(stage[v], target)
  /\ Enter(h, [at |-> "promote", version |-> v, target |-> target])
  /\ UNCHANGED deployments

\* The commit, with its event, over whatever others have made of the stage since.
ChangeStage(h) ==
  /\ At(h) = "promote"
  /\ LET v == session[h].version IN
     /\ stage' = [stage EXCEPT ![v] = session[h].target]
     /\ trail' = [trail EXCEPT ![v] = @ \union {session[h].target}]
  /\ Enter(h, [at |-> "idle"])
  /\ UNCHANGED <<deployments, crashes>>

------------------------------------------------------------------------------
\* Workers

WorkerStep(w, at) == At(w) = at /\ UNCHANGED <<registry, crashes>>

Claimable == { i \in Ids : Status(i) = "REQUESTED" /\ ~Locked(i) }

\* claim_one's SELECT ... FOR UPDATE SKIP LOCKED: the oldest row nobody holds.
BeginClaim(w) ==
  /\ WorkerStep(w, "drain")
  /\ \E i \in Claimable :
       /\ \A j \in Claimable : i <= j
       /\ Enter(w, [at |-> "claim", job |-> i, row |-> deployments[i]])
  /\ UNCHANGED deployments

\* Mutant: the claim does not stamp locked_at.
ClaimUnstamped(w) ==
  /\ WorkerStep(w, "claim")
  /\ LET old == session[w].row
         new == [old EXCEPT !.status = "VALIDATING", !.worker_id = w, !.attempts = @ + 1]
         row == Flush(old, new, deployments[Job(w)])
     IN /\ deployments' = [deployments EXCEPT ![Job(w)] = row]
        /\ Enter(w, [at |-> "claimed", job |-> Job(w), row |-> row])

\* The claim's commit and refresh.  It writes no event.
claim_one(w) ==
  /\ WorkerStep(w, "claim")
  /\ LET old == session[w].row
         new == [old EXCEPT !.status = "VALIDATING", !.worker_id = w,
                            !.locked_at = "fresh", !.attempts = @ + 1]
         row == Flush(old, new, deployments[Job(w)])
     IN /\ deployments' = [deployments EXCEPT ![Job(w)] = row]
        /\ Enter(w, [at |-> "claimed", job |-> Job(w), row |-> row])

\* process_deployment: the first event, in a transaction of its own.
ValidationStarted(w) ==
  /\ WorkerStep(w, "claimed")
  /\ ~Locked(Job(w))
  /\ Save(w, session[w].row, "validation_started")
  /\ Enter(w, [at |-> "validate", job |-> Job(w)])

\* Mutant: the worker relies on the check made when the row was requested.
RecheckSkipped(w) ==
  /\ WorkerStep(w, "validate")
  /\ Enter(w, [at |-> "decide", job |-> Job(w), row |-> deployments[Job(w)],
               deployable |-> TRUE])
  /\ UNCHANGED deployments

\* The commit expired the row: it is loaded again, and the version with it.
ReadVersion(w) ==
  /\ WorkerStep(w, "validate")
  /\ LET row == deployments[Job(w)] IN
     Enter(w, [at |-> "decide", job |-> Job(w), row |-> row,
               deployable |-> is_deployable(stage[row.version], row.environment)])
  /\ UNCHANGED deployments

\* Mutant: the event is recorded before the status is set.
FailEventEarly(w, event) ==
  LET old == session[w].row
      new == [old EXCEPT !.status = "FAILED", !.error = event, !.locked_at = "null"]
  IN /\ ~Locked(Job(w))
     /\ deployments' = [deployments EXCEPT ![Job(w)] =
                          record_event(Flush(old, new, @), event, old)]
     /\ Enter(w, [at |-> "drain"])

_fail(w, event) ==
  /\ ~Locked(Job(w))
  /\ Save(w, [session[w].row EXCEPT !.status = "FAILED", !.error = event,
                                    !.locked_at = "null"], event)
  /\ Enter(w, [at |-> "drain"])

RejectVersion(w) ==
  /\ WorkerStep(w, "decide")
  /\ ~session[w].deployable
  /\ _fail(w, "approval_validation_failed")

\* Nothing in the worker catches an IntegrityError: it ends the process.
StartDeploy(w) ==
  /\ WorkerStep(w, "decide")
  /\ session[w].deployable
  /\ ~Locked(Job(w))
  /\ LET new == [session[w].row EXCEPT !.status = "DEPLOYING"] IN
     IF Refused(Job(w), session[w].row, new)
     THEN Enter(w, [at |-> "aborted"]) /\ UNCHANGED deployments
     ELSE Save(w, new, "deployment_started") /\ Enter(w, [at |-> "deploy", job |-> Job(w)])

\* The rollout has run; reading simulate_failure loads the row again.
EndDeploy(w) ==
  /\ WorkerStep(w, "deploy")
  /\ Enter(w, [at |-> "finish", job |-> Job(w), row |-> deployments[Job(w)]])
  /\ UNCHANGED deployments

FailDeploy(w) ==
  /\ WorkerStep(w, "finish")
  /\ session[w].row.simulate_failure
  /\ _fail(w, "runtime_timeout")

CompleteDeploy(w) ==
  /\ WorkerStep(w, "finish")
  /\ ~session[w].row.simulate_failure
  /\ ~Locked(Job(w))
  /\ Save(w, [session[w].row EXCEPT !.status = "SUCCEEDED", !.error = "null",
                                    !.locked_at = "null"], "deployment_completed")
  /\ Enter(w, [at |-> "drain"])

\* _drain_all returns: there is nothing left to claim.
DrainEmpty(w) ==
  /\ WorkerStep(w, "drain")
  /\ Claimable = {}
  /\ Enter(w, [at |-> "drained"])
  /\ UNCHANGED deployments

\* Less than REAP_EVERY_SECONDS since the last time: wait, then drain again.
SkipReap(w) ==
  /\ WorkerStep(w, "drained")
  /\ Enter(w, [at |-> "drain"])
  /\ UNCHANGED deployments

\* Mutant: rows that are out of attempts are not looked at.
StuckWithAttemptsLeft ==
  { i \in Ids : /\ Status(i) \in STUCK_STATES /\ deployments[i].locked_at = "stale"
                /\ deployments[i].attempts < MAX_ATTEMPTS }

Stuck == { i \in Ids : Status(i) \in STUCK_STATES /\ deployments[i].locked_at = "stale" }

\* reap_stuck's SELECT: it locks nothing.
BeginReap(w) ==
  /\ WorkerStep(w, "drained")
  /\ Enter(w, [at |-> "reap", rows |-> [i \in Stuck |-> deployments[i]]])
  /\ UNCHANGED deployments

\* Mutant: a requeued row, too, is given its event for an error.
ReapedWithError(d) ==
  IF d.attempts >= MAX_ATTEMPTS
  THEN [d EXCEPT !.status = "FAILED", !.error = "worker_lost"]
  ELSE [d EXCEPT !.status = "REQUESTED", !.worker_id = "null", !.locked_at = "null",
                 !.error = "requeued"]

\* What reap_stuck makes of a stuck row, and the event it records.
Reaped(d) ==
  IF d.attempts >= MAX_ATTEMPTS
  THEN [d EXCEPT !.status = "FAILED", !.error = "worker_lost"]
  ELSE [d EXCEPT !.status = "REQUESTED", !.worker_id = "null", !.locked_at = "null"]
ReapEvent(d) == IF d.attempts >= MAX_ATTEMPTS THEN "worker_lost" ELSE "requeued"

\* All of them in one transaction, and the wait that follows.
reap_stuck(w) ==
  /\ WorkerStep(w, "reap")
  /\ LET rows == session[w].rows IN
     /\ \A i \in DOMAIN rows : ~Locked(i)
     /\ IF \E i \in DOMAIN rows : Refused(i, rows[i], Reaped(rows[i]))
        THEN Enter(w, [at |-> "aborted"]) /\ UNCHANGED deployments
        ELSE /\ deployments' =
                  [i \in Ids |->
                     IF i \in DOMAIN rows
                     THEN record_event(Flush(rows[i], Reaped(rows[i]), deployments[i]),
                                       ReapEvent(rows[i]), Reaped(rows[i]))
                     ELSE deployments[i]]
             /\ Enter(w, [at |-> "drain"])

------------------------------------------------------------------------------
\* Crashes and time

Up(w) == At(w) \notin {"down", "aborted"}

\* The process is killed: its open transaction and its row lock are gone.
Crash(w) ==
  /\ Up(w)
  /\ crashes < MaxCrashes
  /\ crashes' = crashes + 1
  /\ Enter(w, [at |-> "down"])
  /\ UNCHANGED <<registry, deployments>>

Restart(w) ==
  /\ ~Up(w)
  /\ Enter(w, [at |-> "drain"])
  /\ UNCHANGED <<registry, deployments, crashes>>

Executing(w, i) ==
  At(w) \in {"claimed", "validate", "decide", "deploy", "finish"} /\ Job(w) = i

\* The visibility timeout (120 s) passes for a row.  An execution takes about a
\* second, so it outlasts the timeout only if workers may stall.
Expire(i) ==
  /\ deployments[i].locked_at = "fresh"
  /\ WorkersMayStall \/ ~ \E w \in Workers : Executing(w, i)
  /\ deployments' = [deployments EXCEPT ![i].locked_at = "stale"]
  /\ UNCHANGED <<registry, session, crashes>>

------------------------------------------------------------------------------
\* A row of the sample data: executed once, with success or with an error.
_make_deployment(d) ==
  LET row == [NewDeployment(d.version, d.environment, NoKey, FALSE) EXCEPT
                !.status = IF d.error = "null" THEN "SUCCEEDED" ELSE "FAILED",
                !.error = d.error,
                !.attempts = 1]
  IN record_event(row, IF d.error = "null" THEN "deployment_completed" ELSE d.error, row)

\* The API seeds before it serves its first request.
Init ==
  /\ stage = InitStage
  /\ trail = [v \in Versions |-> Led(InitStage[v])]
  /\ deployments = [i \in DOMAIN Seeded |-> _make_deployment(Seeded[i])]
  /\ session = [p \in Processes |->
                  [at |-> IF p \in Workers THEN "drain" ELSE "idle"]]
  /\ crashes = 0

Handle(h) ==
  \/ \E v \in Versions, e \in Environments, k \in Keys \union {NoKey}, fail \in BOOLEAN :
       BeginRequest(h, v, e, k, fail)
  \/ \E i \in Ids : BeginRetry(h, i) \/ BeginRollback(h, i)
  \/ \E v \in Versions, target \in Stages : BeginStageChange(h, v, target)
  \/ request_deployment(h)
  \/ retry_deployment(h)
  \/ rollback_deployment(h)
  \/ ChangeStage(h)
  \/ Abandon(h)

\* process_deployment, between the claim and the next claim.
Execute(w) ==
  \/ ValidationStarted(w)
  \/ ReadVersion(w)
  \/ RejectVersion(w)
  \/ StartDeploy(w)
  \/ EndDeploy(w)
  \/ FailDeploy(w)
  \/ CompleteDeploy(w)

\* run: drain the queue, reap if it is time, wait.
Work(w) ==
  \/ BeginClaim(w)
  \/ claim_one(w)
  \/ Execute(w)
  \/ DrainEmpty(w)
  \/ SkipReap(w)
  \/ BeginReap(w)
  \/ reap_stuck(w)

Next ==
  \/ \E h \in Handlers : Handle(h)
  \/ \E w \in Workers : Work(w) \/ Crash(w) \/ Restart(w)
  \/ \E i \in Ids : Expire(i)

Spec == Init /\ [][Next]_vars

------------------------------------------------------------------------------
\* Properties

Points ==
  {"idle", "insert", "retry", "rollback", "promote",
   "drain", "claim", "claimed", "validate", "decide", "deploy", "finish",
   "drained", "reap", "down", "aborted"}
WithJob ==
  {"retry", "rollback", "claim", "claimed", "validate", "decide", "deploy", "finish"}
WithRow == (WithJob \ {"validate", "deploy"}) \union {"insert"}

\* A session works on rows of the table: rows are never deleted.
SessionOK(p) ==
  /\ At(p) \in Points
  /\ At(p) \in WithJob => Job(p) \in Ids
  /\ At(p) \in WithRow => session[p].row \in Deployment
  /\ At(p) = "rollback" => session[p].target \in Ids
  /\ At(p) = "promote" => session[p].version \in Versions /\ session[p].target \in Stages
  /\ At(p) = "decide" => session[p].deployable \in BOOLEAN
  /\ At(p) = "reap" => LET rows == session[p].rows IN
                       /\ rows \in [DOMAIN rows -> Deployment]
                       /\ DOMAIN rows \subseteq Ids

\* Every variable has its type.
TypeOK ==
  /\ stage \in [Versions -> Stages]
  /\ trail \in [Versions -> SUBSET Stages]
  /\ deployments \in Seq(Deployment)
  /\ session = [p \in Processes |-> session[p]]
  /\ \A p \in Processes : SessionOK(p)
  /\ crashes \in Nat

\* ADR-0008: at most one deployment in flight per model and environment,
\* whatever is retried, requeued or written from a stale session.
AtMostOneActive ==
  \A i, j \in Ids :
    Status(i) \in IN_FLIGHT /\ Status(j) \in IN_FLIGHT
    /\ SameSlot(deployments[i], deployments[j]) => i = j

\* ADR-0007: replicas never collide.  No two workers execute the same row.
SingleExecutor ==
  \A w1, w2 \in Workers : \A i \in Ids :
    Executing(w1, i) /\ Executing(w2, i) => w1 = w2

\* The worker that completes a deployment is the one the row names, and the
\* claim it completes is the row's latest.
CompletedByOwner(i) ==
  Status(i) # "SUCCEEDED" /\ Status(i)' = "SUCCEEDED" =>
    \E w \in Workers : /\ At(w) = "finish" /\ Job(w) = i
                       /\ deployments[i].worker_id = w
                       /\ session[w].row.attempts = deployments[i].attempts
OwnerCompletes == [][\A i \in Ids : CompletedByOwner(i)]_vars

\* The timeline agrees with the row: its last event carries the row's status,
\* except that a claim has no event until the worker starts to validate.
TimelineAgrees ==
  \A i \in Ids :
    \/ deployments[i].last.status = Status(i)
    \/ Status(i) = "VALIDATING" /\ deployments[i].last.status = "REQUESTED"

\* A failed deployment says why, and no other one carries an error.
ErrorMatchesStatus ==
  \A i \in Ids : Status(i) = "FAILED" <=> deployments[i].error # "null"

\* Crash recovery (queue.py): a row in a transient state is either being
\* executed, or has a locked_at that the reaper will find expired.
Recoverable ==
  \A i \in Ids : Status(i) \in STUCK_STATES =>
    \/ deployments[i].locked_at # "null"
    \/ \E w \in Workers : Executing(w, i)

\* The stage gate (ADR-0009) over time, and over lost updates of the stage: the
\* version of a row that the API took, or a worker deployed, has reached a stage
\* that allows the environment, by the account of its audit trail.  It may have
\* been archived since, or demoted by a promotion that had read an older stage.
\* A seeded failure may be of a version that never was promoted; a retry does not
\* ask, so that only the worker is in its way.
Promoted(r) == trail[r.version] \intersect DEPLOYABLE_STAGES[r.environment] # {}
OnlyPromoted ==
  \A i \in Ids :
    i > Len(Seeded) \/ Status(i) \in {"DEPLOYING", "SUCCEEDED", "ROLLED_BACK"} =>
      Promoted(deployments[i])

\* ADR-0008: rollback cannot strand an environment.  A slot that has a
\* successful deployment keeps one, however rollbacks interleave.
KeepsSuccess(i) ==
  Status(i) = "SUCCEEDED" =>
    \E j \in Ids : SameSlot(deployments[j], deployments[i]) /\ Status(j)' = "SUCCEEDED"
NotStranded == [][\A i \in Ids : KeepsSuccess(i)]_vars

\* ADR-0008: a duplicate request does not create a second deployment.
OnePerKey ==
  \A i, j \in Ids :
    deployments[i].idempotency_key = deployments[j].idempotency_key
    /\ deployments[i].idempotency_key # NoKey => i = j

\* No worker dies of an IntegrityError that nothing catches.
NoWorkerAborts == \A w \in Workers : At(w) # "aborted"

------------------------------------------------------------------------------
\* The promise this implements

\* The columns of a row that its users go by.
Shown(d) == [version |-> d.version, environment |-> d.environment, status |-> d.status,
             rolled_back_to_id |-> d.rolled_back_to_id]
ShownTable == [i \in Ids |-> Shown(deployments[i])]

Contract == INSTANCE DeploymentContract WITH table <- ShownTable

\* Every step of the queue is one atomic step of the promise, or invisible.
HonoursContract == Contract!Spec

------------------------------------------------------------------------------
\* Liveness

\* A worker that is up keeps taking steps; whenever it comes back to the end of
\* its loop, 30 s will sooner or later have passed and it reaps; time passes; a
\* worker that went down is started again.  Nothing is assumed of the API.
Fairness ==
  /\ \A w \in Workers : /\ WF_vars(BeginClaim(w) \/ claim_one(w) \/ Execute(w)
                                   \/ DrainEmpty(w) \/ reap_stuck(w))
                        /\ SF_vars(BeginReap(w))
                        /\ WF_vars(Restart(w))
  /\ \A i \in 1..MaxDeployments : WF_vars(i \in Ids /\ Expire(i))

FairSpec == Spec /\ Fairness

\* Every deployment that is requested, or retried, comes to an end: no crash
\* leaves it in flight, which would also block its slot for ever.
InFlightEnds ==
  \A i \in 1..MaxDeployments :
    (i \in Ids /\ Status(i) \in IN_FLIGHT) ~> (i \in Ids /\ Status(i) \notin IN_FLIGHT)
=============================================================================
