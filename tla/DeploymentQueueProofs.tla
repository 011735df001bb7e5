----------------------- MODULE DeploymentQueueProofs -----------------------
(* What holds of the queue for any number of workers, handlers, versions and *)
(* slots, whether or not workers crash or stall: one deployment in flight per*)
(* slot, and what a row keeps of the request that made it.                  *)
EXTENDS DeploymentQueue, TLAPS

------------------------------------------------------------------------------
\* Tables

\* Replacing a row keeps a table a table.
LEMMA TableUpdate ==
  ASSUME NEW S, NEW t \in Seq(S), NEW i \in DOMAIN t, NEW r \in S
  PROVE  /\ [t EXCEPT ![i] = r] \in Seq(S)
         /\ DOMAIN [t EXCEPT ![i] = r] = DOMAIN t
         /\ [t EXCEPT ![i] = r][i] = r
         /\ \A j \in DOMAIN t \ {i} : [t EXCEPT ![i] = r][j] = t[j]
  OBVIOUS

LEMMA TableAppend ==
  ASSUME NEW S, NEW t \in Seq(S), NEW r \in S
  PROVE  /\ Append(t, r) \in Seq(S)
         /\ DOMAIN t \subseteq DOMAIN Append(t, r)
         /\ DOMAIN Append(t, r) = DOMAIN t \union {Len(t) + 1}
         /\ Append(t, r)[Len(t) + 1] = r
         /\ Len(t) + 1 \notin DOMAIN t
         /\ \A j \in DOMAIN t : Append(t, r)[j] = t[j]
  OBVIOUS

LEMMA TableRewrite ==
  ASSUME NEW S, NEW t \in Seq(S), NEW f \in [DOMAIN t -> S]
  PROVE  f \in Seq(S) /\ DOMAIN f = DOMAIN t
  <1>1. DOMAIN t = 1..Len(t) /\ Len(t) \in Nat
    OBVIOUS
  <1> QED BY <1>1

\* What an UPDATE leaves of a row: columns that are never written, and a status
\* that is either the current one or the one the session wrote.
LEMMA Flushes ==
  ASSUME NEW old \in Deployment, NEW new \in Deployment, NEW cur \in Deployment
  PROVE  LET f == Flush(old, new, cur) IN
         /\ f \in Deployment
         /\ f.version = cur.version /\ f.environment = cur.environment
         /\ f.status = IF new.status = old.status THEN cur.status ELSE new.status
  <1> DEFINE a == Net(old.status, new.status, cur.status)
             b == Net(old.worker_id, new.worker_id, cur.worker_id)
             c == Net(old.locked_at, new.locked_at, cur.locked_at)
             d == Net(old.attempts, new.attempts, cur.attempts)
             e == Net(old.error, new.error, cur.error)
             t == Net(old.rolled_back_to_id, new.rolled_back_to_id, cur.rolled_back_to_id)
             f == Flush(old, new, cur)
  <1>1. /\ a \in DeploymentStatus /\ b \in Workers \union {"null"}
        /\ c \in {"null", "fresh", "stale"} /\ d \in Nat
        /\ e \in {"null", "approval_validation_failed", "runtime_timeout", "worker_lost"}
        /\ t \in Nat
    BY DEF Deployment, Net
  <1>2. f = [cur EXCEPT !.status = a, !.worker_id = b, !.locked_at = c, !.attempts = d,
                        !.error = e, !.rolled_back_to_id = t]
    BY DEF Flush
  <1>3. a = IF new.status = old.status THEN cur.status ELSE new.status
    BY DEF Net
  <1> HIDE DEF a, b, c, d, e, t, f
  <1>4. f \in Deployment
    BY <1>1, <1>2 DEF Deployment
  <1>5. f.version = cur.version /\ f.environment = cur.environment /\ f.status = a
    BY <1>2 DEF Deployment
  <1> QED BY <1>3, <1>4, <1>5 DEF f

\* record_event writes no column of the row itself.
LEMMA Recorded ==
  ASSUME NEW f \in Deployment, NEW event \in EventNames, NEW new \in Deployment
  PROVE  /\ record_event(f, event, new) \in Deployment
         /\ record_event(f, event, new).version = f.version
         /\ record_event(f, event, new).environment = f.environment
         /\ record_event(f, event, new).status = f.status
  BY DEF Deployment, record_event

LEMMA ReapedTypes ==
  ASSUME NEW d \in Deployment
  PROVE  Reaped(d) \in Deployment /\ ReapEvent(d) \in EventNames
  BY DEF Reaped, ReapEvent, Deployment, DeploymentStatus, EventNames

------------------------------------------------------------------------------
\* Types

\* TypeOK without the sessions.
TablesOK ==
  /\ stage \in [Versions -> Stages]
  /\ trail \in [Versions -> SUBSET Stages]
  /\ deployments \in Seq(Deployment)
  /\ crashes \in Nat

\* A step of p that keeps every row leaves the other sessions in order.
LEMMA OtherSessions ==
  ASSUME TypeOK, NEW p \in Processes, NEW s, Enter(p, s), Ids \subseteq Ids'
  PROVE  /\ session' = [q \in Processes |-> session'[q]]
         /\ session'[p] = s
         /\ \A q \in Processes \ {p} : SessionOK(q)'
  BY DEF TypeOK, Enter, SessionOK, At, Job

\* So the step keeps the types if it keeps those of the tables and enters a
\* session that is in order.
LEMMA StepTypes ==
  ASSUME TypeOK, NEW p \in Processes, NEW s, Enter(p, s), Ids \subseteq Ids', TablesOK',
         session'[p] = s => SessionOK(p)'
  PROVE  TypeOK'
  BY OtherSessions DEF TypeOK, TablesOK

LEMMA SaveTypes ==
  ASSUME TypeOK, NEW p \in Processes, At(p) \in WithRow \intersect WithJob,
         NEW new \in Deployment, NEW event \in EventNames, Save(p, new, event)
  PROVE  deployments' \in Seq(Deployment) /\ Ids' = Ids
  <1>1. Job(p) \in Ids /\ session[p].row \in Deployment /\ deployments \in Seq(Deployment)
    BY DEF TypeOK, SessionOK
  <1>2. deployments[Job(p)] \in Deployment
    BY <1>1 DEF Ids
  <1>3. record_event(Flush(session[p].row, new, deployments[Job(p)]), event, new) \in Deployment
    BY <1>1, <1>2, Flushes, Recorded
  <1> QED BY <1>1, <1>3, TableUpdate DEF Save, Ids

\* The sample data are rows of the table, and none of them is in flight.
LEMMA SeededRow ==
  ASSUME NEW i \in DOMAIN Seeded
  PROVE  /\ _make_deployment(Seeded[i]) \in Deployment
         /\ _make_deployment(Seeded[i]).status \notin IN_FLIGHT
  <1> DEFINE v == Seeded[i].version
             e == Seeded[i].environment
             err == Seeded[i].error
             ended == IF err = "null" THEN "SUCCEEDED" ELSE "FAILED"
             event == IF err = "null" THEN "deployment_completed" ELSE err
             new == NewDeployment(v, e, NoKey, FALSE)
             row == [new EXCEPT !.status = ended, !.error = err, !.attempts = 1]
  <1>1. /\ v \in Versions /\ e \in Environments
        /\ err \in {"null", "approval_validation_failed", "runtime_timeout"}
    <2> DEFINE S == [version : Versions, environment : Environments,
                     error : {"null", "approval_validation_failed", "runtime_timeout"}]
    <2>1. Seeded \in Seq(S)
      BY SeedAssumption
    <2> HIDE DEF S
    <2>2. Seeded[i] \in S
      BY <2>1
    <2> QED BY <2>2 DEF S
  <1>2. ended \in {"SUCCEEDED", "FAILED"} /\ event \in EventNames
    BY <1>1 DEF EventNames
  <1>3. _make_deployment(Seeded[i]) = record_event(row, event, row)
    BY DEF _make_deployment
  <1> HIDE DEF ended, event
  <1>4. new \in Deployment
    BY <1>1 DEF NewDeployment, Deployment, DeploymentStatus, EventNames
  <1> HIDE DEF v, e, err, new
  <1>5. row \in Deployment /\ row.status = ended
    BY <1>1, <1>2, <1>4 DEF Deployment, DeploymentStatus
  <1> HIDE DEF row
  <1>6. ended \notin IN_FLIGHT
    BY <1>2 DEF IN_FLIGHT, STUCK_STATES
  <1> QED BY <1>2, <1>3, <1>5, <1>6, Recorded

\* The trail of a sample version names stages, the current one among them.
LEMMA LedStages == \A s \in Stages : Led(s) \subseteq Stages /\ s \in Led(s)
  <1> SUFFICES ASSUME NEW s \in Stages PROVE Led(s) \subseteq Stages /\ s \in Led(s)
    OBVIOUS
  <1> DEFINE chain == _STAGE_CHAIN[s]
  <1>1. chain \in Seq(Stages) /\ (s # "DRAFT" => \E i \in DOMAIN chain : chain[i] = s)
    <2>1. CASE s = "DRAFT"
      BY <2>1 DEF _STAGE_CHAIN, Stages
    <2>2. CASE s = "VALIDATED"
      <3>1. chain = <<"VALIDATED">>
        BY <2>2 DEF _STAGE_CHAIN
      <3> QED BY <2>2, <3>1 DEF Stages
    <2>3. CASE s = "APPROVED"
      <3>1. chain = <<"VALIDATED", "APPROVED">>
        BY <2>3 DEF _STAGE_CHAIN
      <3> QED BY <2>3, <3>1 DEF Stages
    <2>4. CASE s = "STAGING"
      <3>1. chain = <<"VALIDATED", "APPROVED", "STAGING">>
        BY <2>4 DEF _STAGE_CHAIN
      <3> QED BY <2>4, <3>1 DEF Stages
    <2>5. CASE s = "PRODUCTION"
      <3>1. chain = <<"VALIDATED", "APPROVED", "STAGING", "PRODUCTION">>
        BY <2>5 DEF _STAGE_CHAIN
      <3> QED BY <2>5, <3>1 DEF Stages
    <2>6. CASE s = "ARCHIVED"
      <3>1. chain = <<"VALIDATED", "APPROVED", "STAGING", "PRODUCTION", "ARCHIVED">>
        BY <2>6 DEF _STAGE_CHAIN
      <3> QED BY <2>6, <3>1 DEF Stages
    <2> QED BY <2>1, <2>2, <2>3, <2>4, <2>5, <2>6 DEF Stages
  <1> HIDE DEF chain
  <1>2. Led(s) = {"DRAFT"} \union {chain[i] : i \in DOMAIN chain}
    BY DEF Led, chain
  <1>3. \A i \in DOMAIN chain : chain[i] \in Stages
    BY <1>1
  <1> QED BY <1>1, <1>2, <1>3 DEF Stages

LEMMA TypeInit == Init => TypeOK
  <1> SUFFICES ASSUME Init PROVE TypeOK
    OBVIOUS
  <1>1. deployments \in Seq(Deployment)
    <2>1. Len(Seeded) \in Nat /\ DOMAIN Seeded = 1..Len(Seeded)
      BY SeedAssumption
    <2>2. deployments \in [1..Len(Seeded) -> Deployment]
      BY <2>1, SeededRow DEF Init
    <2> QED BY <2>1, <2>2
  <1>2. \A p \in Processes :
          session[p] = [at |-> "drain"] \/ session[p] = [at |-> "idle"]
    BY DEF Init
  <1>3. \A p \in Processes : SessionOK(p)
    <2>1. \A p \in Processes : At(p) = "drain" \/ At(p) = "idle"
      BY <1>2 DEF At
    <2> QED BY <2>1 DEF SessionOK, Points, WithJob, WithRow
  <1>4. session = [p \in Processes |-> session[p]]
    BY DEF Init
  <1>5. trail \in [Versions -> SUBSET Stages]
    BY LedStages, StageAssumption DEF Init
  <1> QED BY <1>1, <1>3, <1>4, <1>5, StageAssumption DEF Init, TypeOK

LEMMA HandlerTypes ==
  ASSUME TypeOK, NEW h \in Handlers, Handle(h)
  PROVE  TypeOK'
  <1> USE DEF HandlerStep, TablesOK, registry
  <1>0. /\ stage \in [Versions -> Stages] /\ trail \in [Versions -> SUBSET Stages]
        /\ deployments \in Seq(Deployment) /\ crashes \in Nat
        /\ h \in Processes /\ SessionOK(h)
        /\ \A i \in Ids : deployments[i] \in Deployment
    BY DEF TypeOK, Processes, Ids
  <1>1. ASSUME NEW v \in Versions, NEW e \in Environments, NEW k \in Keys \union {NoKey},
               NEW fail \in BOOLEAN, BeginRequest(h, v, e, k, fail)
        PROVE TypeOK'
    <2>1. NewDeployment(v, e, k, fail) \in Deployment
      BY DEF NewDeployment, Deployment, DeploymentStatus, EventNames
    <2>2. session'[h] = [at |-> "insert", row |-> NewDeployment(v, e, k, fail)] => SessionOK(h)'
      BY <2>1 DEF SessionOK, At, Points, WithJob, WithRow
    <2> QED BY <1>0, <1>1, <2>2, StepTypes DEF BeginRequest, Ids
  <1>2. ASSUME NEW i \in Ids, BeginRetry(h, i) PROVE TypeOK'
    <2>1. UNCHANGED deployments
      BY <1>2 DEF BeginRetry
    <2>2. session'[h] = [at |-> "retry", job |-> i, row |-> deployments[i]] => SessionOK(h)'
      BY <1>0, <2>1 DEF SessionOK, At, Job, Points, WithJob, WithRow, Ids
    <2> QED BY <1>0, <1>2, <2>2, StepTypes DEF BeginRetry, Ids
  <1>3. ASSUME NEW i \in Ids, BeginRollback(h, i) PROVE TypeOK'
    <2>1. UNCHANGED deployments
      BY <1>3 DEF BeginRollback
    <2>2. PICK t \in RollbackTargets(i) :
            Enter(h, [at |-> "rollback", job |-> i, row |-> deployments[i], target |-> t])
      BY <1>3 DEF BeginRollback
    <2>3. t \in Ids
      BY DEF RollbackTargets
    <2>4. session'[h] = [at |-> "rollback", job |-> i, row |-> deployments[i], target |-> t]
            => SessionOK(h)'
      BY <1>0, <2>1, <2>3 DEF SessionOK, At, Job, Points, WithJob, WithRow, Ids
    <2>5. TablesOK' /\ Ids' = Ids
      BY <1>0, <1>3, <2>1 DEF BeginRollback, Ids
    <2> QED BY <1>0, <2>2, <2>4, <2>5, StepTypes
  <1>4. session'[h] = [at |-> "idle"] => SessionOK(h)'
    BY DEF SessionOK, At, Points, WithJob, WithRow
  <1>5. CASE request_deployment(h)
    <2>1. session[h].row \in Deployment
      BY <1>0, <1>5 DEF request_deployment, SessionOK, WithRow, WithJob
    <2>2. deployments' \in Seq(Deployment) /\ Ids \subseteq Ids'
      BY <1>0, <1>5, <2>1, TableAppend DEF request_deployment, Ids
    <2> QED BY <1>0, <1>4, <1>5, <2>2, StepTypes DEF request_deployment
  <1>6. CASE retry_deployment(h)
    <2> DEFINE new == [session[h].row EXCEPT !.status = "REQUESTED", !.error = "null",
                                             !.worker_id = "null", !.locked_at = "null"]
    <2>1. At(h) \in WithRow \intersect WithJob
      BY <1>6 DEF retry_deployment, WithRow, WithJob
    <2>2. new \in Deployment
      BY <1>0, <2>1 DEF SessionOK, Deployment, DeploymentStatus
    <2>3. UNCHANGED deployments \/ Save(h, new, "retry_requested")
      BY <1>6 DEF retry_deployment
    <2>4. deployments' \in Seq(Deployment) /\ Ids' = Ids
      BY <1>0, <2>1, <2>2, <2>3, SaveTypes DEF EventNames, Ids
    <2> QED BY <1>0, <1>4, <1>6, <2>4, StepTypes DEF retry_deployment
  <1>7. CASE rollback_deployment(h)
    <2> DEFINE new == [session[h].row EXCEPT !.status = "ROLLED_BACK",
                                             !.rolled_back_to_id = session[h].target]
    <2>1. At(h) \in WithRow \intersect WithJob
      BY <1>7 DEF rollback_deployment, WithRow, WithJob
    <2>2. session[h].target \in Nat
      BY <1>0, <1>7 DEF rollback_deployment, SessionOK, Ids
    <2>3. new \in Deployment
      BY <1>0, <2>1, <2>2 DEF SessionOK, Deployment, DeploymentStatus
    <2>4. deployments' \in Seq(Deployment) /\ Ids' = Ids
      BY <1>0, <1>7, <2>1, <2>3, SaveTypes DEF rollback_deployment, EventNames
    <2> QED BY <1>0, <1>4, <1>7, <2>4, StepTypes DEF rollback_deployment
  <1>8. CASE Abandon(h)
    BY <1>0, <1>4, <1>8, StepTypes DEF Abandon, Ids
  <1>9. ASSUME NEW v \in Versions, NEW target \in Stages, BeginStageChange(h, v, target)
        PROVE TypeOK'
    <2>1. session'[h] = [at |-> "promote", version |-> v, target |-> target] => SessionOK(h)'
      BY DEF SessionOK, At, Points, WithJob, WithRow
    <2> QED BY <1>0, <1>9, <2>1, StepTypes DEF BeginStageChange, Ids
  <1>10. CASE ChangeStage(h)
    <2> DEFINE v == session[h].version
               target == session[h].target
    <2>1. v \in Versions /\ target \in Stages
      BY <1>0, <1>10 DEF ChangeStage, SessionOK
    <2>2. /\ stage' = [stage EXCEPT ![v] = target]
          /\ trail' = [trail EXCEPT ![v] = @ \union {target}]
      BY <1>10 DEF ChangeStage
    <2>3. stage' \in [Versions -> Stages] /\ trail' \in [Versions -> SUBSET Stages]
      BY <1>0, <2>1, <2>2
    <2> QED BY <1>0, <1>4, <1>10, <2>3, StepTypes DEF ChangeStage, Ids
  <1> QED BY <1>1, <1>2, <1>3, <1>5, <1>6, <1>7, <1>8, <1>9, <1>10 DEF Handle

LEMMA WorkerTypes ==
  ASSUME TypeOK, NEW w \in Workers, Work(w)
  PROVE  TypeOK'
  <1> USE DEF WorkerStep, TablesOK, registry
  <1>0. /\ stage \in [Versions -> Stages] /\ trail \in [Versions -> SUBSET Stages]
        /\ deployments \in Seq(Deployment) /\ crashes \in Nat
        /\ w \in Processes /\ SessionOK(w)
        /\ \A i \in Ids : deployments[i] \in Deployment
    BY DEF TypeOK, Processes, Ids
  \* Sessions that hold no row.
  <1>1. ASSUME NEW at \in {"drain", "drained", "aborted"}, session'[w] = [at |-> at]
        PROVE SessionOK(w)'
    BY <1>1 DEF SessionOK, At, Points, WithJob, WithRow
  <1>2. ASSUME NEW at \in {"validate", "deploy"}, At(w) \in WithJob, Ids' = Ids,
               session'[w] = [at |-> at, job |-> Job(w)]
        PROVE SessionOK(w)'
    BY <1>0, <1>2 DEF SessionOK, At, Job, Points, WithJob, WithRow
  <1>3. CASE BeginClaim(w)
    <2>1. PICK i \in Claimable :
            Enter(w, [at |-> "claim", job |-> i, row |-> deployments[i]])
      BY <1>3 DEF BeginClaim
    <2>2. i \in Ids /\ UNCHANGED deployments /\ TablesOK' /\ Ids' = Ids
      BY <1>0, <1>3 DEF BeginClaim, Claimable, Ids
    <2>3. session'[w] = [at |-> "claim", job |-> i, row |-> deployments[i]] => SessionOK(w)'
      BY <1>0, <2>2 DEF SessionOK, At, Job, Points, WithJob, WithRow
    <2> QED BY <1>0, <2>1, <2>2, <2>3, StepTypes
  <1>4. CASE claim_one(w)
    <2> DEFINE old == session[w].row
               new == [old EXCEPT !.status = "VALIDATING", !.worker_id = w,
                                  !.locked_at = "fresh", !.attempts = @ + 1]
               row == Flush(old, new, deployments[Job(w)])
    <2>1. old \in Deployment /\ Job(w) \in Ids
      BY <1>0, <1>4 DEF claim_one, SessionOK, WithRow, WithJob
    <2>2. new \in Deployment
      <3> DEFINE n == old.attempts + 1
      <3>1. n \in Nat
        BY <2>1 DEF Deployment
      <3> HIDE DEF n
      <3>2. [old EXCEPT !.status = "VALIDATING", !.worker_id = w, !.locked_at = "fresh",
                        !.attempts = n] \in Deployment
        BY <2>1, <3>1 DEF Deployment, DeploymentStatus
      <3> QED BY <3>2 DEF n
    <2>3. row \in Deployment
      BY <1>0, <2>1, <2>2, Flushes
    <2>4. deployments' = [deployments EXCEPT ![Job(w)] = row]
          /\ Enter(w, [at |-> "claimed", job |-> Job(w), row |-> row])
      BY <1>4 DEF claim_one
    <2>5. TablesOK' /\ Ids' = Ids
      BY <1>0, <1>4, <2>1, <2>3, <2>4, TableUpdate DEF claim_one, Ids
    <2>6. session'[w] = [at |-> "claimed", job |-> Job(w), row |-> row] => SessionOK(w)'
      <3> HIDE DEF row
      <3> QED BY <2>1, <2>3, <2>5 DEF SessionOK, At, Job, Points, WithJob, WithRow
    <2> QED BY <1>0, <2>4, <2>5, <2>6, StepTypes
  <1>5. CASE ValidationStarted(w)
    <2>1. At(w) \in WithRow \intersect WithJob /\ session[w].row \in Deployment
      BY <1>0, <1>5 DEF ValidationStarted, SessionOK, WithRow, WithJob
    <2>2. TablesOK' /\ Ids' = Ids
      BY <1>0, <1>5, <2>1, SaveTypes DEF ValidationStarted, EventNames
    <2> QED BY <1>0, <1>2, <1>5, <2>1, <2>2, StepTypes DEF ValidationStarted
  <1>6. CASE ReadVersion(w)
    <2> DEFINE row == deployments[Job(w)]
               d == is_deployable(stage[row.version], row.environment)
    <2>1. Job(w) \in Ids /\ row \in Deployment /\ TablesOK' /\ Ids' = Ids
      BY <1>0, <1>6 DEF ReadVersion, SessionOK, WithJob, Ids
    <2>2. d \in BOOLEAN
      BY DEF is_deployable
    <2>3. session'[w] = [at |-> "decide", job |-> Job(w), row |-> row, deployable |-> d]
            => SessionOK(w)'
      <3> HIDE DEF d, row
      <3> QED BY <2>1, <2>2 DEF SessionOK, At, Job, Points, WithJob, WithRow
    <2>4. Enter(w, [at |-> "decide", job |-> Job(w), row |-> row, deployable |-> d])
      BY <1>6 DEF ReadVersion
    <2> QED BY <1>0, <2>1, <2>3, <2>4, StepTypes
  <1>7. ASSUME At(w) \in {"decide", "finish"},
               NEW event \in {"approval_validation_failed", "runtime_timeout"},
               _fail(w, event), UNCHANGED <<registry, crashes>>
        PROVE TypeOK'
    <2> DEFINE new == [session[w].row EXCEPT !.status = "FAILED", !.error = event,
                                             !.locked_at = "null"]
    <2>1. At(w) \in WithRow \intersect WithJob /\ session[w].row \in Deployment
      BY <1>0, <1>7 DEF SessionOK, WithRow, WithJob
    <2>2. new \in Deployment
      BY <2>1 DEF Deployment, DeploymentStatus
    <2>3. TablesOK' /\ Ids' = Ids
      BY <1>0, <1>7, <2>1, <2>2, SaveTypes DEF _fail, EventNames
    <2> QED BY <1>0, <1>1, <1>7, <2>3, StepTypes DEF _fail
  <1>8. CASE StartDeploy(w)
    <2> DEFINE new == [session[w].row EXCEPT !.status = "DEPLOYING"]
    <2>1. At(w) \in WithRow \intersect WithJob /\ session[w].row \in Deployment
      BY <1>0, <1>8 DEF StartDeploy, SessionOK, WithRow, WithJob
    <2>2. new \in Deployment
      BY <2>1 DEF Deployment, DeploymentStatus
    <2>3. CASE Enter(w, [at |-> "aborted"]) /\ UNCHANGED deployments
      BY <1>0, <1>1, <1>8, <2>3, StepTypes DEF StartDeploy, Ids
    <2>4. CASE Save(w, new, "deployment_started") /\ Enter(w, [at |-> "deploy", job |-> Job(w)])
      <3>1. TablesOK' /\ Ids' = Ids
        BY <1>0, <1>8, <2>1, <2>2, <2>4, SaveTypes DEF StartDeploy, EventNames
      <3> QED BY <1>0, <1>2, <2>1, <2>4, <3>1, StepTypes
    <2> QED BY <1>8, <2>3, <2>4 DEF StartDeploy
  <1>9. CASE EndDeploy(w)
    <2>1. Job(w) \in Ids /\ TablesOK' /\ Ids' = Ids
      BY <1>0, <1>9 DEF EndDeploy, SessionOK, WithJob, Ids
    <2>2. session'[w] = [at |-> "finish", job |-> Job(w), row |-> deployments[Job(w)]]
            => SessionOK(w)'
      BY <1>0, <2>1 DEF SessionOK, At, Job, Points, WithJob, WithRow
    <2> QED BY <1>0, <1>9, <2>1, <2>2, StepTypes DEF EndDeploy
  <1>10. CASE CompleteDeploy(w)
    <2> DEFINE new == [session[w].row EXCEPT !.status = "SUCCEEDED", !.error = "null",
                                             !.locked_at = "null"]
    <2>1. At(w) \in WithRow \intersect WithJob /\ session[w].row \in Deployment
      BY <1>0, <1>10 DEF CompleteDeploy, SessionOK, WithRow, WithJob
    <2>2. new \in Deployment
      BY <2>1 DEF Deployment, DeploymentStatus
    <2>3. TablesOK' /\ Ids' = Ids
      BY <1>0, <1>10, <2>1, <2>2, SaveTypes DEF CompleteDeploy, EventNames
    <2> QED BY <1>0, <1>1, <1>10, <2>3, StepTypes DEF CompleteDeploy
  <1>11. CASE DrainEmpty(w) \/ SkipReap(w)
    BY <1>0, <1>1, <1>11, StepTypes DEF DrainEmpty, SkipReap, Ids
  <1>12. CASE BeginReap(w)
    <2> DEFINE rows == [i \in Stuck |-> deployments[i]]
    <2>1. Stuck \subseteq Ids /\ TablesOK' /\ Ids' = Ids
      BY <1>0, <1>12 DEF BeginReap, Stuck, Ids
    <2>2. rows \in [DOMAIN rows -> Deployment] /\ DOMAIN rows \subseteq Ids
      BY <1>0, <2>1
    <2>3. session'[w] = [at |-> "reap", rows |-> rows] => SessionOK(w)'
      <3> HIDE DEF rows
      <3> QED BY <2>1, <2>2 DEF SessionOK, At, Points, WithJob, WithRow
    <2> QED BY <1>0, <1>12, <2>1, <2>3, StepTypes DEF BeginReap
  <1>13. CASE reap_stuck(w)
    <2> DEFINE rows == session[w].rows
               new(i) == record_event(Flush(rows[i], Reaped(rows[i]), deployments[i]),
                                      ReapEvent(rows[i]), Reaped(rows[i]))
    <2>1. \A i \in DOMAIN rows : rows[i] \in Deployment /\ i \in Ids
      BY <1>0, <1>13 DEF reap_stuck, SessionOK
    <2>2. \A i \in DOMAIN rows : new(i) \in Deployment
      BY <1>0, <2>1, ReapedTypes, Flushes, Recorded
    <2>3. CASE Enter(w, [at |-> "aborted"]) /\ UNCHANGED deployments
      BY <1>0, <1>1, <1>13, <2>3, StepTypes DEF reap_stuck, Ids
    <2>4. CASE /\ deployments' = [i \in Ids |-> IF i \in DOMAIN rows THEN new(i)
                                                  ELSE deployments[i]]
               /\ Enter(w, [at |-> "drain"])
      <3>1. deployments' \in [Ids -> Deployment]
        BY <1>0, <2>2, <2>4
      <3>2. TablesOK' /\ Ids' = Ids
        BY <1>0, <1>13, <3>1, TableRewrite DEF reap_stuck, Ids
      <3> QED BY <1>0, <1>1, <2>4, <3>2, StepTypes
    <2> QED BY <1>13, <2>3, <2>4 DEF reap_stuck
  <1>14. RejectVersion(w) \/ FailDeploy(w) => TypeOK'
    BY <1>7 DEF RejectVersion, FailDeploy
  <1> QED
    BY <1>3, <1>4, <1>5, <1>6, <1>8, <1>9, <1>10, <1>11, <1>12, <1>13, <1>14 DEF Work, Execute

LEMMA TypeStep == TypeOK /\ [Next]_vars => TypeOK'
  <1> SUFFICES ASSUME TypeOK, [Next]_vars PROVE TypeOK'
    OBVIOUS
  <1> USE DEF TablesOK, registry
  <1>0. /\ stage \in [Versions -> Stages] /\ trail \in [Versions -> SUBSET Stages]
        /\ deployments \in Seq(Deployment) /\ crashes \in Nat
        /\ \A i \in Ids : deployments[i] \in Deployment
    BY DEF TypeOK, Ids
  <1>1. ASSUME NEW w \in Workers, Crash(w) \/ Restart(w) PROVE TypeOK'
    <2>1. PICK at \in {"down", "drain"} : Enter(w, [at |-> at])
      BY <1>1 DEF Crash, Restart
    <2>2. session'[w] = [at |-> at] => SessionOK(w)'
      BY DEF SessionOK, At, Points, WithJob, WithRow
    <2>3. w \in Processes /\ TablesOK' /\ Ids' = Ids
      BY <1>0, <1>1 DEF Crash, Restart, Processes, Ids
    <2> QED BY <2>1, <2>2, <2>3, StepTypes
  <1>2. ASSUME NEW i \in Ids, Expire(i) PROVE TypeOK'
    <2>1. [deployments[i] EXCEPT !.locked_at = "stale"] \in Deployment
      BY <1>0 DEF Deployment
    <2>2. deployments' \in Seq(Deployment) /\ Ids' = Ids
      BY <1>0, <1>2, <2>1, TableUpdate DEF Expire, Ids
    <2> QED BY <1>2, <2>2 DEF Expire, TypeOK, SessionOK, At, Job
  <1>3. CASE UNCHANGED vars
    BY <1>3 DEF vars, TypeOK, SessionOK, At, Job, Ids
  <1> QED BY <1>1, <1>2, <1>3, HandlerTypes, WorkerTypes DEF Next

\* Type correctness: a session only ever works on rows of the table, whatever
\* the others did to them since.
THEOREM TypeCorrect == Spec => []TypeOK
  <1> QED BY TypeInit, TypeStep, PTL DEF Spec

------------------------------------------------------------------------------
\* One deployment in flight per slot

\* What AtMostOneActive rests on besides the index: a claim, whose UPDATE is not
\* checked, holds the lock of a row that is in flight already; and the rows a
\* reaper has loaded, which it writes in one transaction, are of different slots.
ClaimOK(w) == At(w) = "claim" => Status(Job(w)) \in IN_FLIGHT
ReapOK(w) ==
  At(w) = "reap" =>
    LET rows == session[w].rows IN
    /\ \A i \in DOMAIN rows : rows[i].status \in STUCK_STATES
    /\ \A i, j \in DOMAIN rows : SameSlot(deployments[i], deployments[j]) => i = j

ActiveInv == AtMostOneActive /\ \A w \in Workers : ClaimOK(w) /\ ReapOK(w)

\* A step that keeps the rows, their slots, and what is in flight and locked.
RowsKept ==
  /\ Ids \subseteq Ids'
  /\ \A i \in Ids : /\ deployments'[i].version = deployments[i].version
                    /\ deployments'[i].environment = deployments[i].environment
                    /\ Locked(i) /\ Status(i) \in IN_FLIGHT => Status(i)' \in IN_FLIGHT

\* What it means that the index lets a row r into a status s in flight.
LEMMA Admitted ==
  ASSUME NEW r \in Deployment, NEW s \in IN_FLIGHT, NEW others,
         uq_active_deployment([r EXCEPT !.status = s], others)
  PROVE  \A j \in others : Status(j) \in IN_FLIGHT => ~SameSlot(deployments[j], r)
  BY DEF uq_active_deployment, SameSlot, Deployment

\* A row that was in flight, or that the index admits, is the only one of its
\* slot after the update too.
LEMMA UpdateActive ==
  ASSUME deployments \in Seq(Deployment), AtMostOneActive, NEW i \in Ids, NEW r \in Deployment,
         deployments' = [deployments EXCEPT ![i] = r],
         r.version = deployments[i].version, r.environment = deployments[i].environment,
         r.status \in IN_FLIGHT =>
           Status(i) \in IN_FLIGHT
           \/ uq_active_deployment([deployments[i] EXCEPT !.status = r.status], Ids \ {i})
  PROVE  AtMostOneActive'
  <1>1. /\ Ids' = Ids /\ deployments'[i] = r
        /\ \A j \in Ids \ {i} : deployments'[j] = deployments[j]
    BY TableUpdate DEF Ids
  <1>2. \A j \in Ids : SameSlot(deployments'[j], deployments'[i])
                          <=> SameSlot(deployments[j], deployments[i])
    BY <1>1 DEF SameSlot
  <1>3. \A j \in Ids \ {i} :
          r.status \in IN_FLIGHT /\ Status(j) \in IN_FLIGHT
            => ~SameSlot(deployments[j], deployments[i])
    <2>1. deployments[i] \in Deployment
      BY DEF Ids
    <2>2. CASE Status(i) \in IN_FLIGHT
      BY <2>2 DEF AtMostOneActive, SameSlot
    <2>3. CASE uq_active_deployment([deployments[i] EXCEPT !.status = r.status], Ids \ {i})
      BY <2>1, <2>3 DEF uq_active_deployment, SameSlot, Deployment
    <2> QED BY <2>2, <2>3
  <1>4. \A j, k \in Ids : SameSlot(deployments'[j], deployments'[k])
                             <=> SameSlot(deployments'[k], deployments'[j])
    BY DEF SameSlot
  <1> QED BY <1>1, <1>2, <1>3, <1>4 DEF AtMostOneActive, Status

\* A commit of new over the row p has loaded, when nobody else holds its lock.
LEMMA SaveActive ==
  ASSUME TypeOK, AtMostOneActive, NEW p \in Processes, At(p) \in WithRow \intersect WithJob,
         NEW new \in Deployment, NEW event \in EventNames, Save(p, new, event),
         ~Locked(Job(p)),
         new.status \in IN_FLIGHT => ~Refused(Job(p), session[p].row, new)
  PROVE  AtMostOneActive' /\ RowsKept
  <1> DEFINE i == Job(p)
             old == session[p].row
             r == record_event(Flush(old, new, deployments[i]), event, new)
  <1>1. i \in Ids /\ old \in Deployment /\ deployments \in Seq(Deployment)
    BY DEF TypeOK, SessionOK
  <1>2. deployments[i] \in Deployment
    BY <1>1 DEF Ids
  <1>3. /\ r \in Deployment
        /\ r.version = deployments[i].version /\ r.environment = deployments[i].environment
        /\ r.status = IF new.status = old.status THEN deployments[i].status ELSE new.status
    <2> DEFINE cur == deployments[i]
               f == Flush(old, new, cur)
    <2>1. r = record_event(f, event, new) /\ cur \in Deployment
      BY <1>2
    <2> HIDE DEF i, old, cur, r
    <2>2. /\ f \in Deployment
          /\ f.version = cur.version /\ f.environment = cur.environment
          /\ f.status = IF new.status = old.status THEN cur.status ELSE new.status
      BY <1>1, <2>1, Flushes
    <2> HIDE DEF f
    <2> QED BY <2>1, <2>2, Recorded DEF cur
  <1>4. deployments' = [deployments EXCEPT ![i] = r]
    BY DEF Save
  <1>5. r.status \in IN_FLIGHT =>
          Status(i) \in IN_FLIGHT
          \/ uq_active_deployment([deployments[i] EXCEPT !.status = r.status], Ids \ {i})
    BY <1>3 DEF Refused, Status
  <1> HIDE DEF r, i
  <1>6. AtMostOneActive'
    BY <1>1, <1>3, <1>4, <1>5, UpdateActive
  <1>7. RowsKept
    BY <1>1, <1>3, <1>4, TableUpdate DEF RowsKept, Ids, Status, i
  <1> QED BY <1>6, <1>7

\* A session that stays as it is stays in order.
LEMMA OthersActive ==
  ASSUME TypeOK, ActiveInv, RowsKept, NEW w \in Workers, session'[w] = session[w]
  PROVE  ClaimOK(w)' /\ ReapOK(w)'
  <1>1. ASSUME At(w)' = "claim" PROVE (Status(Job(w)) \in IN_FLIGHT)'
    <2>1. At(w) = "claim" /\ Job(w)' = Job(w)
      BY <1>1 DEF At, Job
    <2>2. Locked(Job(w)) /\ Job(w) \in Ids
      BY <2>1 DEF Locked, TypeOK, SessionOK, Processes, WithJob
    <2> QED BY <2>1, <2>2 DEF ActiveInv, ClaimOK, RowsKept, Status
  <1>2. ASSUME At(w)' = "reap" PROVE ReapOK(w)'
    <2>1. At(w) = "reap"
      BY <1>2 DEF At
    <2>2. DOMAIN session[w].rows \subseteq Ids
      BY <2>1 DEF TypeOK, SessionOK, Processes
    <2> QED BY <2>1, <2>2 DEF ActiveInv, ReapOK, RowsKept, SameSlot
  <1> QED BY <1>1, <1>2 DEF ClaimOK, ReapOK

\* So a step of p has to see to the rows and to p's own session.
LEMMA StepActive ==
  ASSUME TypeOK, ActiveInv, NEW p \in Processes, NEW s, Enter(p, s), RowsKept, AtMostOneActive',
         session'[p] = s /\ p \in Workers => ClaimOK(p)' /\ ReapOK(p)'
  PROVE  ActiveInv'
  <1>1. session'[p] = s /\ \A q \in Processes \ {p} : session'[q] = session[q]
    BY DEF Enter, TypeOK
  <1> QED BY <1>1, OthersActive DEF ActiveInv, Processes

\* Steps that only read the table.
LEMMA ReadActive ==
  ASSUME AtMostOneActive, UNCHANGED deployments
  PROVE  AtMostOneActive' /\ RowsKept
  BY DEF AtMostOneActive, RowsKept, Ids, Status

\* A new row n that the index admits.
LEMMA InsertActive ==
  ASSUME AtMostOneActive, NEW r, NEW n, n \notin Ids, Ids' = Ids \union {n},
         deployments'[n] = r, \A j \in Ids : deployments'[j] = deployments[j],
         uq_active_deployment(r, Ids)
  PROVE  AtMostOneActive' /\ RowsKept
  <1>1. RowsKept
    BY DEF RowsKept, Status
  <1>2. \A j \in Ids : Status(j)' \in IN_FLIGHT /\ Status(n)' \in IN_FLIGHT
                        => ~SameSlot(deployments'[j], deployments'[n])
    BY DEF uq_active_deployment, Status
  <1>3. \A j, k \in Ids' : SameSlot(deployments'[j], deployments'[k])
                              <=> SameSlot(deployments'[k], deployments'[j])
    BY DEF SameSlot
  <1>4. \A j, k \in Ids : Status(j)' \in IN_FLIGHT /\ Status(k)' \in IN_FLIGHT
                           /\ SameSlot(deployments'[j], deployments'[k]) => j = k
    BY DEF AtMostOneActive, Status
  <1> QED BY <1>1, <1>2, <1>3, <1>4 DEF AtMostOneActive

LEMMA AppendActive ==
  ASSUME deployments \in Seq(Deployment), AtMostOneActive, NEW r \in Deployment,
         deployments' = Append(deployments, r), uq_active_deployment(r, Ids)
  PROVE  AtMostOneActive' /\ RowsKept
  <1> DEFINE n == Len(deployments) + 1
  <1>1. /\ Ids' = Ids \union {n} /\ n \notin Ids /\ deployments'[n] = r
        /\ \A j \in Ids : deployments'[j] = deployments[j]
    BY TableAppend DEF Ids
  <1> HIDE DEF n
  <1> QED BY <1>1, InsertActive

\* Several rows of different slots may be updated at once, each checked against
\* the table as it was.
LEMMA RewriteActive ==
  ASSUME deployments \in Seq(Deployment), AtMostOneActive, NEW T \in SUBSET Ids,
         NEW new \in [T -> Deployment],
         \A i, j \in T : SameSlot(deployments[i], deployments[j]) => i = j,
         \A i \in T : /\ ~Locked(i)
                      /\ new[i].version = deployments[i].version
                      /\ new[i].environment = deployments[i].environment
                      /\ new[i].status \in IN_FLIGHT =>
                           uq_active_deployment(
                             [deployments[i] EXCEPT !.status = new[i].status], Ids \ {i}),
         deployments' = [i \in Ids |-> IF i \in T THEN new[i] ELSE deployments[i]]
  PROVE  AtMostOneActive' /\ RowsKept
  <1>1. \A i \in Ids : deployments[i] \in Deployment
    BY DEF Ids
  <1>2. /\ Ids' = Ids
        /\ \A i \in T : deployments'[i] = new[i]
        /\ \A i \in Ids \ T : deployments'[i] = deployments[i]
    BY DEF Ids
  <1>3. \A i, j \in Ids : SameSlot(deployments'[i], deployments'[j])
                             <=> SameSlot(deployments[i], deployments[j])
    BY <1>2 DEF SameSlot
  <1>4. \A i \in T : \A j \in Ids \ {i} :
          new[i].status \in IN_FLIGHT /\ Status(j) \in IN_FLIGHT
            => ~SameSlot(deployments[j], deployments[i])
    BY <1>1, Admitted
  <1>5. \A i, j \in Ids : SameSlot(deployments[i], deployments[j])
                             <=> SameSlot(deployments[j], deployments[i])
    BY DEF SameSlot
  <1>6. AtMostOneActive'
    BY <1>2, <1>3, <1>4, <1>5 DEF AtMostOneActive, Status
  <1>7. RowsKept
    BY <1>2 DEF RowsKept, Status
  <1> QED BY <1>6, <1>7

LEMMA ActiveInit == Init => ActiveInv
  <1> SUFFICES ASSUME Init PROVE ActiveInv
    OBVIOUS
  <1>1. AtMostOneActive
    BY SeededRow DEF Init, AtMostOneActive, Ids, Status
  <1>2. \A w \in Workers : At(w) = "drain"
    BY DEF Init, At, Processes
  <1> QED BY <1>1, <1>2 DEF ActiveInv, ClaimOK, ReapOK

LEMMA HandlerActive ==
  ASSUME TypeOK, ActiveInv, NEW h \in Handlers, Handle(h)
  PROVE  ActiveInv'
  <1>0. /\ h \in Processes /\ h \notin Workers /\ SessionOK(h) /\ AtMostOneActive
        /\ deployments \in Seq(Deployment)
    BY ProcessAssumption DEF TypeOK, ActiveInv, Processes
  <1>1. ASSUME NEW s, Enter(h, s), UNCHANGED deployments PROVE ActiveInv'
    BY <1>0, <1>1, ReadActive, StepActive
  <1>2. CASE \E v \in Versions, e \in Environments, k \in Keys \union {NoKey},
                fail \in BOOLEAN : BeginRequest(h, v, e, k, fail)
    BY <1>1, <1>2 DEF BeginRequest
  <1>3. CASE \E i \in Ids : BeginRetry(h, i) \/ BeginRollback(h, i)
    BY <1>1, <1>3 DEF BeginRetry, BeginRollback
  <1>4. CASE request_deployment(h)
    <2>1. session[h].row \in Deployment
      BY <1>0, <1>4 DEF request_deployment, HandlerStep, SessionOK, WithRow, WithJob
    <2>2. AtMostOneActive' /\ RowsKept
      BY <1>0, <1>4, <2>1, AppendActive, ReadActive DEF request_deployment
    <2> QED BY <1>0, <1>4, <2>2, StepActive DEF request_deployment
  <1>5. CASE retry_deployment(h)
    <2> DEFINE new == [session[h].row EXCEPT !.status = "REQUESTED", !.error = "null",
                                             !.worker_id = "null", !.locked_at = "null"]
    <2>1. At(h) \in WithRow \intersect WithJob /\ session[h].row \in Deployment
      BY <1>0, <1>5 DEF retry_deployment, HandlerStep, SessionOK, WithRow, WithJob
    <2>2. new \in Deployment
      BY <2>1 DEF Deployment, DeploymentStatus
    <2>3. /\ ~Locked(Job(h)) /\ Enter(h, [at |-> "idle"])
          /\ \/ UNCHANGED deployments
             \/ ~Refused(Job(h), session[h].row, new) /\ Save(h, new, "retry_requested")
      BY <1>5 DEF retry_deployment
    <2> HIDE DEF new
    <2>4. AtMostOneActive' /\ RowsKept
      BY <1>0, <2>1, <2>2, <2>3, ReadActive, SaveActive DEF EventNames
    <2> QED BY <1>0, <2>3, <2>4, StepActive
  <1>6. CASE rollback_deployment(h)
    <2> DEFINE new == [session[h].row EXCEPT !.status = "ROLLED_BACK",
                                             !.rolled_back_to_id = session[h].target]
    <2>1. At(h) \in WithRow \intersect WithJob /\ session[h].row \in Deployment
      BY <1>0, <1>6 DEF rollback_deployment, HandlerStep, SessionOK, WithRow, WithJob
    <2>2. session[h].target \in Nat
      BY <1>0, <1>6 DEF rollback_deployment, HandlerStep, SessionOK, Ids
    <2>3. new \in Deployment /\ new.status \notin IN_FLIGHT
      BY <2>1, <2>2 DEF Deployment, DeploymentStatus, IN_FLIGHT, STUCK_STATES
    <2>4. ~Locked(Job(h)) /\ Enter(h, [at |-> "idle"]) /\ Save(h, new, "rolled_back")
      BY <1>6 DEF rollback_deployment
    <2> HIDE DEF new
    <2>5. AtMostOneActive' /\ RowsKept
      BY <1>0, <2>1, <2>3, <2>4, SaveActive DEF EventNames
    <2> QED BY <1>0, <2>4, <2>5, StepActive
  <1>7. CASE Abandon(h) \/ ChangeStage(h)
    BY <1>1, <1>7 DEF Abandon, ChangeStage
  <1>8. CASE \E v \in Versions, target \in Stages : BeginStageChange(h, v, target)
    BY <1>1, <1>8 DEF BeginStageChange
  <1> QED BY <1>2, <1>3, <1>4, <1>5, <1>6, <1>7, <1>8 DEF Handle

LEMMA WorkerActive ==
  ASSUME TypeOK, ActiveInv, NEW w \in Workers, Work(w)
  PROVE  ActiveInv'
  <1> USE DEF WorkerStep
  <1>0. /\ w \in Processes /\ SessionOK(w) /\ AtMostOneActive /\ ClaimOK(w) /\ ReapOK(w)
        /\ deployments \in Seq(Deployment)
        /\ \A i \in Ids : deployments[i] \in Deployment
    BY DEF TypeOK, ActiveInv, Processes, Ids
  \* Steps into a session that neither claims nor reaps.
  <1>1. ASSUME NEW s, Enter(w, s), s.at \notin {"claim", "reap"}, RowsKept, AtMostOneActive'
        PROVE ActiveInv'
    <2>1. session'[w] = s => ClaimOK(w)' /\ ReapOK(w)'
      BY <1>1 DEF ClaimOK, ReapOK, At
    <2> QED BY <1>0, <1>1, <2>1, StepActive
  <1>2. ASSUME NEW s, Enter(w, s), s.at \notin {"claim", "reap"}, UNCHANGED deployments
        PROVE ActiveInv'
    BY <1>0, <1>1, <1>2, ReadActive
  <1>3. ASSUME NEW s, Enter(w, s), s.at \notin {"claim", "reap"},
               At(w) \in {"claimed", "decide", "finish"}, ~Locked(Job(w)),
               NEW new \in Deployment, NEW event \in EventNames, Save(w, new, event),
               new.status \in IN_FLIGHT => ~Refused(Job(w), session[w].row, new)
        PROVE ActiveInv'
    <2>1. At(w) \in WithRow \intersect WithJob
      BY <1>3 DEF WithRow, WithJob
    <2> QED BY <1>0, <1>1, <1>3, <2>1, SaveActive
  <1>4. CASE BeginClaim(w)
    <2>1. PICK i \in Claimable :
            Enter(w, [at |-> "claim", job |-> i, row |-> deployments[i]])
      BY <1>4 DEF BeginClaim
    <2>2. UNCHANGED deployments
      BY <1>4 DEF BeginClaim
    <2>3. session'[w] = [at |-> "claim", job |-> i, row |-> deployments[i]]
            => ClaimOK(w)' /\ ReapOK(w)'
      BY <2>2 DEF Claimable, ClaimOK, ReapOK, At, Job, Status, IN_FLIGHT
    <2> QED BY <1>0, <2>1, <2>2, <2>3, ReadActive, StepActive
  <1>5. CASE claim_one(w)
    <2> DEFINE old == session[w].row
               n == old.attempts + 1
               new == [old EXCEPT !.status = "VALIDATING", !.worker_id = w,
                                  !.locked_at = "fresh", !.attempts = n]
               i == Job(w)
               cur == deployments[i]
               row == Flush(old, new, cur)
    <2>1. old \in Deployment /\ i \in Ids /\ cur \in Deployment /\ Status(i) \in IN_FLIGHT
      BY <1>0, <1>5 DEF claim_one, SessionOK, WithRow, WithJob, ClaimOK
    <2>2. n \in Nat
      BY <2>1 DEF Deployment
    <2>3. /\ deployments' = [deployments EXCEPT ![i] = row]
          /\ Enter(w, [at |-> "claimed", job |-> i, row |-> row])
      BY <1>5 DEF claim_one
    <2> HIDE DEF n, old
    <2>4. new \in Deployment
      BY <2>1, <2>2 DEF Deployment, DeploymentStatus
    <2>5. new.status = "VALIDATING"
      BY <2>1 DEF Deployment
    <2> HIDE DEF new, cur, i
    <2>6. /\ row \in Deployment
          /\ row.version = cur.version /\ row.environment = cur.environment
          /\ row.status = IF new.status = old.status THEN cur.status ELSE new.status
      BY <2>1, <2>4, Flushes
    <2> HIDE DEF row
    <2>7. row.status \in IN_FLIGHT
      BY <2>1, <2>5, <2>6 DEF cur, Status, IN_FLIGHT, STUCK_STATES
    <2>8. AtMostOneActive'
      BY <1>0, <2>1, <2>3, <2>6, UpdateActive DEF cur
    <2>9. RowsKept
      BY <1>0, <2>1, <2>3, <2>6, <2>7, TableUpdate DEF RowsKept, Ids, Status, cur
    <2> QED BY <1>1, <2>3, <2>8, <2>9
  <1>6. CASE ValidationStarted(w)
    <2>1. session[w].row \in Deployment /\ ~Refused(Job(w), session[w].row, session[w].row)
      BY <1>0, <1>6 DEF ValidationStarted, SessionOK, WithRow, WithJob, Refused
    <2> QED BY <1>3, <1>6, <2>1 DEF ValidationStarted, EventNames
  <1>7. CASE ReadVersion(w) \/ EndDeploy(w) \/ DrainEmpty(w) \/ SkipReap(w)
    BY <1>2, <1>7 DEF ReadVersion, EndDeploy, DrainEmpty, SkipReap
  <1>8. ASSUME At(w) \in {"decide", "finish"},
               NEW event \in {"approval_validation_failed", "runtime_timeout"}, _fail(w, event)
        PROVE ActiveInv'
    <2> DEFINE new == [session[w].row EXCEPT !.status = "FAILED", !.error = event,
                                             !.locked_at = "null"]
    <2>1. session[w].row \in Deployment
      BY <1>0, <1>8 DEF SessionOK, WithRow, WithJob
    <2>2. new \in Deployment /\ new.status \notin IN_FLIGHT
      BY <2>1 DEF Deployment, DeploymentStatus, IN_FLIGHT, STUCK_STATES
    <2>3. ~Locked(Job(w)) /\ Save(w, new, event) /\ Enter(w, [at |-> "drain"])
      BY <1>8 DEF _fail
    <2> HIDE DEF new
    <2> QED BY <1>3, <1>8, <2>2, <2>3 DEF EventNames
  <1>9. RejectVersion(w) \/ FailDeploy(w) => ActiveInv'
    BY <1>8 DEF RejectVersion, FailDeploy
  <1>10. CASE StartDeploy(w)
    <2> DEFINE new == [session[w].row EXCEPT !.status = "DEPLOYING"]
    <2>1. session[w].row \in Deployment
      BY <1>0, <1>10 DEF StartDeploy, SessionOK, WithRow, WithJob
    <2>2. new \in Deployment
      BY <2>1 DEF Deployment, DeploymentStatus
    <2>3. CASE Enter(w, [at |-> "aborted"]) /\ UNCHANGED deployments
      BY <1>2, <2>3
    <2>4. CASE /\ ~Refused(Job(w), session[w].row, new) /\ Save(w, new, "deployment_started")
               /\ Enter(w, [at |-> "deploy", job |-> Job(w)])
      <3>1. At(w) = "decide" /\ ~Locked(Job(w))
        BY <1>10 DEF StartDeploy
      <3> HIDE DEF new
      <3> QED BY <1>3, <2>2, <2>4, <3>1 DEF EventNames
    <2> QED BY <1>10, <2>3, <2>4 DEF StartDeploy
  <1>11. CASE CompleteDeploy(w)
    <2> DEFINE new == [session[w].row EXCEPT !.status = "SUCCEEDED", !.error = "null",
                                             !.locked_at = "null"]
    <2>1. session[w].row \in Deployment
      BY <1>0, <1>11 DEF CompleteDeploy, SessionOK, WithRow, WithJob
    <2>2. new \in Deployment /\ new.status \notin IN_FLIGHT
      BY <2>1 DEF Deployment, DeploymentStatus, IN_FLIGHT, STUCK_STATES
    <2>3. /\ At(w) = "finish" /\ ~Locked(Job(w)) /\ Save(w, new, "deployment_completed")
          /\ Enter(w, [at |-> "drain"])
      BY <1>11 DEF CompleteDeploy
    <2> HIDE DEF new
    <2> QED BY <1>3, <2>2, <2>3 DEF EventNames
  <1>12. CASE BeginReap(w)
    <2> DEFINE rows == [i \in Stuck |-> deployments[i]]
    <2>1. UNCHANGED deployments /\ Enter(w, [at |-> "reap", rows |-> rows])
      BY <1>12 DEF BeginReap
    <2>2. /\ DOMAIN rows = Stuck /\ Stuck \subseteq Ids
          /\ \A i \in Stuck : rows[i].status \in STUCK_STATES
      BY DEF Stuck, Status
    <2>3. \A i, j \in Stuck : SameSlot(deployments[i], deployments[j]) => i = j
      BY <1>0 DEF Stuck, AtMostOneActive, IN_FLIGHT
    <2> HIDE DEF rows
    <2>4. session'[w] = [at |-> "reap", rows |-> rows] => ClaimOK(w)' /\ ReapOK(w)'
      BY <2>1, <2>2, <2>3 DEF ClaimOK, ReapOK, At
    <2> QED BY <1>0, <2>1, <2>4, ReadActive, StepActive
  <1>13. CASE reap_stuck(w)
    <2> DEFINE rows == session[w].rows
               new == [i \in DOMAIN rows |->
                        record_event(Flush(rows[i], Reaped(rows[i]), deployments[i]),
                                     ReapEvent(rows[i]), Reaped(rows[i]))]
    <2>1. CASE Enter(w, [at |-> "aborted"]) /\ UNCHANGED deployments
      BY <1>2, <2>1
    <2>2. CASE /\ ~ \E i \in DOMAIN rows : Refused(i, rows[i], Reaped(rows[i]))
               /\ deployments' = [i \in Ids |-> IF i \in DOMAIN rows THEN new[i]
                                                 ELSE deployments[i]]
               /\ Enter(w, [at |-> "drain"])
      <3>1. /\ DOMAIN rows \subseteq Ids
            /\ \A i \in DOMAIN rows : /\ rows[i] \in Deployment /\ ~Locked(i)
                                       /\ rows[i].status \in STUCK_STATES
            /\ \A i, j \in DOMAIN rows : SameSlot(deployments[i], deployments[j]) => i = j
        BY <1>0, <1>13 DEF reap_stuck, SessionOK, ReapOK
      <3>2. ASSUME NEW i \in DOMAIN rows
            PROVE  /\ new[i].version = deployments[i].version
                   /\ new[i].environment = deployments[i].environment
                   /\ new[i].status = Reaped(rows[i]).status
                   /\ new[i] \in Deployment
                   /\ new[i].status \in IN_FLIGHT =>
                        uq_active_deployment([deployments[i] EXCEPT !.status = new[i].status],
                                             Ids \ {i})
        <4>1. /\ rows[i] \in Deployment /\ deployments[i] \in Deployment
              /\ Reaped(rows[i]) \in Deployment /\ ReapEvent(rows[i]) \in EventNames
          BY <1>0, <3>1, ReapedTypes
        <4>2. Reaped(rows[i]).status # rows[i].status
          BY <3>1, <4>1 DEF Reaped, STUCK_STATES, Deployment
        <4>3. ~Refused(i, rows[i], Reaped(rows[i]))
          BY <2>2
        <4> DEFINE d == rows[i]
                   q == Reaped(d)
                   cur == deployments[i]
                   f == Flush(d, q, cur)
        <4>4. new[i] = record_event(f, ReapEvent(d), q)
          OBVIOUS
        <4> HIDE DEF d, q, cur, rows, new
        <4>5. /\ f \in Deployment
              /\ f.version = cur.version /\ f.environment = cur.environment
              /\ f.status = q.status
          BY <4>1, <4>2, Flushes DEF d, q, cur
        <4> HIDE DEF f
        <4>6. /\ new[i] \in Deployment
              /\ new[i].version = cur.version /\ new[i].environment = cur.environment
              /\ new[i].status = q.status
          BY <4>1, <4>4, <4>5, Recorded DEF d, q
        <4> QED BY <4>2, <4>3, <4>6 DEF Refused, d, q, cur
      <3>3. new \in [DOMAIN rows -> Deployment]
        BY <3>2
      <3> HIDE DEF rows, new
      <3>4. deployments' = [i \in Ids |-> IF i \in DOMAIN rows THEN new[i] ELSE deployments[i]]
        BY <2>2 DEF new
      <3>5. AtMostOneActive' /\ RowsKept
        BY <1>0, <3>1, <3>2, <3>3, <3>4, RewriteActive
      <3> QED BY <1>1, <2>2, <3>5
    <2> QED BY <1>13, <2>1, <2>2 DEF reap_stuck
  <1> QED
    BY <1>4, <1>5, <1>6, <1>7, <1>9, <1>10, <1>11, <1>12, <1>13 DEF Work, Execute

LEMMA ActiveStep == TypeOK /\ ActiveInv /\ [Next]_vars => ActiveInv'
  <1> SUFFICES ASSUME TypeOK, ActiveInv, [Next]_vars PROVE ActiveInv'
    OBVIOUS
  <1>0. /\ deployments \in Seq(Deployment) /\ AtMostOneActive
        /\ \A i \in Ids : deployments[i] \in Deployment
    BY DEF TypeOK, ActiveInv, Ids
  <1>1. ASSUME NEW w \in Workers, Crash(w) \/ Restart(w) PROVE ActiveInv'
    <2>1. PICK at \in {"down", "drain"} : Enter(w, [at |-> at])
      BY <1>1 DEF Crash, Restart
    <2>2. AtMostOneActive' /\ RowsKept
      BY <1>0, <1>1, ReadActive DEF Crash, Restart
    <2>3. session'[w] = [at |-> at] => ClaimOK(w)' /\ ReapOK(w)'
      BY DEF ClaimOK, ReapOK, At
    <2> QED BY <2>1, <2>2, <2>3, StepActive DEF Processes
  <1>2. CASE UNCHANGED session /\ UNCHANGED deployments
    <2>1. AtMostOneActive' /\ RowsKept
      BY <1>0, <1>2, ReadActive
    <2> QED BY <1>2, <2>1, OthersActive DEF ActiveInv
  <1>3. ASSUME NEW i \in Ids, Expire(i) PROVE ActiveInv'
    <2> DEFINE r == [deployments[i] EXCEPT !.locked_at = "stale"]
    <2>1. /\ r \in Deployment /\ r.version = deployments[i].version
          /\ r.environment = deployments[i].environment /\ r.status = Status(i)
      BY <1>0 DEF Deployment, Status
    <2>2. deployments' = [deployments EXCEPT ![i] = r] /\ UNCHANGED session
      BY <1>3 DEF Expire
    <2> HIDE DEF r
    <2>3. AtMostOneActive'
      BY <1>0, <2>1, <2>2, UpdateActive
    <2>4. RowsKept
      BY <1>0, <2>1, <2>2, TableUpdate DEF RowsKept, Ids, Status
    <2> QED BY <2>2, <2>3, <2>4, OthersActive DEF ActiveInv
  <1>4. CASE UNCHANGED vars
    BY <1>2, <1>4 DEF vars
  <1> QED BY <1>1, <1>3, <1>4, HandlerActive, WorkerActive DEF Next

\* One deployment in flight per model and environment (AtMostOneActive), however
\* requests, retries, reaps and writes of stalled workers interleave.
THEOREM ActiveUnique == Spec => []AtMostOneActive
  <1>1. ActiveInv => AtMostOneActive
    BY DEF ActiveInv
  <1> QED BY <1>1, TypeInit, TypeStep, ActiveInit, ActiveStep, PTL DEF Spec

------------------------------------------------------------------------------
\* What no interleaving changes of a deployment

\* The row i keeps what it was requested with.
Same(i) == /\ deployments'[i].version = deployments[i].version
           /\ deployments'[i].environment = deployments[i].environment
           /\ deployments'[i].idempotency_key = deployments[i].idempotency_key

\* A process that is about to say that a deployment is or was in its environment.
Advances(p, i) ==
  /\ At(p) \in {"rollback", "finish"} \/ (At(p) = "decide" /\ session[p].deployable)
  /\ Job(p) = i

\* Anything else that is written to its status.
Harmless(s) == s \in {"REQUESTED", "VALIDATING", "FAILED"}

RowFixed(i) ==
  /\ Same(i)
  /\ \/ Status(i)' = Status(i)
     \/ Harmless(Status(i)')
     \/ \E p \in Processes : Advances(p, i)

RowsFixed == Ids' = Ids /\ \A i \in Ids : RowFixed(i)

RowAdded ==
  \E h \in Handlers :
    /\ At(h) = "insert" /\ ~KeyTaken(session[h].row.idempotency_key)
    /\ Ids' = Ids \union {Len(deployments) + 1}
    /\ deployments'[Len(deployments) + 1] = session[h].row
    /\ \A i \in Ids : deployments'[i] = deployments[i]

-----------------------------------------------------------------------------
(* Every step keeps the rows or adds one                                      *)

\* Neither an UPDATE nor its event writes the key.
LEMMA KeyKept ==
  ASSUME NEW old \in Deployment, NEW new \in Deployment, NEW cur \in Deployment, NEW event \in EventNames
  PROVE  /\ Flush(old, new, cur).idempotency_key = cur.idempotency_key
         /\ record_event(cur, event, new).idempotency_key = cur.idempotency_key
  BY DEF Flush, record_event, Deployment

\* What the reaper makes of a row.
LEMMA ReapedRow ==
  ASSUME NEW old \in Deployment, NEW cur \in Deployment
  PROVE  LET r == record_event(Flush(old, Reaped(old), cur), ReapEvent(old), Reaped(old)) IN
         /\ r.version = cur.version /\ r.environment = cur.environment
         /\ r.idempotency_key = cur.idempotency_key
         /\ r.status = cur.status \/ Harmless(r.status)
  <1> DEFINE new == Reaped(old)
             event == ReapEvent(old)
             f == Flush(old, new, cur)
  <1>1. new \in Deployment /\ event \in EventNames
    BY ReapedTypes
  <1>2. Harmless(new.status)
    BY DEF Reaped, Harmless, Deployment
  <1> HIDE DEF new, event
  <1>3. /\ f \in Deployment
        /\ f.version = cur.version /\ f.environment = cur.environment
        /\ f.idempotency_key = cur.idempotency_key
        /\ f.status = cur.status \/ Harmless(f.status)
    BY <1>1, <1>2, Flushes, KeyKept
  <1> HIDE DEF f
  <1>4. LET r == record_event(f, event, new) IN
        /\ r.version = cur.version /\ r.environment = cur.environment
        /\ r.idempotency_key = cur.idempotency_key
        /\ r.status = cur.status \/ Harmless(r.status)
    BY <1>1, <1>3, Recorded, KeyKept
  <1> QED BY <1>4 DEF f, new, event

\* The row i is replaced.
LEMMA Replaced ==
  ASSUME deployments \in Seq(Deployment), NEW i \in Ids, NEW r \in Deployment,
         deployments' = [deployments EXCEPT ![i] = r],
         r.version = deployments[i].version, r.environment = deployments[i].environment,
         r.idempotency_key = deployments[i].idempotency_key,
         r.status = Status(i) \/ Harmless(r.status) \/ \E p \in Processes : Advances(p, i)
  PROVE  RowsFixed
  <1>1. /\ Ids' = Ids /\ deployments'[i] = r
        /\ \A j \in Ids \ {i} : deployments'[j] = deployments[j]
    BY TableUpdate DEF Ids
  <1> QED BY <1>1 DEF RowsFixed, RowFixed, Same, Status

LEMMA Unwritten ==
  ASSUME UNCHANGED deployments
  PROVE  RowsFixed
  BY DEF RowsFixed, RowFixed, Same, Status, Ids

\* A commit of p over its job.
LEMMA Saved ==
  ASSUME TypeOK, NEW p \in Processes, At(p) \in WithRow \intersect WithJob,
         NEW new \in Deployment, NEW event \in EventNames, Save(p, new, event),
         new.status = session[p].row.status \/ Harmless(new.status) \/ Advances(p, Job(p))
  PROVE  RowsFixed
  <1> DEFINE i == Job(p)
             old == session[p].row
             cur == deployments[i]
             r == record_event(Flush(old, new, cur), event, new)
  <1>1. i \in Ids /\ old \in Deployment /\ deployments \in Seq(Deployment)
    BY DEF TypeOK, SessionOK
  <1>2. cur \in Deployment
    BY <1>1 DEF Ids
  <1>3. deployments' = [deployments EXCEPT ![i] = r]
    BY DEF Save
  <1>4. /\ r \in Deployment
        /\ r.version = cur.version /\ r.environment = cur.environment
        /\ r.idempotency_key = cur.idempotency_key
        /\ r.status = IF new.status = old.status THEN cur.status ELSE new.status
    <2> DEFINE f == Flush(old, new, cur)
    <2>1. r = record_event(f, event, new)
      OBVIOUS
    <2> HIDE DEF i, old, cur, r
    <2>2. /\ f \in Deployment
          /\ f.version = cur.version /\ f.environment = cur.environment
          /\ f.idempotency_key = cur.idempotency_key
          /\ f.status = IF new.status = old.status THEN cur.status ELSE new.status
      BY <1>1, <1>2, Flushes, KeyKept
    <2> HIDE DEF f
    <2> QED BY <2>1, <2>2, Recorded, KeyKept
  <1>5. r.status = Status(i) \/ Harmless(r.status) \/ \E q \in Processes : Advances(q, i)
    <2> HIDE DEF r
    <2> QED BY <1>4 DEF Status
  <1> HIDE DEF r, i
  <1> QED BY <1>1, <1>3, <1>4, <1>5, Replaced

LEMMA HandlerRows ==
  ASSUME TypeOK, NEW h \in Handlers, Handle(h)
  PROVE  RowsFixed \/ RowAdded
  <1> USE DEF HandlerStep
  <1>0. /\ h \in Processes /\ SessionOK(h) /\ deployments \in Seq(Deployment)
    BY DEF TypeOK, Processes
  <1>1. CASE UNCHANGED deployments
    BY <1>1, Unwritten
  <1>2. CASE request_deployment(h)
    <2>1. session[h].row \in Deployment /\ At(h) = "insert"
      BY <1>0, <1>2 DEF request_deployment, SessionOK, WithRow, WithJob
    <2>2. CASE deployments' = Append(deployments, session[h].row) /\ ~KeyTaken(session[h].row.idempotency_key)
      BY <1>0, <2>1, <2>2, TableAppend DEF RowAdded, Ids
    <2> QED BY <1>1, <1>2, <2>2 DEF request_deployment
  <1>3. CASE retry_deployment(h)
    <2> DEFINE new == [session[h].row EXCEPT !.status = "REQUESTED", !.error = "null",
                                             !.worker_id = "null", !.locked_at = "null"]
    <2>1. At(h) \in WithRow \intersect WithJob /\ session[h].row \in Deployment
      BY <1>0, <1>3 DEF retry_deployment, SessionOK, WithRow, WithJob
    <2>2. new \in Deployment /\ Harmless(new.status)
      BY <2>1 DEF Deployment, DeploymentStatus, Harmless
    <2>3. UNCHANGED deployments \/ Save(h, new, "retry_requested")
      BY <1>3 DEF retry_deployment
    <2> HIDE DEF new
    <2> QED BY <1>0, <1>1, <2>1, <2>2, <2>3, Saved DEF EventNames
  <1>4. CASE rollback_deployment(h)
    <2> DEFINE new == [session[h].row EXCEPT !.status = "ROLLED_BACK",
                                             !.rolled_back_to_id = session[h].target]
    <2>1. At(h) \in WithRow \intersect WithJob /\ session[h].row \in Deployment /\ Advances(h, Job(h))
      BY <1>0, <1>4 DEF rollback_deployment, SessionOK, WithRow, WithJob, Advances
    <2>2. session[h].target \in Nat
      BY <1>0, <1>4 DEF rollback_deployment, SessionOK, Ids
    <2>3. new \in Deployment
      BY <2>1, <2>2 DEF Deployment, DeploymentStatus
    <2>4. Save(h, new, "rolled_back")
      BY <1>4 DEF rollback_deployment
    <2> HIDE DEF new
    <2> QED BY <1>0, <2>1, <2>3, <2>4, Saved DEF EventNames
  <1>5. CASE (\E i \in Ids : BeginRetry(h, i) \/ BeginRollback(h, i)) \/ Abandon(h) \/ ChangeStage(h)
    BY <1>1, <1>5 DEF BeginRetry, BeginRollback, Abandon, ChangeStage
  <1>6. CASE \E v \in Versions, e \in Environments, k \in Keys \union {NoKey}, fail \in BOOLEAN :
               BeginRequest(h, v, e, k, fail)
    BY <1>1, <1>6 DEF BeginRequest
  <1>7. CASE \E v \in Versions, target \in Stages : BeginStageChange(h, v, target)
    BY <1>1, <1>7 DEF BeginStageChange
  <1> QED BY <1>2, <1>3, <1>4, <1>5, <1>6, <1>7 DEF Handle

LEMMA WorkerRows ==
  ASSUME TypeOK, NEW w \in Workers, Work(w)
  PROVE  RowsFixed
  <1> USE DEF WorkerStep
  <1>0. /\ w \in Processes /\ SessionOK(w) /\ deployments \in Seq(Deployment)
        /\ \A i \in Ids : deployments[i] \in Deployment
    BY DEF TypeOK, Processes, Ids
  <1>1. CASE UNCHANGED deployments
    BY <1>1, Unwritten
  <1>2. CASE claim_one(w)
    <2> DEFINE i == Job(w)
               old == session[w].row
               new == [old EXCEPT !.status = "VALIDATING", !.worker_id = w,
                                  !.locked_at = "fresh", !.attempts = @ + 1]
               r == Flush(old, new, deployments[i])
    <2>1. i \in Ids /\ old \in Deployment
      BY <1>0, <1>2 DEF claim_one, SessionOK, WithJob, WithRow
    <2>2. new \in Deployment /\ new.status = "VALIDATING"
      <3> DEFINE n == old.attempts + 1
      <3>1. n \in Nat
        BY <2>1 DEF Deployment
      <3> HIDE DEF n
      <3>2. /\ [old EXCEPT !.status = "VALIDATING", !.worker_id = w, !.locked_at = "fresh",
                           !.attempts = n] \in Deployment
            /\ [old EXCEPT !.status = "VALIDATING", !.worker_id = w, !.locked_at = "fresh",
                           !.attempts = n].status = "VALIDATING"
        BY <2>1, <3>1 DEF Deployment, DeploymentStatus
      <3> QED BY <3>2 DEF n
    <2>3. deployments' = [deployments EXCEPT ![i] = r]
      BY <1>2 DEF claim_one
    <2> DEFINE cur == deployments[i]
    <2> HIDE DEF new, i
    <2>4. /\ r \in Deployment /\ r.version = cur.version /\ r.environment = cur.environment
          /\ r.status = Status(i) \/ Harmless(r.status)
      BY <1>0, <2>1, <2>2, Flushes DEF Harmless, Status
    <2>5. r.idempotency_key = cur.idempotency_key
      BY <1>0, <2>1 DEF Flush, Deployment
    <2> HIDE DEF r
    <2> QED BY <1>0, <2>1, <2>3, <2>4, <2>5, Replaced
  <1>3. CASE ValidationStarted(w)
    <2>1. /\ At(w) \in WithRow \intersect WithJob /\ session[w].row \in Deployment
          /\ Save(w, session[w].row, "validation_started")
      BY <1>0, <1>3 DEF ValidationStarted, SessionOK, WithRow, WithJob
    <2> QED BY <1>0, <2>1, Saved DEF EventNames
  <1>4. ASSUME NEW event \in {"approval_validation_failed", "runtime_timeout"}, _fail(w, event),
               At(w) \in {"decide", "finish"}
        PROVE RowsFixed
    <2> DEFINE new == [session[w].row EXCEPT !.status = "FAILED", !.error = event, !.locked_at = "null"]
    <2>1. At(w) \in WithRow \intersect WithJob /\ session[w].row \in Deployment
      BY <1>0, <1>4 DEF SessionOK, WithRow, WithJob
    <2>2. new \in Deployment /\ Harmless(new.status)
      BY <2>1 DEF Deployment, DeploymentStatus, Harmless
    <2>3. Save(w, new, event)
      BY <1>4 DEF _fail
    <2> HIDE DEF new
    <2> QED BY <1>0, <2>1, <2>2, <2>3, Saved DEF EventNames
  <1>5. CASE StartDeploy(w)
    <2> DEFINE new == [session[w].row EXCEPT !.status = "DEPLOYING"]
    <2>1. At(w) \in WithRow \intersect WithJob /\ session[w].row \in Deployment /\ Advances(w, Job(w))
      BY <1>0, <1>5 DEF StartDeploy, SessionOK, WithRow, WithJob, Advances
    <2>2. new \in Deployment
      BY <2>1 DEF Deployment, DeploymentStatus
    <2>3. UNCHANGED deployments \/ Save(w, new, "deployment_started")
      BY <1>5 DEF StartDeploy
    <2> HIDE DEF new
    <2> QED BY <1>0, <1>1, <2>1, <2>2, <2>3, Saved DEF EventNames
  <1>6. CASE CompleteDeploy(w)
    <2> DEFINE new == [session[w].row EXCEPT !.status = "SUCCEEDED", !.error = "null", !.locked_at = "null"]
    <2>1. At(w) \in WithRow \intersect WithJob /\ session[w].row \in Deployment /\ Advances(w, Job(w))
      BY <1>0, <1>6 DEF CompleteDeploy, SessionOK, WithRow, WithJob, Advances
    <2>2. new \in Deployment
      BY <2>1 DEF Deployment, DeploymentStatus
    <2>3. Save(w, new, "deployment_completed")
      BY <1>6 DEF CompleteDeploy
    <2> HIDE DEF new
    <2> QED BY <1>0, <2>1, <2>2, <2>3, Saved DEF EventNames
  <1>7. CASE reap_stuck(w)
    <2> DEFINE rows == session[w].rows
    <2>1. \A i \in DOMAIN rows : i \in Ids /\ rows[i] \in Deployment
      BY <1>0, <1>7 DEF reap_stuck, SessionOK
    <2>2. CASE deployments' = [i \in Ids |->
                 IF i \in DOMAIN rows
                 THEN record_event(Flush(rows[i], Reaped(rows[i]), deployments[i]),
                                   ReapEvent(rows[i]), Reaped(rows[i]))
                 ELSE deployments[i]]
      <3> DEFINE r(i) == record_event(Flush(rows[i], Reaped(rows[i]), deployments[i]),
                                      ReapEvent(rows[i]), Reaped(rows[i]))
      <3>1. Ids' = Ids
        BY <2>2 DEF Ids
      <3>2. ASSUME NEW i \in DOMAIN rows PROVE RowFixed(i)
        <4>1. deployments'[i] = r(i)
          BY <2>1, <2>2, <3>2
        <4>2. rows[i] \in Deployment /\ deployments[i] \in Deployment
          BY <1>0, <2>1, <3>2
        <4>3. /\ r(i).version = deployments[i].version /\ r(i).environment = deployments[i].environment
              /\ r(i).idempotency_key = deployments[i].idempotency_key
              /\ r(i).status = Status(i) \/ Harmless(r(i).status)
          BY <4>2, ReapedRow DEF Status
        <4> HIDE DEF r
        <4> QED BY <4>1, <4>3 DEF RowFixed, Same, Status
      <3>3. ASSUME NEW i \in Ids, i \notin DOMAIN rows PROVE RowFixed(i)
        BY <2>2, <3>3 DEF RowFixed, Same, Status
      <3> QED BY <3>1, <3>2, <3>3 DEF RowsFixed
    <2> QED BY <1>1, <1>7, <2>2 DEF reap_stuck
  <1>8. CASE RejectVersion(w) \/ FailDeploy(w)
    BY <1>4, <1>8 DEF RejectVersion, FailDeploy
  <1>9. CASE BeginClaim(w) \/ ReadVersion(w) \/ EndDeploy(w) \/ DrainEmpty(w) \/ SkipReap(w) \/ BeginReap(w)
    BY <1>1, <1>9 DEF BeginClaim, ReadVersion, EndDeploy, DrainEmpty, SkipReap, BeginReap
  <1> QED BY <1>2, <1>3, <1>5, <1>6, <1>7, <1>8, <1>9 DEF Work, Execute

LEMMA StepRows ==
  ASSUME TypeOK, [Next]_vars
  PROVE  RowsFixed \/ RowAdded
  <1>1. CASE UNCHANGED deployments
    BY <1>1, Unwritten
  <1>2. ASSUME NEW i \in Ids, Expire(i) PROVE RowsFixed
    <2> DEFINE r == [deployments[i] EXCEPT !.locked_at = "stale"]
    <2>1. deployments \in Seq(Deployment) /\ deployments[i] \in Deployment
      BY DEF TypeOK, Ids
    <2>2. /\ r \in Deployment /\ r.version = deployments[i].version
          /\ r.environment = deployments[i].environment /\ r.status = Status(i)
          /\ r.idempotency_key = deployments[i].idempotency_key
      BY <2>1 DEF Deployment, Status
    <2>3. deployments' = [deployments EXCEPT ![i] = r]
      BY <1>2 DEF Expire
    <2> HIDE DEF r
    <2> QED BY <2>1, <2>2, <2>3, Replaced
  <1>3. CASE \E w \in Workers : Crash(w) \/ Restart(w)
    BY <1>1, <1>3 DEF Crash, Restart
  <1>4. CASE UNCHANGED vars
    BY <1>1, <1>4 DEF vars
  <1> QED BY <1>2, <1>3, <1>4, HandlerRows, WorkerRows DEF Next

-----------------------------------------------------------------------------
(* One row per key                                                            *)

LEMMA KeyInit == Init => OnePerKey
  <1> SUFFICES ASSUME Init, NEW i \in Ids PROVE deployments[i].idempotency_key = NoKey
    BY DEF OnePerKey
  <1>1. i \in DOMAIN Seeded /\ deployments[i] = _make_deployment(Seeded[i])
    BY DEF Init, Ids
  <1> QED BY <1>1 DEF _make_deployment, record_event, NewDeployment

LEMMA KeyStep == TypeOK /\ OnePerKey /\ [Next]_vars => OnePerKey'
  <1> SUFFICES ASSUME TypeOK, OnePerKey, [Next]_vars PROVE OnePerKey'
    OBVIOUS
  <1>1. CASE RowsFixed
    BY <1>1 DEF RowsFixed, RowFixed, Same, OnePerKey
  <1>2. CASE RowAdded
    <2>1. PICK h \in Handlers :
            /\ ~KeyTaken(session[h].row.idempotency_key)
            /\ Ids' = Ids \union {Len(deployments) + 1}
            /\ deployments'[Len(deployments) + 1] = session[h].row
            /\ \A i \in Ids : deployments'[i] = deployments[i]
      BY <1>2 DEF RowAdded
    <2> DEFINE n == Len(deployments) + 1
    <2> HIDE DEF n
    <2>2. \A i \in Ids : deployments'[i].idempotency_key = deployments[i].idempotency_key
      BY <2>1
    <2>3. \A i \in Ids : deployments'[i].idempotency_key # NoKey =>
            deployments'[i].idempotency_key # deployments'[n].idempotency_key
      BY <2>1, <2>2 DEF KeyTaken, n
    <2>4. Ids' = Ids \union {n}
      BY <2>1 DEF n
    <2> QED BY <2>2, <2>3, <2>4 DEF OnePerKey
  <1> QED BY <1>1, <1>2, StepRows

\* ADR-0008: requests that carry one idempotency key make one deployment, however
\* many of them looked the key up before the first of them inserted its row.
THEOREM KeysUnique == Spec => []OnePerKey
  <1> QED BY KeyInit, KeyStep, TypeInit, TypeStep, PTL DEF Spec

-----------------------------------------------------------------------------
(* The stage gate over time                                                   *)

\* The trail keeps what the stage has been: it names the current stage too.
TrailCurrent == \A v \in Versions : stage[v] \in trail[v]

\* What a process has read of the stage may be old, but not wrong: the row it is
\* about to insert, to deploy, to complete or to roll back was promoted once.
Cleared(p) ==
  /\ At(p) = "insert" => Promoted(session[p].row)
  /\ At(p) \in {"rollback", "deploy", "finish"} => Promoted(deployments[Job(p)])
  /\ At(p) = "decide" /\ session[p].deployable => Promoted(deployments[Job(p)])

PromotedInv == OnlyPromoted /\ TrailCurrent /\ \A p \in Processes : Cleared(p)

LEMMA PromotedInit == Init => PromotedInv
  <1> SUFFICES ASSUME Init PROVE PromotedInv
    OBVIOUS
  <1>1. ASSUME NEW i \in Ids, Status(i) \in {"DEPLOYING", "SUCCEEDED", "ROLLED_BACK"}
        PROVE  Promoted(deployments[i])
    <2>1. i \in DOMAIN Seeded /\ deployments[i] = _make_deployment(Seeded[i])
      BY DEF Init, Ids
    <2>2. /\ deployments[i].version = Seeded[i].version
          /\ deployments[i].environment = Seeded[i].environment
          /\ Status(i) = IF Seeded[i].error = "null" THEN "SUCCEEDED" ELSE "FAILED"
      BY <2>1 DEF _make_deployment, record_event, NewDeployment, Status
    <2>3. Seeded[i].version \in Versions
      <3> DEFINE S == [version : Versions, environment : Environments,
                       error : {"null", "approval_validation_failed", "runtime_timeout"}]
      <3>1. Seeded \in Seq(S)
        BY SeedAssumption
      <3> HIDE DEF S
      <3>2. Seeded[i] \in S
        BY <2>1, <3>1
      <3> QED BY <3>2 DEF S
    <2>4. trail[Seeded[i].version] = Led(InitStage[Seeded[i].version])
      BY <2>3 DEF Init
    <2> QED BY <1>1, <2>1, <2>2, <2>4, SuccessAssumption DEF Promoted
  <1>2. \A i \in Ids : ~(i > Len(Seeded))
    BY SeedAssumption DEF Init, Ids
  <1>3. \A p \in Processes : At(p) \in {"drain", "idle"}
    BY DEF Init, At
  <1>4. TrailCurrent
    BY LedStages, StageAssumption DEF Init, TrailCurrent
  <1> QED BY <1>1, <1>2, <1>3, <1>4 DEF PromotedInv, OnlyPromoted, Cleared

\* Only a commit of ChangeStage touches the versions, and it only adds to a trail.
LEMMA RegistrySteps ==
  ASSUME [Next]_vars
  PROVE  UNCHANGED <<stage, trail>> \/ \E h \in Handlers : ChangeStage(h)
  <1>1. ASSUME NEW h \in Handlers, Handle(h) PROVE UNCHANGED <<stage, trail>> \/ ChangeStage(h)
    BY <1>1 DEF Handle, HandlerStep, BeginRequest, BeginRetry, BeginRollback, BeginStageChange,
                request_deployment, retry_deployment, rollback_deployment, Abandon, registry
  <1>2. ASSUME NEW w \in Workers, Work(w) \/ Crash(w) \/ Restart(w) PROVE UNCHANGED <<stage, trail>>
    BY <1>2 DEF Work, WorkerStep, BeginClaim, claim_one, Execute, ValidationStarted, ReadVersion,
                RejectVersion, StartDeploy, EndDeploy, FailDeploy, CompleteDeploy, DrainEmpty,
                SkipReap, BeginReap, reap_stuck, Crash, Restart, registry
  <1> QED BY <1>1, <1>2 DEF Next, Expire, vars, registry

LEMMA TrailsGrow ==
  ASSUME TypeOK, [Next]_vars
  PROVE  /\ \A v \in Versions : trail[v] \subseteq trail'[v]
         /\ TrailCurrent => TrailCurrent'
  <1>1. CASE UNCHANGED <<stage, trail>>
    BY <1>1 DEF TrailCurrent
  <1>2. ASSUME NEW h \in Handlers, ChangeStage(h)
        PROVE  /\ \A v \in Versions : trail[v] \subseteq trail'[v]
               /\ TrailCurrent => TrailCurrent'
    <2> DEFINE u == session[h].version
               target == session[h].target
    <2>1. /\ stage' = [stage EXCEPT ![u] = target]
          /\ trail' = [trail EXCEPT ![u] = @ \union {target}]
      BY <1>2 DEF ChangeStage
    <2> HIDE DEF u, target
    <2>2. \A v \in Versions : /\ trail'[v] = IF v = u THEN trail[v] \union {target} ELSE trail[v]
                             /\ stage'[v] = IF v = u THEN target ELSE stage[v]
      BY <2>1 DEF TypeOK
    <2> QED BY <2>2 DEF TrailCurrent
  <1> QED BY <1>1, <1>2, RegistrySteps

LEMMA StaysPromoted ==
  ASSUME TypeOK, [Next]_vars, NEW v \in Versions, NEW S, trail[v] \intersect S # {}
  PROVE  trail'[v] \intersect S # {}
  BY TrailsGrow

\* So a promoted row of the table stays one.
LEMMA RowStays ==
  ASSUME TypeOK, [Next]_vars, NEW i \in Ids, Promoted(deployments[i])
  PROVE  Promoted(deployments[i])'
  <1> DEFINE r == deployments[i]
  <1>1. r.version \in Versions /\ r.environment \in Environments
    <2>1. r \in Deployment
      BY DEF TypeOK, Ids
    <2> QED BY <2>1 DEF Deployment
  <1>2. deployments'[i].version = r.version /\ deployments'[i].environment = r.environment
    BY StepRows DEF RowsFixed, RowFixed, RowAdded, Same
  <1>3. trail'[r.version] \intersect DEPLOYABLE_STAGES[r.environment] # {}
    BY <1>1, StaysPromoted DEF Promoted
  <1> QED BY <1>2, <1>3 DEF Promoted

\* A process that a step leaves alone stays cleared.
LEMMA OthersCleared ==
  ASSUME TypeOK, [Next]_vars, NEW p \in Processes, Cleared(p), session'[p] = session[p]
  PROVE  Cleared(p)'
  <1>1. At(p)' = At(p) /\ Job(p)' = Job(p)
    BY DEF At, Job
  <1>2. At(p) = "insert" => Promoted(session[p].row)'
    <2>1. SUFFICES ASSUME At(p) = "insert" PROVE Promoted(session[p].row)'
      OBVIOUS
    <2>2. session[p].row.version \in Versions /\ session[p].row.environment \in Environments
      BY <2>1 DEF TypeOK, SessionOK, WithRow, Deployment
    <2> QED BY <2>1, <2>2, StaysPromoted DEF Cleared, Promoted
  <1>3. ASSUME At(p) \in {"rollback", "deploy", "finish", "decide"}, Promoted(deployments[Job(p)])
        PROVE  Promoted(deployments[Job(p)])'
    <2>1. Job(p) \in Ids
      BY <1>3 DEF TypeOK, SessionOK, WithJob
    <2> DEFINE i == Job(p)
    <2>2. i' = i
      BY <1>1
    <2> HIDE DEF i
    <2>3. Promoted(deployments[i])
      BY <1>3 DEF i
    <2>4. \A j \in Ids : Promoted(deployments[j]) => Promoted(deployments[j])'
      BY RowStays
    <2> QED BY <2>1, <2>2, <2>3, <2>4 DEF i, Promoted
  <1> QED BY <1>1, <1>2, <1>3 DEF Cleared

\* The process that takes the step is cleared by what it reads, or was before.
LEMMA HandlerCleared ==
  ASSUME TypeOK, PromotedInv, NEW h \in Handlers, Handle(h)
  PROVE  Cleared(h)'
  <1>0. h \in Processes /\ session = [p \in Processes |-> session[p]]
    BY DEF TypeOK, Processes
  <1>1. ASSUME NEW v \in Versions, NEW e \in Environments, NEW k \in Keys \union {NoKey},
               NEW fail \in BOOLEAN, BeginRequest(h, v, e, k, fail)
        PROVE  Cleared(h)'
    <2> DEFINE new == NewDeployment(v, e, k, fail)
    <2>1. session'[h] = [at |-> "insert", row |-> new] /\ trail' = trail
      BY <1>0, <1>1 DEF BeginRequest, HandlerStep, Enter, registry
    <2>2. /\ new.version = v /\ new.environment = e
          /\ stage[v] \in trail[v] /\ stage[v] \in DEPLOYABLE_STAGES[e]
      BY <1>1 DEF NewDeployment, BeginRequest, is_deployable, PromotedInv, TrailCurrent
    <2> HIDE DEF new
    <2> QED BY <2>1, <2>2 DEF Cleared, Promoted, At
  <1>2. ASSUME NEW i \in Ids, BeginRollback(h, i) PROVE Cleared(h)'
    <2>1. PICK t : session'[h] = [at |-> "rollback", job |-> i, row |-> deployments[i], target |-> t]
      BY <1>0, <1>2 DEF BeginRollback, Enter
    <2>2. Promoted(deployments[i]) /\ trail' = trail /\ deployments' = deployments
      BY <1>2 DEF BeginRollback, HandlerStep, PromotedInv, OnlyPromoted, registry
    <2> QED BY <2>1, <2>2 DEF Cleared, Promoted, At, Job
  <1>3. ASSUME NEW i \in Ids, BeginRetry(h, i) PROVE Cleared(h)'
    <2>1. session'[h].at = "retry"
      BY <1>0, <1>3 DEF BeginRetry, Enter
    <2> QED BY <2>1 DEF Cleared, At
  <1>4. CASE Enter(h, [at |-> "idle"])
    <2>1. session'[h].at = "idle"
      BY <1>0, <1>4 DEF Enter
    <2> QED BY <2>1 DEF Cleared, At
  <1>5. ASSUME NEW v \in Versions, NEW target \in Stages, BeginStageChange(h, v, target)
        PROVE  Cleared(h)'
    <2>1. session'[h].at = "promote"
      BY <1>0, <1>5 DEF BeginStageChange, Enter
    <2> QED BY <2>1 DEF Cleared, At
  <1> QED BY <1>1, <1>2, <1>3, <1>4, <1>5
      DEF Handle, request_deployment, retry_deployment, rollback_deployment, Abandon, ChangeStage

LEMMA WorkerCleared ==
  ASSUME TypeOK, PromotedInv, NEW w \in Workers, Work(w), [Next]_vars
  PROVE  Cleared(w)'
  <1>0. /\ w \in Processes /\ session = [p \in Processes |-> session[p]] /\ SessionOK(w)
        /\ Cleared(w)
    BY DEF TypeOK, Processes, PromotedInv
  <1>1. ASSUME session'[w].at \notin {"insert", "rollback", "decide", "deploy", "finish"}
        PROVE  Cleared(w)'
    BY <1>1 DEF Cleared, At
  \* From here on the job of w is a promoted row.
  <1>2. ASSUME At(w) \in WithJob, Promoted(deployments[Job(w)]), NEW at \in {"deploy", "finish"},
               session'[w].at = at, session'[w].job = Job(w)
        PROVE  Cleared(w)'
    <2>1. Job(w) \in Ids
      BY <1>0, <1>2 DEF SessionOK
    <2> DEFINE i == Job(w)
    <2>2. Promoted(deployments[i])'
      <3>1. \A j \in Ids : Promoted(deployments[j]) => Promoted(deployments[j])'
        BY RowStays
      <3>2. i' = i
        BY <1>2 DEF Job
      <3> HIDE DEF i
      <3>3. Promoted(deployments[i]) /\ i \in Ids
        BY <1>2, <2>1 DEF i
      <3> QED BY <3>1, <3>2, <3>3 DEF Promoted
    <2> QED BY <1>2, <2>2 DEF Cleared, At
  <1>3. CASE ReadVersion(w)
    <2> DEFINE i == Job(w)
               row == deployments[i]
               d == is_deployable(stage[row.version], row.environment)
    <2>1. /\ session'[w] = [at |-> "decide", job |-> i, row |-> row, deployable |-> d]
          /\ trail' = trail /\ deployments' = deployments
      BY <1>0, <1>3 DEF ReadVersion, WorkerStep, Enter, registry
    <2>2. d => Promoted(row)
      <3>1. i \in Ids
        BY <1>0, <1>3 DEF ReadVersion, WorkerStep, SessionOK, WithJob
      <3>2. row \in Deployment
        BY <3>1 DEF TypeOK, Ids
      <3>3. row.version \in Versions
        BY <3>2 DEF Deployment
      <3> HIDE DEF row
      <3> QED BY <3>3 DEF is_deployable, Promoted, PromotedInv, TrailCurrent
    <2> HIDE DEF d
    <2>3. At(w)' = "decide" /\ Job(w)' = i /\ session'[w].deployable = d
      BY <2>1 DEF At, Job
    <2> QED BY <2>1, <2>2, <2>3 DEF Cleared, Promoted
  <1>4. CASE StartDeploy(w)
    <2>1. Promoted(deployments[Job(w)]) /\ At(w) \in WithJob
      BY <1>0, <1>4 DEF StartDeploy, WorkerStep, Cleared, WithJob
    <2>2. CASE Enter(w, [at |-> "aborted"])
      <3>1. session'[w].at = "aborted"
        BY <1>0, <2>2 DEF Enter
      <3> QED BY <1>1, <3>1
    <2>3. CASE Enter(w, [at |-> "deploy", job |-> Job(w)])
      <3>1. session'[w].at = "deploy" /\ session'[w].job = Job(w)
        BY <1>0, <2>3 DEF Enter
      <3> QED BY <1>2, <2>1, <3>1
    <2> QED BY <1>4, <2>2, <2>3 DEF StartDeploy
  <1>5. CASE EndDeploy(w)
    <2>1. Promoted(deployments[Job(w)]) /\ At(w) \in WithJob
      BY <1>0, <1>5 DEF EndDeploy, WorkerStep, Cleared, WithJob
    <2>2. session'[w].at = "finish" /\ session'[w].job = Job(w)
      BY <1>0, <1>5 DEF EndDeploy, Enter
    <2> QED BY <1>2, <2>1, <2>2
  <1>6. CASE BeginClaim(w) \/ claim_one(w) \/ ValidationStarted(w)
    <2>1. session'[w].at \in {"claim", "claimed", "validate"}
      BY <1>0, <1>6 DEF BeginClaim, claim_one, ValidationStarted, Enter
    <2> QED BY <1>1, <2>1
  <1>7. CASE RejectVersion(w) \/ FailDeploy(w) \/ CompleteDeploy(w)
    <2>1. session'[w].at = "drain"
      BY <1>0, <1>7 DEF RejectVersion, FailDeploy, CompleteDeploy, _fail, Enter
    <2> QED BY <1>1, <2>1
  <1>8. CASE DrainEmpty(w) \/ SkipReap(w) \/ BeginReap(w) \/ reap_stuck(w)
    <2>1. session'[w].at \in {"drain", "drained", "reap", "aborted"}
      BY <1>0, <1>8 DEF DrainEmpty, SkipReap, BeginReap, reap_stuck, Enter
    <2> QED BY <1>1, <2>1
  <1> QED BY <1>3, <1>4, <1>5, <1>6, <1>7, <1>8 DEF Work, Execute

\* Only the session of the process that takes the step changes.
LEMMA OneSession ==
  ASSUME TypeOK, [Next]_vars
  PROVE  \/ session' = session
         \/ \E h \in Handlers : Handle(h) /\ \A q \in Processes \ {h} : session'[q] = session[q]
         \/ \E w \in Workers : /\ Work(w) \/ Crash(w) \/ Restart(w)
                               /\ \A q \in Processes \ {w} : session'[q] = session[q]
  <1>0. \A p, q \in Processes : \A s : Enter(p, s) /\ q # p => session'[q] = session[q]
    BY DEF TypeOK, Enter
  <1>1. ASSUME NEW h \in Handlers, Handle(h)
        PROVE  \A q \in Processes \ {h} : session'[q] = session[q]
    <2>1. \E s : Enter(h, s)
      BY <1>1 DEF Handle, BeginRequest, BeginRetry, BeginRollback, BeginStageChange,
                  request_deployment, retry_deployment, rollback_deployment, ChangeStage, Abandon
    <2> QED BY <1>0, <2>1 DEF Processes
  <1>2. ASSUME NEW w \in Workers, Work(w) \/ Crash(w) \/ Restart(w)
        PROVE  \A q \in Processes \ {w} : session'[q] = session[q]
    <2>1. \E s : Enter(w, s)
      <3>1. CASE Execute(w)
        BY <3>1 DEF Execute, ValidationStarted, ReadVersion, RejectVersion, StartDeploy, EndDeploy,
                    FailDeploy, CompleteDeploy, _fail
      <3>2. CASE ~Execute(w)
        BY <1>2, <3>2 DEF Work, BeginClaim, claim_one, DrainEmpty, SkipReap, BeginReap, reap_stuck,
                          Crash, Restart
      <3> QED BY <3>1, <3>2
    <2> QED BY <1>0, <2>1 DEF Processes
  <1>3. ASSUME ~ (\E h \in Handlers : Handle(h)), ~ (\E w \in Workers : Work(w) \/ Crash(w) \/ Restart(w))
        PROVE  session' = session
    BY <1>3 DEF Next, Expire, vars
  <1> QED BY <1>1, <1>2, <1>3

LEMMA PromotedStep == TypeOK /\ PromotedInv /\ [Next]_vars => PromotedInv'
  <1> SUFFICES ASSUME TypeOK, PromotedInv, [Next]_vars PROVE PromotedInv'
    OBVIOUS
  <1>1. OnlyPromoted'
    <2> SUFFICES ASSUME NEW i \in Ids',
                        i > Len(Seeded) \/ Status(i)' \in {"DEPLOYING", "SUCCEEDED", "ROLLED_BACK"}
                 PROVE  Promoted(deployments[i])'
      BY DEF OnlyPromoted
    <2>1. CASE i \in Ids
      <3>1. CASE i > Len(Seeded)
        BY <2>1, <3>1, RowStays DEF PromotedInv, OnlyPromoted
      <3>2. CASE Status(i)' \in {"DEPLOYING", "SUCCEEDED", "ROLLED_BACK"}
        <4>1. ~Harmless(Status(i)')
          BY <3>2 DEF Harmless
        <4>2. CASE Status(i)' = Status(i)
          BY <2>1, <3>2, <4>2, RowStays DEF PromotedInv, OnlyPromoted
        <4>3. ASSUME NEW p \in Processes, Advances(p, i) PROVE Promoted(deployments[i])'
          <5>1. Promoted(deployments[i])
            BY <4>3 DEF Advances, PromotedInv, Cleared
          <5> QED BY <2>1, <5>1, RowStays
        <4>4. RowAdded => Status(i)' = Status(i)
          BY <2>1 DEF RowAdded, Status
        <4>5. RowsFixed => RowFixed(i)
          BY <2>1 DEF RowsFixed
        <4> QED BY <4>1, <4>2, <4>3, <4>4, <4>5, StepRows DEF RowFixed
      <3> QED BY <3>1, <3>2
    <2>2. CASE i \notin Ids
      <3>1. PICK h \in Handlers : /\ At(h) = "insert"
                                  /\ Ids' = Ids \union {Len(deployments) + 1}
                                  /\ deployments'[Len(deployments) + 1] = session[h].row
        BY <2>2, StepRows DEF RowsFixed, RowAdded
      <3> DEFINE r == session[h].row
      <3>2. deployments'[i] = r /\ h \in Processes
        BY <2>2, <3>1 DEF Processes
      <3>3. r.version \in Versions /\ r.environment \in Environments
        BY <3>1, <3>2 DEF TypeOK, SessionOK, WithRow, Deployment
      <3>4. trail[r.version] \intersect DEPLOYABLE_STAGES[r.environment] # {}
        BY <3>1, <3>2 DEF PromotedInv, Cleared, Promoted
      <3>5. trail'[r.version] \intersect DEPLOYABLE_STAGES[r.environment] # {}
        BY <3>3, <3>4, StaysPromoted
      <3> HIDE DEF r
      <3> QED BY <3>2, <3>5 DEF Promoted
    <2> QED BY <2>1, <2>2
  <1>2. ASSUME NEW p \in Processes PROVE Cleared(p)'
    <2>1. CASE session'[p] = session[p]
      BY <2>1, OthersCleared DEF PromotedInv
    <2>2. CASE \E h \in Handlers : p = h /\ Handle(h)
      BY <2>2, HandlerCleared
    <2>3. CASE \E w \in Workers : p = w /\ Work(w)
      BY <2>3, WorkerCleared
    <2>4. CASE \E w \in Workers : p = w /\ (Crash(w) \/ Restart(w))
      <3>1. session'[p].at \in {"down", "drain"}
        BY <2>4 DEF Crash, Restart, Enter, TypeOK
      <3> QED BY <3>1 DEF Cleared, At
    <2> QED BY <2>1, <2>2, <2>3, <2>4, OneSession
  <1>3. TrailCurrent'
    BY TrailsGrow DEF PromotedInv
  <1> QED BY <1>1, <1>2, <1>3 DEF PromotedInv

\* The stage gate (ADR-0009), whatever stage changes race with the queue and with
\* each other, lost updates included: no worker deploys, and no row the API took is
\* of, a version whose trail names no stage that allows the environment.
THEOREM GateOverTime == Spec => []OnlyPromoted
  <1>1. PromotedInv => OnlyPromoted
    BY DEF PromotedInv
  <1> QED BY <1>1, PromotedInit, PromotedStep, TypeInit, TypeStep, PTL DEF Spec
=============================================================================
