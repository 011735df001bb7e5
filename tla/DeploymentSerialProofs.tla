----------------------- MODULE DeploymentSerialProofs -----------------------
(* The queue as it is documented to run: no worker outlasts its visibility    *)
(* timeout, reapers do not race each other, retries do not race each other.   *)
(* Then what a process has loaded of a row it is going to write is still      *)
(* there when it commits, and every commit is an atomic step of the contract. *)
EXTENDS DeploymentQueueProofs

------------------------------------------------------------------------------
\* The inductive invariant

\* One worker may crash and reap, or several may work while none crashes; one
\* handler may retry, or several may serve while nobody retries what has run.
Serial ==
  /\ ~WorkersMayStall
  /\ MaxCrashes = 0 \/ \A v, w \in Workers : v = w
  /\ RetryBound \in {0, 1} \/ \A g, h \in Handlers : g = h

\* A row between two commits: its columns and its last event tell one story.
RowOK(r) ==
  /\ r.locked_at = "fresh" => r.status \in STUCK_STATES
  /\ r.status \in STUCK_STATES => r.locked_at # "null"
  /\ r.status = "FAILED" <=> r.error # "null"
  /\ r.status \in STUCK_STATES \union {"FAILED"} => r.attempts > 0
  /\ r.last.status = r.status \/ (r.status = "VALIDATING" /\ r.last.status = "REQUESTED")

HandlerPoints == {"idle", "insert", "retry", "rollback", "promote"}
ExecutionPoints == {"claimed", "validate", "decide", "deploy", "finish"}

\* The process p is going to write the row i, and relies on what it knows of it.
Holds(p, i) ==
  \/ At(p) \in ExecutionPoints \union {"retry", "claim"} /\ Job(p) = i
  \/ At(p) = "reap" /\ i \in DOMAIN session[p].rows

\* What p has loaded of the row is what the table has.
Fresh(p) ==
  At(p) \in {"retry", "claim", "claimed", "decide", "finish"} =>
    session[p].row = deployments[Job(p)]

\* The row is as the process that holds it left or found it.
Held(p) ==
  /\ At(p) = "retry" => Status(Job(p)) = "FAILED"
  /\ At(p) = "claim" => Status(Job(p)) = "REQUESTED"
  /\ At(p) \in {"claimed", "validate", "decide"} => Status(Job(p)) = "VALIDATING"
  /\ At(p) \in {"deploy", "finish"} => Status(Job(p)) = "DEPLOYING"
  /\ At(p) \in ExecutionPoints => /\ deployments[Job(p)].worker_id = p
                                  /\ deployments[Job(p)].locked_at = "fresh"

\* A rollback holds nothing: other rollbacks may overtake it, but nothing else.
RollbackOK(p) ==
  At(p) = "rollback" => /\ session[p].row.status = "SUCCEEDED"
                        /\ Status(Job(p)) \in {"SUCCEEDED", "ROLLED_BACK"}

\* A row that is going to be inserted.
InsertOK(p) ==
  At(p) = "insert" => LET r == session[p].row IN
                      /\ RowOK(r) /\ r.status = "REQUESTED" /\ r.locked_at = "null"
                      /\ r.rolled_back_to_id = 0

ReapFresh(p) ==
  At(p) = "reap" => LET rows == session[p].rows IN
                    \A i \in DOMAIN rows : /\ rows[i] = deployments[i]
                                           /\ Status(i) \in STUCK_STATES
                                           /\ deployments[i].locked_at = "stale"

\* Handlers serve requests, workers work, and none of them has aborted.
PlaceOK(p) ==
  /\ p \in Handlers => At(p) \in HandlerPoints
  /\ p \in Workers => At(p) \notin HandlerPoints \union {"aborted"}
  /\ At(p) = "retry" => RetryBound \notin {0, 1}

ProcessOK(p) ==
  Fresh(p) /\ Held(p) /\ RollbackOK(p) /\ InsertOK(p) /\ ReapFresh(p) /\ PlaceOK(p)

RowsOK == \A i \in Ids : RowOK(deployments[i])

OneHolder == \A p, q \in Processes : \A i \in Ids : Holds(p, i) /\ Holds(q, i) => p = q

\* Where no worker crashes, a locked row is being executed.
Attended(i) ==
  MaxCrashes = 0 =>
    /\ deployments[i].locked_at # "stale"
    /\ deployments[i].locked_at = "fresh" => \E w \in Workers : Executing(w, i)

SerialInv ==
  /\ RowsOK
  /\ \A p \in Processes : ProcessOK(p)
  /\ OneHolder
  /\ \A i \in Ids : Attended(i)

\* Whatever rollbacks are under way, the slot of each has an older success left.
StrandOK(p) ==
  At(p) = "rollback" =>
    \E j \in Ids : /\ j < Job(p) /\ Status(j) = "SUCCEEDED"
                   /\ SameSlot(deployments[j], deployments[Job(p)])
Unstranded == \A p \in Processes : StrandOK(p)

\* One rollback at a time finds its row and its target as it read them.
TargetOK(p) ==
  At(p) = "rollback" =>
    /\ session[p].row = deployments[Job(p)] /\ Status(Job(p)) = "SUCCEEDED"
    /\ session[p].target \in RollbackTargets(Job(p))
TargetsOK == \A p \in Processes : TargetOK(p)

------------------------------------------------------------------------------
\* What a commit makes of a row

\* The columns an UPDATE never writes, and the event log, which it does not touch.
Unwritable(r) == <<r.version, r.environment, r.idempotency_key, r.simulate_failure, r.last>>

\* A commit over what is still in the table writes the row it computed.
LEMMA FlushFresh ==
  ASSUME NEW old \in Deployment, NEW new \in Deployment, Unwritable(new) = Unwritable(old)
  PROVE  Flush(old, new, old) = new
  <1> DEFINE f == Flush(old, new, old)
  <1>1. f = [old EXCEPT !.status = new.status, !.worker_id = new.worker_id,
                        !.locked_at = new.locked_at, !.attempts = new.attempts,
                        !.error = new.error, !.rolled_back_to_id = new.rolled_back_to_id]
    <2>1. ASSUME NEW a, NEW b PROVE Net(a, b, a) = b
      BY DEF Net
    <2> QED BY <2>1 DEF Flush
  <1>2. f \in Deployment
    BY Flushes
  <1> HIDE DEF f
  <1>3. /\ f.status = new.status /\ f.worker_id = new.worker_id
        /\ f.locked_at = new.locked_at /\ f.attempts = new.attempts
        /\ f.error = new.error /\ f.rolled_back_to_id = new.rolled_back_to_id
    BY <1>1 DEF Deployment
  <1>4. /\ f.version = old.version /\ f.environment = old.environment
        /\ f.idempotency_key = old.idempotency_key
        /\ f.simulate_failure = old.simulate_failure /\ f.last = old.last
    BY <1>1 DEF Deployment
  <1>5. /\ new.version = old.version /\ new.environment = old.environment
        /\ new.idempotency_key = old.idempotency_key
        /\ new.simulate_failure = old.simulate_failure /\ new.last = old.last
    BY DEF Unwritable
  <1>6. ASSUME NEW d \in Deployment
        PROVE  d = [version |-> d.version, environment |-> d.environment,
                    idempotency_key |-> d.idempotency_key, simulate_failure |-> d.simulate_failure,
                    status |-> d.status, worker_id |-> d.worker_id, locked_at |-> d.locked_at,
                    attempts |-> d.attempts, error |-> d.error,
                    rolled_back_to_id |-> d.rolled_back_to_id, last |-> d.last]
    BY DEF Deployment
  <1>7. f = new
    BY <1>2, <1>3, <1>4, <1>5, <1>6
  <1> QED BY <1>7 DEF f

\* The row i gets the new value r, which the contract allows to differ only in
\* status; the others stay.
Updates(i, r) ==
  /\ r \in Deployment /\ RowOK(r)
  /\ Ids' = Ids /\ deployments'[i] = r
  /\ \A j \in Ids \ {i} : deployments'[j] = deployments[j]
  /\ r.version = deployments[i].version /\ r.environment = deployments[i].environment

\* The new value of the row and its event.
LEMMA RecordedRow ==
  ASSUME NEW new \in Deployment, NEW event \in EventNames
  PROVE  /\ record_event(new, event, new) \in Deployment
         /\ record_event(new, event, new).version = new.version
         /\ record_event(new, event, new).environment = new.environment
         /\ record_event(new, event, new).status = new.status
         /\ record_event(new, event, new).worker_id = new.worker_id
         /\ record_event(new, event, new).locked_at = new.locked_at
         /\ record_event(new, event, new).attempts = new.attempts
         /\ record_event(new, event, new).error = new.error
         /\ record_event(new, event, new).rolled_back_to_id = new.rolled_back_to_id
         /\ record_event(new, event, new).last.status = new.status
  BY DEF Deployment, record_event

\* Columns that are the same in the new row and in what the session computed.
Columns(r, new) ==
  /\ r.status = new.status /\ r.worker_id = new.worker_id /\ r.locked_at = new.locked_at
  /\ r.attempts = new.attempts /\ r.error = new.error
  /\ r.rolled_back_to_id = new.rolled_back_to_id /\ r.last.status = new.status

\* So it does in p's session, if p knows the row.
LEMMA SaveFresh ==
  ASSUME TypeOK, NEW p \in Processes, At(p) \in WithRow \intersect WithJob,
         session[p].row = deployments[Job(p)],
         NEW new \in Deployment, Unwritable(new) = Unwritable(session[p].row),
         NEW event \in EventNames, Save(p, new, event),
         new.locked_at = "fresh" => new.status \in STUCK_STATES,
         new.status \in STUCK_STATES => new.locked_at # "null",
         new.status = "FAILED" <=> new.error # "null",
         new.status \in STUCK_STATES \union {"FAILED"} => new.attempts > 0
  PROVE  \E r : Updates(Job(p), r) /\ Columns(r, new)
  <1> DEFINE i == Job(p)
             cur == deployments[i]
             r == record_event(new, event, new)
  <1>1. i \in Ids /\ cur \in Deployment /\ deployments \in Seq(Deployment)
    BY DEF TypeOK, SessionOK, Ids
  <1>2. deployments' = [deployments EXCEPT ![i] = record_event(Flush(cur, new, cur), event, new)]
    BY DEF Save
  <1>3. Flush(cur, new, cur) = new
    <2> HIDE DEF cur
    <2> QED BY <1>1, FlushFresh DEF cur
  <1>4. deployments' = [deployments EXCEPT ![i] = r]
    BY <1>2, <1>3
  <1>5. r \in Deployment /\ r.version = new.version /\ r.environment = new.environment
        /\ Columns(r, new)
    <2> HIDE DEF r
    <2> QED BY RecordedRow DEF Columns, r
  <1>6. new.version = cur.version /\ new.environment = cur.environment
    BY DEF Unwritable
  <1> HIDE DEF r, i
  <1>7. RowOK(r)
    BY <1>5 DEF RowOK, Columns
  <1> QED BY <1>1, <1>4, <1>5, <1>6, <1>7, TableUpdate DEF Updates, Ids, i

------------------------------------------------------------------------------
\* What a step leaves as it is

\* A successful deployment is rolled back, or stays; a rolled back one stays.
EndsStay == \A i \in Ids : Status(i) \in {"SUCCEEDED", "ROLLED_BACK"} =>
                             Status(i)' \in {"SUCCEEDED", "ROLLED_BACK"}

\* Nobody but p holds the row i.
Alone(p, i) == \A q \in Processes \ {p} : ~Holds(q, i)

\* A process whose rows are not written is still in order.
LEMMA OthersOK ==
  ASSUME TypeOK, NEW q \in Processes, ProcessOK(q), session'[q] = session[q], EndsStay,
         \A i \in Ids : Holds(q, i) => deployments'[i] = deployments[i]
  PROVE  ProcessOK(q)'
  <1> USE DEF Processes
  <1>1. At(q)' = At(q) /\ Job(q)' = Job(q)
    BY DEF At, Job
  <1>2. At(q) \in WithJob => Job(q) \in Ids
    BY DEF TypeOK, SessionOK
  <1>3. ASSUME At(q) \in ExecutionPoints \union {"retry", "claim"}
        PROVE  deployments'[Job(q)] = deployments[Job(q)]
    BY <1>2, <1>3 DEF Holds, WithJob, ExecutionPoints
  <1>4. Fresh(q)' /\ Held(q)'
    <2> DEFINE i == Job(q)
    <2>1. i' = i
      BY <1>1
    <2>2. At(q) \in ExecutionPoints \union {"retry", "claim"} =>
            deployments'[i] = deployments[i]
      BY <1>3
    <2> HIDE DEF i
    <2>3. Fresh(q) /\ Held(q) /\ i = Job(q)
      BY DEF ProcessOK, i
    <2> QED BY <1>1, <2>1, <2>2, <2>3 DEF Fresh, Held, Status, ExecutionPoints
  <1>5. RollbackOK(q)'
    BY <1>1, <1>2 DEF ProcessOK, RollbackOK, EndsStay, WithJob, Status
  <1>6. ReapFresh(q)'
    <2> SUFFICES ASSUME At(q) = "reap", NEW i \in DOMAIN session[q].rows
                 PROVE  /\ session[q].rows[i] = deployments'[i]
                        /\ deployments'[i].status \in STUCK_STATES
                        /\ deployments'[i].locked_at = "stale"
      BY <1>1 DEF ReapFresh, Status
    <2>1. i \in Ids
      BY DEF TypeOK, SessionOK
    <2>2. deployments'[i] = deployments[i]
      BY <2>1 DEF Holds
    <2> QED BY <2>2 DEF ProcessOK, ReapFresh, Status
  <1>7. InsertOK(q)' /\ PlaceOK(q)'
    BY <1>1 DEF ProcessOK, InsertOK, PlaceOK
  <1> QED BY <1>4, <1>5, <1>6, <1>7 DEF ProcessOK

\* Where no worker crashes, a row stays locked only as long as it is executed.
LEMMA AttendedKept ==
  ASSUME TypeOK, SerialInv, NEW p \in Processes, Ids \subseteq Ids',
         \A q \in Processes \ {p} : session'[q] = session[q],
         \A i \in Ids' \ Ids : deployments'[i].locked_at = "null",
         \A i \in Ids : \/ deployments'[i].locked_at = "null"
                        \/ deployments'[i].locked_at = deployments[i].locked_at
                           /\ (MaxCrashes = 0 /\ p \in Workers /\ Executing(p, i) =>
                                 Executing(p, i)')
                        \/ /\ deployments'[i].locked_at = "fresh"
                           /\ p \in Workers /\ Executing(p, i)'
  PROVE  \A i \in Ids' : Attended(i)'
  <1> SUFFICES ASSUME MaxCrashes = 0, NEW i \in Ids', deployments'[i].locked_at # "null"
               PROVE  /\ deployments'[i].locked_at # "stale"
                      /\ deployments'[i].locked_at = "fresh" =>
                           \E w \in Workers : Executing(w, i)'
    BY DEF Attended
  <1>1. i \in Ids /\ Attended(i)
    BY DEF SerialInv
  <1>2. CASE /\ deployments'[i].locked_at = "fresh"
             /\ p \in Workers /\ Executing(p, i)'
    BY <1>2
  <1>3. CASE /\ deployments'[i].locked_at = deployments[i].locked_at
             /\ p \in Workers /\ Executing(p, i) => Executing(p, i)'
    <2>1. deployments[i].locked_at # "stale"
      BY <1>1 DEF Attended
    <2>2. ASSUME deployments[i].locked_at = "fresh" PROVE \E w \in Workers : Executing(w, i)'
      <3>1. PICK w \in Workers : Executing(w, i)
        BY <1>1, <2>2 DEF Attended
      <3>2. w # p => Executing(w, i)'
        BY <3>1 DEF Executing, At, Job, Processes
      <3> QED BY <1>3, <3>1, <3>2
    <2> QED BY <1>3, <2>1, <2>2
  <1> QED BY <1>1, <1>2, <1>3

\* So a step of p has to see to the rows it writes and to p's own session.
LEMMA StepSerial ==
  ASSUME TypeOK, SerialInv, NEW p \in Processes, NEW s, Enter(p, s), EndsStay,
         Ids \subseteq Ids', RowsOK', \A i \in Ids' : Attended(i)',
         \A i \in Ids : Alone(p, i) \/ deployments'[i] = deployments[i],
         ProcessOK(p)',
         \A i \in Ids : Holds(p, i)' => Holds(p, i) \/ Alone(p, i),
         \A i \in Ids' \ Ids : ~Holds(p, i)'
  PROVE  SerialInv'
  <1>1. \A q \in Processes \ {p} : session'[q] = session[q]
    BY DEF TypeOK, Enter
  <1>2. \A q \in Processes \ {p} : ProcessOK(q)'
    BY <1>1, OthersOK DEF SerialInv, Alone
  <1>3. \A q \in Processes \ {p} : \A i : Holds(q, i)' <=> Holds(q, i)
    BY <1>1 DEF Holds, At, Job
  <1>4. \A q \in Processes : \A i : Holds(q, i) => i \in Ids
    BY DEF TypeOK, SessionOK, Holds, WithJob, ExecutionPoints
  <1>5. OneHolder'
    <2> SUFFICES ASSUME NEW q \in Processes, NEW t \in Processes, NEW i \in Ids',
                        Holds(q, i)', Holds(t, i)', q # p, q # t
                 PROVE  FALSE
      BY DEF OneHolder
    <2>1. Holds(q, i) /\ i \in Ids
      BY <1>3, <1>4
    <2>2. CASE t = p
      BY <2>1, <2>2 DEF SerialInv, OneHolder, Alone
    <2>3. CASE t # p
      BY <1>3, <2>1, <2>3 DEF SerialInv, OneHolder
    <2> QED BY <2>2, <2>3
  <1> QED BY <1>2, <1>5 DEF SerialInv

\* A step that writes nothing, and after which p holds what nobody else does.
LEMMA ReadSerial ==
  ASSUME TypeOK, SerialInv, NEW p \in Processes, NEW s, Enter(p, s), UNCHANGED deployments,
         session'[p] = s => ProcessOK(p)',
         session'[p] = s => \A i \in Ids : Holds(p, i)' => Holds(p, i) \/ Alone(p, i),
         session'[p] = s => \A i \in Ids : MaxCrashes = 0 /\ Executing(p, i) => Executing(p, i)'
  PROVE  SerialInv'
  <1>1. session'[p] = s /\ \A q \in Processes \ {p} : session'[q] = session[q]
    BY DEF TypeOK, Enter
  <1>2. Ids' = Ids /\ \A i \in Ids : deployments'[i] = deployments[i]
    BY DEF Ids
  <1>3. RowsOK' /\ EndsStay
    BY <1>2 DEF SerialInv, RowsOK, EndsStay, Status
  <1>4. \A i \in Ids' : Attended(i)'
    BY <1>1, <1>2, AttendedKept
  <1> QED BY <1>1, <1>2, <1>3, <1>4, StepSerial

\* A commit over a row that nobody else holds, and after which p holds no other.
LEMMA CommitSerial ==
  ASSUME TypeOK, SerialInv, NEW p \in Processes, NEW s, Enter(p, s),
         NEW i \in Ids, NEW r, Updates(i, r), Alone(p, i),
         Status(i) \in {"SUCCEEDED", "ROLLED_BACK"} => r.status = "ROLLED_BACK",
         \A j \in Ids : Executing(p, j) => j = i,
         \/ r.locked_at = "null"
         \/ r.locked_at = deployments[i].locked_at /\ ~(p \in Workers /\ Executing(p, i))
         \/ r.locked_at = "fresh" /\ p \in Workers /\ s.at \in ExecutionPoints /\ s.job = i,
         session'[p] = s => ProcessOK(p)',
         session'[p] = s => \A j \in Ids : Holds(p, j)' => j = i
  PROVE  SerialInv'
  <1>1. session'[p] = s /\ \A q \in Processes \ {p} : session'[q] = session[q]
    BY DEF TypeOK, Enter
  <1>2. /\ Ids' = Ids /\ deployments'[i] = r /\ RowOK(r)
        /\ \A j \in Ids \ {i} : deployments'[j] = deployments[j]
    BY DEF Updates
  <1>3. RowsOK' /\ EndsStay
    BY <1>2 DEF SerialInv, RowsOK, EndsStay, Status
  <1>4. s.at \in ExecutionPoints /\ s.job = i => Executing(p, i)'
    BY <1>1 DEF Executing, At, Job, ExecutionPoints
  <1>5. \A i_1 \in Ids' : Attended(i_1)'
    BY <1>1, <1>2, <1>4, AttendedKept
  <1> QED BY <1>1, <1>2, <1>3, <1>5, StepSerial

------------------------------------------------------------------------------
\* What a step makes of the table

\* The row i gets another status, and the deployment it was rolled back to stays.
Moves(i, from, to) ==
  /\ Status(i) \in from
  /\ \E r : /\ Updates(i, r) /\ r.status = to
            /\ r.rolled_back_to_id = deployments[i].rolled_back_to_id

\* An event is logged, or time passes, for a deployment that is being executed.
Stays(i) == \E st \in STUCK_STATES : Moves(i, {st}, st)

Inserts(h) ==
  /\ At(h) = "insert" /\ InsertOK(h) /\ uq_active_deployment(session[h].row, Ids)
  /\ deployments' = Append(deployments, session[h].row)

Retries(i) ==
  /\ uq_active_deployment([deployments[i] EXCEPT !.status = "REQUESTED"], Ids \ {i})
  /\ Moves(i, {"FAILED"}, "REQUESTED")

Completes(w, i) ==
  /\ At(w) = "finish" /\ Job(w) = i /\ deployments[i].worker_id = w
  /\ session[w].row.attempts = deployments[i].attempts
  /\ Moves(i, {"DEPLOYING"}, "SUCCEEDED")

RollsBack(h, i) ==
  /\ At(h) = "rollback" /\ At(h)' = "idle" /\ Job(h) = i
  /\ Status(i) \in {"SUCCEEDED", "ROLLED_BACK"}
  /\ \E r : /\ Updates(i, r) /\ r.status = "ROLLED_BACK"
            /\ session[h].row = deployments[i] => r.rolled_back_to_id = session[h].target

\* Deployments whose worker was lost.
Reaps(lost) ==
  /\ Ids' = Ids
  /\ \A i \in lost :
       /\ Status(i) \in STUCK_STATES /\ Status(i)' \in {"REQUESTED", "FAILED"}
       /\ deployments'[i].version = deployments[i].version
       /\ deployments'[i].environment = deployments[i].environment
       /\ deployments'[i].rolled_back_to_id = deployments[i].rolled_back_to_id
  /\ \A i \in Ids \ lost : deployments'[i] = deployments[i]

Effect ==
  \/ UNCHANGED deployments
  \/ \E h \in Handlers : Inserts(h)
  \/ \E i \in Ids : \/ Stays(i)
                    \/ Retries(i)
                    \/ Moves(i, {"REQUESTED"}, "VALIDATING")
                    \/ Moves(i, {"VALIDATING"}, "DEPLOYING")
                    \/ Moves(i, STUCK_STATES, "FAILED")
                    \/ \E w \in Workers : Completes(w, i)
                    \/ \E h \in Handlers : RollsBack(h, i)
  \/ \E lost \in SUBSET Ids : Reaps(lost)

-----------------------------------------------------------------------------
\* Handlers

\* A session that is at none of the points that ask for something.
LEMMA PlainOK ==
  ASSUME NEW p \in Processes, PlaceOK(p)',
         At(p)' \notin ExecutionPoints \union {"retry", "claim", "rollback", "insert", "reap"}
  PROVE  ProcessOK(p)' /\ \A i : ~Holds(p, i)' /\ ~Executing(p, i)'
  BY DEF ProcessOK, Fresh, Held, RollbackOK, InsertOK, ReapFresh, Holds, Executing, ExecutionPoints

LEMMA HandlerDone ==
  ASSUME NEW h \in Handlers, session'[h] = [at |-> "idle"]
  PROVE  ProcessOK(h)' /\ \A i : ~Holds(h, i)'
  <1>1. At(h)' = "idle" /\ h \in Processes /\ h \notin Workers
    BY ProcessAssumption DEF At, Processes
  <1>2. PlaceOK(h)'
    BY <1>1 DEF PlaceOK, HandlerPoints
  <1> QED BY <1>1, <1>2, PlainOK DEF ExecutionPoints

LEMMA WorkerFree ==
  ASSUME NEW w \in Workers, NEW at \in {"drain", "drained", "down"}, session'[w] = [at |-> at]
  PROVE  ProcessOK(w)' /\ \A i : ~Holds(w, i)'
  <1>1. At(w)' = at /\ w \in Processes /\ w \notin Handlers
    BY ProcessAssumption DEF At, Processes
  <1>2. PlaceOK(w)'
    BY <1>1 DEF PlaceOK, HandlerPoints
  <1> QED BY <1>1, <1>2, PlainOK DEF ExecutionPoints

LEMMA RequestStep ==
  ASSUME TypeOK, SerialInv, NEW h \in Handlers, request_deployment(h)
  PROVE  SerialInv' /\ Effect
  <1> DEFINE r == session[h].row
             n == Len(deployments) + 1
  <1>1. /\ h \in Processes /\ h \notin Workers /\ At(h) = "insert" /\ r \in Deployment
        /\ deployments \in Seq(Deployment) /\ InsertOK(h) /\ ~ (\E i : Executing(h, i))
    BY ProcessAssumption DEF TypeOK, SessionOK, WithRow, Processes, request_deployment, HandlerStep,
       SerialInv, ProcessOK, Executing
  <1>2. Enter(h, [at |-> "idle"])
    BY DEF request_deployment
  <1>3. session'[h] = [at |-> "idle"] => ProcessOK(h)' /\ \A i : ~Holds(h, i)'
    BY HandlerDone
  <1>4. CASE UNCHANGED deployments
    BY <1>1, <1>2, <1>3, <1>4, ReadSerial DEF Effect
  <1>5. CASE uq_active_deployment(r, Ids) /\ deployments' = Append(deployments, r)
    <2>1. /\ Ids' = Ids \union {n} /\ n \notin Ids /\ deployments'[n] = r
          /\ \A j \in Ids : deployments'[j] = deployments[j]
      BY <1>1, <1>5, TableAppend DEF Ids
    <2> HIDE DEF n
    <2>2. RowOK(r) /\ r.status = "REQUESTED" /\ r.locked_at = "null"
      BY <1>1 DEF InsertOK
    <2>3. RowsOK' /\ EndsStay
      BY <2>1, <2>2 DEF SerialInv, RowsOK, EndsStay, Status
    <2>4. session'[h] = [at |-> "idle"] /\ \A q \in Processes \ {h} : session'[q] = session[q]
      BY <1>1, <1>2 DEF TypeOK, Enter
    <2>5. \A i \in Ids' : Attended(i)'
      BY <1>1, <2>1, <2>2, <2>4, AttendedKept
    <2>6. SerialInv'
      BY <1>1, <1>2, <1>3, <2>1, <2>3, <2>4, <2>5, StepSerial
    <2>7. Inserts(h)
      BY <1>1, <1>5 DEF Inserts
    <2> QED BY <2>6, <2>7 DEF Effect
  <1> QED BY <1>4, <1>5 DEF request_deployment

LEMMA RetryStep ==
  ASSUME TypeOK, SerialInv, NEW h \in Handlers, retry_deployment(h)
  PROVE  SerialInv' /\ Effect
  <1> DEFINE i == Job(h)
             old == session[h].row
             new == [old EXCEPT !.status = "REQUESTED", !.error = "null",
                                !.worker_id = "null", !.locked_at = "null"]
  <1>1. /\ h \in Processes /\ h \notin Workers /\ At(h) = "retry"
        /\ i \in Ids /\ old \in Deployment /\ ~ (\E j : Executing(h, j))
    BY ProcessAssumption DEF TypeOK, SessionOK, WithRow, WithJob, Processes, retry_deployment,
       HandlerStep, Executing
  <1>2. /\ old = deployments[i] /\ Status(i) = "FAILED" /\ Holds(h, i)
    BY <1>1 DEF SerialInv, ProcessOK, Fresh, Held, Holds
  <1>3. Enter(h, [at |-> "idle"])
    BY DEF retry_deployment
  <1>4. session'[h] = [at |-> "idle"] => ProcessOK(h)' /\ \A j : ~Holds(h, j)'
    BY HandlerDone
  <1>5. CASE UNCHANGED deployments
    BY <1>1, <1>3, <1>4, <1>5, ReadSerial DEF Effect
  <1>6. CASE ~Refused(i, old, new) /\ Save(h, new, "retry_requested")
    <2>1. /\ new \in Deployment /\ Unwritable(new) = Unwritable(old)
          /\ new.status = "REQUESTED" /\ new.error = "null" /\ new.locked_at = "null"
          /\ new.rolled_back_to_id = old.rolled_back_to_id
      BY <1>1 DEF Deployment, DeploymentStatus, Unwritable
    <2> HIDE DEF new
    <2>2. PICK r : Updates(i, r) /\ Columns(r, new)
      BY <1>1, <1>2, <1>6, <2>1, SaveFresh DEF WithRow, WithJob, STUCK_STATES, EventNames
    <2>3. Alone(h, i)
      BY <1>1, <1>2 DEF SerialInv, OneHolder, Alone
    <2> HIDE DEF i, old
    <2>4. SerialInv'
      BY <1>1, <1>2, <1>3, <1>4, <2>1, <2>2, <2>3, CommitSerial DEF Columns
    <2>5. Retries(i)
      BY <1>2, <1>6, <2>1, <2>2 DEF Retries, Moves, Columns, Refused, Status
    <2> QED BY <1>1, <2>4, <2>5 DEF Effect
  <1> QED BY <1>5, <1>6 DEF retry_deployment

\* What a row looks like while somebody holds it.
LEMMA HeldRow ==
  ASSUME SerialInv, NEW q \in Processes, NEW i, Holds(q, i)
  PROVE  \/ At(q) = "retry" /\ Status(i) = "FAILED"
         \/ At(q) = "claim" /\ Status(i) = "REQUESTED"
         \/ /\ At(q) \in ExecutionPoints /\ Job(q) = i
            /\ Status(i) \in STUCK_STATES /\ deployments[i].locked_at = "fresh"
         \/ At(q) = "reap" /\ Status(i) \in STUCK_STATES /\ deployments[i].locked_at = "stale"
  BY DEF Holds, SerialInv, ProcessOK, Held, ReapFresh, ExecutionPoints, STUCK_STATES

LEMMA RollbackStep ==
  ASSUME TypeOK, SerialInv, NEW h \in Handlers, rollback_deployment(h)
  PROVE  SerialInv' /\ RollsBack(h, Job(h)) /\ Job(h) \in Ids
  <1> DEFINE i == Job(h)
             old == session[h].row
             cur == deployments[i]
             new == [old EXCEPT !.status = "ROLLED_BACK", !.rolled_back_to_id = session[h].target]
             f == Flush(old, new, cur)
             r == record_event(f, "rolled_back", new)
  <1>0. /\ h \in Processes /\ h \notin Workers /\ At(h) = "rollback" /\ SessionOK(h)
        /\ deployments \in Seq(Deployment)
    BY ProcessAssumption DEF TypeOK, Processes, rollback_deployment, HandlerStep
  <1>1. /\ i \in Ids /\ old \in Deployment /\ cur \in Deployment
        /\ session[h].target \in Nat /\ ~ (\E j : Executing(h, j))
    BY <1>0 DEF SessionOK, WithRow, WithJob, Executing, Ids
  <1>2. old.status = "SUCCEEDED" /\ cur.status \in {"SUCCEEDED", "ROLLED_BACK"} /\ RowOK(cur)
    BY <1>0, <1>1 DEF SerialInv, ProcessOK, RollbackOK, RowsOK, Status
  <1>3. Enter(h, [at |-> "idle"]) /\ deployments' = [deployments EXCEPT ![i] = r]
    BY DEF rollback_deployment, Save
  <1>4. /\ new \in Deployment /\ new.status = "ROLLED_BACK"
        /\ new.rolled_back_to_id = session[h].target
        /\ new.locked_at = old.locked_at /\ new.error = old.error
    BY <1>1 DEF Deployment, DeploymentStatus
  <1> HIDE DEF new, old, cur, i
  <1>5. /\ f \in Deployment /\ f.version = cur.version /\ f.environment = cur.environment
        /\ f.status = "ROLLED_BACK"
    BY <1>1, <1>2, <1>4, Flushes
  <1>6. /\ f.locked_at = cur.locked_at /\ f.error = cur.error
        /\ old = cur => f.rolled_back_to_id = new.rolled_back_to_id
    BY <1>1, <1>4 DEF Flush, Net, Deployment
  <1> HIDE DEF f
  <1>7. /\ r \in Deployment /\ r.version = cur.version /\ r.environment = cur.environment
        /\ r.status = "ROLLED_BACK" /\ r.locked_at = cur.locked_at /\ r.error = cur.error
        /\ old = cur => r.rolled_back_to_id = session[h].target
        /\ r.last.status = "ROLLED_BACK"
    BY <1>4, <1>5, <1>6 DEF Deployment, record_event, EventNames
  <1> HIDE DEF r
  <1>8. RowOK(r)
    BY <1>2, <1>7 DEF RowOK, STUCK_STATES
  <1>9. Updates(i, r)
    BY <1>0, <1>1, <1>3, <1>7, <1>8, TableUpdate DEF Updates, Ids, cur
  <1>10. Alone(h, i)
    BY <1>2, HeldRow DEF Alone, Status, STUCK_STATES, cur
  <1>11. SerialInv'
    BY <1>0, <1>1, <1>3, <1>7, <1>9, <1>10, CommitSerial, HandlerDone DEF cur
  <1>12. At(h)' = "idle"
    BY <1>0, <1>3 DEF TypeOK, Enter, At
  <1>13. RollsBack(h, i)
    BY <1>0, <1>1, <1>2, <1>7, <1>9, <1>12 DEF RollsBack, Status, cur, old, i
  <1> QED BY <1>1, <1>11, <1>13 DEF i

LEMMA HandlerSerial ==
  ASSUME Serial, TypeOK, SerialInv, NEW h \in Handlers, Handle(h)
  PROVE  SerialInv' /\ Effect
  <1>0. /\ h \in Processes /\ h \notin Workers
        /\ \A i \in Ids : deployments[i] \in Deployment
    BY ProcessAssumption DEF TypeOK, Processes, Ids
  <1>1. ASSUME NEW v \in Versions, NEW e \in Environments, NEW k \in Keys \union {NoKey},
               NEW fail \in BOOLEAN, BeginRequest(h, v, e, k, fail)
        PROVE  SerialInv'
    <2> DEFINE new == NewDeployment(v, e, k, fail)
    <2>1. /\ RowOK(new) /\ new.status = "REQUESTED" /\ new.locked_at = "null"
          /\ new.rolled_back_to_id = 0
      BY DEF NewDeployment, RowOK, STUCK_STATES
    <2>2. /\ Enter(h, [at |-> "insert", row |-> new]) /\ UNCHANGED deployments
          /\ At(h) = "idle"
      BY <1>1 DEF BeginRequest, HandlerStep
    <2> HIDE DEF new
    <2>3. ASSUME session'[h] = [at |-> "insert", row |-> new]
          PROVE  ProcessOK(h)' /\ \A i : ~Holds(h, i)'
      BY <1>0, <2>1, <2>3 DEF ProcessOK, Fresh, Held, RollbackOK, InsertOK, ReapFresh, PlaceOK, At,
         Holds, HandlerPoints, ExecutionPoints
    <2> QED BY <1>0, <2>2, <2>3, ReadSerial DEF Executing
  <1>2. ASSUME NEW i \in Ids, BeginRetry(h, i) PROVE SerialInv'
    <2>1. /\ Enter(h, [at |-> "retry", job |-> i, row |-> deployments[i]])
          /\ UNCHANGED deployments /\ At(h) = "idle" /\ Status(i) = "FAILED"
          /\ deployments[i].attempts < RetryBound
      BY <1>2 DEF BeginRetry, HandlerStep
    <2>2. RetryBound \notin {0, 1}
      <3>1. deployments[i].attempts \in Nat /\ deployments[i].attempts > 0
        BY <1>0, <2>1 DEF Deployment, SerialInv, RowsOK, RowOK, Status
      <3> QED BY <2>1, <3>1, BoundAssumption
    <2>3. Alone(h, i)
      <3> SUFFICES ASSUME NEW q \in Processes \ {h}, Holds(q, i) PROVE FALSE
        BY DEF Alone
      <3>1. At(q) = "retry"
        BY <2>1, HeldRow DEF STUCK_STATES
      <3>2. q \in Handlers
        BY <3>1 DEF SerialInv, ProcessOK, PlaceOK, HandlerPoints, Processes
      <3> QED BY <2>2, <3>2 DEF Serial
    <2>4. ASSUME session'[h] = [at |-> "retry", job |-> i, row |-> deployments[i]]
          PROVE  ProcessOK(h)' /\ \A j : Holds(h, j)' => j = i
      BY <1>0, <2>1, <2>2, <2>4 DEF ProcessOK, Fresh, Held, RollbackOK, InsertOK, ReapFresh, PlaceOK,
         At, Job, Holds, HandlerPoints, ExecutionPoints, Status
    <2> QED BY <1>0, <2>1, <2>3, <2>4, ReadSerial DEF Executing
  <1>3. ASSUME NEW i \in Ids, BeginRollback(h, i) PROVE SerialInv'
    <2>1. PICK t : Enter(h, [at |-> "rollback", job |-> i, row |-> deployments[i], target |-> t])
      BY <1>3 DEF BeginRollback
    <2>2. UNCHANGED deployments /\ At(h) = "idle" /\ Status(i) = "SUCCEEDED"
      BY <1>3 DEF BeginRollback, HandlerStep
    <2>3. ASSUME session'[h] = [at |-> "rollback", job |-> i, row |-> deployments[i], target |-> t]
          PROVE  ProcessOK(h)' /\ \A j : ~Holds(h, j)'
      BY <1>0, <2>2, <2>3 DEF ProcessOK, Fresh, Held, RollbackOK, InsertOK, ReapFresh, PlaceOK, At,
         Job, Holds, HandlerPoints, ExecutionPoints, Status
    <2> QED BY <1>0, <2>1, <2>2, <2>3, ReadSerial DEF Executing
  <1>4. CASE Abandon(h) \/ ChangeStage(h)
    <2>1. Enter(h, [at |-> "idle"]) /\ UNCHANGED deployments
      BY <1>4 DEF Abandon, ChangeStage
    <2>2. ~ (\E i : Executing(h, i))
      <3>1. At(h) \in HandlerPoints
        BY <1>0 DEF SerialInv, ProcessOK, PlaceOK
      <3> QED BY <3>1 DEF HandlerPoints, Executing
    <2>3. session'[h] = [at |-> "idle"] => ProcessOK(h)' /\ \A i : ~Holds(h, i)'
      BY HandlerDone
    <2> QED BY <1>0, <2>1, <2>2, <2>3, ReadSerial DEF Effect
  <1>5. CASE \/ \E v \in Versions, e \in Environments, k \in Keys \union {NoKey}, fail \in BOOLEAN :
                  BeginRequest(h, v, e, k, fail)
             \/ \E i \in Ids : BeginRetry(h, i) \/ BeginRollback(h, i)
             \/ Abandon(h)
             \/ ChangeStage(h)
    <2>1. UNCHANGED deployments
      BY <1>5 DEF BeginRequest, BeginRetry, BeginRollback, Abandon, ChangeStage
    <2> QED BY <1>1, <1>2, <1>3, <1>4, <1>5, <2>1 DEF Effect
  <1>6. CASE rollback_deployment(h)
    BY <1>6, RollbackStep DEF Effect
  <1>7. ASSUME NEW v \in Versions, NEW target \in Stages, BeginStageChange(h, v, target)
        PROVE  SerialInv' /\ Effect
    <2> DEFINE s == [at |-> "promote", version |-> v, target |-> target]
    <2>1. Enter(h, s) /\ UNCHANGED deployments /\ At(h) = "idle" /\ s.at = "promote"
      BY <1>7 DEF BeginStageChange, HandlerStep
    <2> HIDE DEF s
    <2>2. ASSUME session'[h] = s PROVE ProcessOK(h)' /\ \A i : ~Holds(h, i)'
      BY <1>0, <2>1, <2>2 DEF ProcessOK, Fresh, Held, RollbackOK, InsertOK, ReapFresh, PlaceOK, At,
         Holds, HandlerPoints, ExecutionPoints
    <2> QED BY <1>0, <2>1, <2>2, ReadSerial DEF Executing, Effect
  <1> QED BY <1>5, <1>6, <1>7, RequestStep, RetryStep DEF Handle

------------------------------------------------------------------------------
\* Workers

\* The index never refuses a row that is in flight: it has its slot to itself.
LEMMA NotRefused ==
  ASSUME TypeOK, ActiveInv, NEW i \in Ids, Status(i) \in IN_FLIGHT, NEW old, NEW new
  PROVE  ~Refused(i, old, new)
  <1>1. deployments[i] \in Deployment /\ AtMostOneActive
    BY DEF TypeOK, Ids, ActiveInv
  <1> DEFINE s == new.status
             r == [deployments[i] EXCEPT !.status = s]
  <1>2. r.version = deployments[i].version /\ r.environment = deployments[i].environment
    BY <1>1 DEF Deployment
  <1> HIDE DEF r
  <1>3. \A j \in Ids \ {i} : SameSlot(deployments[j], r) => Status(j) \notin IN_FLIGHT
    BY <1>1, <1>2 DEF AtMostOneActive, SameSlot
  <1>4. uq_active_deployment(r, Ids \ {i})
    BY <1>3 DEF uq_active_deployment
  <1> QED BY <1>4 DEF Refused, r

\* A worker that goes on with a row that is as it left it.
LEMMA ExecutorOK ==
  ASSUME NEW w \in Workers, NEW i, At(w)' \in ExecutionPoints, Job(w)' = i,
         deployments'[i].worker_id = w, deployments'[i].locked_at = "fresh",
         At(w)' \in {"claimed", "validate", "decide"} => deployments'[i].status = "VALIDATING",
         At(w)' \in {"deploy", "finish"} => deployments'[i].status = "DEPLOYING",
         At(w)' \in {"claimed", "decide", "finish"} => session'[w].row = deployments'[i]
  PROVE  ProcessOK(w)' /\ Executing(w, i)' /\ \A j : Holds(w, j)' => j = i
  <1>1. w \notin Handlers
    BY ProcessAssumption
  <1>2. PlaceOK(w)'
    BY <1>1 DEF PlaceOK, HandlerPoints, ExecutionPoints
  <1>3. Fresh(w)'
    BY DEF Fresh, ExecutionPoints
  <1>4. Held(w)'
    BY DEF Held, ExecutionPoints, Status
  <1>5. RollbackOK(w)' /\ InsertOK(w)' /\ ReapFresh(w)'
    BY DEF RollbackOK, InsertOK, ReapFresh, ExecutionPoints
  <1>6. Executing(w, i)' /\ \A j : Holds(w, j)' => j = i
    BY DEF Executing, Holds, ExecutionPoints
  <1> QED BY <1>2, <1>3, <1>4, <1>5, <1>6 DEF ProcessOK

\* What a worker knows of the row it holds.
LEMMA WorkerHolds ==
  ASSUME TypeOK, SerialInv, NEW w \in Workers, At(w) \in ExecutionPoints \union {"claim"}
  PROVE  /\ w \in Processes /\ Job(w) \in Ids /\ Holds(w, Job(w)) /\ Alone(w, Job(w))
         /\ deployments[Job(w)] \in Deployment /\ RowOK(deployments[Job(w)])
         /\ Held(w) /\ Fresh(w)
         /\ \A j : Executing(w, j) => j = Job(w)
  <1>1. w \in Processes /\ SessionOK(w)
    BY DEF Processes, TypeOK
  <1>2. Job(w) \in Ids /\ deployments[Job(w)] \in Deployment
    BY <1>1 DEF SessionOK, WithJob, ExecutionPoints, TypeOK, Ids
  <1>3. Holds(w, Job(w))
    BY DEF Holds
  <1>4. Alone(w, Job(w))
    BY <1>1, <1>2, <1>3 DEF SerialInv, OneHolder, Alone
  <1> QED BY <1>1, <1>2, <1>3, <1>4 DEF SerialInv, ProcessOK, RowsOK, Executing

LEMMA BeginClaimStep ==
  ASSUME TypeOK, SerialInv, NEW w \in Workers, BeginClaim(w)
  PROVE  SerialInv'
  <1>1. PICK i \in Claimable : Enter(w, [at |-> "claim", job |-> i, row |-> deployments[i]])
    BY DEF BeginClaim
  <1>2. /\ UNCHANGED deployments /\ At(w) = "drain" /\ w \in Processes /\ w \notin Handlers
        /\ i \in Ids /\ Status(i) = "REQUESTED" /\ ~Locked(i)
    BY ProcessAssumption DEF BeginClaim, WorkerStep, Claimable, Processes
  <1>3. Alone(w, i)
    <2> SUFFICES ASSUME NEW q \in Processes, Holds(q, i) PROVE FALSE
      BY DEF Alone
    <2>1. At(q) = "claim" /\ Job(q) = i
      BY <1>2, HeldRow DEF STUCK_STATES, Holds
    <2>2. q \in Workers
      BY <2>1 DEF SerialInv, ProcessOK, PlaceOK, HandlerPoints, Processes
    <2> QED BY <1>2, <2>1, <2>2 DEF Locked
  <1>4. ASSUME session'[w] = [at |-> "claim", job |-> i, row |-> deployments[i]]
        PROVE  ProcessOK(w)' /\ \A j : Holds(w, j)' => j = i
    BY <1>2, <1>4 DEF ProcessOK, Fresh, Held, RollbackOK, InsertOK, ReapFresh, PlaceOK, At, Job, Holds,
       HandlerPoints, ExecutionPoints, Status
  <1> QED BY <1>1, <1>2, <1>3, <1>4, ReadSerial DEF Executing

LEMMA ClaimStep ==
  ASSUME TypeOK, SerialInv, NEW w \in Workers, claim_one(w)
  PROVE  SerialInv' /\ Effect
  <1> DEFINE i == Job(w)
             old == session[w].row
             n == old.attempts + 1
             new == [old EXCEPT !.status = "VALIDATING", !.worker_id = w, !.locked_at = "fresh",
                                !.attempts = n]
             r == Flush(old, new, deployments[i])
  <1>1. At(w) = "claim"
    BY DEF claim_one, WorkerStep
  <1>2. /\ w \in Processes /\ i \in Ids /\ Alone(w, i) /\ old = deployments[i]
        /\ old \in Deployment /\ RowOK(old) /\ old.status = "REQUESTED"
        /\ ~ \E j : Executing(w, j)
    BY <1>1, WorkerHolds DEF Held, Fresh, Executing, Status
  <1>3. /\ deployments' = [deployments EXCEPT ![i] = r]
        /\ Enter(w, [at |-> "claimed", job |-> i, row |-> r])
    BY DEF claim_one
  <1>4. n \in Nat /\ n > 0
    BY <1>2 DEF Deployment
  <1> HIDE DEF n
  <1>5. /\ new \in Deployment /\ Unwritable(new) = Unwritable(old) /\ new.status = "VALIDATING"
        /\ new.worker_id = w /\ new.locked_at = "fresh" /\ new.attempts = n
        /\ new.error = old.error /\ new.rolled_back_to_id = old.rolled_back_to_id
        /\ new.version = old.version /\ new.environment = old.environment
        /\ new.last = old.last
    <2> HIDE DEF old
    <2> QED BY <1>2, <1>4 DEF Deployment, DeploymentStatus, Unwritable
  <1> HIDE DEF new, old, i
  <1>6. r = new
    BY <1>2, <1>5, FlushFresh
  <1> HIDE DEF r
  <1>7. RowOK(r)
    BY <1>2, <1>4, <1>5, <1>6 DEF RowOK, STUCK_STATES
  <1>8. Updates(i, r)
    BY <1>2, <1>3, <1>5, <1>6, <1>7, TableUpdate DEF Updates, Ids, TypeOK
  <1>9. ASSUME session'[w] = [at |-> "claimed", job |-> i, row |-> r]
        PROVE  ProcessOK(w)' /\ \A j : Holds(w, j)' => j = i
    <2>1. At(w)' = "claimed" /\ Job(w)' = i /\ session'[w].row = r
      BY <1>9 DEF At, Job
    <2> QED BY <1>5, <1>6, <1>8, <2>1, ExecutorOK DEF Updates, ExecutionPoints
  <1>10. SerialInv'
    BY <1>2, <1>3, <1>5, <1>6, <1>8, <1>9, CommitSerial DEF Status, ExecutionPoints
  <1>11. Moves(i, {"REQUESTED"}, "VALIDATING")
    BY <1>2, <1>5, <1>6, <1>8 DEF Moves, Status
  <1> QED BY <1>2, <1>10, <1>11 DEF Effect

\* A commit of process_deployment, which gives the row up or goes on with it.
LEMMA ExecutorSaves ==
  ASSUME TypeOK, SerialInv, NEW w \in Workers, At(w) \in {"claimed", "decide", "finish"},
         NEW new \in Deployment, Unwritable(new) = Unwritable(session[w].row),
         new.rolled_back_to_id = session[w].row.rolled_back_to_id,
         NEW event \in EventNames, Save(w, new, event), NEW s, Enter(w, s),
         new.status = "FAILED" <=> new.error # "null", new.attempts > 0,
         \/ new.locked_at = "null" /\ new.status \notin STUCK_STATES /\ s = [at |-> "drain"]
         \/ /\ new.locked_at = "fresh" /\ new.worker_id = w
            /\ \/ new.status = "VALIDATING" /\ s = [at |-> "validate", job |-> Job(w)]
               \/ new.status = "DEPLOYING" /\ s = [at |-> "deploy", job |-> Job(w)]
  PROVE  SerialInv' /\ Moves(Job(w), {Status(Job(w))}, new.status)
  <1> DEFINE i == Job(w)
  <1>1. /\ w \in Processes /\ i \in Ids /\ Alone(w, i) /\ session[w].row = deployments[i]
        /\ At(w) \in WithRow \intersect WithJob /\ Status(i) \in STUCK_STATES
        /\ \A j : Executing(w, j) => j = i
    BY WorkerHolds DEF Held, Fresh, ExecutionPoints, WithRow, WithJob, STUCK_STATES
  <1>2. PICK r : Updates(i, r) /\ Columns(r, new)
    BY <1>1, SaveFresh DEF STUCK_STATES
  <1>3. Moves(i, {Status(i)}, new.status)
    BY <1>1, <1>2 DEF Moves, Columns
  <1>4. deployments'[i] = r
    BY <1>2 DEF Updates
  <1> HIDE DEF i
  <1>5. CASE new.locked_at = "null" /\ s = [at |-> "drain"]
    <2>1. session'[w] = s => ProcessOK(w)' /\ \A j : ~Holds(w, j)'
      BY <1>5, WorkerFree
    <2> QED BY <1>1, <1>2, <1>3, <1>5, <2>1, CommitSerial DEF Columns, Status, STUCK_STATES, i
  <1>6. CASE /\ new.locked_at = "fresh" /\ new.worker_id = w
             /\ \/ new.status = "VALIDATING" /\ s = [at |-> "validate", job |-> i]
                \/ new.status = "DEPLOYING" /\ s = [at |-> "deploy", job |-> i]
    <2>1. ASSUME session'[w] = s
          PROVE  ProcessOK(w)' /\ \A j : Holds(w, j)' => j = i
      <3>1. /\ At(w)' \in {"validate", "deploy"} /\ Job(w)' = i
            /\ At(w)' = "validate" => new.status = "VALIDATING"
            /\ At(w)' = "deploy" => new.status = "DEPLOYING"
        BY <1>6, <2>1 DEF At, Job
      <3> QED BY <1>2, <1>4, <1>6, <3>1, ExecutorOK DEF Columns, ExecutionPoints
    <2>2. s.at \in ExecutionPoints /\ s.job = i
      BY <1>6 DEF ExecutionPoints
    <2>3. r.status # "ROLLED_BACK" /\ r.locked_at = "fresh" /\ Status(i) \in STUCK_STATES
      BY <1>1, <1>2, <1>6 DEF Columns
    <2>4. SerialInv'
      BY <1>1, <1>2, <2>1, <2>2, <2>3, CommitSerial DEF STUCK_STATES
    <2> QED BY <1>3, <2>4 DEF i
  <1> QED BY <1>5, <1>6 DEF i

LEMMA ExecuteStep ==
  ASSUME TypeOK, ActiveInv, SerialInv, NEW w \in Workers, Execute(w)
  PROVE  SerialInv' /\ Effect
  <1> DEFINE i == Job(w)
             old == session[w].row
  <1>1. ASSUME At(w) \in ExecutionPoints
        PROVE  /\ w \in Processes /\ i \in Ids /\ Alone(w, i) /\ Held(w) /\ Fresh(w)
               /\ deployments[i] \in Deployment /\ RowOK(deployments[i])
               /\ deployments[i].worker_id = w /\ deployments[i].locked_at = "fresh"
               /\ \A j : Executing(w, j) => j = i
    BY <1>1, WorkerHolds DEF Held
  \* Steps that load the row.
  <1>2. ASSUME UNCHANGED deployments, At(w) \in {"validate", "deploy"}, NEW s, Enter(w, s),
               s.job = i, s.row = deployments[i],
               s.at = IF At(w) = "validate" THEN "decide" ELSE "finish"
        PROVE  SerialInv'
    <2>0. At(w) \in ExecutionPoints
      BY <1>2 DEF ExecutionPoints
    <2>1. PICK k \in Ids : k = i
      BY <1>1, <2>0
    <2>2. ASSUME session'[w] = s
          PROVE  ProcessOK(w)' /\ Executing(w, k)' /\ \A j : Holds(w, j)' => j = k
      <3>1. At(w)' = s.at /\ Job(w)' = k /\ session'[w].row = deployments'[k]
        BY <1>2, <2>1, <2>2 DEF At, Job
      <3>2. /\ At(w)' \in {"decide", "finish"}
            /\ At(w)' = "decide" => deployments'[k].status = "VALIDATING"
            /\ At(w)' = "finish" => deployments'[k].status = "DEPLOYING"
            /\ deployments'[k].worker_id = w /\ deployments'[k].locked_at = "fresh"
        BY <1>1, <1>2, <2>0, <2>1, <3>1 DEF Held, Status
      <3> QED BY <3>1, <3>2, ExecutorOK DEF ExecutionPoints
    <2> HIDE DEF i
    <2> QED BY <1>1, <1>2, <2>0, <2>1, <2>2, ReadSerial
  <1>3. CASE ValidationStarted(w)
    <2>1. /\ At(w) = "claimed" /\ Save(w, old, "validation_started")
          /\ Enter(w, [at |-> "validate", job |-> i])
      BY <1>3 DEF ValidationStarted, WorkerStep
    <2>2. /\ old \in Deployment /\ old = deployments[i] /\ old.status = "VALIDATING"
          /\ old.locked_at = "fresh" /\ old.worker_id = w /\ RowOK(old) /\ i \in Ids
      BY <1>1, <2>1 DEF ExecutionPoints, Held, Fresh, Status
    <2>3. SerialInv' /\ Moves(i, {Status(i)}, old.status)
      BY <2>1, <2>2, ExecutorSaves DEF EventNames, RowOK, STUCK_STATES
    <2>4. Stays(i)
      BY <2>2, <2>3 DEF Stays, Status, STUCK_STATES
    <2> QED BY <2>2, <2>3, <2>4 DEF Effect
  <1>4. CASE ReadVersion(w)
    <2>1. PICK d : Enter(w, [at |-> "decide", job |-> i, row |-> deployments[i], deployable |-> d])
      BY <1>4 DEF ReadVersion
    <2>2. At(w) = "validate" /\ UNCHANGED deployments
      BY <1>4 DEF ReadVersion, WorkerStep
    <2> QED BY <1>2, <2>1, <2>2 DEF Effect
  <1>5. CASE EndDeploy(w)
    BY <1>2, <1>5 DEF EndDeploy, WorkerStep, Effect
  <1>6. ASSUME At(w) \in {"decide", "finish"}, NEW event \in {"approval_validation_failed", "runtime_timeout"},
               _fail(w, event)
        PROVE  SerialInv' /\ Effect
    <2> DEFINE new == [old EXCEPT !.status = "FAILED", !.error = event, !.locked_at = "null"]
    <2>1. Save(w, new, event) /\ Enter(w, [at |-> "drain"])
      BY <1>6 DEF _fail
    <2>2. /\ old \in Deployment /\ old = deployments[i] /\ Status(i) \in STUCK_STATES
          /\ RowOK(old) /\ i \in Ids
      BY <1>1, <1>6 DEF ExecutionPoints, Held, Fresh, STUCK_STATES
    <2>3. old.attempts > 0
      BY <2>2 DEF RowOK, Status
    <2> HIDE DEF old
    <2>4. /\ new \in Deployment /\ Unwritable(new) = Unwritable(old)
          /\ new.rolled_back_to_id = old.rolled_back_to_id /\ new.attempts = old.attempts
          /\ new.status = "FAILED" /\ new.error # "null" /\ new.locked_at = "null"
      BY <2>2 DEF Deployment, DeploymentStatus, Unwritable
    <2> HIDE DEF new
    <2>5. SerialInv' /\ Moves(i, {Status(i)}, new.status)
      BY <1>6, <2>1, <2>3, <2>4, ExecutorSaves DEF EventNames, STUCK_STATES, old
    <2>6. Moves(i, STUCK_STATES, "FAILED")
      BY <2>2, <2>4, <2>5 DEF Moves
    <2> QED BY <2>2, <2>5, <2>6 DEF Effect
  <1>7. CASE RejectVersion(w) \/ FailDeploy(w)
    BY <1>6, <1>7 DEF RejectVersion, FailDeploy, WorkerStep
  <1>8. CASE StartDeploy(w)
    <2> DEFINE new == [old EXCEPT !.status = "DEPLOYING"]
    <2>1. /\ old \in Deployment /\ old = deployments[i] /\ old.status = "VALIDATING"
          /\ old.locked_at = "fresh" /\ old.worker_id = w /\ RowOK(old) /\ i \in Ids
          /\ At(w) = "decide"
      BY <1>1, <1>8 DEF StartDeploy, WorkerStep, ExecutionPoints, Held, Fresh, Status
    <2>2. ~Refused(i, old, new)
      BY <2>1, NotRefused DEF Status, IN_FLIGHT, STUCK_STATES
    <2>3. Save(w, new, "deployment_started") /\ Enter(w, [at |-> "deploy", job |-> i])
      BY <1>8, <2>2 DEF StartDeploy
    <2> HIDE DEF old
    <2>4. /\ new \in Deployment /\ Unwritable(new) = Unwritable(old)
          /\ new.rolled_back_to_id = old.rolled_back_to_id /\ new.attempts = old.attempts
          /\ new.status = "DEPLOYING" /\ new.error = old.error /\ new.locked_at = "fresh"
          /\ new.worker_id = w
      BY <2>1 DEF Deployment, DeploymentStatus, Unwritable
    <2>5. new.error = "null" /\ new.attempts > 0
      BY <2>1, <2>4 DEF RowOK, STUCK_STATES
    <2> HIDE DEF new
    <2>6. SerialInv' /\ Moves(i, {Status(i)}, new.status)
      BY <2>1, <2>3, <2>4, <2>5, ExecutorSaves DEF EventNames, old
    <2> QED BY <2>1, <2>4, <2>6 DEF Effect, Status
  <1>9. CASE CompleteDeploy(w)
    <2> DEFINE new == [old EXCEPT !.status = "SUCCEEDED", !.error = "null", !.locked_at = "null"]
    <2>1. At(w) = "finish" /\ Save(w, new, "deployment_completed") /\ Enter(w, [at |-> "drain"])
      BY <1>9 DEF CompleteDeploy, WorkerStep
    <2>2. /\ old \in Deployment /\ old = deployments[i] /\ Status(i) = "DEPLOYING"
          /\ RowOK(old) /\ i \in Ids /\ deployments[i].worker_id = w
      BY <1>1, <2>1 DEF ExecutionPoints, Held, Fresh
    <2>3. old.attempts > 0
      BY <2>2 DEF RowOK, Status, STUCK_STATES
    <2> HIDE DEF old
    <2>4. /\ new \in Deployment /\ Unwritable(new) = Unwritable(old)
          /\ new.rolled_back_to_id = old.rolled_back_to_id /\ new.attempts = old.attempts
          /\ new.status = "SUCCEEDED" /\ new.error = "null" /\ new.locked_at = "null"
      BY <2>2 DEF Deployment, DeploymentStatus, Unwritable
    <2> HIDE DEF new
    <2>5. SerialInv' /\ Moves(i, {Status(i)}, new.status)
      BY <2>1, <2>3, <2>4, ExecutorSaves DEF EventNames, STUCK_STATES, old
    <2>6. Completes(w, i)
      BY <2>1, <2>2, <2>4, <2>5 DEF Completes, old
    <2> QED BY <2>2, <2>5, <2>6 DEF Effect
  <1> QED BY <1>3, <1>4, <1>5, <1>7, <1>8, <1>9 DEF Execute

LEMMA BeginReapStep ==
  ASSUME Serial, TypeOK, SerialInv, NEW w \in Workers, BeginReap(w)
  PROVE  SerialInv'
  <1> DEFINE rows == [i \in Stuck |-> deployments[i]]
  <1>1. /\ Enter(w, [at |-> "reap", rows |-> rows]) /\ UNCHANGED deployments /\ At(w) = "drained"
        /\ w \in Processes /\ w \notin Handlers
    BY ProcessAssumption DEF BeginReap, WorkerStep, Processes
  <1>2. ASSUME NEW i \in Stuck PROVE Alone(w, i)
    <2>1. i \in Ids /\ Status(i) \in STUCK_STATES /\ deployments[i].locked_at = "stale"
      BY DEF Stuck
    <2> SUFFICES ASSUME NEW q \in Processes \ {w}, Holds(q, i) PROVE FALSE
      BY DEF Alone
    <2>2. At(q) = "reap"
      BY <2>1, HeldRow DEF STUCK_STATES
    <2>3. q \in Workers
      BY <2>2 DEF SerialInv, ProcessOK, PlaceOK, HandlerPoints, Processes
    <2>4. MaxCrashes # 0
      BY <2>1 DEF SerialInv, Attended
    <2> QED BY <2>3, <2>4 DEF Serial
  <1>3. ASSUME session'[w] = [at |-> "reap", rows |-> rows]
        PROVE  ProcessOK(w)' /\ \A i : Holds(w, i)' => i \in Stuck
    <2>1. /\ DOMAIN rows = Stuck
          /\ \A i \in Stuck : /\ rows[i] = deployments'[i]
                              /\ deployments'[i].status \in STUCK_STATES
                              /\ deployments'[i].locked_at = "stale"
      BY <1>1 DEF Stuck, Status
    <2> HIDE DEF rows
    <2>2. At(w)' = "reap" /\ session'[w].rows = rows
      BY <1>3 DEF At
    <2>3. PlaceOK(w)'
      BY <1>1, <2>2 DEF PlaceOK, HandlerPoints
    <2>4. ReapFresh(w)'
      BY <2>1, <2>2 DEF ReapFresh, Status
    <2>5. Fresh(w)' /\ Held(w)' /\ RollbackOK(w)' /\ InsertOK(w)'
      BY <2>2 DEF Fresh, Held, RollbackOK, InsertOK, ExecutionPoints
    <2>6. \A i : Holds(w, i)' => i \in Stuck
      BY <2>1, <2>2 DEF Holds, ExecutionPoints
    <2> QED BY <2>3, <2>4, <2>5, <2>6 DEF ProcessOK
  <1> HIDE DEF rows
  <1> QED BY <1>1, <1>2, <1>3, ReadSerial DEF Executing

\* What the reaper makes of a stuck row.
LEMMA ReapedFresh ==
  ASSUME NEW d \in Deployment, RowOK(d), d.status \in STUCK_STATES, d.locked_at = "stale"
  PROVE  \E r \in Deployment :
           /\ record_event(Flush(d, Reaped(d), d), ReapEvent(d), Reaped(d)) = r
           /\ RowOK(r) /\ r.version = d.version /\ r.environment = d.environment
           /\ r.rolled_back_to_id = d.rolled_back_to_id
           /\ r.status \in {"REQUESTED", "FAILED"} /\ r.locked_at \in {"null", "stale"}
           /\ r.status = "REQUESTED" => r.locked_at = "null"
  <1> DEFINE new == Reaped(d)
             event == ReapEvent(d)
             r == record_event(new, event, new)
  <1>1. new \in Deployment /\ event \in EventNames
    BY ReapedTypes
  <1>2. CASE d.attempts >= MAX_ATTEMPTS
    <2>1. new = [d EXCEPT !.status = "FAILED", !.error = "worker_lost"]
      BY <1>2 DEF Reaped
    <2> HIDE DEF new
    <2>2. /\ Unwritable(new) = Unwritable(d) /\ new.rolled_back_to_id = d.rolled_back_to_id
          /\ new.status = "FAILED" /\ new.error = "worker_lost" /\ new.locked_at = d.locked_at
          /\ new.attempts = d.attempts /\ new.version = d.version
          /\ new.environment = d.environment
      BY <2>1 DEF Deployment, Unwritable
    <2>3. Flush(d, new, d) = new
      BY <1>1, <2>2, FlushFresh
    <2> HIDE DEF event, r
    <2>4. /\ r \in Deployment /\ r.version = d.version /\ r.environment = d.environment
          /\ r.rolled_back_to_id = d.rolled_back_to_id /\ r.status = "FAILED"
          /\ r.locked_at = d.locked_at /\ r.error = "worker_lost" /\ r.attempts = d.attempts
          /\ r.last.status = "FAILED"
      BY <1>1, <2>2, RecordedRow DEF r
    <2>5. RowOK(r)
      BY <2>4 DEF RowOK, STUCK_STATES
    <2> QED BY <2>3, <2>4, <2>5 DEF r, new, event
  <1>3. CASE ~(d.attempts >= MAX_ATTEMPTS)
    <2>1. new = [d EXCEPT !.status = "REQUESTED", !.worker_id = "null", !.locked_at = "null"]
      BY <1>3 DEF Reaped
    <2> HIDE DEF new
    <2>2. /\ Unwritable(new) = Unwritable(d) /\ new.rolled_back_to_id = d.rolled_back_to_id
          /\ new.status = "REQUESTED" /\ new.error = d.error /\ new.locked_at = "null"
          /\ new.version = d.version /\ new.environment = d.environment
      BY <2>1 DEF Deployment, Unwritable
    <2>3. Flush(d, new, d) = new
      BY <1>1, <2>2, FlushFresh
    <2> HIDE DEF event, r
    <2>4. /\ r \in Deployment /\ r.version = d.version /\ r.environment = d.environment
          /\ r.rolled_back_to_id = d.rolled_back_to_id /\ r.status = "REQUESTED"
          /\ r.locked_at = "null" /\ r.error = d.error /\ r.last.status = "REQUESTED"
      BY <1>1, <2>2, RecordedRow DEF r
    <2>5. RowOK(r)
      BY <2>4 DEF RowOK, STUCK_STATES
    <2> QED BY <2>3, <2>4, <2>5 DEF r, new, event
  <1> QED BY <1>2, <1>3

LEMMA ReapStep ==
  ASSUME TypeOK, ActiveInv, SerialInv, NEW w \in Workers, reap_stuck(w)
  PROVE  SerialInv' /\ Effect
  <1> DEFINE rows == session[w].rows
             lost == DOMAIN rows
             new(i) == record_event(Flush(rows[i], Reaped(rows[i]), deployments[i]),
                                    ReapEvent(rows[i]), Reaped(rows[i]))
  <1>1. /\ w \in Processes /\ w \notin Handlers /\ At(w) = "reap" /\ lost \subseteq Ids
        /\ \A i \in lost : /\ rows[i] = deployments[i] /\ deployments[i] \in Deployment
                           /\ Status(i) \in STUCK_STATES
                           /\ deployments[i].locked_at = "stale" /\ RowOK(deployments[i])
    <2>1. w \in Processes /\ w \notin Handlers /\ At(w) = "reap"
      BY ProcessAssumption DEF Processes, reap_stuck, WorkerStep
    <2>2. SessionOK(w) /\ ReapFresh(w)
      BY <2>1 DEF TypeOK, SerialInv, ProcessOK
    <2>3. lost \subseteq Ids
      BY <2>1, <2>2 DEF SessionOK
    <2> QED BY <2>1, <2>2, <2>3 DEF ReapFresh, TypeOK, Ids, SerialInv, RowsOK
  <1>2. ~ \E i \in lost : Refused(i, rows[i], Reaped(rows[i]))
    BY <1>1, NotRefused DEF IN_FLIGHT
  <1>3. /\ deployments' = [i \in Ids |-> IF i \in lost THEN new(i) ELSE deployments[i]]
        /\ Enter(w, [at |-> "drain"])
    BY <1>2 DEF reap_stuck
  <1>4. \A i \in lost : new(i) = record_event(Flush(deployments[i], Reaped(deployments[i]), deployments[i]),
                                              ReapEvent(deployments[i]), Reaped(deployments[i]))
    BY <1>1
  <1> HIDE DEF new, lost, rows
  <1>5. Ids' = Ids /\ \A i \in Ids \ lost : deployments'[i] = deployments[i]
    BY <1>3 DEF Ids
  <1>6. ASSUME NEW i \in lost
        PROVE  /\ RowOK(deployments'[i]) /\ deployments'[i].version = deployments[i].version
               /\ deployments'[i].environment = deployments[i].environment
               /\ deployments'[i].rolled_back_to_id = deployments[i].rolled_back_to_id
               /\ Status(i)' \in {"REQUESTED", "FAILED"}
               /\ deployments'[i].locked_at \in {"null", "stale"}
               /\ Status(i) \in STUCK_STATES /\ deployments[i].locked_at = "stale"
    <2>1. deployments'[i] = new(i)
      BY <1>1, <1>3
    <2>2. /\ deployments[i] \in Deployment /\ RowOK(deployments[i])
          /\ deployments[i].status \in STUCK_STATES /\ deployments[i].locked_at = "stale"
      BY <1>1 DEF Status
    <2> QED BY <1>4, <2>1, <2>2, ReapedFresh DEF Status
  <1>7. session'[w] = [at |-> "drain"] /\ \A q \in Processes \ {w} : session'[q] = session[q]
    BY <1>1, <1>3 DEF TypeOK, Enter
  <1>8. RowsOK' /\ EndsStay
    BY <1>5, <1>6 DEF SerialInv, RowsOK, EndsStay, Status, STUCK_STATES
  <1>9. \A i \in lost : Holds(w, i) /\ Alone(w, i)
    BY <1>1 DEF Holds, SerialInv, OneHolder, Alone, lost, rows
  <1>10. ~ \E i : Executing(w, i)
    BY <1>1 DEF Executing
  <1>11. \A i \in Ids' : Attended(i)'
    BY <1>1, <1>5, <1>6, <1>7, <1>10, AttendedKept
  <1>12. ProcessOK(w)' /\ \A i : ~Holds(w, i)'
    BY <1>7, WorkerFree
  <1>13. SerialInv'
    BY <1>1, <1>3, <1>5, <1>8, <1>9, <1>11, <1>12, StepSerial
  <1>14. Reaps(lost) /\ lost \subseteq Ids
    BY <1>1, <1>5, <1>6 DEF Reaps
  <1> QED BY <1>13, <1>14 DEF Effect

LEMMA WorkerSerial ==
  ASSUME Serial, TypeOK, ActiveInv, SerialInv, NEW w \in Workers, Work(w) \/ Crash(w) \/ Restart(w)
  PROVE  SerialInv' /\ Effect
  <1>1. w \in Processes
    BY DEF Processes
  \* Steps out of and into points where nothing is held.
  <1>2. ASSUME NEW at \in {"drain", "drained", "down"}, Enter(w, [at |-> at]),
               UNCHANGED deployments, MaxCrashes # 0 \/ At(w) \notin ExecutionPoints
        PROVE  SerialInv' /\ Effect
    <2>1. session'[w] = [at |-> at] => ProcessOK(w)' /\ \A i : ~Holds(w, i)'
      BY WorkerFree
    <2>2. MaxCrashes = 0 => ~ \E i : Executing(w, i)
      BY <1>2 DEF Executing, ExecutionPoints
    <2>3. SerialInv'
      BY <1>1, <1>2, <2>1, <2>2, ReadSerial
    <2> QED BY <1>2, <2>3 DEF Effect
  <1>3. CASE DrainEmpty(w) \/ SkipReap(w)
    BY <1>2, <1>3 DEF DrainEmpty, SkipReap, WorkerStep, ExecutionPoints
  <1>4. CASE Restart(w)
    BY <1>2, <1>4 DEF Restart, Up, ExecutionPoints
  <1>5. CASE Crash(w)
    <2>1. MaxCrashes # 0
      BY <1>5, BoundAssumption DEF Crash, TypeOK
    <2> QED BY <1>2, <1>5, <2>1 DEF Crash
  <1>6. BeginClaim(w) \/ BeginReap(w) => SerialInv' /\ Effect
    BY BeginClaimStep, BeginReapStep DEF BeginClaim, BeginReap, Effect
  <1> QED BY <1>3, <1>4, <1>5, <1>6, ClaimStep, ExecuteStep, ReapStep DEF Work

------------------------------------------------------------------------------
\* Every step keeps the invariant, and is one the contract knows

LEMMA ExpireStep ==
  ASSUME Serial, TypeOK, SerialInv, NEW i \in Ids, Expire(i)
  PROVE  SerialInv' /\ Effect
  <1> DEFINE d == deployments[i]
             r == [d EXCEPT !.locked_at = "stale"]
  <1>1. /\ d \in Deployment /\ d.locked_at = "fresh" /\ RowOK(d) /\ UNCHANGED session
        /\ deployments' = [deployments EXCEPT ![i] = r]
        /\ ~ \E w \in Workers : Executing(w, i)
    BY DEF TypeOK, Ids, Expire, SerialInv, RowsOK, Serial
  <1>2. /\ r \in Deployment /\ r.version = d.version /\ r.environment = d.environment
        /\ r.status = d.status /\ r.locked_at = "stale" /\ r.error = d.error
        /\ r.attempts = d.attempts /\ r.last = d.last /\ r.rolled_back_to_id = d.rolled_back_to_id
    BY <1>1 DEF Deployment
  <1> HIDE DEF r
  <1>3. RowOK(r)
    BY <1>1, <1>2 DEF RowOK
  <1>4. Updates(i, r)
    BY <1>1, <1>2, <1>3, TableUpdate DEF Updates, Ids, TypeOK
  <1>5. MaxCrashes # 0
    BY <1>1 DEF SerialInv, Attended
  <1>6. \A q \in Processes : ~Holds(q, i)
    <2> SUFFICES ASSUME NEW q \in Processes, Holds(q, i) PROVE FALSE
      OBVIOUS
    <2>1. At(q) \in ExecutionPoints /\ Job(q) = i
      BY <1>1, HeldRow DEF RowOK, STUCK_STATES, Status
    <2>2. q \in Workers
      BY <2>1 DEF SerialInv, ProcessOK, PlaceOK, HandlerPoints, ExecutionPoints, Processes
    <2> QED BY <1>1, <2>1, <2>2 DEF Executing, ExecutionPoints
  <1>7. RowsOK' /\ EndsStay
    BY <1>2, <1>4 DEF SerialInv, RowsOK, EndsStay, Status, Updates
  <1>8. \A q \in Processes : ProcessOK(q)'
    BY <1>1, <1>4, <1>6, <1>7, OthersOK DEF SerialInv, Updates
  <1>9. OneHolder'
    BY <1>1, <1>4 DEF SerialInv, OneHolder, Holds, At, Job, Updates
  <1>10. \A j \in Ids' : Attended(j)'
    BY <1>5 DEF Attended
  <1>11. Stays(i)
    BY <1>1, <1>2, <1>4 DEF Stays, Moves, Status, RowOK
  <1> QED BY <1>7, <1>8, <1>9, <1>10, <1>11 DEF SerialInv, Effect

LEMMA SerialInit == Init => SerialInv
  <1> SUFFICES ASSUME Init PROVE SerialInv
    OBVIOUS
  <1>1. ASSUME NEW i \in Ids PROVE RowOK(deployments[i]) /\ deployments[i].locked_at = "null"
    <2> DEFINE e == Seeded[i].error
    <2>1. i \in DOMAIN Seeded /\ deployments[i] = _make_deployment(Seeded[i])
      BY DEF Init, Ids
    <2>2. /\ deployments[i].locked_at = "null" /\ deployments[i].error = e
          /\ deployments[i].status = (IF e = "null" THEN "SUCCEEDED" ELSE "FAILED")
          /\ deployments[i].attempts = 1 /\ deployments[i].last.status = deployments[i].status
      BY <2>1 DEF _make_deployment, record_event, NewDeployment
    <2> HIDE DEF e
    <2> QED BY <2>2 DEF RowOK, STUCK_STATES
  <1>2. \A p \in Processes : At(p) = IF p \in Workers THEN "drain" ELSE "idle"
    BY DEF Init, At
  <1>3. ASSUME NEW p \in Processes PROVE ProcessOK(p) /\ \A i : ~Holds(p, i)
    BY <1>2, ProcessAssumption DEF ProcessOK, Fresh, Held, RollbackOK, InsertOK, ReapFresh, PlaceOK,
       Holds, HandlerPoints, ExecutionPoints, Processes
  <1> QED BY <1>1, <1>3 DEF SerialInv, RowsOK, OneHolder, Attended

LEMMA SerialStep ==
  ASSUME Serial, TypeOK, ActiveInv, SerialInv, [Next]_vars
  PROVE  SerialInv' /\ Effect
  <1>1. CASE UNCHANGED <<deployments, session>>
    <2>1. \A q \in Processes : At(q)' = At(q) /\ Job(q)' = Job(q)
      BY <1>1 DEF At, Job
    <2>2. Ids' = Ids /\ \A i \in Ids : Status(i)' = Status(i)
      BY <1>1 DEF Ids, Status
    <2>3. EndsStay /\ RowsOK'
      BY <1>1, <2>2 DEF EndsStay, SerialInv, RowsOK
    <2>4. \A q \in Processes : ProcessOK(q)'
      BY <1>1, <2>3, OthersOK DEF SerialInv
    <2>5. OneHolder' /\ \A i \in Ids' : Attended(i)'
      BY <1>1, <2>1, <2>2 DEF SerialInv, OneHolder, Holds, Attended, Executing, Processes
    <2> QED BY <1>1, <2>3, <2>4, <2>5 DEF SerialInv, Effect
  <1>2. CASE UNCHANGED vars
    BY <1>1, <1>2 DEF vars
  <1> QED BY <1>2, ExpireStep, HandlerSerial, WorkerSerial DEF Next

------------------------------------------------------------------------------
\* What follows

LEMMA SerialAlways ==
  ASSUME Serial
  PROVE  Spec => [](TypeOK /\ ActiveInv /\ SerialInv)
  <1>1. TypeOK /\ ActiveInv /\ SerialInv /\ [Next]_vars => SerialInv'
    BY SerialStep
  <1> QED BY <1>1, TypeInit, TypeStep, ActiveInit, ActiveStep, SerialInit, PTL DEF Spec

\* The last event of a deployment's timeline carries the row's status: events are
\* written in the transaction that changes the status, by a process whose loaded
\* row is the table's.
THEOREM TimelineOfRow ==
  ASSUME Serial
  PROVE  Spec => []TimelineAgrees
  <1>1. SerialInv => TimelineAgrees
    BY DEF SerialInv, RowsOK, RowOK, TimelineAgrees, Status
  <1> QED BY <1>1, SerialAlways, PTL

\* A deployment carries an error if and only if it has failed: a retry clears it,
\* and no stale session writes an old one back.
THEOREM ErrorOfRow ==
  ASSUME Serial
  PROVE  Spec => []ErrorMatchesStatus
  <1>1. SerialInv => ErrorMatchesStatus
    BY DEF SerialInv, RowsOK, RowOK, ErrorMatchesStatus, Status
  <1> QED BY <1>1, SerialAlways, PTL

\* Whatever the worker was doing when it died, the row it left in a transient
\* state has a locked_at, which is what reap_stuck looks for.
THEOREM CrashRecoverable ==
  ASSUME Serial
  PROVE  Spec => []Recoverable
  <1>1. SerialInv => Recoverable
    BY DEF SerialInv, RowsOK, RowOK, Recoverable, Status
  <1> QED BY <1>1, SerialAlways, PTL

\* The claim's lock and the status it sets keep a second worker off the row until
\* the first has given it up (claim_one, reap_stuck).
THEOREM OneExecutor ==
  ASSUME Serial
  PROVE  Spec => []SingleExecutor
  <1>1. SerialInv => SingleExecutor
    BY DEF SerialInv, OneHolder, Holds, SingleExecutor, Executing, ExecutionPoints, Processes
  <1> QED BY <1>1, SerialAlways, PTL

\* The index never refuses what a worker writes, so that process_deployment and
\* reap_stuck, which do not catch an IntegrityError, do not need to.
THEOREM WorkersStayUp ==
  ASSUME Serial
  PROVE  Spec => []NoWorkerAborts
  <1>1. SerialInv => NoWorkerAborts
    BY DEF SerialInv, ProcessOK, PlaceOK, NoWorkerAborts, Processes
  <1> QED BY <1>1, SerialAlways, PTL

\* What a row that no step writes, or adds, shows.
LEMMA RowsUnwritten ==
  ASSUME TypeOK, UNCHANGED deployments \/ \E h \in Handlers : Inserts(h)
  PROVE  \A i \in Ids : deployments'[i] = deployments[i] /\ i \in Ids'
  <1>1. ASSUME NEW h \in Handlers, Inserts(h)
        PROVE  \A i \in Ids : deployments'[i] = deployments[i] /\ i \in Ids'
    <2>1. session[h].row \in Deployment /\ deployments \in Seq(Deployment)
      BY <1>1 DEF TypeOK, SessionOK, Inserts, WithRow, Processes
    <2> QED BY <1>1, <2>1, TableAppend DEF Inserts, Ids
  <1> QED BY <1>1 DEF Ids

\* A deployment succeeds only through the worker that claimed it last.
THEOREM OwnersComplete ==
  ASSUME Serial
  PROVE  Spec => OwnerCompletes
  <1>1. ASSUME TypeOK, Effect, NEW i \in Ids PROVE CompletedByOwner(i)
    <2> SUFFICES ASSUME Status(i) # "SUCCEEDED", Status(i)' = "SUCCEEDED"
                 PROVE  \E w \in Workers : Completes(w, i)
      BY DEF CompletedByOwner, Completes
    <2>1. ~(UNCHANGED deployments \/ \E h \in Handlers : Inserts(h))
      BY <1>1, RowsUnwritten DEF Status
    <2>2. ASSUME NEW j \in Ids, NEW from, NEW to, Moves(j, from, to) PROVE j = i /\ to = "SUCCEEDED"
      BY <1>1, <2>2 DEF Moves, Updates, Status
    <2>3. ASSUME NEW lost \in SUBSET Ids, Reaps(lost) PROVE FALSE
      BY <1>1, <2>3 DEF Reaps, Status
    <2>4. ASSUME NEW j \in Ids, NEW h \in Handlers, RollsBack(h, j) PROVE FALSE
      BY <1>1, <2>4 DEF RollsBack, Updates, Status
    <2>5. PICK j \in Ids : \/ Stays(j)
                           \/ Retries(j)
                           \/ Moves(j, {"REQUESTED"}, "VALIDATING")
                           \/ Moves(j, {"VALIDATING"}, "DEPLOYING")
                           \/ Moves(j, STUCK_STATES, "FAILED")
                           \/ \E w \in Workers : Completes(w, j)
      BY <1>1, <2>1, <2>3, <2>4 DEF Effect
    <2>6. PICK w \in Workers : Completes(w, j)
      BY <2>2, <2>5 DEF Retries, Stays, STUCK_STATES
    <2>7. j = i
      BY <2>2, <2>6 DEF Completes
    <2> QED BY <2>6, <2>7
  <1>2. TypeOK /\ ActiveInv /\ SerialInv /\ [Next]_vars => [\A i \in Ids : CompletedByOwner(i)]_vars
    BY <1>1, SerialStep
  <1> QED BY <1>2, SerialAlways, PTL DEF Spec, OwnerCompletes

------------------------------------------------------------------------------
\* Rollbacks

\* The status that a row has before a step that writes it.
LEMMA MovesOne ==
  ASSUME NEW i \in Ids, NEW from, NEW to, Moves(i, from, to), "SUCCEEDED" \notin from, NEW j \in Ids
  PROVE  /\ j \in Ids'
         /\ deployments'[j].version = deployments[j].version
         /\ deployments'[j].environment = deployments[j].environment
         /\ Status(j) = "SUCCEEDED" => deployments'[j] = deployments[j]
  BY DEF Moves, Updates, Status

\* Rows keep their slot, and a success stays as it is until its own rollback.
LEMMA SuccessKept ==
  ASSUME TypeOK, Effect, NEW j \in Ids
  PROVE  /\ j \in Ids'
         /\ deployments'[j].version = deployments[j].version
         /\ deployments'[j].environment = deployments[j].environment
         /\ Status(j) = "SUCCEEDED" =>
              deployments'[j] = deployments[j] \/ \E h \in Handlers : RollsBack(h, j)
  <1>1. CASE UNCHANGED deployments \/ \E h \in Handlers : Inserts(h)
    BY <1>1, RowsUnwritten
  <1>2. CASE \E i \in Ids : \/ Stays(i)
                           \/ Retries(i)
                           \/ Moves(i, {"REQUESTED"}, "VALIDATING")
                           \/ Moves(i, {"VALIDATING"}, "DEPLOYING")
                           \/ Moves(i, STUCK_STATES, "FAILED")
                           \/ \E w \in Workers : Completes(w, i)
    <2>1. \E i \in Ids : \E from, to : Moves(i, from, to) /\ "SUCCEEDED" \notin from
      BY <1>2 DEF Retries, Completes, Stays, STUCK_STATES
    <2> QED BY <2>1, MovesOne
  <1>3. CASE \E i \in Ids, h \in Handlers : RollsBack(h, i)
    BY <1>3 DEF RollsBack, Updates
  <1>4. CASE \E lost \in SUBSET Ids : Reaps(lost)
    BY <1>4 DEF Reaps, Status, STUCK_STATES
  <1> QED BY <1>1, <1>2, <1>3, <1>4 DEF Effect

\* A rollback is always onto an older success, or one that was; and then there is
\* another one, older still.
LEMMA SuccessLeft ==
  ASSUME TypeOK, Effect, Unstranded, NEW i \in Ids, NEW j \in Ids, Status(j) = "SUCCEEDED",
         SameSlot(deployments[j], deployments[i])
  PROVE  \E k \in Ids : /\ k \in Ids' /\ k <= j
                        /\ SameSlot(deployments[k], deployments[i])
                        /\ deployments'[k].status = "SUCCEEDED"
                        /\ deployments'[k].version = deployments[k].version
                        /\ deployments'[k].environment = deployments[k].environment
  <1>0. j \in Nat
    BY DEF TypeOK, Ids
  <1>1. CASE deployments'[j] = deployments[j]
    BY <1>0, <1>1, SuccessKept DEF Status
  <1>2. CASE \E h \in Handlers : RollsBack(h, j)
    <2>1. PICK h \in Handlers : RollsBack(h, j)
      BY <1>2
    <2>2. PICK k \in Ids : /\ k < j /\ Status(k) = "SUCCEEDED"
                           /\ SameSlot(deployments[k], deployments[j])
      BY <2>1 DEF Unstranded, StrandOK, RollsBack, Processes
    <2>3. k # j /\ k <= j /\ k \in Nat
      BY <1>0, <2>2 DEF TypeOK, Ids
    <2>4. deployments'[k] = deployments[k]
      BY <2>1, <2>3 DEF RollsBack, Updates
    <2>5. SameSlot(deployments[k], deployments[i])
      BY <2>2 DEF SameSlot
    <2> QED BY <2>2, <2>3, <2>4, <2>5, SuccessKept DEF Status
  <1> QED BY <1>1, <1>2, SuccessKept

\* Only BeginRollback leads to a rollback.
LEMMA RollbackBegun ==
  ASSUME TypeOK, [Next]_vars, NEW p \in Processes, At(p)' = "rollback"
  PROVE  session'[p] = session[p] \/ \E i \in Ids : p \in Handlers /\ BeginRollback(p, i)
  <1>0. ASSUME NEW s, Enter(p, s) PROVE At(p)' = s.at
    BY <1>0 DEF TypeOK, Enter, At
  <1>1. ASSUME p \in Handlers, Handle(p) PROVE \E i \in Ids : BeginRollback(p, i)
    <2>1. ~(\E s : Enter(p, s) /\ s.at \in {"idle", "insert", "retry", "promote"})
      BY <1>0
    <2>2. ~ \/ request_deployment(p) \/ retry_deployment(p) \/ rollback_deployment(p)
            \/ ChangeStage(p) \/ Abandon(p)
      BY <2>1 DEF request_deployment, retry_deployment, rollback_deployment, ChangeStage, Abandon
    <2>3. \A i \in Ids : ~BeginRetry(p, i)
      BY <2>1 DEF BeginRetry
    <2>4. \A v, e, k, fail : ~BeginRequest(p, v, e, k, fail)
      BY <2>1 DEF BeginRequest
    <2>5. \A v, target : ~BeginStageChange(p, v, target)
      BY <2>1 DEF BeginStageChange
    <2> QED BY <1>1, <2>2, <2>3, <2>4, <2>5 DEF Handle
  <1>2. ASSUME Work(p) \/ Crash(p) \/ Restart(p) PROVE FALSE
    <2>1. ~(\E s : Enter(p, s) /\ s.at # "rollback")
      BY <1>0
    <2>2. ~Execute(p)
      BY <2>1 DEF Execute, ValidationStarted, ReadVersion, RejectVersion, StartDeploy, EndDeploy,
         FailDeploy, CompleteDeploy, _fail
    <2>3. ~BeginClaim(p)
      <3> SUFFICES ASSUME NEW i, Enter(p, [at |-> "claim", job |-> i, row |-> deployments[i]])
                   PROVE  FALSE
        BY DEF BeginClaim
      <3> QED BY <2>1
    <2>4. ~(DrainEmpty(p) \/ SkipReap(p) \/ claim_one(p) \/ BeginReap(p))
      BY <2>1 DEF DrainEmpty, SkipReap, claim_one, BeginReap
    <2>5. ~(reap_stuck(p) \/ Crash(p) \/ Restart(p))
      BY <2>1 DEF reap_stuck, Crash, Restart
    <2> QED BY <1>2, <2>2, <2>3, <2>4, <2>5 DEF Work
  <1> QED BY <1>1, <1>2, OneSession

LEMMA UnstrandedStep ==
  ASSUME TypeOK, Effect, Unstranded, [Next]_vars
  PROVE  Unstranded'
  <1> SUFFICES ASSUME NEW p \in Processes, At(p)' = "rollback" PROVE StrandOK(p)'
    BY DEF Unstranded, StrandOK
  <1>1. CASE session'[p] = session[p]
    <2> DEFINE i == Job(p)
    <2>1. At(p) = "rollback" /\ i' = i /\ i \in Ids
      BY <1>1 DEF At, Job, TypeOK, SessionOK, WithJob
    <2>2. PICK j \in Ids : /\ j < i /\ Status(j) = "SUCCEEDED"
                           /\ SameSlot(deployments[j], deployments[i])
      BY <2>1 DEF Unstranded, StrandOK
    <2> HIDE DEF i
    <2>3. PICK k \in Ids : /\ k \in Ids' /\ k <= j
                           /\ SameSlot(deployments[k], deployments[i])
                           /\ deployments'[k].status = "SUCCEEDED"
                           /\ deployments'[k].version = deployments[k].version
                           /\ deployments'[k].environment = deployments[k].environment
      BY <2>1, <2>2, SuccessLeft
    <2>4. k < i /\ i \in Ids'
      BY <2>1, <2>2, <2>3, SuccessKept DEF TypeOK, Ids
    <2>5. SameSlot(deployments'[k], deployments'[i])
      BY <2>1, <2>3, SuccessKept DEF SameSlot
    <2>6. i' = Job(p)'
      BY DEF i
    <2> QED BY <2>1, <2>3, <2>4, <2>5, <2>6 DEF StrandOK, Status, SameSlot
  <1>2. CASE \E i \in Ids : p \in Handlers /\ BeginRollback(p, i)
    <2>1. PICK i \in Ids : BeginRollback(p, i)
      BY <1>2
    <2>2. PICK t \in RollbackTargets(i) :
            Enter(p, [at |-> "rollback", job |-> i, row |-> deployments[i], target |-> t])
      BY <2>1 DEF BeginRollback
    <2>3. Job(p)' = i /\ UNCHANGED deployments
      BY <2>1, <2>2 DEF BeginRollback, Enter, Job, TypeOK
    <2>4. t \in Ids /\ t < i /\ Status(t) = "SUCCEEDED" /\ SameSlot(deployments[t], deployments[i])
      BY DEF RollbackTargets
    <2> QED BY <2>3, <2>4 DEF StrandOK, Ids, Status, SameSlot
  <1> QED BY <1>1, <1>2, RollbackBegun

\* The slot of a deployment that has succeeded keeps a success: the target that a
\* rollback read may be rolled back before it commits, but then the target of that
\* one is there, and so on down to the oldest (rollback_deployment).
THEOREM NeverStranding ==
  ASSUME Serial
  PROVE  Spec => NotStranded
  <1>1. Init => Unstranded
    BY DEF Init, Unstranded, StrandOK, At
  <1>2. TypeOK /\ ActiveInv /\ SerialInv /\ Unstranded /\ [Next]_vars => Unstranded'
    BY SerialStep, UnstrandedStep
  <1>3. ASSUME TypeOK, Effect, Unstranded, NEW i \in Ids PROVE KeepsSuccess(i)
    <2>1. Status(i) = "SUCCEEDED" =>
            \E k \in Ids : SameSlot(deployments[k], deployments[i])
                           /\ deployments'[k].status = "SUCCEEDED"
      BY <1>3, SuccessLeft DEF SameSlot
    <2> QED BY <2>1 DEF KeepsSuccess, Status
  <1>4. TypeOK /\ ActiveInv /\ SerialInv /\ Unstranded /\ [Next]_vars =>
          [\A i \in Ids : KeepsSuccess(i)]_vars
    BY <1>3, SerialStep
  <1> QED BY <1>1, <1>2, <1>4, SerialAlways, PTL DEF Spec, NotStranded

------------------------------------------------------------------------------
\* The contract

OneHandler == \A g, h \in Handlers : g = h

\* With one handler nothing comes between a rollback and what it has read.
LEMMA TargetsStep ==
  ASSUME OneHandler, TypeOK, SerialInv, TargetsOK, Effect, [Next]_vars
  PROVE  TargetsOK'
  <1> SUFFICES ASSUME NEW p \in Processes, At(p)' = "rollback" PROVE TargetOK(p)'
    BY DEF TargetsOK, TargetOK
  <1>1. CASE session'[p] = session[p]
    <2> DEFINE i == Job(p)
               t == session[p].target
    <2>1. /\ At(p) = "rollback" /\ Job(p)' = i /\ i \in Ids /\ session'[p].target = t
          /\ session'[p].row = session[p].row
      BY <1>1 DEF At, Job, TypeOK, SessionOK, WithJob
    <2>2. /\ session[p].row = deployments[i] /\ Status(i) = "SUCCEEDED" /\ t \in Ids /\ t < i
          /\ Status(t) = "SUCCEEDED" /\ SameSlot(deployments[t], deployments[i])
          /\ deployments[t].version # deployments[i].version
      BY <2>1 DEF TargetsOK, TargetOK, RollbackTargets
    <2>3. p \in Handlers
      BY <2>1 DEF SerialInv, ProcessOK, PlaceOK, HandlerPoints, Processes
    <2> HIDE DEF i, t
    <2>4. \A j : ~ \E h \in Handlers : RollsBack(h, j)
      BY <2>3 DEF OneHandler, RollsBack
    <2>5. deployments'[i] = deployments[i] /\ deployments'[t] = deployments[t] /\ t \in Ids'
      BY <2>1, <2>2, <2>4, SuccessKept
    <2>6. PICK k \in Ids, u \in Ids : k = i /\ u = t
      BY <2>1, <2>2
    <2>7. u \in RollbackTargets(k)'
      BY <2>2, <2>5, <2>6 DEF RollbackTargets, Status, SameSlot
    <2> QED BY <1>1, <2>1, <2>2, <2>5, <2>6, <2>7 DEF TargetOK, Status
  <1>2. CASE \E i \in Ids : p \in Handlers /\ BeginRollback(p, i)
    <2>1. PICK i \in Ids : BeginRollback(p, i)
      BY <1>2
    <2>2. PICK t \in RollbackTargets(i) :
            Enter(p, [at |-> "rollback", job |-> i, row |-> deployments[i], target |-> t])
      BY <2>1 DEF BeginRollback
    <2>3. /\ Job(p)' = i /\ session'[p].target = t /\ session'[p].row = deployments[i]
          /\ UNCHANGED deployments /\ Status(i) = "SUCCEEDED"
      BY <2>1, <2>2 DEF BeginRollback, Enter, Job, TypeOK
    <2>4. RollbackTargets(i)' = RollbackTargets(i)
      BY <2>3 DEF RollbackTargets, Ids, Status, SameSlot
    <2> QED BY <2>3, <2>4 DEF TargetOK, Status
  <1> QED BY <1>1, <1>2, RollbackBegun

LEMMA ShownRows ==
  /\ DOMAIN ShownTable = Ids
  /\ \A i \in Ids : /\ ShownTable[i] = Shown(deployments[i])
                    /\ ShownTable[i].version = deployments[i].version
                    /\ ShownTable[i].environment = deployments[i].environment
                    /\ ShownTable[i].status = Status(i)
                    /\ ShownTable[i].rolled_back_to_id = deployments[i].rolled_back_to_id
  BY DEF ShownTable, Shown, Status

LEMMA ShownType ==
  ASSUME TypeOK
  PROVE  ShownTable \in Seq(Contract!Row) /\ Len(ShownTable) = Len(deployments)
  <1>1. deployments \in Seq(Deployment) /\ DOMAIN deployments = 1..Len(deployments)
        /\ Len(deployments) \in Nat
    BY DEF TypeOK
  <1>2. \A i \in Ids : Shown(deployments[i]) \in Contract!Row
    <2>1. ASSUME NEW d \in Deployment PROVE Shown(d) \in Contract!Row
      BY DEF Shown, Deployment, DeploymentStatus, Contract!Row
    <2> QED BY <1>1, <2>1 DEF Ids
  <1>3. ShownTable \in [1..Len(deployments) -> Contract!Row]
    BY <1>1, <1>2 DEF ShownTable, Ids
  <1> QED BY <1>1, <1>3

\* A write to a row is a write to what is shown of it.
LEMMA ShownUpdate ==
  ASSUME NEW i \in Ids, NEW r, Updates(i, r)
  PROVE  ShownTable' = [ShownTable EXCEPT ![i] = Shown(r)]
  <1>1. ShownTable' = [j \in Ids |-> Shown(deployments'[j])]
    BY DEF Updates, ShownTable, Shown
  <1>2. \A j \in Ids : deployments'[j] = IF j = i THEN r ELSE deployments[j]
    BY DEF Updates
  <1> QED BY <1>1, <1>2 DEF ShownTable

LEMMA MovesShown ==
  ASSUME NEW i \in Ids, NEW from, NEW to, Moves(i, from, to)
  PROVE  Contract!Move(i, from, to)
  <1>1. PICK r : /\ Updates(i, r) /\ r.status = to
                 /\ r.rolled_back_to_id = deployments[i].rolled_back_to_id
    BY DEF Moves
  <1>2. Shown(r) = [Shown(deployments[i]) EXCEPT !.status = to]
    BY <1>1 DEF Shown, Updates
  <1>3. ShownTable' = [ShownTable EXCEPT ![i].status = to]
    BY <1>1, <1>2, ShownUpdate, ShownRows
  <1> QED BY <1>3, ShownRows DEF Contract!Move, Moves

LEMMA InsertsShown ==
  ASSUME TypeOK, NEW h \in Handlers, Inserts(h)
  PROVE  Contract!Next
  <1> DEFINE r == session[h].row
             n == Len(deployments)
  <1>1. /\ r \in Deployment /\ r.status = "REQUESTED" /\ r.rolled_back_to_id = 0
        /\ uq_active_deployment(r, Ids) /\ deployments' = Append(deployments, r)
    BY DEF TypeOK, SessionOK, Inserts, InsertOK, WithRow, Processes
  <1>2. Shown(r) = [version |-> r.version, environment |-> r.environment, status |-> "REQUESTED",
                    rolled_back_to_id |-> 0]
    BY <1>1 DEF Shown
  <1>3. r.version \in Versions /\ r.environment \in Environments
    BY <1>1 DEF Deployment
  <1> HIDE DEF r
  <1>4. ShownTable' = Append(ShownTable, Shown(r))
    <2>1. /\ deployments \in Seq(Deployment) /\ n \in Nat /\ Ids = 1..n
      BY DEF TypeOK, Ids
    <2>2. /\ Ids' = 1..(n + 1) /\ deployments'[n + 1] = r
          /\ \A i \in Ids : deployments'[i] = deployments[i]
      BY <1>1, <2>1 DEF Ids
    <2>3. ShownTable' = [i \in 1..(n + 1) |-> Shown(deployments'[i])]
      BY <2>2 DEF ShownTable, Shown
    <2>4. ShownTable \in Seq(Contract!Row) /\ Len(ShownTable) = n
      BY ShownType
    <2> HIDE DEF n
    <2>5. Append(ShownTable, Shown(r)) =
            [i \in 1..(n + 1) |-> IF i = n + 1 THEN Shown(r) ELSE ShownTable[i]]
      <3>1. ASSUME NEW S, NEW s \in Seq(S), NEW x \in S, Len(s) = n
            PROVE  Append(s, x) = [i \in 1..(n + 1) |-> IF i = n + 1 THEN x ELSE s[i]]
        <4>1. /\ Append(s, x) \in Seq(S) /\ Len(Append(s, x)) = n + 1
              /\ DOMAIN Append(s, x) = 1..(n + 1)
              /\ \A i \in 1..(n + 1) : Append(s, x)[i] = IF i = n + 1 THEN x ELSE s[i]
          BY <2>1, <3>1
        <4>2. ASSUME NEW f \in Seq(S) PROVE f = [i \in DOMAIN f |-> f[i]]
          OBVIOUS
        <4>3. Append(s, x) = [i \in DOMAIN Append(s, x) |-> Append(s, x)[i]]
          BY <4>1, <4>2
        <4> QED BY <4>1, <4>3
      <3>2. Shown(r) \in Contract!Row
        BY <1>2, <1>3 DEF Contract!Row
      <3> QED BY <2>1, <2>4, <3>1, <3>2
    <2>6. \A i \in 1..(n + 1) :
            Shown(deployments'[i]) = IF i = n + 1 THEN Shown(r) ELSE ShownTable[i]
      BY <2>1, <2>2, ShownRows
    <2> QED BY <2>3, <2>5, <2>6
  <1>5. ~Contract!Busy(<<ModelOf[r.version], r.environment>>, {})
    <2>1. \A j \in Ids : ~(SameSlot(deployments[j], r) /\ Status(j) \in IN_FLIGHT)
      BY <1>1 DEF uq_active_deployment, IN_FLIGHT, STUCK_STATES
    <2> QED BY <2>1, ShownRows
            DEF Contract!Busy, Contract!Slot, Contract!InFlight, SameSlot, IN_FLIGHT, STUCK_STATES
  <1>6. Contract!Request(r.version, r.environment)
    BY <1>2, <1>4, <1>5 DEF Contract!Request
  <1> QED BY <1>3, <1>6 DEF Contract!Next

LEMMA RetriesShown ==
  ASSUME NEW i \in Ids, Retries(i)
  PROVE  Contract!Retry(i)
  <1>1. \A j \in Ids \ {i} : ~(SameSlot(deployments[j], deployments[i]) /\ Status(j) \in IN_FLIGHT)
    <2> DEFINE r == [deployments[i] EXCEPT !.status = "REQUESTED"]
    <2>1. /\ r.version = deployments[i].version /\ r.environment = deployments[i].environment
          /\ r.status = "REQUESTED"
      BY MovesShown DEF Retries, Moves, Updates, Status
    <2> QED BY <2>1 DEF Retries, uq_active_deployment, IN_FLIGHT, STUCK_STATES, SameSlot
  <1>2. ~Contract!Busy(Contract!Slot(i), {i})
    BY <1>1, ShownRows
    DEF Contract!Busy, Contract!Slot, Contract!InFlight, SameSlot, IN_FLIGHT, STUCK_STATES
  <1> QED BY <1>2, MovesShown DEF Retries, Contract!Retry

LEMMA RollsBackShown ==
  ASSUME TypeOK, TargetsOK, NEW h \in Handlers, NEW i \in Ids, RollsBack(h, i)
  PROVE  Contract!Next
  <1> DEFINE t == session[h].target
  <1>1. /\ session[h].row = deployments[i] /\ Status(i) = "SUCCEEDED"
        /\ t \in Ids /\ t < i /\ Status(t) = "SUCCEEDED"
        /\ SameSlot(deployments[t], deployments[i])
        /\ deployments[t].version # deployments[i].version
    BY DEF TargetsOK, TargetOK, RollsBack, RollbackTargets, Processes
  <1>2. PICK r : Updates(i, r) /\ r.status = "ROLLED_BACK" /\ r.rolled_back_to_id = t
    BY <1>1 DEF RollsBack
  <1> HIDE DEF t
  <1>3. Shown(r) = [Shown(deployments[i]) EXCEPT !.status = "ROLLED_BACK", !.rolled_back_to_id = t]
    <2> DEFINE u == [Shown(deployments[i]) EXCEPT !.status = "ROLLED_BACK", !.rolled_back_to_id = t]
    <2>1. ShownTable[i] \in Contract!Row /\ ShownTable[i] = Shown(deployments[i])
          /\ ShownTable[i].version = deployments[i].version
          /\ ShownTable[i].environment = deployments[i].environment
      BY ShownType, ShownRows
    <2>2. /\ u \in Contract!Row /\ u.status = "ROLLED_BACK" /\ u.rolled_back_to_id = t
          /\ u.version = deployments[i].version /\ u.environment = deployments[i].environment
      <3>1. ASSUME NEW d \in Contract!Row
            PROVE  LET e == [d EXCEPT !.status = "ROLLED_BACK", !.rolled_back_to_id = t] IN
                   /\ e \in Contract!Row /\ e.status = "ROLLED_BACK" /\ e.rolled_back_to_id = t
                   /\ e.version = d.version /\ e.environment = d.environment
        <4>1. t \in Nat
          BY <1>1 DEF TypeOK, Ids
        <4> QED BY <4>1 DEF Contract!Row
      <3> QED BY <2>1, <3>1
    <2> HIDE DEF u
    <2>3. u = [version |-> u.version, environment |-> u.environment, status |-> u.status,
               rolled_back_to_id |-> u.rolled_back_to_id]
      BY <2>2 DEF Contract!Row
    <2>4. u = Shown(r)
      BY <1>2, <2>2, <2>3 DEF Shown, Updates
    <2> QED BY <2>4 DEF u
  <1>4. ShownTable' = [ShownTable EXCEPT ![i].status = "ROLLED_BACK", ![i].rolled_back_to_id = t]
    <2>1. ShownTable' = [ShownTable EXCEPT ![i] = Shown(r)]
      BY <1>2, ShownUpdate
    <2> QED BY <1>3, <2>1, ShownRows
  <1>5. Contract!Rollback(i, t)
    BY <1>1, <1>4, ShownRows DEF Contract!Rollback, Contract!Slot, SameSlot
  <1> QED BY <1>1, <1>5, ShownRows DEF Contract!Next

LEMMA ReapsShown ==
  ASSUME NEW lost \in SUBSET Ids, Reaps(lost)
  PROVE  Contract!Reap
  <1> DEFINE outcome == [i \in lost |-> Status(i)']
  <1>1. lost \in SUBSET { i \in DOMAIN ShownTable :
                            ShownTable[i].status \in {"VALIDATING", "DEPLOYING"} }
    BY ShownRows DEF Reaps, STUCK_STATES
  <1>2. outcome \in [lost -> {"REQUESTED", "FAILED"}]
    BY DEF Reaps
  <1>3. ShownTable' = [i \in Ids |-> Shown(deployments'[i])]
    BY DEF Reaps, ShownTable, Shown
  <1>4. \A i \in lost : Shown(deployments'[i]) = [Shown(deployments[i]) EXCEPT !.status = outcome[i]]
    BY DEF Reaps, Shown, Status
  <1>5. \A i \in Ids \ lost : Shown(deployments'[i]) = Shown(deployments[i])
    BY DEF Reaps
  <1> HIDE DEF outcome
  <1>6. ShownTable' = [i \in DOMAIN ShownTable |->
                         IF i \in lost THEN [ShownTable[i] EXCEPT !.status = outcome[i]]
                         ELSE ShownTable[i]]
    BY <1>3, <1>4, <1>5, ShownRows
  <1> QED BY <1>1, <1>2, <1>6 DEF Contract!Reap

LEMMA EffectShown ==
  ASSUME TypeOK, TargetsOK, Effect
  PROVE  Contract!Next \/ UNCHANGED ShownTable
  <1>1. CASE UNCHANGED deployments
    BY <1>1 DEF ShownTable, Shown, Ids
  <1>2. ASSUME NEW i \in Ids, Stays(i) PROVE UNCHANGED ShownTable
    <2>1. PICK st \in STUCK_STATES : Moves(i, {st}, st)
      BY <1>2 DEF Stays
    <2>2. PICK r : Updates(i, r) /\ r.status = st
                   /\ r.rolled_back_to_id = deployments[i].rolled_back_to_id
      BY <2>1 DEF Moves
    <2>3. Shown(r) = ShownTable[i]
      BY <2>1, <2>2, ShownRows DEF Moves, Updates, Shown, Status
    <2> QED BY <2>2, <2>3, ShownUpdate DEF ShownTable
  <1>3. ASSUME NEW i \in Ids, \/ Retries(i)
                              \/ Moves(i, {"REQUESTED"}, "VALIDATING")
                              \/ Moves(i, {"VALIDATING"}, "DEPLOYING")
                              \/ Moves(i, STUCK_STATES, "FAILED")
                              \/ \E w \in Workers : Completes(w, i)
        PROVE  Contract!Next
    <2>1. \/ Contract!Claim(i) \/ Contract!Start(i) \/ Contract!Succeed(i)
          \/ Contract!Fail(i) \/ Contract!Retry(i)
      BY <1>3, MovesShown, RetriesShown
      DEF Completes, Contract!Claim, Contract!Start, Contract!Succeed, Contract!Fail, STUCK_STATES
    <2> QED BY <2>1, ShownRows DEF Contract!Next
  <1> QED BY <1>1, <1>2, <1>3, InsertsShown, RollsBackShown, ReapsShown DEF Effect, Contract!Next

\* One request at a time: every commit of the API and of the workers is one atomic
\* step of the deployment contract, or changes nothing that a user sees.
THEOREM QueueHonoursContract ==
  ASSUME Serial, OneHandler
  PROVE  Spec => HonoursContract
  <1>1. Init => Contract!Init
    <2> SUFFICES ASSUME Init PROVE Contract!Init
      OBVIOUS
    <2>1. TypeOK
      BY TypeInit
    <2>2. \A i \in Ids : Status(i) \in {"SUCCEEDED", "FAILED"}
      <3>1. \A i \in Ids : Status(i) = IF Seeded[i].error = "null" THEN "SUCCEEDED" ELSE "FAILED"
        BY DEF Init, Ids, Status, _make_deployment, record_event, NewDeployment
      <3> QED BY <3>1
    <2> QED BY <2>1, <2>2, ShownType, ShownRows DEF Contract!Init
  <1>2. Init => TargetsOK
    BY DEF Init, TargetsOK, TargetOK, At
  <1>3. TypeOK /\ ActiveInv /\ SerialInv /\ TargetsOK /\ [Next]_vars =>
          TargetsOK' /\ [Contract!Next]_ShownTable
    BY SerialStep, TargetsStep, EffectShown
  <1> QED BY <1>1, <1>2, <1>3, SerialAlways, PTL DEF Spec, HonoursContract, Contract!Spec

------------------------------------------------------------------------------
\* What the queue inherits from its contract

Promise == INSTANCE DeploymentContractProofs WITH table <- ShownTable

\* The deployment that a rolled-back one names is an older one of its slot and of
\* another version, whatever has become of it since (rolled_back_to_id).
THEOREM QueueTargetsAreOlder ==
  ASSUME Serial, OneHandler
  PROVE  Spec => []Promise!TargetsAreOlder
  <1>1. Promise!Spec => []Promise!TargetsAreOlder
    BY Promise!ContractTargetsAreOlder
  <1>2. (Contract!Init => Promise!Init) /\ (Contract!Next => Promise!Next)
    BY
    DEF Contract!Init, Promise!Init, Contract!Row, Promise!Row, Contract!Next, Promise!Next,
        Contract!Request, Promise!Request, Contract!Claim, Promise!Claim, Contract!Start,
        Promise!Start, Contract!Succeed, Promise!Succeed, Contract!Fail, Promise!Fail,
        Contract!Retry, Promise!Retry, Contract!Rollback, Promise!Rollback, Contract!Reap,
        Promise!Reap, Contract!Move, Promise!Move, Contract!Busy, Promise!Busy, Contract!Slot,
        Promise!Slot, Contract!InFlight, Promise!InFlight
  <1> QED BY <1>1, <1>2, QueueHonoursContract, PTL DEF HonoursContract, Contract!Spec, Promise!Spec
=============================================================================
