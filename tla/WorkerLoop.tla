----------------------------- MODULE WorkerLoop -----------------------------
(* The loop of a worker process (run in app/worker/runner.py): drain the      *)
(* queue, reap if the interval has passed, wait for a NOTIFY or for the poll  *)
(* timeout; under a load that never ends, with notifications that get lost.   *)
(*                                                                            *)
(* DeploymentQueue has the whole rows and boundedly many of them.  Here the   *)
(* number of requests is unbounded: the partial unique index allows one row   *)
(* in flight per slot (a model and environment), and a row that has ended may *)
(* be forgotten once nobody has it loaded, its id going to a new one.  As     *)
(* there, a process loads a row without a lock and commits later, by primary  *)
(* key, what it has changed of it.                                            *)
EXTENDS Naturals

CONSTANTS
  Workers, Slots,
  Listeners,      \* bound: workers whose listener may open
  Rows,           \* bound: rows that are in flight, loaded or not forgotten
  MAX_ATTEMPTS,   \* queue.MAX_ATTEMPTS
  MaxRetries,     \* bound: retries in progress at a time
  MaxIncidents    \* bound: worker crashes and retries together

ASSUME ListenersAssumption == Listeners \subseteq Workers
ASSUME SlotsAssumption == Slots # {}
ASSUME LoopBounds ==
  MAX_ATTEMPTS \in Nat \ {0} /\ MaxRetries \in Nat /\ MaxIncidents \in Nat

VARIABLES
  row,         \* the deployments that have not been forgotten
  older,       \* the pairs <<q, r>> with the id of q before that of r
  worker,      \* where each worker is in run(), and the rows it has loaded
  retry,       \* the users' retries in progress, each with the row it has loaded
  listening,   \* per worker: its connection LISTENs
  notified,    \* per worker: a NOTIFY waits to be read from the connection
  incidents

vars == <<row, older, worker, retry, listening, notified, incidents>>
tableVars == <<row, older>>
signalVars == <<listening, notified>>

STUCK_STATES == {"VALIDATING", "DEPLOYING"}
IN_FLIGHT == {"REQUESTED"} \union STUCK_STATES

\* attempts is only ever compared with MAX_ATTEMPTS, and saturates there.
Row == [slot      : Slots,
        status    : IN_FLIGHT \union {"NONE", "FAILED", "SUCCEEDED"},
        locked_at : {"null", "fresh", "stale"},
        attempts  : 0..MAX_ATTEMPTS]

NoRow == [slot |-> CHOOSE s \in Slots : TRUE, status |-> "NONE", locked_at |-> "null",
          attempts |-> 0]
NewRow(s) == [NoRow EXCEPT !.slot = s, !.status = "REQUESTED"]

Status(r) == row[r].status
InFlight(r) == Status(r) \in IN_FLIGHT

-----------------------------------------------------------------------------
(* Sessions.                                                                  *)

At(w) == worker[w].at
Job(w) == worker[w].job
Enter(w, s) == worker' = [worker EXCEPT ![w] = s]

EXECUTING == {"claimed", "decide", "deploy", "finish"}
Executing(w, r) == At(w) \in EXECUTING /\ Job(w) = r

\* One of some workers, or a retry, is going to commit what it has loaded of r.
Loaded(r, workers) ==
  \/ \E w \in workers : Executing(w, r) \/ (At(w) = "reap" /\ r \in DOMAIN worker[w].rows)
  \/ \E k \in DOMAIN retry : retry[k].at = "open" /\ retry[k].job = r

\* The partial unique index, for a row other than r that goes to slot s.
SlotTaken(r, s) == \E q \in Rows \ {r} : row[q].slot = s /\ InFlight(q)

Net(loaded, new, current) == IF new = loaded THEN current ELSE new

\* The row after an UPDATE of the columns in which new differs from the loaded one.
Flush(loaded, new, current) ==
  [current EXCEPT !.status = Net(loaded.status, new.status, @),
                  !.locked_at = Net(loaded.locked_at, new.locked_at, @)]

\* The index refuses the UPDATE: IntegrityError.
Refused(r, loaded, new) ==
  new.status # loaded.status /\ new.status \in IN_FLIGHT /\ SlotTaken(r, row[r].slot)

-----------------------------------------------------------------------------
(* Requests.                                                                  *)

Incident == incidents < MaxIncidents /\ incidents' = incidents + 1

\* A transaction after the commit, which fails if the API dies or loses its connection.
\* The server keeps it for every connection that listens, busy or not.
notify == notified' \in {notified, [w \in Workers |-> notified[w] \/ listening[w]]}

\* Mutant: ids are not ordered by time (uuid4 for uuid7), the row may come anywhere.
Unordered(r) == older

Without(r) == {p \in older : r \notin {p[1], p[2]}}

\* An id that no row has, or that of a row that has ended and is forgotten.
Unused == {r \in Rows : Status(r) = "NONE"}
NewIds == IF Unused # {} THEN {CHOOSE r \in Unused : TRUE}
          ELSE {r \in Rows : ~InFlight(r) /\ ~Loaded(r, Workers)}

request_deployment(r, s) ==
  /\ r \in NewIds /\ ~SlotTaken(r, s)
  /\ row' = [row EXCEPT ![r] = NewRow(s)]
  /\ older' = Without(r) \union {<<q, r>> : q \in Rows \ (Unused \union {r})}
  /\ notify
  /\ UNCHANGED <<worker, retry, listening, incidents>>

BeginRetry(k, r) ==
  /\ retry[k].at = "idle" /\ \A j \in 1..(k - 1) : retry[j].at # "idle"
  /\ Status(r) = "FAILED" /\ Incident
  /\ retry' = [retry EXCEPT ![k] = [at |-> "open", job |-> r, row |-> row[r]]]
  /\ UNCHANGED <<tableVars, worker, signalVars>>

\* The row keeps its id, and with it its place in the queue.
retry_deployment(k) ==
  /\ retry[k].at = "open"
  /\ LET r == retry[k].job
         new == [retry[k].row EXCEPT !.status = "REQUESTED", !.locked_at = "null"]
     IN IF Refused(r, retry[k].row, new)
        THEN UNCHANGED <<row, notified>>
        ELSE row' = [row EXCEPT ![r] = Flush(retry[k].row, new, @)] /\ notify
  /\ retry' = [retry EXCEPT ![k] = [at |-> "idle"]]
  /\ UNCHANGED <<older, worker, listening, incidents>>

-----------------------------------------------------------------------------
(* The loop.                                                                  *)

WorkerStep(w, at) == At(w) = at /\ UNCHANGED <<retry, incidents>>

Connected == UNCHANGED signalVars

\* The process is gone, and its connection.
Stop(w) ==
  /\ Enter(w, [at |-> "down"])
  /\ listening' = [listening EXCEPT ![w] = FALSE]
  /\ notified' = [notified EXCEPT ![w] = FALSE]

\* ORDER BY id LIMIT 1.
Oldest == {r \in Rows : /\ Status(r) = "REQUESTED"
                        /\ \A q \in Rows : <<q, r>> \in older => Status(q) # "REQUESTED"}

Claimed(d) == [d EXCEPT !.status = "VALIDATING", !.locked_at = "fresh",
                        !.attempts = IF @ < MAX_ATTEMPTS THEN @ + 1 ELSE @]

\* FOR UPDATE SKIP LOCKED up to the commit.
claim_one(w) ==
  /\ WorkerStep(w, "drain") /\ Connected
  /\ \E r \in Oldest :
       /\ row' = [row EXCEPT ![r] = Claimed(@)]
       /\ Enter(w, [at |-> "claimed", job |-> r])
  /\ UNCHANGED older

\* process_deployment loads the row again after the event validation_started.
ReadVersion(w) ==
  /\ WorkerStep(w, "claimed") /\ Connected
  /\ Enter(w, [at |-> "decide", job |-> Job(w), row |-> row[Job(w)]])
  /\ UNCHANGED tableVars

\* The commit of what w has loaded.
Saved(w, new) == Flush(worker[w].row, new, row[Job(w)])
Save(w, new) == row' = [row EXCEPT ![Job(w)] = Saved(w, new)] /\ UNCHANGED older

\* The version is deployable.  An IntegrityError ends the process, here and in reap_stuck.
StartDeploy(w) ==
  /\ WorkerStep(w, "decide")
  /\ LET new == [worker[w].row EXCEPT !.status = "DEPLOYING"] IN
     IF Refused(Job(w), worker[w].row, new)
     THEN Stop(w) /\ UNCHANGED tableVars
     ELSE Save(w, new) /\ Enter(w, [at |-> "deploy", job |-> Job(w)]) /\ Connected

\* The rollout has run, and the row is loaded again.
EndDeploy(w) ==
  /\ WorkerStep(w, "deploy") /\ Connected
  /\ Enter(w, [at |-> "finish", job |-> Job(w), row |-> row[Job(w)]])
  /\ UNCHANGED tableVars

\* The version was not deployable, or the rollout has failed; or it has succeeded.
_fail(w) ==
  /\ WorkerStep(w, "decide") \/ WorkerStep(w, "finish")
  /\ Connected
  /\ Save(w, [worker[w].row EXCEPT !.status = "FAILED", !.locked_at = "null"])
  /\ Enter(w, [at |-> "drain"])

\* A success that nobody else has loaded is forgotten at once.
CompleteDeploy(w) ==
  /\ WorkerStep(w, "finish") /\ Connected
  /\ LET new == [worker[w].row EXCEPT !.status = "SUCCEEDED", !.locked_at = "null"] IN
     IF Saved(w, new).status = "SUCCEEDED" /\ ~Loaded(Job(w), Workers \ {w})
     THEN row' = [row EXCEPT ![Job(w)] = NoRow] /\ older' = Without(Job(w))
     ELSE Save(w, new)
  /\ Enter(w, [at |-> "drain"])

\* The only way out of _drain_all: nothing is left to claim.
Drained(w) ==
  /\ WorkerStep(w, "drain") /\ Connected
  /\ Oldest = {}
  /\ Enter(w, [at |-> "drained"])
  /\ UNCHANGED tableVars

\* Less than REAP_EVERY_SECONDS since the last time.
NotDue(w) ==
  /\ WorkerStep(w, "drained") /\ Connected
  /\ Enter(w, [at |-> "wait"])
  /\ UNCHANGED tableVars

Stuck == {r \in Rows : Status(r) \in STUCK_STATES /\ row[r].locked_at = "stale"}

\* reap_stuck's SELECT, which locks nothing; if it finds nothing, that is all.
BeginReap(w) ==
  /\ WorkerStep(w, "drained") /\ Connected
  /\ Enter(w, IF Stuck = {} THEN [at |-> "wait"]
              ELSE [at |-> "reap", rows |-> [r \in Stuck |-> row[r]]])
  /\ UNCHANGED tableVars


Reaped(d) ==
  IF d.attempts >= MAX_ATTEMPTS
  THEN [d EXCEPT !.status = "FAILED"]
  ELSE [d EXCEPT !.status = "REQUESTED", !.locked_at = "null"]

\* The commit, over whatever the rows have become; no NOTIFY for those queued again.
reap_stuck(w) ==
  /\ WorkerStep(w, "reap")
  /\ LET rows == worker[w].rows IN
     IF \E r \in DOMAIN rows : Refused(r, rows[r], Reaped(rows[r]))
     THEN Stop(w) /\ UNCHANGED row
     ELSE /\ row' = [r \in Rows |-> IF r \in DOMAIN rows
                                    THEN Flush(rows[r], Reaped(rows[r]), row[r])
                                    ELSE row[r]]
          /\ Enter(w, [at |-> "wait"]) /\ Connected
  /\ UNCHANGED older

\* Mutant: the wait has no timeout.
WakeOnNotifyOnly(w) == notified[w] /\ notified' = [notified EXCEPT ![w] = FALSE]

\* A NOTIFY that has arrived, or POLL_TIMEOUT_SECONDS, which also is the length of the
\* sleep without a listener.
Woken(w) ==
  \/ notified[w] /\ notified' = [notified EXCEPT ![w] = FALSE]
  \/ UNCHANGED notified

_wait_for_notify(w) ==
  /\ WorkerStep(w, "wait") /\ Woken(w)
  /\ Enter(w, [at |-> "drain"])
  /\ UNCHANGED <<tableVars, listening>>

-----------------------------------------------------------------------------
(* Time and failures.                                                         *)

Orphan(r) == Status(r) \in STUCK_STATES /\ ~ \E w \in Workers : Executing(w, r)

\* locked_at falls behind the reaper's cutoff; an execution takes about a second of the
\* 120, so that only a row nobody executes gets that old.
Expire(r) ==
  /\ Orphan(r) /\ row[r].locked_at = "fresh"
  /\ row' = [row EXCEPT ![r].locked_at = "stale"]
  /\ UNCHANGED <<older, worker, retry, signalVars, incidents>>

\* The connection breaks; nobody opens it again, and every wait is a sleep.
ListenerBreaks(w) ==
  /\ listening[w]
  /\ listening' = [listening EXCEPT ![w] = FALSE]
  /\ notified' = [notified EXCEPT ![w] = FALSE]
  /\ UNCHANGED <<tableVars, worker, retry, incidents>>

Crash(w) ==
  /\ At(w) # "down" /\ Incident
  /\ Stop(w)
  /\ UNCHANGED <<tableVars, retry>>

\* _open_listener may fail.
Restart(w) ==
  /\ WorkerStep(w, "down")
  /\ Enter(w, [at |-> "drain"])
  /\ \E connected \in BOOLEAN :
       /\ connected => w \in Listeners
       /\ listening' = [listening EXCEPT ![w] = connected]
  /\ UNCHANGED <<tableVars, notified>>

-----------------------------------------------------------------------------
Init ==
  /\ row = [r \in Rows |-> NoRow]
  /\ older = {}
  /\ worker = [w \in Workers |-> [at |-> "drain"]]
  /\ retry = [k \in 1..MaxRetries |-> [at |-> "idle"]]
  /\ listening \in {f \in [Workers -> BOOLEAN] : \A w \in Workers \ Listeners : ~f[w]}
  /\ notified = [w \in Workers |-> FALSE]
  /\ incidents = 0

process_deployment(w) ==
  ReadVersion(w) \/ StartDeploy(w) \/ EndDeploy(w) \/ _fail(w) \/ CompleteDeploy(w)

Run(w) ==
  \/ claim_one(w) \/ process_deployment(w) \/ Drained(w)
  \/ NotDue(w) \/ BeginReap(w) \/ reap_stuck(w) \/ _wait_for_notify(w)

Next ==
  \/ \E r \in Rows : Expire(r) \/ \E s \in Slots : request_deployment(r, s)
  \/ \E k \in 1..MaxRetries : retry_deployment(k) \/ \E r \in Rows : BeginRetry(k, r)
  \/ \E w \in Workers : Run(w) \/ ListenerBreaks(w) \/ Crash(w) \/ Restart(w)

Spec == Init /\ [][Next]_vars

\* The loop goes on; whenever it comes back to its end, REAP_EVERY_SECONDS will sooner
\* or later have passed; time passes; a worker that went down is started again.
Fairness ==
  /\ \A w \in Workers : WF_vars(Run(w) \/ Restart(w)) /\ SF_vars(BeginReap(w))
  /\ \A r \in Rows : WF_vars(Expire(r))

FairSpec == Spec /\ Fairness

-----------------------------------------------------------------------------
(* Properties.                                                                *)

\* What a worker holds at each point of its loop, and a retry.
WorkerOK(s) ==
  /\ s.at \in EXECUTING \union {"drain", "drained", "reap", "wait", "down"}
  /\ s.at \in EXECUTING => s.job \in Rows
  /\ s.at \in {"decide", "finish"} => s.row \in Row
  /\ s.at = "reap" => DOMAIN s.rows \subseteq Rows /\ s.rows \in [DOMAIN s.rows -> Row]
RetryOK(s) ==
  /\ s.at \in {"idle", "open"}
  /\ s.at = "open" => s.job \in Rows /\ s.row \in Row

TypeOK ==
  /\ row \in [Rows -> Row]
  /\ older \subseteq Rows \X Rows
  /\ \A q, r \in Rows : <<q, r>> \in older => <<r, q>> \notin older
  /\ worker = [w \in Workers |-> worker[w]] /\ \A w \in Workers : WorkerOK(worker[w])
  /\ retry = [k \in 1..MaxRetries |-> retry[k]] /\ \A k \in 1..MaxRetries : RetryOK(retry[k])
  /\ listening \in [Workers -> BOOLEAN]
  /\ notified \in [Workers -> BOOLEAN]
  /\ incidents \in 0..MaxIncidents

\* Every deployment in the queue is claimed, although others keep coming, the NOTIFY
\* may be lost and the listener may be gone: the poll is the safety net, and a new
\* request never goes ahead of an old one.
RequestsClaimed ==
  \A r \in Rows : (Status(r) = "REQUESTED") ~> (Status(r) # "REQUESTED")

\* The reaper recovers what a crash leaves behind (app/worker/queue.py:18).
OrphansRecovered == \A r \in Rows : Orphan(r) ~> ~Orphan(r)

\* A row that no reaper will find.  A stale retry or reap has put it back in the queue
\* under the worker that executes it (DeploymentQueue, Recoverable), which has written
\* DEPLOYING, but no locked_at, and died.
Lost(r) == Orphan(r) /\ Status(r) = "DEPLOYING" /\ row[r].locked_at = "null"

=============================================================================
