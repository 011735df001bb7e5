-------------------------- MODULE WorkerLoopProofs --------------------------
(* Type correctness of WorkerLoop for any number of workers, slots, rows,     *)
(* retries and crashes.                                                       *)
EXTENDS WorkerLoop, TLAPS

\* An UPDATE leaves a row of the same kind, whatever was loaded and set.
LEMMA FlushTyped ==
  ASSUME NEW loaded \in Row, NEW new \in Row, NEW current \in Row
  PROVE  Flush(loaded, new, current) \in Row
BY DEF Flush, Net, Row

LEMMA NoRowTyped == NoRow \in Row
<1>1. (CHOOSE s \in Slots : TRUE) \in Slots
  BY SlotsAssumption
<1>2. 0 \in 0..MAX_ATTEMPTS
  BY LoopBounds
<1> QED BY <1>1, <1>2 DEF NoRow, Row

\* What is written over a loaded row: a new status, a locked_at or none, one attempt more.
LEMMA StatusTyped ==
  ASSUME NEW d \in Row, NEW status \in IN_FLIGHT \union {"NONE", "FAILED", "SUCCEEDED"}
  PROVE  /\ [d EXCEPT !.status = status] \in Row
         /\ [d EXCEPT !.status = status, !.locked_at = "null"] \in Row
BY DEF Row

LEMMA ReapedTyped ==
  ASSUME NEW d \in Row
  PROVE  Reaped(d) \in Row
<1>1. "FAILED" \in IN_FLIGHT \union {"NONE", "FAILED", "SUCCEEDED"}
  OBVIOUS
<1>2. "REQUESTED" \in IN_FLIGHT \union {"NONE", "FAILED", "SUCCEEDED"}
  BY DEF IN_FLIGHT
<1> QED BY <1>1, <1>2, StatusTyped DEF Reaped

LEMMA ClaimedTyped ==
  ASSUME NEW d \in Row
  PROVE  Claimed(d) \in Row
<1> DEFINE n == IF d.attempts < MAX_ATTEMPTS THEN d.attempts + 1 ELSE d.attempts
<1>1. d.attempts \in 0..MAX_ATTEMPTS
  BY DEF Row
<1>2. n \in 0..MAX_ATTEMPTS
  BY <1>1, LoopBounds
<1> HIDE DEF n
<1>3. [d EXCEPT !.status = "VALIDATING", !.locked_at = "fresh", !.attempts = n] \in Row
  BY <1>2 DEF Row, IN_FLIGHT, STUCK_STATES
<1> QED BY <1>3 DEF n, Claimed

\* A worker that goes to another point of its loop leaves the others where they are.
LEMMA EnterTyped ==
  ASSUME TypeOK, NEW w \in Workers, NEW s, WorkerOK(s), Enter(w, s)
  PROVE  worker' = [u \in Workers |-> worker'[u]] /\ \A u \in Workers : WorkerOK(worker'[u])
<1>1. \A u \in Workers : worker'[u] = IF u = w THEN s ELSE worker[u]
  BY DEF TypeOK, Enter
<1>2. worker' = [u \in Workers |-> worker'[u]]
  BY DEF TypeOK, Enter
<1>3. \A u \in Workers : WorkerOK(worker[u])
  BY DEF TypeOK
<1> QED BY <1>1, <1>2, <1>3

LEMMA StopTyped ==
  ASSUME TypeOK, NEW w \in Workers, Stop(w)
  PROVE  /\ worker' = [u \in Workers |-> worker'[u]] /\ \A u \in Workers : WorkerOK(worker'[u])
         /\ listening' \in [Workers -> BOOLEAN] /\ notified' \in [Workers -> BOOLEAN]
<1>1. WorkerOK([at |-> "down"])
  BY DEF WorkerOK, EXECUTING
<1>2. Enter(w, [at |-> "down"])
  BY DEF Stop
<1>3. listening' \in [Workers -> BOOLEAN] /\ notified' \in [Workers -> BOOLEAN]
  BY DEF Stop, TypeOK
<1> QED BY <1>1, <1>2, <1>3, EnterTyped

\* The types are inductive: in particular, two rows are never each older than the
\* other, because a new row only comes after the rows that are there.
THEOREM TypeCorrect == Spec => []TypeOK
<1> USE LoopBounds
<1>1. Init => TypeOK
  <2> SUFFICES ASSUME Init PROVE TypeOK
    OBVIOUS
  <2>1. row \in [Rows -> Row] /\ older = {} /\ 0 \in 0..MaxIncidents
    BY NoRowTyped DEF Init
  <2>2. WorkerOK([at |-> "drain"]) /\ RetryOK([at |-> "idle"])
    BY DEF WorkerOK, RetryOK, EXECUTING
  <2>3. worker = [w \in Workers |-> worker[w]] /\ \A w \in Workers : WorkerOK(worker[w])
    BY <2>2 DEF Init
  <2>4. retry = [k \in 1..MaxRetries |-> retry[k]] /\ \A k \in 1..MaxRetries : RetryOK(retry[k])
    BY <2>2 DEF Init
  <2>5. listening \in [Workers -> BOOLEAN] /\ notified \in [Workers -> BOOLEAN]
    BY DEF Init
  <2> QED BY <2>1, <2>3, <2>4, <2>5 DEF Init, TypeOK
<1>2. TypeOK /\ [Next]_vars => TypeOK'
  <2> SUFFICES ASSUME TypeOK, [Next]_vars PROVE TypeOK'
    OBVIOUS
  <2> DEFINE WorkersOK == worker = [w \in Workers |-> worker[w]]
                          /\ \A w \in Workers : WorkerOK(worker[w])
             RetriesOK == retry = [k \in 1..MaxRetries |-> retry[k]]
                          /\ \A k \in 1..MaxRetries : RetryOK(retry[k])
             SignalsOK == listening \in [Workers -> BOOLEAN] /\ notified \in [Workers -> BOOLEAN]
             TableOK == /\ row \in [Rows -> Row]
                        /\ older \subseteq Rows \X Rows
                        /\ \A q, r \in Rows : <<q, r>> \in older => <<r, q>> \notin older
  <2>T. TableOK /\ WorkersOK /\ RetriesOK /\ SignalsOK /\ incidents \in 0..MaxIncidents
    BY DEF TypeOK
  <2>G. ASSUME TableOK', WorkersOK', RetriesOK', SignalsOK', incidents' \in 0..MaxIncidents
        PROVE  TypeOK'
    BY <2>G DEF TypeOK
  <2>I. Incident => incidents' \in 0..MaxIncidents
    BY <2>T DEF Incident
  <2>N. notify => notified' \in [Workers -> BOOLEAN]
    BY <2>T DEF notify
  <2>R. \A r \in Rows : row[r] \in Row
    BY <2>T
  <2>E. \A w \in Workers : \A s : WorkerOK(s) /\ Enter(w, s) => WorkersOK'
    BY EnterTyped
  <2>S. \A w \in Workers : Stop(w) => WorkersOK' /\ SignalsOK'
    BY StopTyped
  <2>W. \A w \in Workers : \A at : WorkerStep(w, at) =>
          /\ RetriesOK' /\ incidents' \in 0..MaxIncidents
          /\ worker[w].at = at /\ WorkerOK(worker[w])
    BY <2>T DEF WorkerStep, At
  <2>C. Connected => SignalsOK'
    BY <2>T DEF Connected, signalVars
  <2>U. UNCHANGED tableVars => TableOK'
    BY <2>T DEF tableVars
  <2> HIDE DEF WorkersOK, RetriesOK, SignalsOK, TableOK
  <2>1. ASSUME NEW r \in Rows, NEW s \in Slots, request_deployment(r, s) PROVE TypeOK'
    <3>1. NewRow(s) \in Row
      <4>1. NoRow \in Row /\ "REQUESTED" \in IN_FLIGHT
        BY NoRowTyped DEF IN_FLIGHT
      <4> QED BY <4>1 DEF NewRow, Row
    <3>2. row' \in [Rows -> Row]
      BY <2>1, <2>T, <3>1 DEF request_deployment, TableOK
    <3>3. older' \subseteq Rows \X Rows
      BY <2>1, <2>T DEF request_deployment, Without, TableOK
    <3>4. \A q, p \in Rows : <<q, p>> \in older' => <<p, q>> \notin older'
      BY <2>1, <2>T DEF request_deployment, Without, TableOK
    <3>5. TableOK'
      BY <3>2, <3>3, <3>4 DEF TableOK
    <3>6. WorkersOK' /\ RetriesOK' /\ SignalsOK' /\ incidents' \in 0..MaxIncidents
      BY <2>1, <2>T, <2>N DEF request_deployment, WorkersOK, RetriesOK, SignalsOK
    <3> QED BY <2>G, <3>5, <3>6
  <2>2. ASSUME NEW k \in 1..MaxRetries, NEW r \in Rows, BeginRetry(k, r) PROVE TypeOK'
    <3>1. RetryOK([at |-> "open", job |-> r, row |-> row[r]])
      BY <2>R DEF RetryOK
    <3>2. RetriesOK'
      BY <2>2, <2>T, <3>1 DEF BeginRetry, RetriesOK
    <3>3. TableOK' /\ WorkersOK' /\ SignalsOK' /\ incidents' \in 0..MaxIncidents
      BY <2>2, <2>T, <2>I, <2>U DEF BeginRetry, WorkersOK, SignalsOK, signalVars
    <3> QED BY <2>G, <3>2, <3>3
  <2>3. ASSUME NEW k \in 1..MaxRetries, retry_deployment(k) PROVE TypeOK'
    <3> DEFINE r == retry[k].job
               new == [retry[k].row EXCEPT !.status = "REQUESTED", !.locked_at = "null"]
               flushed == Flush(retry[k].row, new, row[r])
    <3>1. r \in Rows /\ retry[k].row \in Row
      BY <2>3, <2>T DEF retry_deployment, RetriesOK, RetryOK
    <3>2. new \in Row
      BY <3>1, StatusTyped DEF IN_FLIGHT
    <3>3. row[r] \in Row
      BY <3>1, <2>R
    <3> HIDE DEF new
    <3>4. flushed \in Row
      BY <3>1, <3>2, <3>3, FlushTyped
    <3>5. row' = row \/ row' = [row EXCEPT ![r] = flushed]
      BY <2>3 DEF retry_deployment, new
    <3> HIDE DEF flushed
    <3>6. row' \in [Rows -> Row]
      BY <2>T, <3>1, <3>4, <3>5 DEF TableOK
    <3>7. TableOK'
      BY <2>3, <2>T, <3>6 DEF retry_deployment, TableOK
    <3>8. RetriesOK'
      <4>1. RetryOK([at |-> "idle"])
        BY DEF RetryOK
      <4> QED BY <2>3, <2>T, <4>1 DEF retry_deployment, RetriesOK
    <3>9. WorkersOK' /\ SignalsOK' /\ incidents' \in 0..MaxIncidents
      BY <2>3, <2>T, <2>N DEF retry_deployment, WorkersOK, SignalsOK
    <3> QED BY <2>G, <3>7, <3>8, <3>9
  <2>4. ASSUME NEW r \in Rows, Expire(r) PROVE TypeOK'
    <3>1. [row[r] EXCEPT !.locked_at = "stale"] \in Row
      BY <2>R DEF Row
    <3>2. row' = [row EXCEPT ![r] = [row[r] EXCEPT !.locked_at = "stale"]]
      BY <2>4 DEF Expire
    <3>3. row' \in [Rows -> Row]
      BY <2>T, <3>1, <3>2 DEF TableOK
    <3>4. TableOK' /\ WorkersOK' /\ RetriesOK' /\ SignalsOK' /\ incidents' \in 0..MaxIncidents
      BY <2>4, <2>T, <3>3 DEF Expire, TableOK, WorkersOK, RetriesOK, SignalsOK, signalVars
    <3> QED BY <2>G, <3>4
  <2>5. ASSUME NEW w \in Workers, claim_one(w) PROVE TypeOK'
    <3>1. PICK r \in Oldest : /\ row' = [row EXCEPT ![r] = Claimed(row[r])]
                              /\ Enter(w, [at |-> "claimed", job |-> r])
      BY <2>5 DEF claim_one
    <3>2. r \in Rows
      BY DEF Oldest
    <3>3. Claimed(row[r]) \in Row
      BY <3>2, <2>R, ClaimedTyped
    <3>5. row' \in [Rows -> Row]
      BY <2>T, <3>2, <3>3, <3>1 DEF TableOK
    <3>6. TableOK'
      BY <2>5, <2>T, <3>5 DEF claim_one, TableOK
    <3>7. WorkerOK([at |-> "claimed", job |-> r])
      BY <3>2 DEF WorkerOK, EXECUTING
    <3>8. WorkersOK'
      BY <3>1, <3>7, <2>E
    <3> QED BY <2>5, <2>G, <2>W, <2>C, <3>6, <3>8 DEF claim_one
  <2>6. ASSUME NEW w \in Workers, process_deployment(w) PROVE TypeOK'
    <3>1. CASE ReadVersion(w) \/ EndDeploy(w)
      <4>1. Job(w) \in Rows /\ row[Job(w)] \in Row
        BY <3>1, <2>W, <2>R DEF ReadVersion, EndDeploy, WorkerOK, EXECUTING, Job
      <4>2. /\ WorkerOK([at |-> "decide", job |-> Job(w), row |-> row[Job(w)]])
            /\ WorkerOK([at |-> "finish", job |-> Job(w), row |-> row[Job(w)]])
        BY <4>1 DEF WorkerOK, EXECUTING
      <4>3. WorkersOK'
        BY <3>1, <4>2, <2>E DEF ReadVersion, EndDeploy
      <4> QED BY <3>1, <4>3, <2>G, <2>W, <2>C, <2>U DEF ReadVersion, EndDeploy
    <3>2. CASE StartDeploy(w) \/ _fail(w) \/ CompleteDeploy(w)
      <4>1. Job(w) \in Rows /\ worker[w].row \in Row /\ row[Job(w)] \in Row
        BY <3>2, <2>W, <2>R DEF StartDeploy, _fail, CompleteDeploy, WorkerOK, EXECUTING, Job
      <4>2. \A new \in Row : Save(w, new) => TableOK'
        <5> SUFFICES ASSUME NEW new \in Row, Save(w, new) PROVE TableOK'
          OBVIOUS
        <5>1. Saved(w, new) \in Row
          BY <4>1, FlushTyped DEF Saved
        <5>2. row' \in [Rows -> Row] /\ UNCHANGED older
          BY <4>1, <5>1, <2>T DEF Save, TableOK
        <5> QED BY <5>2, <2>T DEF TableOK
      <4>3. /\ [worker[w].row EXCEPT !.status = "DEPLOYING"] \in Row
            /\ [worker[w].row EXCEPT !.status = "FAILED", !.locked_at = "null"] \in Row
            /\ [worker[w].row EXCEPT !.status = "SUCCEEDED", !.locked_at = "null"] \in Row
        BY <4>1, StatusTyped DEF IN_FLIGHT, STUCK_STATES
      <4>4. WorkerOK([at |-> "deploy", job |-> Job(w)]) /\ WorkerOK([at |-> "drain"])
        BY <4>1 DEF WorkerOK, EXECUTING
      <4>5. CASE StartDeploy(w)
        <5>1. \/ Stop(w) /\ UNCHANGED tableVars
              \/ /\ Save(w, [worker[w].row EXCEPT !.status = "DEPLOYING"])
                 /\ Enter(w, [at |-> "deploy", job |-> Job(w)]) /\ Connected
          BY <4>5 DEF StartDeploy
        <5>2. TableOK' /\ WorkersOK' /\ SignalsOK'
          BY <5>1, <4>2, <4>3, <4>4, <2>S, <2>U, <2>E, <2>C
        <5> QED BY <4>5, <5>2, <2>G, <2>W DEF StartDeploy
      <4>6. CASE _fail(w)
        <5>1. TableOK' /\ WorkersOK' /\ SignalsOK'
          BY <4>6, <4>2, <4>3, <4>4, <2>E, <2>C DEF _fail
        <5> QED BY <4>6, <5>1, <2>G, <2>W DEF _fail
      <4>7. CASE CompleteDeploy(w)
        <5> DEFINE new == [worker[w].row EXCEPT !.status = "SUCCEEDED", !.locked_at = "null"]
        <5>1. \/ row' = [row EXCEPT ![Job(w)] = NoRow] /\ older' = Without(Job(w))
              \/ Save(w, new)
          BY <4>7, Zenon DEF CompleteDeploy
        <5>2. ASSUME row' = [row EXCEPT ![Job(w)] = NoRow], older' = Without(Job(w))
              PROVE  TableOK'
          BY <5>2, <2>T, NoRowTyped DEF TableOK, Without
        <5>3. TableOK'
          BY <5>1, <5>2, <4>2, <4>3
        <5>4. WorkersOK' /\ SignalsOK'
          BY <4>7, <4>4, <2>E, <2>C DEF CompleteDeploy
        <5> QED BY <4>7, <5>3, <5>4, <2>G, <2>W DEF CompleteDeploy
      <4> QED BY <3>2, <4>5, <4>6, <4>7
    <3> QED BY <2>6, <3>1, <3>2 DEF process_deployment
  <2>7. ASSUME NEW w \in Workers, Drained(w) \/ NotDue(w) PROVE TypeOK'
    <3>1. WorkerOK([at |-> "drained"]) /\ WorkerOK([at |-> "wait"])
      BY DEF WorkerOK, EXECUTING
    <3>2. WorkersOK' /\ TableOK' /\ SignalsOK'
      BY <2>7, <3>1, <2>E, <2>U, <2>C DEF Drained, NotDue
    <3> QED BY <2>7, <3>2, <2>G, <2>W DEF Drained, NotDue
  <2>8. ASSUME NEW w \in Workers, BeginReap(w) PROVE TypeOK'
    <3> DEFINE loaded == [r \in Stuck |-> row[r]]
    <3>1. Stuck \subseteq Rows
      BY DEF Stuck
    <3>2. DOMAIN loaded = Stuck /\ loaded \in [Stuck -> Row]
      BY <3>1, <2>R
    <3> HIDE DEF loaded
    <3>3. WorkerOK([at |-> "wait"]) /\ WorkerOK([at |-> "reap", rows |-> loaded])
      BY <3>1, <3>2 DEF WorkerOK, EXECUTING
    <3>4. Enter(w, [at |-> "wait"]) \/ Enter(w, [at |-> "reap", rows |-> loaded])
      BY <2>8 DEF BeginReap, loaded
    <3>5. WorkersOK' /\ TableOK' /\ SignalsOK'
      BY <2>8, <3>3, <3>4, <2>E, <2>U, <2>C DEF BeginReap
    <3> QED BY <2>8, <3>5, <2>G, <2>W DEF BeginReap
  <2>9. ASSUME NEW w \in Workers, reap_stuck(w) PROVE TypeOK'
    <3> DEFINE rows == worker[w].rows
    <3>1. DOMAIN rows \subseteq Rows /\ \A r \in DOMAIN rows : rows[r] \in Row
      BY <2>9, <2>W DEF reap_stuck, WorkerOK
    <3>2. \/ Stop(w) /\ UNCHANGED row
          \/ /\ row' = [r \in Rows |-> IF r \in DOMAIN rows
                                       THEN Flush(rows[r], Reaped(rows[r]), row[r])
                                       ELSE row[r]]
             /\ Enter(w, [at |-> "wait"]) /\ Connected
      BY <2>9 DEF reap_stuck
    <3> HIDE DEF rows
    <3>3. \A r \in DOMAIN rows : Flush(rows[r], Reaped(rows[r]), row[r]) \in Row
      BY <3>1, <2>R, ReapedTyped, FlushTyped
    <3>4. row' \in [Rows -> Row]
      BY <3>2, <3>3, <2>R, <2>T DEF TableOK
    <3>5. TableOK'
      BY <2>9, <3>4, <2>T DEF reap_stuck, TableOK
    <3>6. WorkerOK([at |-> "wait"])
      BY DEF WorkerOK, EXECUTING
    <3>7. WorkersOK' /\ SignalsOK'
      BY <3>2, <3>6, <2>E, <2>S, <2>C
    <3> QED BY <2>9, <3>5, <3>7, <2>G, <2>W DEF reap_stuck
  <2>10. ASSUME NEW w \in Workers, _wait_for_notify(w) PROVE TypeOK'
    <3>1. WorkerOK([at |-> "drain"])
      BY DEF WorkerOK, EXECUTING
    <3>2. WorkersOK' /\ TableOK'
      BY <2>10, <3>1, <2>E, <2>U DEF _wait_for_notify, tableVars
    <3>3. SignalsOK'
      BY <2>10, <2>T DEF _wait_for_notify, Woken, SignalsOK
    <3> QED BY <2>10, <3>2, <3>3, <2>G, <2>W DEF _wait_for_notify
  <2>11. ASSUME NEW w \in Workers, ListenerBreaks(w) PROVE TypeOK'
    <3>1. TableOK' /\ WorkersOK' /\ RetriesOK' /\ SignalsOK' /\ incidents' \in 0..MaxIncidents
      BY <2>11, <2>T, <2>U DEF ListenerBreaks, WorkersOK, RetriesOK, SignalsOK
    <3> QED BY <2>G, <3>1
  <2>12. ASSUME NEW w \in Workers, Crash(w) PROVE TypeOK'
    <3>1. TableOK' /\ RetriesOK' /\ incidents' \in 0..MaxIncidents
      BY <2>12, <2>T, <2>U, <2>I DEF Crash, RetriesOK
    <3> QED BY <2>12, <2>G, <2>S, <3>1 DEF Crash
  <2>13. ASSUME NEW w \in Workers, Restart(w) PROVE TypeOK'
    <3>1. WorkerOK([at |-> "drain"])
      BY DEF WorkerOK, EXECUTING
    <3>2. WorkersOK' /\ TableOK'
      BY <2>13, <3>1, <2>E, <2>U DEF Restart, tableVars
    <3>3. SignalsOK'
      BY <2>13, <2>T DEF Restart, SignalsOK
    <3> QED BY <2>13, <3>2, <3>3, <2>G, <2>W DEF Restart
  <2>14. CASE UNCHANGED vars
    <3>1. TableOK' /\ WorkersOK' /\ RetriesOK' /\ SignalsOK' /\ incidents' \in 0..MaxIncidents
      BY <2>14, <2>T DEF vars, TableOK, WorkersOK, RetriesOK, SignalsOK
    <3> QED BY <2>G, <3>1
  <2> QED BY <2>1, <2>2, <2>3, <2>4, <2>5, <2>6, <2>7, <2>8, <2>9, <2>10, <2>11, <2>12, <2>13,
             <2>14 DEF Next, Run
<1> QED BY <1>1, <1>2, PTL DEF Spec
=============================================================================
