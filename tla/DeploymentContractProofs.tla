---------------------- MODULE DeploymentContractProofs ----------------------
(* What the promise implies, for any number of deployments, versions and      *)
(* environments.  A queue that implements it (HonoursContract) inherits this. *)
EXTENDS DeploymentContract, TLAPS

\* A step that gives rows another status and leaves the rest of them alone.
StatusesOnly ==
  /\ table' \in Seq(Row)
  /\ DOMAIN table' = DOMAIN table
  /\ \A i \in DOMAIN table : /\ table'[i].version = table[i].version
                             /\ table'[i].environment = table[i].environment
                             /\ table'[i].rolled_back_to_id = table[i].rolled_back_to_id
                             /\ Slot(i)' = Slot(i)

LEMMA MoveChanges ==
  ASSUME TypeOK, NEW i \in DOMAIN table, NEW from, NEW to \in InFlight \union {"SUCCEEDED", "FAILED"},
         Move(i, from, to)
  PROVE  /\ StatusesOnly
         /\ table[i].status \in from /\ table'[i].status = to
         /\ \A j \in DOMAIN table \ {i} : table'[j] = table[j]
  <1> DEFINE r == [table[i] EXCEPT !.status = to]
  <1>1. table[i] \in Row /\ table \in Seq(Row)
    BY DEF TypeOK
  <1>2. /\ r \in Row /\ r.version = table[i].version /\ r.environment = table[i].environment
        /\ r.rolled_back_to_id = table[i].rolled_back_to_id /\ r.status = to
    BY <1>1 DEF Row, InFlight
  <1>3. table' = [table EXCEPT ![i] = r] /\ table[i].status \in from
    BY DEF Move
  <1> HIDE DEF r
  <1>4. /\ table' \in Seq(Row) /\ DOMAIN table' = DOMAIN table /\ table'[i] = r
        /\ \A j \in DOMAIN table \ {i} : table'[j] = table[j]
    BY <1>1, <1>2, <1>3
  <1> QED BY <1>2, <1>3, <1>4 DEF StatusesOnly, Slot

LEMMA RequestChanges ==
  ASSUME TypeOK, NEW v \in Versions, NEW e \in Environments, Request(v, e)
  PROVE  \E n : /\ n \notin DOMAIN table /\ DOMAIN table' = DOMAIN table \union {n}
                /\ table' \in Seq(Row)
                /\ table'[n] = [version |-> v, environment |-> e, status |-> "REQUESTED",
                                rolled_back_to_id |-> 0]
                /\ \A j \in DOMAIN table : table'[j] = table[j]
                /\ \A j \in DOMAIN table : table[j].status \in InFlight => Slot(j) # Slot(n)'
  <1> DEFINE r == [version |-> v, environment |-> e, status |-> "REQUESTED",
                   rolled_back_to_id |-> 0]
  <1>1. r \in Row /\ table \in Seq(Row)
    BY DEF Row, TypeOK
  <1>2. table' = Append(table, r)
    BY DEF Request
  <1> HIDE DEF r
  <1>3. PICK n : /\ n \notin DOMAIN table /\ DOMAIN table' = DOMAIN table \union {n}
                 /\ table' \in Seq(Row) /\ table'[n] = r
                 /\ \A j \in DOMAIN table : table'[j] = table[j]
    <2> DEFINE m == Len(table) + 1
    <2>1. /\ m \notin DOMAIN table /\ DOMAIN table' = DOMAIN table \union {m}
          /\ table' \in Seq(Row) /\ table'[m] = r
          /\ \A j \in DOMAIN table : table'[j] = table[j]
      BY <1>1, <1>2
    <2> HIDE DEF m
    <2> QED BY <2>1
  <1>4. Slot(n)' = <<ModelOf[v], e>>
    BY <1>3 DEF Slot, r
  <1>5. \A j \in DOMAIN table : table[j].status \in InFlight => Slot(j) # Slot(n)'
    BY <1>4 DEF Request, Busy
  <1> QED BY <1>3, <1>5 DEF r

LEMMA RollbackChanges ==
  ASSUME TypeOK, NEW i \in DOMAIN table, NEW t \in DOMAIN table, Rollback(i, t)
  PROVE  /\ table' \in Seq(Row) /\ DOMAIN table' = DOMAIN table
         /\ table'[i] = [table[i] EXCEPT !.status = "ROLLED_BACK", !.rolled_back_to_id = t]
         /\ \A j \in DOMAIN table \ {i} : table'[j] = table[j]
         /\ \A j \in DOMAIN table : Slot(j)' = Slot(j)
         /\ t \in 1..(i - 1) /\ i # t
  <1> DEFINE r == [table[i] EXCEPT !.status = "ROLLED_BACK", !.rolled_back_to_id = t]
  <1>1. table[i] \in Row /\ table \in Seq(Row) /\ i \in Nat /\ t \in Nat \ {0}
    BY DEF TypeOK
  <1>2. r \in Row /\ r.version = table[i].version /\ r.environment = table[i].environment
    BY <1>1 DEF Row
  <1>3. table' = [table EXCEPT ![i] = r]
    BY <1>1 DEF Rollback
  <1> HIDE DEF r
  <1>4. /\ table' \in Seq(Row) /\ DOMAIN table' = DOMAIN table /\ table'[i] = r
        /\ \A j \in DOMAIN table \ {i} : table'[j] = table[j]
    BY <1>1, <1>2, <1>3
  <1>5. \A j \in DOMAIN table : Slot(j)' = Slot(j)
    BY <1>2, <1>4 DEF Slot
  <1>6. t \in 1..(i - 1) /\ i # t
    BY <1>1 DEF Rollback
  <1> QED BY <1>4, <1>5, <1>6 DEF r

\* Reap only touches rows in flight.
LEMMA ReapChanges ==
  ASSUME TypeOK, Reap
  PROVE  /\ StatusesOnly
         /\ \A i \in DOMAIN table :
              \/ table'[i] = table[i]
              \/ table[i].status \in InFlight /\ table'[i].status \in {"REQUESTED", "FAILED"}
  <1>1. PICK lost \in SUBSET { i \in DOMAIN table :
                                 table[i].status \in {"VALIDATING", "DEPLOYING"} } :
          \E outcome \in [lost -> {"REQUESTED", "FAILED"}] :
            table' = [i \in DOMAIN table |->
                        IF i \in lost THEN [table[i] EXCEPT !.status = outcome[i]] ELSE table[i]]
    BY DEF Reap
  <1>2. PICK outcome \in [lost -> {"REQUESTED", "FAILED"}] :
          table' = [i \in DOMAIN table |->
                      IF i \in lost THEN [table[i] EXCEPT !.status = outcome[i]] ELSE table[i]]
    BY <1>1
  <1>3. table \in Seq(Row) /\ \A i \in DOMAIN table : table[i] \in Row
    BY DEF TypeOK
  <1>4. DOMAIN table' = DOMAIN table
    BY <1>2
  <1>5. ASSUME NEW i \in DOMAIN table
        PROVE  /\ table'[i] \in Row
               /\ table'[i].version = table[i].version
               /\ table'[i].environment = table[i].environment
               /\ table'[i].rolled_back_to_id = table[i].rolled_back_to_id
               /\ \/ table'[i] = table[i]
                  \/ table[i].status \in InFlight
                     /\ table'[i].status \in {"REQUESTED", "FAILED"}
    <2>1. CASE i \in lost
      <3>1. table'[i] = [table[i] EXCEPT !.status = outcome[i]]
            /\ outcome[i] \in {"REQUESTED", "FAILED"} /\ table[i].status \in InFlight
        BY <1>1, <1>2, <2>1 DEF InFlight
      <3> QED BY <1>3, <3>1 DEF Row
    <2>2. CASE i \notin lost
      BY <1>2, <1>3, <2>2
    <2> QED BY <2>1, <2>2
  <1>6. table' \in [DOMAIN table -> Row]
    BY <1>2, <1>5
  <1>7. table' \in Seq(Row)
    <2>1. DOMAIN table = 1..Len(table) /\ Len(table) \in Nat
      BY <1>3
    <2> QED BY <1>6, <2>1
  <1> QED BY <1>4, <1>5, <1>7 DEF StatusesOnly, Slot

------------------------------------------------------------------------------

LEMMA TypeInit == Init => TypeOK
  BY DEF Init, TypeOK

LEMMA TypeStep == TypeOK /\ [Next]_table => TypeOK'
  <1> SUFFICES ASSUME TypeOK, Next PROVE TypeOK'
    BY DEF TypeOK
  <1>1. ASSUME NEW v \in Versions, NEW e \in Environments, Request(v, e) PROVE TypeOK'
    BY <1>1, RequestChanges DEF TypeOK
  <1>2. ASSUME NEW i \in DOMAIN table,
               Claim(i) \/ Start(i) \/ Succeed(i) \/ Fail(i) \/ Retry(i)
        PROVE TypeOK'
    BY <1>2, MoveChanges DEF Claim, Start, Succeed, Fail, Retry, InFlight, StatusesOnly, TypeOK
  <1>3. ASSUME NEW i \in DOMAIN table, NEW t \in DOMAIN table, Rollback(i, t) PROVE TypeOK'
    BY <1>3, RollbackChanges DEF TypeOK
  <1>4. CASE Reap
    BY <1>4, ReapChanges DEF StatusesOnly, TypeOK
  <1> QED BY <1>1, <1>2, <1>3, <1>4 DEF Next

LEMMA OneActiveStep == TypeOK /\ OneActive /\ [Next]_table => OneActive'
  <1> SUFFICES ASSUME TypeOK, OneActive, Next PROVE OneActive'
    BY DEF OneActive, Slot
  <1>1. ASSUME NEW v \in Versions, NEW e \in Environments, Request(v, e) PROVE OneActive'
    <2>1. PICK n : /\ DOMAIN table' = DOMAIN table \union {n}
                   /\ \A j \in DOMAIN table : table'[j] = table[j]
                   /\ \A j \in DOMAIN table : table[j].status \in InFlight => Slot(j) # Slot(n)'
      BY <1>1, RequestChanges
    <2>2. \A j \in DOMAIN table : Slot(j)' = Slot(j)
      BY <2>1 DEF Slot
    <2>3. ASSUME NEW i \in DOMAIN table', NEW j \in DOMAIN table',
                 table'[i].status \in InFlight, table'[j].status \in InFlight, Slot(i)' = Slot(j)'
          PROVE i = j
      <3>1. CASE i \in DOMAIN table /\ j \in DOMAIN table
        BY <2>1, <2>2, <2>3, <3>1 DEF OneActive
      <3>2. CASE i = n \/ j = n
        BY <2>1, <2>2, <2>3, <3>2
      <3> QED BY <2>1, <3>1, <3>2
    <2> QED BY <2>3 DEF OneActive
  \* Statuses change, and what was not in flight before has its slot to itself.
  <1>2. ASSUME StatusesOnly, NEW i \in DOMAIN table,
               \A j \in DOMAIN table \ {i} : table'[j] = table[j],
               table'[i].status \in InFlight => table[i].status \in InFlight
                                               \/ ~Busy(Slot(i), {i})
        PROVE OneActive'
    <2>1. DOMAIN table' = DOMAIN table /\ \A j \in DOMAIN table : Slot(j)' = Slot(j)
      BY <1>2 DEF StatusesOnly
    <2>2. \A j \in DOMAIN table \ {i} :
            table'[i].status \in InFlight /\ table[j].status \in InFlight => Slot(j) # Slot(i)
      BY <1>2 DEF Busy, OneActive
    <2> QED BY <1>2, <2>1, <2>2 DEF OneActive
  <1>3. ASSUME NEW i \in DOMAIN table, Claim(i) \/ Start(i) \/ Succeed(i) \/ Fail(i)
        PROVE OneActive'
    <2>1. PICK from \in SUBSET InFlight, to \in InFlight \union {"SUCCEEDED", "FAILED"} :
            Move(i, from, to)
      BY <1>3 DEF Claim, Start, Succeed, Fail, InFlight
    <2> QED BY <1>2, <2>1, MoveChanges
  <1>4. ASSUME NEW i \in DOMAIN table, Retry(i) PROVE OneActive'
    <2>1. Move(i, {"FAILED"}, "REQUESTED") /\ ~Busy(Slot(i), {i})
      BY <1>4 DEF Retry
    <2> QED BY <1>2, <2>1, MoveChanges DEF InFlight
  <1>5. ASSUME NEW i \in DOMAIN table, NEW t \in DOMAIN table, Rollback(i, t) PROVE OneActive'
    <2>1. table[i] \in Row
      BY DEF TypeOK
    <2>2. table'[i].status \notin InFlight
      BY <1>5, <2>1, RollbackChanges DEF Row, InFlight
    <2>3. /\ DOMAIN table' = DOMAIN table /\ \A j \in DOMAIN table : Slot(j)' = Slot(j)
          /\ \A j \in DOMAIN table \ {i} : table'[j] = table[j]
      BY <1>5, RollbackChanges
    <2> QED BY <2>2, <2>3 DEF OneActive
  <1>6. CASE Reap
    BY <1>6, ReapChanges DEF StatusesOnly, OneActive
  <1> QED BY <1>1, <1>3, <1>4, <1>5, <1>6 DEF Next

\* One deployment in flight per model and environment: the service never has two
\* under way, as request_deployment and retry_deployment refuse the second.
THEOREM ContractOneActive == Spec => []OneActive
  <1>1. Init => OneActive
    BY DEF Init, OneActive, InFlight
  <1> QED BY <1>1, TypeInit, TypeStep, OneActiveStep, PTL DEF Spec

\* rollback_deployment never takes the last successful deployment of a slot.
THEOREM ContractNeverStranded == Spec => NeverStranded
  <1>1. ASSUME TypeOK, Next, NEW i \in DOMAIN table, table[i].status = "SUCCEEDED"
        PROVE \E j \in DOMAIN table : Slot(j) = Slot(i) /\ table'[j].status = "SUCCEEDED"
    <2>1. ASSUME NEW v \in Versions, NEW e \in Environments, Request(v, e)
          PROVE table'[i].status = "SUCCEEDED"
      BY <1>1, <2>1, RequestChanges
    <2>2. ASSUME NEW k \in DOMAIN table,
                 Claim(k) \/ Start(k) \/ Succeed(k) \/ Fail(k) \/ Retry(k)
          PROVE table'[i].status = "SUCCEEDED"
      <3>1. PICK from \in SUBSET (InFlight \union {"FAILED"}),
                 to \in InFlight \union {"SUCCEEDED", "FAILED"} : Move(k, from, to)
        BY <2>2 DEF Claim, Start, Succeed, Fail, Retry, InFlight
      <3>2. "SUCCEEDED" \notin InFlight \union {"FAILED"}
        BY DEF InFlight
      <3> QED BY <1>1, <3>1, <3>2, MoveChanges
    <2>3. ASSUME NEW k \in DOMAIN table, NEW t \in DOMAIN table, Rollback(k, t)
          PROVE \E j \in DOMAIN table : Slot(j) = Slot(i) /\ table'[j].status = "SUCCEEDED"
      <3>1. Slot(t) = Slot(k) /\ table[t].status = "SUCCEEDED"
        BY <2>3 DEF Rollback
      <3>2. table'[t] = table[t] /\ (i # k => table'[i] = table[i])
        BY <1>1, <2>3, RollbackChanges
      <3> QED BY <1>1, <3>1, <3>2
    <2>4. CASE Reap
      <3>1. table'[i] = table[i]
        BY <1>1, <2>4, ReapChanges DEF InFlight
      <3> QED BY <1>1, <3>1
    <2> QED BY <1>1, <2>1, <2>2, <2>3, <2>4 DEF Next
  <1>2. TypeOK /\ [Next]_table =>
          [\A i \in DOMAIN table : table[i].status = "SUCCEEDED" =>
             \E j \in DOMAIN table : Slot(j) = Slot(i) /\ table'[j].status = "SUCCEEDED"]_table
    BY <1>1
  <1> QED BY <1>2, TypeInit, TypeStep, PTL DEF Spec, NeverStranded

\* TargetsAreOlder for the row i, with the deployment it names bound to a name.
TargetOlder(i) ==
  \E t \in 1..(i - 1) : /\ t = table[i].rolled_back_to_id
                        /\ Slot(t) = Slot(i) /\ table[t].version # table[i].version

LEMMA TargetsNamed ==
  TargetsAreOlder <=> \A i \in DOMAIN table : table[i].status = "ROLLED_BACK" => TargetOlder(i)
  BY DEF TargetsAreOlder, TargetOlder

\* A row that keeps its columns, in a table whose slots and versions are kept,
\* still names an older deployment.
LEMMA TargetsKept ==
  ASSUME TypeOK, TargetsAreOlder, NEW i \in DOMAIN table,
         \A j \in DOMAIN table : /\ table'[j].version = table[j].version
                                 /\ Slot(j)' = Slot(j),
         table[i].status = "ROLLED_BACK",
         table'[i].rolled_back_to_id = table[i].rolled_back_to_id
  PROVE  TargetOlder(i)'
  <1>1. PICK t \in 1..(i - 1) : /\ t = table[i].rolled_back_to_id
                                /\ Slot(t) = Slot(i) /\ table[t].version # table[i].version
    BY TargetsNamed DEF TargetOlder
  <1>2. t \in DOMAIN table
    BY <1>1 DEF TypeOK
  <1> QED BY <1>1, <1>2 DEF TargetOlder

LEMMA TargetsStep == TypeOK /\ TargetsAreOlder /\ [Next]_table => TargetsAreOlder'
  <1> SUFFICES ASSUME TypeOK, TargetsAreOlder, Next PROVE TargetsAreOlder'
    BY DEF TargetsAreOlder, Slot
  <1>0. (\A i \in DOMAIN table' : table'[i].status = "ROLLED_BACK" => TargetOlder(i)')
          => TargetsAreOlder'
    BY DEF TargetsAreOlder, TargetOlder
  <1>1. ASSUME NEW v \in Versions, NEW e \in Environments, Request(v, e) PROVE TargetsAreOlder'
    <2>1. PICK n : /\ DOMAIN table' = DOMAIN table \union {n}
                   /\ table'[n] = [version |-> v, environment |-> e, status |-> "REQUESTED",
                                   rolled_back_to_id |-> 0]
                   /\ \A j \in DOMAIN table : table'[j] = table[j]
      BY <1>1, RequestChanges
    <2>2. \A j \in DOMAIN table : Slot(j)' = Slot(j)
      BY <2>1 DEF Slot
    <2>3. \A i \in DOMAIN table : table[i].status = "ROLLED_BACK" => TargetOlder(i)'
      BY <2>1, <2>2, TargetsKept
    <2> QED BY <1>0, <2>1, <2>3
  <1>2. ASSUME StatusesOnly,
               \A i \in DOMAIN table : table'[i].status = "ROLLED_BACK" =>
                                         table[i].status = "ROLLED_BACK"
        PROVE TargetsAreOlder'
    <2>1. \A i \in DOMAIN table : table[i].status = "ROLLED_BACK" => TargetOlder(i)'
      BY <1>2, TargetsKept DEF StatusesOnly
    <2> QED BY <1>0, <1>2, <2>1 DEF StatusesOnly
  <1>3. ASSUME NEW k \in DOMAIN table,
               Claim(k) \/ Start(k) \/ Succeed(k) \/ Fail(k) \/ Retry(k)
        PROVE TargetsAreOlder'
    <2>1. PICK from \in SUBSET (InFlight \union {"FAILED"}),
               to \in InFlight \union {"SUCCEEDED", "FAILED"} : Move(k, from, to)
      BY <1>3 DEF Claim, Start, Succeed, Fail, Retry, InFlight
    <2>2. to # "ROLLED_BACK"
      BY DEF InFlight
    <2> QED BY <1>2, <2>1, <2>2, MoveChanges
  <1>4. ASSUME NEW k \in DOMAIN table, NEW t \in DOMAIN table, Rollback(k, t)
        PROVE TargetsAreOlder'
    <2>1. /\ DOMAIN table' = DOMAIN table
          /\ table'[k] = [table[k] EXCEPT !.status = "ROLLED_BACK", !.rolled_back_to_id = t]
          /\ \A j \in DOMAIN table \ {k} : table'[j] = table[j]
          /\ \A j \in DOMAIN table : Slot(j)' = Slot(j)
          /\ t \in 1..(k - 1) /\ k # t
      BY <1>4, RollbackChanges
    <2>2. table[k] \in Row
      BY DEF TypeOK
    <2>3. /\ table'[k].version = table[k].version /\ table'[k].rolled_back_to_id = t
          /\ table[t].version # table[k].version /\ Slot(t) = Slot(k)
      BY <1>4, <2>1, <2>2 DEF Rollback, Row
    <2>4. \A j \in DOMAIN table : table'[j].version = table[j].version
      BY <2>1, <2>3
    <2>5. TargetOlder(k)'
      BY <2>1, <2>3, <2>4 DEF TargetOlder
    <2>6. \A i \in DOMAIN table \ {k} : table[i].status = "ROLLED_BACK" => TargetOlder(i)'
      BY <2>1, <2>4, TargetsKept
    <2> QED BY <1>0, <2>1, <2>5, <2>6
  <1>5. CASE Reap
    <2>1. "ROLLED_BACK" \notin {"REQUESTED", "FAILED"}
      OBVIOUS
    <2> QED BY <1>2, <1>5, <2>1, ReapChanges
  <1> QED BY <1>1, <1>3, <1>4, <1>5 DEF Next

\* What rollback_deployment records as the deployment it went back to is an older
\* one of the same slot and of another version, for good.
THEOREM ContractTargetsAreOlder == Spec => []TargetsAreOlder
  <1>1. Init => TargetsAreOlder
    BY DEF Init, TargetsAreOlder
  <1> QED BY <1>1, TypeInit, TypeStep, TargetsStep, PTL DEF Spec
=============================================================================
