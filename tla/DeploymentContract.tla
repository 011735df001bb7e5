------------------------- MODULE DeploymentContract -------------------------
(* What the deployment service promises its users, without sessions, workers, *)
(* locks or crashes: the status machine of DeploymentStatus (core/enums.py)   *)
(* in which every operation is one atomic step.                               *)
EXTENDS Naturals, Sequences

CONSTANTS Versions, ModelOf, Environments

VARIABLE table    \* the deployments, in the order they were requested

Row == [version : Versions, environment : Environments,
        status : {"REQUESTED", "VALIDATING", "DEPLOYING",
                  "SUCCEEDED", "FAILED", "ROLLED_BACK"},
        rolled_back_to_id : Nat]

InFlight == {"REQUESTED", "VALIDATING", "DEPLOYING"}

Slot(i) == <<ModelOf[table[i].version], table[i].environment>>

\* A deployment other than those in ids is in flight to the slot.
Busy(slot, ids) ==
  \E j \in DOMAIN table \ ids : Slot(j) = slot /\ table[j].status \in InFlight

Move(i, from, to) ==
  /\ table[i].status \in from
  /\ table' = [table EXCEPT ![i].status = to]

Request(v, e) ==
  /\ ~Busy(<<ModelOf[v], e>>, {})
  /\ table' = Append(table, [version |-> v, environment |-> e, status |-> "REQUESTED",
                             rolled_back_to_id |-> 0])

Claim(i) == Move(i, {"REQUESTED"}, "VALIDATING")
Start(i) == Move(i, {"VALIDATING"}, "DEPLOYING")
Succeed(i) == Move(i, {"DEPLOYING"}, "SUCCEEDED")
Fail(i) == Move(i, {"VALIDATING", "DEPLOYING"}, "FAILED")
Retry(i) == ~Busy(Slot(i), {i}) /\ Move(i, {"FAILED"}, "REQUESTED")

\* Deployments whose worker was lost are queued again, or failed.
Reap ==
  \E lost \in SUBSET { i \in DOMAIN table : table[i].status \in {"VALIDATING", "DEPLOYING"} } :
    \E outcome \in [lost -> {"REQUESTED", "FAILED"}] :
      table' = [i \in DOMAIN table |->
                  IF i \in lost THEN [table[i] EXCEPT !.status = outcome[i]] ELSE table[i]]

\* Only onto an earlier deployment of another version that still is successful.
Rollback(i, j) ==
  /\ j < i /\ table[j].status = "SUCCEEDED"
  /\ Slot(j) = Slot(i) /\ table[j].version # table[i].version
  /\ table[i].status = "SUCCEEDED"
  /\ table' = [table EXCEPT ![i].status = "ROLLED_BACK", ![i].rolled_back_to_id = j]

\* The table may be seeded with deployments that have ended.
Init ==
  /\ table \in Seq(Row)
  /\ \A i \in DOMAIN table : table[i].status \in {"SUCCEEDED", "FAILED"}

Next ==
  \/ \E v \in Versions, e \in Environments : Request(v, e)
  \/ \E i \in DOMAIN table : Claim(i) \/ Start(i) \/ Succeed(i) \/ Fail(i) \/ Retry(i)
  \/ \E i, j \in DOMAIN table : Rollback(i, j)
  \/ Reap

Spec == Init /\ [][Next]_table

------------------------------------------------------------------------------
\* What follows from the promise.

TypeOK == table \in Seq(Row)

\* One deployment in flight per model and environment (ADR-0008).
OneActive ==
  \A i, j \in DOMAIN table :
    table[i].status \in InFlight /\ table[j].status \in InFlight /\ Slot(i) = Slot(j) => i = j

\* A rollback never leaves an environment with nothing running (ADR-0008): a
\* slot that has a successful deployment keeps one.
NeverStranded ==
  [][\A i \in DOMAIN table : table[i].status = "SUCCEEDED" =>
       \E j \in DOMAIN table : Slot(j) = Slot(i) /\ table'[j].status = "SUCCEEDED"]_table

\* The deployment a rolled-back one names is an older one of its slot and of
\* another version.
TargetsAreOlder ==
  \A i \in DOMAIN table : table[i].status = "ROLLED_BACK" =>
    LET t == table[i].rolled_back_to_id IN
    t \in 1..(i - 1) /\ Slot(t) = Slot(i) /\ table[t].version # table[i].version
=============================================================================
