--------------------------- MODULE DeploymentPage ---------------------------
(* The deployments page of the web frontend                                   *)
(* (frontend/src/app/features/deployments/deployment-list.ts) over a server   *)
(* that keeps the promise of DeploymentContract.  Requests are served and     *)
(* answered in any order, an answer may be lost, and nothing ties an answer   *)
(* to what the page shows by the time it arrives: no subscription is ever     *)
(* cancelled.  The search box and the choice of a page size are left out.     *)
EXTENDS Naturals, Sequences, SequencesExt

CONSTANTS
  Versions, ModelOf, Environments,
  pageSize,              \* rows per page
  canDeploy, canRollback,\* roles of the signed-in user, read once by the page
  History,               \* the deployments there are when the page opens
  MaxDeployments,        \* bound: rows in the table
  MaxRequests,           \* bound: open HTTP requests of the page
  MaxClicks,             \* bound: actions of this user
  MaxOthers,             \* bound: actions of other users
  MaxFailures            \* bound: requests that fail for a technical reason

ASSUME PageAssumption == pageSize \in Nat \ {0} /\ {canDeploy, canRollback} \subseteq BOOLEAN
ASSUME HistoryAssumption ==
  History \in Seq([version : Versions, environment : Environments,
                   status : {"SUCCEEDED", "FAILED"}, rolled_back_to_id : {0}])
ASSUME BoundAssumption ==
  {MaxDeployments, MaxRequests, MaxClicks, MaxOthers, MaxFailures} \subseteq Nat

VARIABLES
  table,    \* the server's deployments
  page,     \* the signals of DeploymentList
  net,      \* open requests, oldest first, with the answer once there is one
  budget    \* clicks, actions of others and failures that are left

vars == <<table, page, net, budget>>

Server == INSTANCE DeploymentContract

------------------------------------------------------------------------------
\* The page's signals

isInFlight(status) == status = "IN_FLIGHT"

\* A deployment as an answer brings it; the page does not tell apart the three
\* statuses of IN_FLIGHT.  noDetail is null.
Shown == [id : Nat \ {0}, status : {"IN_FLIGHT", "SUCCEEDED", "FAILED", "ROLLED_BACK"}]
noDetail == [id |-> 0, status |-> "none"]

Page ==
  [deployments : Seq(Shown), total : Nat, pageIndex : Nat, loading : BOOLEAN,
   error : BOOLEAN, detail : Shown \union {noDetail}, drawerOpen : BOOLEAN]

------------------------------------------------------------------------------
\* Requests

Open(op, arg) == [op |-> op, arg |-> arg, state |-> "open"]
Ok(r, body) == [op |-> r.op, arg |-> r.arg, state |-> "ok", body |-> body]
Failed(r) == [op |-> r.op, arg |-> r.arg, state |-> "error"]

\* The user and the timer wait while this many requests are open.
Room == Len(net) < MaxRequests
Send(requests) == net' = net \o requests

\* The k-th request is done, and these follow it.
Done(k, requests) == net' = RemoveAt(net, k) \o requests

listRequest(p) == Open("list", p.pageIndex)

\* loadList(quiet): what it does to the page, besides sending listRequest.
Reload(p) == [p EXCEPT !.loading = TRUE, !.error = FALSE]
QuietReload(p) == [p EXCEPT !.error = FALSE]

------------------------------------------------------------------------------
\* The user

\* Rows, paginator and buttons are there unless the list is loading or failed;
\* an open drawer covers them.
ListUsable == ~page.loading /\ ~page.error /\ ~page.drawerOpen

Click(new, requests) ==
  /\ budget.clicks > 0
  /\ Room
  /\ budget' = [budget EXCEPT !.clicks = @ - 1]
  /\ page' = new
  /\ Send(requests)
  /\ UNCHANGED table

onPage(k) ==
  /\ ListUsable
  /\ k # page.pageIndex /\ k * pageSize < page.total
  /\ LET p == [page EXCEPT !.pageIndex = k] IN Click(Reload(p), <<listRequest(p)>>)

\* The button that replaces a list that failed to load.
tryAgain ==
  /\ page.error /\ ~page.loading /\ ~page.drawerOpen
  /\ Click(Reload(page), <<listRequest(page)>>)

openDetail(d) ==
  /\ ListUsable
  /\ Click([page EXCEPT !.detail = noDetail, !.drawerOpen = TRUE], <<Open("get", d.id)>>)

closeDrawer ==
  /\ page.drawerOpen
  /\ Click([page EXCEPT !.drawerOpen = FALSE], <<>>)

newDeployment(v, e) ==
  /\ canDeploy /\ ~page.drawerOpen
  /\ Click(page, <<Open("create", <<v, e>>)>>)

retry ==
  /\ canDeploy /\ page.drawerOpen /\ page.detail.status = "FAILED"
  /\ Click(page, <<Open("retry", page.detail.id)>>)

\* Mutant: the page shows the result before the server has answered.
rollbackOptimistic ==
  /\ canRollback /\ page.drawerOpen /\ page.detail.status = "SUCCEEDED"
  /\ Click([page EXCEPT !.detail.status = "ROLLED_BACK"],
           <<Open("rollback", page.detail.id)>>)

rollback ==
  /\ canRollback /\ page.drawerOpen /\ page.detail.status = "SUCCEEDED"
  /\ Click(page, <<Open("rollback", page.detail.id)>>)

------------------------------------------------------------------------------
\* The timer

\* Mutants: only the drawer is polled; or only the list is.
pollDrawer ==
  LET get == IF page.drawerOpen /\ isInFlight(page.detail.status)
             THEN <<Open("get", page.detail.id)>> ELSE <<>>
  IN /\ Room
     /\ get # <<>>
     /\ Send(get)
     /\ UNCHANGED <<table, page, budget>>
pollList ==
  /\ Room
  /\ \E j \in DOMAIN page.deployments : isInFlight(page.deployments[j].status)
  /\ page' = QuietReload(page)
  /\ Send(<<listRequest(page)>>)
  /\ UNCHANGED <<table, budget>>

\* Mutant: null, a drawer that is still empty, is not looked for.
pollNull ==
  /\ Room
  /\ page.drawerOpen
  /\ page' = QuietReload(page)
  /\ Send(<<listRequest(page), Open("get", page.detail.id)>>)
  /\ UNCHANGED <<table, budget>>

\* Every two seconds, whether or not the last poll has been answered.
poll ==
  LET busy == \E j \in DOMAIN page.deployments : isInFlight(page.deployments[j].status)
      list == IF busy THEN <<listRequest(page)>> ELSE <<>>
      get == IF page.drawerOpen /\ isInFlight(page.detail.status)
             THEN <<Open("get", page.detail.id)>> ELSE <<>>
  IN /\ Room
     /\ list \o get # <<>>
     /\ page' = IF busy THEN QuietReload(page) ELSE page
     /\ Send(list \o get)
     /\ UNCHANGED <<table, budget>>

------------------------------------------------------------------------------
\* The server

Row(i) == [id |-> i, status |-> IF table[i].status \in Server!InFlight THEN "IN_FLIGHT"
                                ELSE table[i].status]

\* list_deployments: a page of the table, newest first.
Items(k) ==
  LET last == Len(table) - k * pageSize IN
  [j \in {n \in 1..pageSize : n + k * pageSize <= Len(table)} |-> Row(last - j + 1)]

Answer(k, body) == net' = [net EXCEPT ![k] = Ok(@, body)]
Refuse(k) == net' = [net EXCEPT ![k] = Failed(@)] /\ UNCHANGED table

Read(k) ==
  /\ UNCHANGED table
  /\ \/ net[k].op = "list"
        /\ Answer(k, [items |-> Items(net[k].arg), total |-> Len(table)])
     \/ net[k].op = "get" /\ Answer(k, Row(net[k].arg))

\* A refusal is always possible: of the stage gate, or for want of room.
Create(k) ==
  /\ net[k].op = "create"
  /\ \/ Refuse(k)
     \/ /\ Len(table) < MaxDeployments
        /\ Server!Request(net[k].arg[1], net[k].arg[2])
        /\ Answer(k, [id |-> Len(table) + 1, status |-> "IN_FLIGHT"])

Retry(k) ==
  LET i == net[k].arg IN
  /\ net[k].op = "retry"
  /\ \/ Server!Retry(i) /\ Answer(k, [id |-> i, status |-> "IN_FLIGHT"])
     \/ /\ table[i].status # "FAILED" \/ Server!Busy(Server!Slot(i), {i})
        /\ Refuse(k)

Rollback(k) ==
  LET i == net[k].arg IN
  /\ net[k].op = "rollback"
  /\ \/ \E j \in DOMAIN table : Server!Rollback(i, j)
                                /\ Answer(k, [id |-> i, status |-> "ROLLED_BACK"])
     \/ /\ \A j \in DOMAIN table :
             ~ (j < i /\ table[j].status = "SUCCEEDED" /\ Server!Slot(j) = Server!Slot(i)
                /\ table[j].version # table[i].version /\ table[i].status = "SUCCEEDED")
        /\ Refuse(k)

Serve(k) ==
  /\ k \in DOMAIN net /\ net[k].state = "open"
  /\ Read(k) \/ Create(k) \/ Retry(k) \/ Rollback(k)
  /\ UNCHANGED <<page, budget>>

\* The connection breaks, before or after the server has done its part.
Break(k) ==
  /\ net[k].state # "error"
  /\ budget.failures > 0
  /\ budget' = [budget EXCEPT !.failures = @ - 1]
  /\ net' = [net EXCEPT ![k] = Failed(@)]
  /\ UNCHANGED <<table, page>>

\* Workers, and other users.
Claim(i) == Server!Claim(i) /\ UNCHANGED <<page, net, budget>>
Start(i) == Server!Start(i) /\ UNCHANGED <<page, net, budget>>
End(i) == (Server!Succeed(i) \/ Server!Fail(i)) /\ UNCHANGED <<page, net, budget>>

Others ==
  /\ budget.others > 0
  /\ budget' = [budget EXCEPT !.others = @ - 1]
  /\ \/ \E v \in Versions, e \in Environments :
          Len(table) < MaxDeployments /\ Server!Request(v, e)
     \/ \E i \in DOMAIN table : Server!Retry(i)
     \/ \E i, j \in DOMAIN table : Server!Rollback(i, j)
     \/ Server!Reap
  /\ UNCHANGED <<page, net>>

------------------------------------------------------------------------------
\* Answers

Arrived(k, op) == k \in DOMAIN net /\ net[k].op = op /\ net[k].state # "open"
Failure(k) == net[k].state = "error"

\* Mutant: a failed load leaves the spinner on.
ListArrivedSpinning(k) ==
  /\ Arrived(k, "list")
  /\ page' = IF Failure(k) THEN [page EXCEPT !.error = TRUE]
             ELSE [page EXCEPT !.deployments = net[k].body.items,
                               !.total = net[k].body.total, !.loading = FALSE]
  /\ Done(k, <<>>)

\* loadList's subscription.
ListArrived(k) ==
  /\ Arrived(k, "list")
  /\ page' = IF Failure(k) THEN [page EXCEPT !.error = TRUE, !.loading = FALSE]
             ELSE [page EXCEPT !.deployments = net[k].body.items,
                               !.total = net[k].body.total, !.loading = FALSE]
  /\ Done(k, <<>>)

\* loadDetail's: it has no error handler.
DetailArrived(k) ==
  /\ Arrived(k, "get")
  /\ page' = IF Failure(k) THEN page ELSE [page EXCEPT !.detail = net[k].body]
  /\ Done(k, <<>>)

\* newDeployment's: to the first page, with the new deployment in the drawer.
CreateArrived(k) ==
  /\ Arrived(k, "create")
  /\ IF Failure(k) THEN page' = page /\ Done(k, <<>>)
     ELSE LET p == [page EXCEPT !.pageIndex = 0] IN
          /\ page' = [Reload(p) EXCEPT !.detail = net[k].body, !.drawerOpen = TRUE]
          /\ Done(k, <<listRequest(p)>>)

\* retry's and rollback's: afterAction.
ActionArrived(k) ==
  /\ Arrived(k, "retry") \/ Arrived(k, "rollback")
  /\ IF Failure(k) THEN page' = page /\ Done(k, <<>>)
     ELSE /\ page' = QuietReload(page)
          /\ Done(k, <<Open("get", net[k].arg), listRequest(page)>>)

Deliver(k) ==
  /\ ListArrived(k) \/ DetailArrived(k) \/ CreateArrived(k) \/ ActionArrived(k)
  /\ UNCHANGED <<table, budget>>

------------------------------------------------------------------------------
\* The constructor loads the list.
Init ==
  /\ table = History
  /\ page = [deployments |-> <<>>, total |-> 0, pageIndex |-> 0, loading |-> TRUE,
             error |-> FALSE, detail |-> noDetail, drawerOpen |-> FALSE]
  /\ net = <<Open("list", 0)>>
  /\ budget = [clicks |-> MaxClicks, others |-> MaxOthers, failures |-> MaxFailures]

User ==
  \/ \E k \in 0..page.total : onPage(k)
  \/ tryAgain
  \/ \E j \in DOMAIN page.deployments : openDetail(page.deployments[j])
  \/ closeDrawer
  \/ \E v \in Versions, e \in Environments : newDeployment(v, e)
  \/ retry
  \/ rollback

Next ==
  \/ User
  \/ poll
  \/ \E k \in DOMAIN net : Serve(k) \/ Break(k) \/ Deliver(k)
  \/ \E i \in DOMAIN table : Claim(i) \/ Start(i) \/ End(i)
  \/ Others

Spec == Init /\ [][Next]_vars

------------------------------------------------------------------------------
\* Properties

\* Every variable has its type, and answers are about rows that exist.
TypeOK ==
  /\ Server!TypeOK
  /\ page \in Page
  /\ \A k \in DOMAIN net :
       /\ net[k].op \in {"list", "get", "create", "retry", "rollback"}
       /\ net[k].state \in {"open", "ok", "error"}
       /\ net[k].op \in {"get", "retry", "rollback"} => net[k].arg \in DOMAIN table
       /\ net[k].state = "ok" /\ net[k].op # "list" => net[k].body \in Shown
  /\ budget \in [clicks : Nat, others : Nat, failures : Nat]

\* A success or a rollback that the page shows is one: however late an answer
\* comes, the server has got that far and does not go back on it.
NeverAhead ==
  LET shown == { page.deployments[j] : j \in DOMAIN page.deployments }
               \union ({page.detail} \ {noDetail})
  IN \A d \in shown :
       /\ d.id \in DOMAIN table
       /\ d.status = "SUCCEEDED" => table[d.id].status \in {"SUCCEEDED", "ROLLED_BACK"}
       /\ d.status = "ROLLED_BACK" => table[d.id].status = "ROLLED_BACK"

------------------------------------------------------------------------------
\* Liveness

\* The timer ticks; the oldest request is served, or breaks, and its answer
\* arrives; what is in flight ends (InFlightEnds of DeploymentQueue).
Fairness ==
  /\ SF_vars(poll)
  /\ WF_vars(Serve(1))
  /\ WF_vars(Deliver(1))
  /\ \A i \in 1..MaxDeployments :
       WF_vars(i \in DOMAIN table /\ (Claim(i) \/ Start(i) \/ End(i)))

FairSpec == Spec /\ Fairness

ListWatches(i) ==
  \E j \in DOMAIN page.deployments :
    page.deployments[j].id = i /\ isInFlight(page.deployments[j].status)
DrawerWatches(i) ==
  page.drawerOpen /\ page.detail.id = i /\ isInFlight(page.detail.status)

\* "Poll for live status while anything is in flight": a deployment that the
\* list shows in flight does not stay so for ever, whatever order the answers
\* come in and whichever of them are lost.
ListFollows == \A i \in 1..MaxDeployments : ListWatches(i) ~> ~ListWatches(i)

\* Nor does one in the open drawer, whatever the list shows by then.
DrawerFollows == \A i \in 1..MaxDeployments : DrawerWatches(i) ~> ~DrawerWatches(i)

\* The spinner goes away, also when a load fails.
LoadingEnds == page.loading ~> ~page.loading
=============================================================================
