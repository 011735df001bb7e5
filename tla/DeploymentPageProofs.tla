------------------------ MODULE DeploymentPageProofs ------------------------
(* What the page shows, whatever is late, lost or done by others, for any     *)
(* history, page size and number of open requests.                            *)
EXTENDS DeploymentPage, TLAPS

------------------------------------------------------------------------------
\* The inductive invariant, of a page p and messages n over a table t

\* d was true of the server once, and an outcome still is.
Confirmed(d, t) ==
  /\ d.id \in DOMAIN t
  /\ d.status = "SUCCEEDED" => t[d.id].status \in {"SUCCEEDED", "ROLLED_BACK"}
  /\ d.status = "ROLLED_BACK" => t[d.id].status = "ROLLED_BACK"

PageOK(p, t) ==
  /\ p \in Page
  /\ \A j \in DOMAIN p.deployments : Confirmed(p.deployments[j], t)
  /\ p.detail # noDetail => Confirmed(p.detail, t)

\* A request is about rows that exist, and so is its answer.
ArgOK(m, t) ==
  /\ m.op \in {"list", "get", "create", "retry", "rollback"}
  /\ m.op = "list" => m.arg \in Nat
  /\ m.op = "create" => m.arg \in Versions \X Environments
  /\ m.op \in {"get", "retry", "rollback"} => m.arg \in DOMAIN t

ListOK(b, t) ==
  /\ b.items \in Seq(Shown) /\ b.total \in Nat
  /\ \A j \in DOMAIN b.items : Confirmed(b.items[j], t)

MsgOK(m, t) ==
  /\ ArgOK(m, t)
  /\ m.state \in {"open", "ok", "error"}
  /\ m.state = "ok" /\ m.op = "list" => ListOK(m.body, t)
  /\ m.state = "ok" /\ m.op # "list" => m.body \in Shown /\ Confirmed(m.body, t)

NetOK(n, t) ==
  /\ n \in Seq({ n[k] : k \in DOMAIN n })
  /\ \A k \in DOMAIN n : MsgOK(n[k], t)

IInv ==
  /\ Server!TypeOK
  /\ PageOK(page, table)
  /\ NetOK(net, table)
  /\ budget \in [clicks : Nat, others : Nat, failures : Nat]

\* The server takes no outcome back.
Kept(t, u) ==
  \A i \in DOMAIN t :
    /\ i \in DOMAIN u
    /\ t[i].status = "SUCCEEDED" => u[i].status \in {"SUCCEEDED", "ROLLED_BACK"}
    /\ t[i].status = "ROLLED_BACK" => u[i].status = "ROLLED_BACK"

------------------------------------------------------------------------------
\* Sequences of messages

LEMMA OwnElements ==
  ASSUME NEW S, NEW s \in Seq(S)
  PROVE  s \in Seq({ s[k] : k \in DOMAIN s })
  <1>1. Len(s) \in Nat /\ DOMAIN s = 1..Len(s) /\ s = [k \in 1..Len(s) |-> s[k]]
    OBVIOUS
  <1> DEFINE R == { s[k] : k \in DOMAIN s }
  <1>2. s \in [1..Len(s) -> R]
    BY <1>1
  <1> HIDE DEF R
  <1>3. s \in Seq(R)
    BY <1>1, <1>2
  <1> QED BY <1>3 DEF R

LEMMA Wider ==
  ASSUME NEW S, NEW T, S \subseteq T, NEW s \in Seq(S)
  PROVE  s \in Seq(T)
  OBVIOUS

\* A concatenation is of messages that are in order if both parts are.
LEMMA Joined ==
  ASSUME NEW t, NEW a, NEW b, NetOK(a, t), NetOK(b, t)
  PROVE  NetOK(a \o b, t)
  <1> DEFINE A == { a[k] : k \in DOMAIN a }
             B == { b[k] : k \in DOMAIN b }
             S == A \union B
  <1>1. \A m \in S : MsgOK(m, t)
    BY DEF NetOK
  <1>2. a \in Seq(A) /\ b \in Seq(B)
    BY DEF NetOK
  <1> HIDE DEF A, B
  <1>3. a \in Seq(S) /\ b \in Seq(S)
    BY <1>2, Wider
  <1> HIDE DEF S
  <1>4. a \o b \in Seq(S)
    BY <1>3
  <1>5. \A k \in DOMAIN (a \o b) : (a \o b)[k] \in S
    BY <1>4
  <1> QED BY <1>1, <1>4, <1>5, OwnElements DEF NetOK

LEMMA Dropped ==
  ASSUME NEW t, NEW n, NetOK(n, t), NEW k \in DOMAIN n
  PROVE  NetOK(RemoveAt(n, k), t)
  <1> DEFINE S == { n[j] : j \in DOMAIN n }
  <1>1. n \in Seq(S) /\ \A m \in S : MsgOK(m, t)
    BY DEF NetOK
  <1> HIDE DEF S
  <1>2. Len(n) \in Nat /\ k \in 1..Len(n)
    BY <1>1
  <1>3. SubSeq(n, 1, k - 1) \in Seq(S) /\ SubSeq(n, k + 1, Len(n)) \in Seq(S)
    BY <1>1, <1>2
  <1>4. RemoveAt(n, k) \in Seq(S)
    BY <1>3 DEF RemoveAt
  <1>5. \A j \in DOMAIN RemoveAt(n, k) : RemoveAt(n, k)[j] \in S
    BY <1>4
  <1> QED BY <1>1, <1>4, <1>5, OwnElements DEF NetOK

LEMMA Answered ==
  ASSUME NEW t, NEW n, NetOK(n, t), NEW k \in DOMAIN n, NEW m, MsgOK(m, t)
  PROVE  NetOK([n EXCEPT ![k] = m], t)
  <1> DEFINE S == { n[j] : j \in DOMAIN n } \union {m}
             u == [n EXCEPT ![k] = m]
  <1>1. n \in Seq({ n[j] : j \in DOMAIN n }) /\ \A x \in S : MsgOK(x, t)
    BY DEF NetOK
  <1>2. n \in Seq(S) /\ m \in S
    BY <1>1, Wider
  <1> HIDE DEF S
  <1>3. u \in Seq(S)
    BY <1>2
  <1> HIDE DEF u
  <1>4. \A j \in DOMAIN u : u[j] \in S
    BY <1>3
  <1>5. NetOK(u, t)
    BY <1>1, <1>3, <1>4, OwnElements DEF NetOK
  <1> QED BY <1>5 DEF u

LEMMA Nothing == ASSUME NEW t PROVE NetOK(<<>>, t)
  BY DEF NetOK

LEMMA One ==
  ASSUME NEW t, NEW m, MsgOK(m, t)
  PROVE  NetOK(<<m>>, t)
  <1>1. <<m>> \in Seq({m}) /\ \A k \in DOMAIN <<m>> : <<m>>[k] = m
    OBVIOUS
  <1> QED BY <1>1, OwnElements DEF NetOK

LEMMA Opened ==
  ASSUME NEW t, NEW op, NEW arg, ArgOK([op |-> op, arg |-> arg], t)
  PROVE  NetOK(<<Open(op, arg)>>, t)
  <1>1. MsgOK(Open(op, arg), t)
    BY DEF MsgOK, ArgOK, Open
  <1> QED BY <1>1, One

------------------------------------------------------------------------------
\* Time is on the page's side: what is confirmed stays so

LEMMA ConfirmedKept ==
  ASSUME NEW t, NEW u, Kept(t, u), NEW d, Confirmed(d, t)
  PROVE  Confirmed(d, u)
  BY DEF Confirmed, Kept

LEMMA PageKept ==
  ASSUME NEW t, NEW u, Kept(t, u), NEW p, PageOK(p, t)
  PROVE  PageOK(p, u)
  BY ConfirmedKept DEF PageOK

LEMMA NetKept ==
  ASSUME NEW t, NEW u, Kept(t, u), NEW n, NetOK(n, t)
  PROVE  NetOK(n, u)
  <1>1. ASSUME NEW m, MsgOK(m, t) PROVE MsgOK(m, u)
    <2>1. ArgOK(m, u)
      BY <1>1 DEF MsgOK, ArgOK, Kept
    <2>2. m.state = "ok" /\ m.op = "list" => ListOK(m.body, u)
      BY <1>1, ConfirmedKept DEF MsgOK, ListOK
    <2> QED BY <1>1, <2>1, <2>2, ConfirmedKept DEF MsgOK
  <1> QED BY <1>1 DEF NetOK

------------------------------------------------------------------------------
\* The server

LEMMA ServerMove ==
  ASSUME Server!TypeOK, NEW i \in DOMAIN table, NEW from, from \intersect {"SUCCEEDED", "ROLLED_BACK"} = {},
         NEW to \in Server!InFlight \union {"SUCCEEDED", "FAILED"}, Server!Move(i, from, to)
  PROVE  Server!TypeOK' /\ Kept(table, table')
  <1> DEFINE r == [table[i] EXCEPT !.status = to]
  <1>1. table[i] \in Server!Row /\ table \in Seq(Server!Row)
    BY DEF Server!TypeOK
  <1>2. r \in Server!Row
    BY <1>1 DEF Server!Row, Server!InFlight
  <1>3. table' = [table EXCEPT ![i] = r] /\ table[i].status \in from
    BY DEF Server!Move
  <1> HIDE DEF r
  <1>4. /\ table' \in Seq(Server!Row) /\ DOMAIN table' = DOMAIN table
        /\ \A j \in DOMAIN table \ {i} : table'[j] = table[j]
    BY <1>1, <1>2, <1>3
  <1>5. table[i].status \notin {"SUCCEEDED", "ROLLED_BACK"}
    BY <1>3
  <1> QED BY <1>4, <1>5 DEF Server!TypeOK, Kept

LEMMA ServerRequest ==
  ASSUME Server!TypeOK, NEW v \in Versions, NEW e \in Environments, Server!Request(v, e)
  PROVE  /\ Server!TypeOK' /\ Kept(table, table')
         /\ Len(table) + 1 \in DOMAIN table' /\ Len(table) + 1 \in Nat \ {0}
  <1> DEFINE r == [version |-> v, environment |-> e, status |-> "REQUESTED", rolled_back_to_id |-> 0]
  <1>1. r \in Server!Row /\ table \in Seq(Server!Row)
    BY DEF Server!Row, Server!TypeOK
  <1>2. table' = Append(table, r)
    BY DEF Server!Request
  <1> HIDE DEF r
  <1>3. /\ table' \in Seq(Server!Row) /\ DOMAIN table \subseteq DOMAIN table'
        /\ \A j \in DOMAIN table : table'[j] = table[j]
        /\ Len(table) + 1 \in DOMAIN table' /\ Len(table) + 1 \in Nat \ {0}
    BY <1>1, <1>2
  <1> QED BY <1>3 DEF Server!TypeOK, Kept

LEMMA ServerRollback ==
  ASSUME Server!TypeOK, NEW i \in DOMAIN table, NEW j \in DOMAIN table, Server!Rollback(i, j)
  PROVE  Server!TypeOK' /\ Kept(table, table') /\ table'[i].status = "ROLLED_BACK"
  <1> DEFINE r == [table[i] EXCEPT !.status = "ROLLED_BACK", !.rolled_back_to_id = j]
  <1>1. table[i] \in Server!Row /\ table \in Seq(Server!Row) /\ j \in Nat
    BY DEF Server!TypeOK
  <1>2. r \in Server!Row /\ r.status = "ROLLED_BACK"
    BY <1>1 DEF Server!Row
  <1>3. table' = [table EXCEPT ![i] = r]
    BY <1>1 DEF Server!Rollback
  <1> HIDE DEF r
  <1>4. /\ table' \in Seq(Server!Row) /\ DOMAIN table' = DOMAIN table /\ table'[i] = r
        /\ \A k \in DOMAIN table \ {i} : table'[k] = table[k]
    BY <1>1, <1>2, <1>3
  <1> QED BY <1>2, <1>4 DEF Server!TypeOK, Kept

LEMMA ServerReap ==
  ASSUME Server!TypeOK, Server!Reap
  PROVE  Server!TypeOK' /\ Kept(table, table')
  <1>1. table \in Seq(Server!Row) /\ Len(table) \in Nat /\ DOMAIN table = 1..Len(table)
    BY DEF Server!TypeOK
  <1>2. PICK lost \in SUBSET { i \in DOMAIN table : table[i].status \in {"VALIDATING", "DEPLOYING"} } :
          \E outcome \in [lost -> {"REQUESTED", "FAILED"}] :
            table' = [i \in DOMAIN table |->
                        IF i \in lost THEN [table[i] EXCEPT !.status = outcome[i]] ELSE table[i]]
    BY DEF Server!Reap
  <1>3. PICK outcome \in [lost -> {"REQUESTED", "FAILED"}] :
          table' = [i \in DOMAIN table |->
                      IF i \in lost THEN [table[i] EXCEPT !.status = outcome[i]] ELSE table[i]]
    BY <1>2
  <1>4. \A i \in DOMAIN table :
          /\ table'[i] \in Server!Row
          /\ i \in lost => table[i].status \in {"VALIDATING", "DEPLOYING"}
          /\ i \notin lost => table'[i] = table[i]
    <2> SUFFICES ASSUME NEW i \in DOMAIN table
                 PROVE  /\ table'[i] \in Server!Row
                        /\ i \in lost => table[i].status \in {"VALIDATING", "DEPLOYING"}
                        /\ i \notin lost => table'[i] = table[i]
      OBVIOUS
    <2>1. table[i] \in Server!Row
      BY <1>1
    <2>2. CASE i \in lost
      <3>1. table'[i] = [table[i] EXCEPT !.status = outcome[i]] /\ outcome[i] \in {"REQUESTED", "FAILED"}
        BY <1>3, <2>2
      <3> QED BY <2>1, <2>2, <3>1 DEF Server!Row
    <2>3. CASE i \notin lost
      BY <1>3, <2>1, <2>3
    <2> QED BY <2>2, <2>3
  <1>5. DOMAIN table' = DOMAIN table /\ table' = [i \in 1..Len(table) |-> table'[i]]
    BY <1>1, <1>3
  <1>6. table' \in [1..Len(table) -> Server!Row]
    BY <1>1, <1>4, <1>5
  <1>7. table' \in Seq(Server!Row)
    BY <1>1, <1>6
  <1> QED BY <1>4, <1>5, <1>7 DEF Server!TypeOK, Kept

\* What the server answers about a row is true when it does.
LEMMA RowConfirmed ==
  ASSUME Server!TypeOK, NEW i \in DOMAIN table
  PROVE  Row(i) \in Shown /\ Confirmed(Row(i), table)
  <1>1. table[i] \in Server!Row /\ i \in Nat \ {0}
    BY DEF Server!TypeOK
  <1> QED BY <1>1 DEF Row, Shown, Confirmed, Server!Row, Server!InFlight

LEMMA ItemsConfirmed ==
  ASSUME Server!TypeOK, NEW k \in Nat
  PROVE  Items(k) \in Seq(Shown) /\ \A j \in DOMAIN Items(k) : Confirmed(Items(k)[j], table)
  <1> DEFINE m == k * pageSize
             last == Len(table) - m
             N == { n \in 1..pageSize : n + m <= Len(table) }
  <1>1. m \in Nat /\ Len(table) \in Nat /\ DOMAIN table = 1..Len(table) /\ pageSize \in Nat
    BY PageAssumption DEF Server!TypeOK
  <1>2. Items(k) = [j \in N |-> Row(last - j + 1)]
    BY DEF Items
  <1> HIDE DEF m
  <1>3. \A j \in N : last - j + 1 \in DOMAIN table
    BY <1>1
  <1>4. PICK c \in Nat : N = 1..c
    <2>1. CASE last < 0
      <3>1. N = 1..0
        BY <1>1, <2>1
      <3> QED BY <3>1
    <2>2. CASE last >= pageSize
      <3>1. N = 1..pageSize
        BY <1>1, <2>2
      <3> QED BY <1>1, <3>1
    <2>3. CASE last >= 0 /\ last < pageSize
      <3>1. N = 1..last /\ last \in Nat
        BY <1>1, <2>3
      <3> QED BY <3>1
    <2> QED BY <1>1, <2>1, <2>2, <2>3
  <1> HIDE DEF N, last
  <1>5. \A j \in N : Items(k)[j] \in Shown /\ Confirmed(Items(k)[j], table)
    BY <1>2, <1>3, RowConfirmed
  <1>6. Items(k) \in [1..c -> Shown] /\ DOMAIN Items(k) = N
    BY <1>2, <1>4, <1>5
  <1>7. Items(k) \in Seq(Shown)
    BY <1>6
  <1> QED BY <1>5, <1>6, <1>7

------------------------------------------------------------------------------
\* The invariant

LEMMA PageInit == Init => IInv
  <1> SUFFICES ASSUME Init PROVE IInv
    OBVIOUS
  <1>1. Server!TypeOK
    <2> DEFINE H == [version : Versions, environment : Environments,
                     status : {"SUCCEEDED", "FAILED"}, rolled_back_to_id : {0}]
    <2>1. H \subseteq Server!Row
      BY DEF Server!Row
    <2>2. History \in Seq(H)
      BY HistoryAssumption
    <2> HIDE DEF H
    <2> QED BY <2>1, <2>2, Wider DEF Init, Server!TypeOK
  <1>2. PageOK(page, table)
    <2>1. page.deployments = <<>> /\ page.detail = noDetail
      BY DEF Init
    <2>2. page \in Page
      BY DEF Init, Page
    <2> QED BY <2>1, <2>2 DEF PageOK
  <1>3. NetOK(net, table)
    BY Opened DEF Init, ArgOK
  <1>4. budget \in [clicks : Nat, others : Nat, failures : Nat]
    BY BoundAssumption DEF Init
  <1> QED BY <1>1, <1>2, <1>3, <1>4 DEF IInv

\* What the page asks for is there to be asked for.
LEMMA ListAsked ==
  ASSUME NEW t, NEW p, p.pageIndex \in Nat
  PROVE  NetOK(<<listRequest(p)>>, t)
  BY Opened DEF listRequest, ArgOK

LEMMA RowAsked ==
  ASSUME NEW t, NEW op \in {"get", "retry", "rollback"}, NEW i \in DOMAIN t
  PROVE  NetOK(<<Open(op, i)>>, t)
  BY Opened DEF ArgOK

\* The signals that say no more than how the page looks.
LEMMA Looks ==
  ASSUME NEW t, NEW p, PageOK(p, t), NEW b \in BOOLEAN, NEW e \in BOOLEAN, NEW k \in Nat
  PROVE  /\ PageOK(Reload(p), t) /\ PageOK(QuietReload(p), t)
         /\ PageOK([p EXCEPT !.drawerOpen = b], t)
         /\ PageOK([p EXCEPT !.pageIndex = k], t)
         /\ PageOK([p EXCEPT !.error = e, !.loading = b], t)
         /\ PageOK([p EXCEPT !.detail = noDetail, !.drawerOpen = b], t)
  BY DEF PageOK, Page, Reload, QuietReload

LEMMA ClickKeeps ==
  ASSUME IInv, NEW new, NEW requests, Click(new, requests),
         PageOK(new, table), NetOK(requests, table)
  PROVE  IInv'
  <1>1. /\ page' = new /\ table' = table /\ net' = net \o requests
    BY DEF Click, Send
  <1>2. NetOK(net', table')
    BY <1>1, Joined DEF IInv
  <1>3. budget' \in [clicks : Nat, others : Nat, failures : Nat]
    BY DEF IInv, Click
  <1> QED BY <1>1, <1>2, <1>3 DEF IInv, Server!TypeOK

LEMMA UserStep ==
  ASSUME IInv, User
  PROVE  IInv'
  <1>0. /\ PageOK(page, table) /\ page \in Page
        /\ page.pageIndex \in Nat /\ page.deployments \in Seq(Shown)
    BY DEF IInv, PageOK, Page
  <1>1. ASSUME NEW k \in 0..page.total, onPage(k) PROVE IInv'
    <2> DEFINE p == [page EXCEPT !.pageIndex = k]
    <2>1. k \in Nat
      BY <1>0 DEF Page
    <2>2. PageOK(p, table) /\ p.pageIndex \in Nat
      BY <1>0, <2>1, Looks DEF Page
    <2>3. Click(Reload(p), <<listRequest(p)>>)
      BY <1>1 DEF onPage
    <2> HIDE DEF p
    <2> QED BY <2>2, <2>3, Looks, ListAsked, ClickKeeps
  <1>2. CASE tryAgain
    BY <1>0, <1>2, Looks, ListAsked, ClickKeeps DEF tryAgain
  <1>3. ASSUME NEW j \in DOMAIN page.deployments, openDetail(page.deployments[j]) PROVE IInv'
    <2>1. page.deployments[j].id \in DOMAIN table
      BY <1>0, <1>3 DEF PageOK, Confirmed
    <2>2. NetOK(<<Open("get", page.deployments[j].id)>>, table)
      BY <2>1, RowAsked
    <2> QED BY <1>0, <1>3, <2>2, Looks, ClickKeeps DEF openDetail
  <1>4. CASE closeDrawer
    BY <1>0, <1>4, Looks, Nothing, ClickKeeps DEF closeDrawer
  <1>5. ASSUME NEW v \in Versions, NEW e \in Environments, newDeployment(v, e) PROVE IInv'
    <2>1. NetOK(<<Open("create", <<v, e>>)>>, table)
      BY Opened DEF ArgOK
    <2> QED BY <1>0, <1>5, <2>1, ClickKeeps DEF newDeployment
  <1>6. ASSUME retry \/ rollback PROVE IInv'
    <2>1. page.detail # noDetail
      BY <1>6 DEF retry, rollback, noDetail
    <2>2. page.detail.id \in DOMAIN table
      BY <1>0, <2>1 DEF PageOK, Confirmed
    <2>3. NetOK(<<Open("retry", page.detail.id)>>, table) /\ NetOK(<<Open("rollback", page.detail.id)>>, table)
      BY <2>2, RowAsked
    <2> QED BY <1>0, <1>6, <2>3, ClickKeeps DEF retry, rollback
  <1> QED BY <1>1, <1>2, <1>3, <1>4, <1>5, <1>6 DEF User

LEMMA PollStep ==
  ASSUME IInv, poll
  PROVE  IInv'
  <1> DEFINE busy == \E j \in DOMAIN page.deployments : isInFlight(page.deployments[j].status)
             list == IF busy THEN <<listRequest(page)>> ELSE <<>>
             get == IF page.drawerOpen /\ isInFlight(page.detail.status)
                    THEN <<Open("get", page.detail.id)>> ELSE <<>>
  <1>0. PageOK(page, table) /\ page.pageIndex \in Nat
    BY DEF IInv, PageOK, Page
  <1>1. NetOK(list, table)
    BY <1>0, ListAsked, Nothing
  <1>2. NetOK(get, table)
    <2>1. isInFlight(page.detail.status) => page.detail # noDetail
      BY DEF isInFlight, noDetail
    <2>2. isInFlight(page.detail.status) => page.detail.id \in DOMAIN table
      BY <1>0, <2>1 DEF PageOK, Confirmed
    <2> QED BY <2>2, RowAsked, Nothing
  <1>3. /\ net' = net \o (list \o get) /\ UNCHANGED <<table, budget>>
        /\ page' = QuietReload(page) \/ page' = page
    BY DEF poll, Send
  <1> HIDE DEF list, get
  <1>4. NetOK(net', table')
    BY <1>1, <1>2, <1>3, Joined DEF IInv
  <1>5. PageOK(page', table')
    BY <1>0, <1>3, Looks
  <1> QED BY <1>3, <1>4, <1>5 DEF IInv, Server!TypeOK

\* The server moves on, whoever asked for it.
LEMMA ServerKeeps ==
  ASSUME IInv, Server!TypeOK', Kept(table, table'), UNCHANGED <<page, net>>,
         budget' \in [clicks : Nat, others : Nat, failures : Nat]
  PROVE  IInv'
  <1>1. PageOK(page', table') /\ NetOK(net', table')
    BY PageKept, NetKept DEF IInv
  <1> QED BY <1>1 DEF IInv

\* It answers the request k.
LEMMA AnswerKeeps ==
  ASSUME IInv, Server!TypeOK', Kept(table, table'), UNCHANGED <<page, budget>>,
         NEW k \in DOMAIN net, NEW m, net' = [net EXCEPT ![k] = m], MsgOK(m, table')
  PROVE  IInv'
  <1>1. PageOK(page', table') /\ NetOK(net, table')
    BY PageKept, NetKept DEF IInv
  <1>2. NetOK(net', table')
    BY <1>1, Answered
  <1> QED BY <1>1, <1>2 DEF IInv

LEMMA Unmoved == ASSUME NEW t PROVE Kept(t, t)
  BY DEF Kept

LEMMA FailedOK ==
  ASSUME NEW t, NEW m, MsgOK(m, t)
  PROVE  MsgOK(Failed(m), t)
  BY DEF MsgOK, ArgOK, Failed

LEMMA OkOK ==
  ASSUME NEW t, NEW m, ArgOK(m, t), NEW body,
         IF m.op = "list" THEN ListOK(body, t) ELSE body \in Shown /\ Confirmed(body, t)
  PROVE  MsgOK(Ok(m, body), t)
  BY DEF MsgOK, ArgOK, Ok

LEMMA ArgKept ==
  ASSUME NEW t, NEW u, Kept(t, u), NEW m, ArgOK(m, t)
  PROVE  ArgOK(m, u)
  BY DEF ArgOK, Kept

LEMMA ServeStep ==
  ASSUME IInv, NEW k \in DOMAIN net, Serve(k)
  PROVE  IInv'
  <1> DEFINE m == net[k]
             i == m.arg
  <1>0. /\ MsgOK(m, table) /\ ArgOK(m, table) /\ Server!TypeOK /\ UNCHANGED <<page, budget>>
        /\ table \in Seq(Server!Row)
    BY DEF IInv, NetOK, MsgOK, Serve, Server!TypeOK
  <1>1. ASSUME NEW body, Answer(k, body), Server!TypeOK', Kept(table, table'),
               IF m.op = "list" THEN ListOK(body, table') ELSE body \in Shown /\ Confirmed(body, table')
        PROVE  IInv'
    <2>1. net' = [net EXCEPT ![k] = Ok(m, body)]
      BY <1>1 DEF Answer
    <2> HIDE DEF m
    <2>2. MsgOK(Ok(m, body), table')
      BY <1>0, <1>1, ArgKept, OkOK
    <2> QED BY <1>0, <1>1, <2>1, <2>2, AnswerKeeps
  <1>2. CASE Refuse(k)
    <2>1. net' = [net EXCEPT ![k] = Failed(m)] /\ table' = table
      BY <1>2 DEF Refuse
    <2> HIDE DEF m
    <2>2. MsgOK(Failed(m), table') /\ Kept(table, table') /\ Server!TypeOK'
      BY <1>0, <2>1, FailedOK, Unmoved DEF Server!TypeOK
    <2> QED BY <1>0, <2>1, <2>2, AnswerKeeps
  <1>3. CASE Read(k)
    <2>1. table' = table /\ Kept(table, table') /\ Server!TypeOK'
      BY <1>0, <1>3, Unmoved DEF Read, Server!TypeOK
    <2>2. CASE m.op = "list" /\ Answer(k, [items |-> Items(i), total |-> Len(table)])
      <3>1. ListOK([items |-> Items(i), total |-> Len(table)], table)
        BY <1>0, <2>2, ItemsConfirmed DEF ArgOK, ListOK
      <3> QED BY <1>1, <2>1, <2>2, <3>1
    <2>3. CASE m.op = "get" /\ Answer(k, Row(i))
      <3>1. Row(i) \in Shown /\ Confirmed(Row(i), table)
        BY <1>0, <2>3, RowConfirmed DEF ArgOK
      <3> QED BY <1>1, <2>1, <2>3, <3>1
    <2> QED BY <1>3, <2>2, <2>3 DEF Read
  <1>4. CASE Create(k) /\ ~Refuse(k)
    <2> DEFINE body == [id |-> Len(table) + 1, status |-> "IN_FLIGHT"]
    <2>1. /\ m.op = "create" /\ m.arg[1] \in Versions /\ m.arg[2] \in Environments
          /\ Server!Request(m.arg[1], m.arg[2]) /\ Answer(k, body)
      BY <1>0, <1>4 DEF Create, ArgOK
    <2> HIDE DEF m
    <2>2. /\ Server!TypeOK' /\ Kept(table, table')
          /\ Len(table) + 1 \in DOMAIN table' /\ Len(table) + 1 \in Nat \ {0}
      BY <1>0, <2>1, ServerRequest
    <2>3. body \in Shown /\ Confirmed(body, table')
      BY <2>2 DEF Shown, Confirmed
    <2> QED BY <1>1, <2>1, <2>2, <2>3
  <1>5. CASE Retry(k) /\ ~Refuse(k)
    <2> DEFINE body == [id |-> i, status |-> "IN_FLIGHT"]
    <2>1. m.op = "retry" /\ Server!Retry(i) /\ Answer(k, body) /\ i \in DOMAIN table /\ i \in Nat \ {0}
      BY <1>0, <1>5 DEF Retry, ArgOK
    <2>2. Server!TypeOK' /\ Kept(table, table')
      <3> HIDE DEF i
      <3>1. Server!Move(i, {"FAILED"}, "REQUESTED")
        BY <2>1 DEF Server!Retry
      <3> QED BY <1>0, <2>1, <3>1, ServerMove DEF Server!InFlight
    <2>3. body \in Shown /\ Confirmed(body, table')
      BY <2>1, <2>2 DEF Shown, Confirmed, Kept
    <2> QED BY <1>1, <2>1, <2>2, <2>3
  <1>6. CASE Rollback(k) /\ ~Refuse(k)
    <2> DEFINE body == [id |-> i, status |-> "ROLLED_BACK"]
    <2>1. /\ m.op = "rollback" /\ i \in DOMAIN table /\ i \in Nat \ {0}
          /\ \E j \in DOMAIN table : Server!Rollback(i, j) /\ Answer(k, body)
      BY <1>0, <1>6 DEF Rollback, ArgOK
    <2>2. Server!TypeOK' /\ Kept(table, table') /\ table'[i].status = "ROLLED_BACK"
      <3> HIDE DEF i
      <3> QED BY <1>0, <2>1, ServerRollback
    <2>3. body \in Shown /\ Confirmed(body, table')
      BY <2>1, <2>2 DEF Shown, Confirmed, Kept
    <2> QED BY <1>1, <2>1, <2>2, <2>3
  <1> QED BY <1>2, <1>3, <1>4, <1>5, <1>6 DEF Serve

LEMMA BreakStep ==
  ASSUME IInv, NEW k \in DOMAIN net, Break(k)
  PROVE  IInv'
  <1> DEFINE m == net[k]
  <1>1. MsgOK(m, table) /\ net' = [net EXCEPT ![k] = Failed(m)] /\ UNCHANGED <<table, page>>
    BY DEF IInv, NetOK, Break
  <1> HIDE DEF m
  <1>2. NetOK(net', table')
    BY <1>1, FailedOK, Answered DEF IInv
  <1>3. budget' \in [clicks : Nat, others : Nat, failures : Nat]
    BY DEF IInv, Break
  <1> QED BY <1>1, <1>2, <1>3 DEF IInv, Server!TypeOK

LEMMA DeliverStep ==
  ASSUME IInv, NEW k \in DOMAIN net, Deliver(k)
  PROVE  IInv'
  <1> DEFINE m == net[k]
  <1>0. /\ MsgOK(m, table) /\ PageOK(page, table) /\ page \in Page /\ page.pageIndex \in Nat
        /\ UNCHANGED <<table, budget>> /\ NetOK(net, table)
    BY DEF IInv, NetOK, PageOK, Page, Deliver
  <1>1. ASSUME NEW p, page' = p, PageOK(p, table), NEW requests, Done(k, requests), NetOK(requests, table)
        PROVE  IInv'
    <2>1. NetOK(net', table)
      BY <1>0, <1>1, Dropped, Joined DEF Done
    <2> QED BY <1>0, <1>1, <2>1 DEF IInv, Server!TypeOK
  <1>2. CASE ListArrived(k)
    <2>1. CASE Failure(k)
      BY <1>0, <1>1, <1>2, <2>1, Looks, Nothing DEF ListArrived
    <2>2. CASE ~Failure(k)
      <3> DEFINE b == m.body
                 p == [page EXCEPT !.deployments = b.items, !.total = b.total, !.loading = FALSE]
      <3>1. ListOK(b, table)
        BY <1>0, <1>2, <2>2 DEF ListArrived, Arrived, Failure, MsgOK
      <3>2. page' = p /\ Done(k, <<>>)
        BY <1>2, <2>2 DEF ListArrived
      <3> HIDE DEF b
      <3>3. p \in Page /\ p.deployments = b.items /\ p.detail = page.detail
        BY <1>0, <3>1 DEF Page, ListOK
      <3> HIDE DEF p
      <3>4. PageOK(p, table)
        BY <1>0, <3>1, <3>3 DEF PageOK, ListOK
      <3> QED BY <1>1, <3>2, <3>4, Nothing
    <2> QED BY <2>1, <2>2
  <1>3. ASSUME m.state = "ok", m.op # "list", NEW b \in BOOLEAN, NEW p, PageOK(p, table)
        PROVE  /\ PageOK([p EXCEPT !.detail = m.body], table)
               /\ PageOK([p EXCEPT !.detail = m.body, !.drawerOpen = b], table)
    <2> DEFINE d == m.body
    <2>1. d \in Shown /\ Confirmed(d, table)
      BY <1>0, <1>3 DEF MsgOK
    <2> HIDE DEF d
    <2>2. /\ PageOK([p EXCEPT !.detail = d], table)
          /\ PageOK([p EXCEPT !.detail = d, !.drawerOpen = b], table)
      BY <1>3, <2>1 DEF PageOK, Page
    <2> QED BY <2>2 DEF d
  <1>4. CASE DetailArrived(k)
    <2>1. CASE Failure(k)
      BY <1>0, <1>1, <1>4, <2>1, Nothing DEF DetailArrived
    <2>2. CASE ~Failure(k)
      <3>1. m.state = "ok" /\ m.op # "list" /\ page' = [page EXCEPT !.detail = m.body] /\ Done(k, <<>>)
        BY <1>0, <1>4, <2>2 DEF DetailArrived, Arrived, Failure, MsgOK
      <3>2. PageOK([page EXCEPT !.detail = m.body], table)
        BY <1>0, <1>3, <3>1
      <3> QED BY <1>1, <3>1, <3>2, Nothing
    <2> QED BY <2>1, <2>2
  <1>5. CASE CreateArrived(k)
    <2>1. CASE Failure(k)
      BY <1>0, <1>1, <1>5, <2>1, Nothing DEF CreateArrived
    <2>2. CASE ~Failure(k)
      <3> DEFINE q == [page EXCEPT !.pageIndex = 0]
                 p == [Reload(q) EXCEPT !.detail = m.body, !.drawerOpen = TRUE]
      <3>1. m.state = "ok" /\ m.op # "list" /\ page' = p /\ Done(k, <<listRequest(q)>>)
        BY <1>0, <1>5, <2>2 DEF CreateArrived, Arrived, Failure, MsgOK
      <3>2. PageOK(q, table) /\ q.pageIndex \in Nat
        BY <1>0, Looks DEF Page
      <3> HIDE DEF q
      <3>3. PageOK(Reload(q), table)
        BY <3>2, Looks
      <3>4. PageOK(p, table)
        BY <1>3, <3>1, <3>3
      <3>5. NetOK(<<listRequest(q)>>, table)
        BY <3>2, ListAsked
      <3> HIDE DEF p
      <3> QED BY <1>1, <3>1, <3>4, <3>5
    <2> QED BY <2>1, <2>2
  <1>6. CASE ActionArrived(k)
    <2>1. CASE Failure(k)
      BY <1>0, <1>1, <1>6, <2>1, Nothing DEF ActionArrived
    <2>2. CASE ~Failure(k)
      <3> DEFINE i == m.arg
      <3>1. /\ i \in DOMAIN table /\ page' = QuietReload(page)
            /\ Done(k, <<Open("get", i), listRequest(page)>>)
        BY <1>0, <1>6, <2>2 DEF ActionArrived, Arrived, MsgOK, ArgOK
      <3> HIDE DEF i
      <3>2. NetOK(<<Open("get", i)>>, table) /\ NetOK(<<listRequest(page)>>, table)
        BY <1>0, <3>1, RowAsked, ListAsked
      <3>3. <<Open("get", i), listRequest(page)>> = <<Open("get", i)>> \o <<listRequest(page)>>
        OBVIOUS
      <3>4. NetOK(<<Open("get", i), listRequest(page)>>, table)
        BY <3>2, <3>3, Joined
      <3> QED BY <1>0, <1>1, <3>1, <3>4, Looks
    <2> QED BY <2>1, <2>2
  <1> QED BY <1>2, <1>4, <1>5, <1>6 DEF Deliver

LEMMA WorkersStep ==
  ASSUME IInv, NEW i \in DOMAIN table, Claim(i) \/ Start(i) \/ End(i)
  PROVE  IInv'
  <1>1. Server!TypeOK' /\ Kept(table, table')
    BY ServerMove DEF Claim, Start, End, Server!Claim, Server!Start, Server!Succeed, Server!Fail,
                      Server!InFlight, IInv
  <1> QED BY <1>1, ServerKeeps DEF Claim, Start, End, IInv

LEMMA OthersStep ==
  ASSUME IInv, Others
  PROVE  IInv'
  <1>1. Server!TypeOK' /\ Kept(table, table')
    <2>1. \A i \in DOMAIN table : Server!Retry(i) => Server!TypeOK' /\ Kept(table, table')
      BY ServerMove DEF Server!Retry, Server!InFlight, IInv
    <2> QED BY <2>1, ServerRequest, ServerRollback, ServerReap DEF Others, IInv
  <1>2. budget' \in [clicks : Nat, others : Nat, failures : Nat]
    BY DEF IInv, Others
  <1> QED BY <1>1, <1>2, ServerKeeps DEF Others

LEMMA PageStep == IInv /\ [Next]_vars => IInv'
  <1> SUFFICES ASSUME IInv, [Next]_vars PROVE IInv'
    OBVIOUS
  <1>1. CASE UNCHANGED vars
    BY <1>1 DEF vars, IInv, Server!TypeOK
  <1> QED BY <1>1, UserStep, PollStep, ServeStep, BreakStep, DeliverStep, WorkersStep, OthersStep DEF Next

LEMMA Implied == IInv => TypeOK /\ NeverAhead
  <1> SUFFICES ASSUME IInv PROVE TypeOK /\ NeverAhead
    OBVIOUS
  <1>1. TypeOK
    BY DEF IInv, TypeOK, PageOK, NetOK, MsgOK, ArgOK
  <1>2. NeverAhead
    <2> DEFINE shown == { page.deployments[j] : j \in DOMAIN page.deployments }
                        \union ({page.detail} \ {noDetail})
    <2>1. \A d \in shown : Confirmed(d, table)
      BY DEF IInv, PageOK
    <2> HIDE DEF shown
    <2>2. \A d \in shown :
            /\ d.id \in DOMAIN table
            /\ d.status = "SUCCEEDED" => table[d.id].status \in {"SUCCEEDED", "ROLLED_BACK"}
            /\ d.status = "ROLLED_BACK" => table[d.id].status = "ROLLED_BACK"
      BY <2>1 DEF Confirmed
    <2> QED BY <2>2 DEF NeverAhead, shown
  <1> QED BY <1>1, <1>2

\* Types: a request of the page, and its answer, is about a row there is.
THEOREM TypeCorrect == Spec => []TypeOK
  <1> QED BY PageInit, PageStep, Implied, PTL DEF Spec

\* However answers are delayed, reordered and lost, and whatever others do
\* meanwhile: an outcome that the page shows is one the server has reached.
THEOREM OutcomesTrue == Spec => []NeverAhead
  <1> QED BY PageInit, PageStep, Implied, PTL DEF Spec

------------------------------------------------------------------------------
\* The other side of the contract

\* What the page's server does, for this user, for others and by its workers, is what the
\* queue is shown to do: nothing the page is shown to rely on is outside the promise.
THEOREM ServerKeepsContract == Spec => Server!Spec
  <1>1. Init => Server!Init
    <2> SUFFICES ASSUME Init PROVE Server!Init
      OBVIOUS
    <2>1. table = History /\ IInv
      BY PageInit DEF Init
    <2>2. ASSUME NEW i \in DOMAIN History PROVE History[i].status \in {"SUCCEEDED", "FAILED"}
      <3> DEFINE H == [version : Versions, environment : Environments,
                       status : {"SUCCEEDED", "FAILED"}, rolled_back_to_id : {0}]
      <3>1. History \in Seq(H)
        BY HistoryAssumption
      <3>2. \A h \in H : h.status \in {"SUCCEEDED", "FAILED"}
        OBVIOUS
      <3> HIDE DEF H
      <3>3. History[i] \in H
        BY <3>1
      <3> QED BY <3>2, <3>3
    <2> QED BY <2>1, <2>2 DEF IInv, Server!TypeOK, Server!Init
  <1>2. ASSUME IInv, [Next]_vars PROVE [Server!Next]_table
    <2>1. ASSUME User PROVE table' = table
      BY <2>1 DEF User, onPage, tryAgain, openDetail, closeDrawer, newDeployment, retry, rollback, Click
    <2>2. CASE poll
      BY <2>2 DEF poll
    <2>3. ASSUME NEW k \in DOMAIN net, Serve(k) PROVE [Server!Next]_table
      <3> DEFINE m == net[k]
      <3>1. ArgOK(m, table)
        BY <1>2 DEF IInv, NetOK, MsgOK
      <3>2. CASE Read(k)
        BY <3>2 DEF Read
      <3>3. CASE Create(k)
        <4>1. m.op = "create" /\ m.arg[1] \in Versions /\ m.arg[2] \in Environments
          BY <3>1, <3>3 DEF Create, ArgOK
        <4>2. Server!Request(m.arg[1], m.arg[2]) \/ table' = table
          BY <3>3 DEF Create, Refuse
        <4> HIDE DEF m
        <4> QED BY <4>1, <4>2 DEF Server!Next
      <3>4. CASE Retry(k)
        <4>1. m.arg \in DOMAIN table /\ (Server!Retry(m.arg) \/ table' = table)
          BY <3>1, <3>4 DEF Retry, ArgOK, Refuse
        <4> HIDE DEF m
        <4> QED BY <4>1 DEF Server!Next
      <3>5. CASE Rollback(k)
        <4>1. m.arg \in DOMAIN table /\ ((\E j \in DOMAIN table : Server!Rollback(m.arg, j)) \/ table' = table)
          BY <3>1, <3>5 DEF Rollback, ArgOK, Refuse
        <4> HIDE DEF m
        <4> QED BY <4>1 DEF Server!Next
      <3> QED BY <2>3, <3>2, <3>3, <3>4, <3>5 DEF Serve
    <2>4. ASSUME NEW k \in DOMAIN net, Break(k) \/ Deliver(k) PROVE table' = table
      BY <2>4 DEF Break, Deliver
    <2>5. ASSUME NEW i \in DOMAIN table, Claim(i) \/ Start(i) \/ End(i) PROVE Server!Next
      BY <2>5 DEF Claim, Start, End, Server!Next
    <2>6. CASE Others
      BY <2>6 DEF Others, Server!Next
    <2>7. CASE UNCHANGED vars
      BY <2>7 DEF vars
    <2> QED BY <1>2, <2>1, <2>2, <2>3, <2>4, <2>5, <2>6, <2>7 DEF Next
  <1> QED BY <1>1, <1>2, PageInit, PageStep, PTL DEF Spec, Server!Spec
=============================================================================
