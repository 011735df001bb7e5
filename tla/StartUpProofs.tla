---------------------------- MODULE StartUpProofs ----------------------------
(* What a started service can rely on, for any number of API processes, runs  *)
(* of the seeder, requests, names, sample models and crashes.                 *)
EXTENDS StartUp, MonitoringProofs, FiniteSetTheorems, SequenceTheorems, TLAPS

-----------------------------------------------------------------------------
(* The inductive invariant                                                    *)

Txs == Handlers \union Starters

IsRow(m) ==
  /\ m = [id |-> m.id, key |-> m.key, name |-> m.name, created_by |-> m.created_by, tx |-> m.tx]
  /\ m.key \in Seq(Nat) /\ m.name \in Names

Shapes ==
  /\ \A m \in models : IsRow(m)
  /\ pc \in [Starters -> {"down", "migrate", "users", "add_users", "seed", "insert", "serving", "done"}]
  /\ memo \in [Starters -> [schema : 0..HEAD, missing : SUBSET DEMO_USERS,
                            created_by : DEMO_USERS \union {NoUser}]]
  /\ creating \in [Handlers -> [step : {"idle"}]
                       \union [step : {"probe", "insert", "commit"}, name : Names, n : Nat \ {0}]]

\* Revisions are applied all or not at all, and before anything else.
Migrated ==
  /\ schema \in {0, HEAD}
  /\ worker = "running" => schema = HEAD
  /\ \A p \in Starters : pc[p] \notin {"down", "migrate"} => schema = HEAD

\* What an API process has done when it gets to the sample, and what it writes there.
UsersKnown ==
  /\ \A p \in Apis : pc[p] \in {"seed", "insert", "serving"} => DEMO_USERS \subseteq users
  /\ \A p \in Apis : pc[p] = "add_users" => DEMO_USERS \subseteq users \union memo[p].missing
  /\ \A p \in Apis : pc[p] = "insert" => memo[p].created_by # NoUser

\* An attempt at a key comes after all lower ones have been found taken.
Probed ==
  \A h \in Handlers : creating[h].step \in {"probe", "insert"} =>
    \A k \in 1..(creating[h].n - 1) : Taken(Candidate(creating[h].name, k))

\* Of a sample that is being loaded the first models are there, under their own slugs.
Loading ==
  \A p \in Starters :
    /\ IsFiniteSet(HeldBy(p)) /\ Cardinality(HeldBy(p)) <= Len(Sample)
    /\ pc[p] # "insert" => HeldBy(p) = {}
    /\ \A i \in 1..Cardinality(HeldBy(p)) : \E m \in HeldBy(p) : m.key = slugify(Sample[i])

\* The first rows to be committed are the sample's, with its metrics.
Loaded ==
  /\ Committed # {} => /\ metrics = SampleMetrics
                       /\ \A i \in DOMAIN Sample : Taken(slugify(Sample[i]))
  /\ \A p \in Starters : pc[p] \in {"serving", "done"} => Committed # {}
  /\ \A h \in Handlers : creating[h].step # "idle" => Committed # {}

IInv == /\ Shapes /\ Migrated /\ UsersKnown /\ Probed /\ Loading /\ Loaded
        /\ SampleSigned /\ KeysExplained

-----------------------------------------------------------------------------
(* Lemmas about the schema and the table                                      *)

\* Without a revision there is no table.
LEMMA SixRevisions == HEAD = 6 /\ "deployments" \notin Created(0)
  BY DEF HEAD, Revisions, Created

LEMMA TxsDiffer == /\ "committed" \notin Txs
                   /\ \A p \in Starters, h \in Handlers : p # h
  BY HandlerAssumption, StarterAssumption DEF Txs, Starters

LEMMA CandidateType ==
  ASSUME NEW name \in Names, NEW n \in Nat \ {0}
  PROVE  Candidate(name, n) \in Seq(Nat)
  BY SlugAssumption DEF Candidate, slugify

\* A suffix can be read off the key.
LEMMA Suffix ==
  ASSUME NEW name \in Names, NEW n \in Nat \ {0, 1}
  PROVE  /\ Candidate(name, n) = Append(slugify(name), n)
         /\ Candidate(name, n)[Len(slugify(name)) + 1] = n
  <1>1. slugify(name) \in Seq(Nat)
    BY SlugAssumption DEF slugify
  <1>2. Candidate(name, n) = Append(slugify(name), n)
    BY DEF Candidate
  <1> QED BY <1>1, <1>2, AppendProperties

\* A commit keeps every row but for its transaction.
LEMMA CommitRows ==
  ASSUME Shapes, NEW tx \in Txs, models' = Commit(tx)
  PROVE  /\ \A m \in models' : IsRow(m)
         /\ \A m \in models : \E o \in models' :
              /\ o.key = m.key /\ o.name = m.name /\ o.created_by = m.created_by
              /\ o.tx = IF m.tx = tx THEN "committed" ELSE m.tx
         /\ \A o \in models' : \E m \in models :
              /\ o.key = m.key /\ o.name = m.name /\ o.created_by = m.created_by
              /\ o.tx = IF m.tx = tx THEN "committed" ELSE m.tx
              /\ m.tx # tx => o = m
         /\ \A m \in models : m.tx # tx => m \in models'
  <1> DEFINE Done(m) == IF m.tx = tx THEN [m EXCEPT !.tx = "committed"] ELSE m
  <1>1. models' = {Done(m) : m \in models}
    BY DEF Commit
  <1>2. ASSUME NEW m \in models
        PROVE  /\ IsRow(Done(m)) /\ Done(m).key = m.key /\ Done(m).name = m.name
               /\ Done(m).created_by = m.created_by
               /\ Done(m).tx = IF m.tx = tx THEN "committed" ELSE m.tx
    <2>1. IsRow(m)
      BY DEF Shapes
    <2> DEFINE r == [id |-> m.id, key |-> m.key, name |-> m.name, created_by |-> m.created_by, tx |-> "committed"]
    <2>2. CASE m.tx = tx
      <3>1. Done(m) = r
        BY <2>1, <2>2 DEF IsRow
      <3> QED BY <2>1, <2>2, <3>1 DEF IsRow
    <2>3. CASE m.tx # tx
      BY <2>1, <2>3
    <2> QED BY <2>2, <2>3
  <1> QED BY <1>1, <1>2

\* What no step of transaction tx takes from the others: rows stay rows, taken keys stay
\* taken, and the rows that other starters hold stay as they are.
Keeps(tx) ==
  /\ \A m \in models' : IsRow(m)
  /\ \A k : Taken(k) => Taken(k)'
  /\ \A q \in Starters : q # tx => HeldBy(q)' = HeldBy(q)
  /\ Committed # {} => Committed' # {}
  /\ SampleSigned' /\ KeysExplained'

LEMMA KeepsExplained ==
  ASSUME NEW m, NEW o, m.key = o.key, m.name = o.name, Explained(m),
         \A k : Taken(k) => Taken(k)'
  PROVE  Explained(o)'
  <1> DEFINE slug == slugify(m.name)
             n == m.key[Len(slug) + 1]
  <1>1. CASE m.key = slug
    BY <1>1 DEF Explained
  <1>2. CASE n \in Nat \ {0, 1} /\ m.key = Append(slug, n) /\ \A k \in 1..(n - 1) : Taken(Candidate(m.name, k))
    <2>1. \A k \in 1..(n - 1) : Taken(Candidate(m.name, k))'
      BY <1>2
    <2> QED BY <1>2, <2>1 DEF Explained
  <1> QED BY <1>1, <1>2 DEF Explained

LEMMA Rollbacks ==
  ASSUME IInv, NEW tx \in Txs, models' = Rollback(tx)
  PROVE  Keeps(tx) /\ HeldBy(tx)' = {} /\ Committed' = Committed
  <1>1. Committed' = Committed /\ HeldBy(tx)' = {} /\ \A q \in Starters : q # tx => HeldBy(q)' = HeldBy(q)
    BY TxsDiffer DEF Rollback, HeldBy, Committed, Txs
  <1>2. \A k : Taken(k) => Taken(k)'
    BY <1>1 DEF Taken
  <1>3. \A m \in models' : m \in models
    BY DEF Rollback
  <1>4. \A m \in models' : Explained(m)'
    BY <1>2, <1>3, KeepsExplained DEF IInv, KeysExplained
  <1> QED BY <1>1, <1>2, <1>3, <1>4 DEF IInv, Keeps, Shapes, SampleSigned, KeysExplained

LEMMA Inserts ==
  ASSUME IInv, NEW tx \in Txs, NEW m, IsRow(m), m.tx = tx, models' = models \union {m},
         Explained(m), m.tx \in Apis => m.created_by # NoUser
  PROVE  Keeps(tx) /\ HeldBy(tx)' = HeldBy(tx) \union {m} /\ Committed' = Committed
  <1>1. /\ Committed' = Committed /\ HeldBy(tx)' = HeldBy(tx) \union {m}
        /\ \A q \in Starters : q # tx => HeldBy(q)' = HeldBy(q)
    BY TxsDiffer DEF HeldBy, Committed, Txs
  <1>2. \A k : Taken(k) => Taken(k)'
    BY <1>1 DEF Taken
  <1>3. \A o \in models' : Explained(o)
    BY DEF IInv, KeysExplained
  <1>4. \A o \in models' : Explained(o)'
    BY <1>2, <1>3, KeepsExplained
  <1>5. \A o \in models' : IsRow(o)
    BY DEF IInv, Shapes
  <1>6. SampleSigned'
    BY DEF IInv, SampleSigned
  <1> QED BY <1>1, <1>2, <1>4, <1>5, <1>6 DEF Keeps, KeysExplained

LEMMA Commits ==
  ASSUME IInv, NEW tx \in Txs, models' = Commit(tx)
  PROVE  /\ Keeps(tx) /\ HeldBy(tx)' = {}
         /\ \A m \in HeldBy(tx) : Taken(m.key)'
         /\ HeldBy(tx) # {} => Committed' # {}
  <1>0. Shapes /\ tx # "committed"
    BY TxsDiffer DEF IInv
  <1>1. HeldBy(tx)' = {}
    BY <1>0, CommitRows DEF HeldBy
  <1>2. \A k : Taken(k) => Taken(k)'
    BY <1>0, CommitRows DEF Taken, Committed
  <1>3. \A m \in HeldBy(tx) : Taken(m.key)'
    BY <1>0, CommitRows DEF Taken, Committed, HeldBy
  <1>4. ASSUME NEW q \in Starters, q # tx PROVE HeldBy(q)' = HeldBy(q)
    <2>1. q # "committed"
      BY TxsDiffer DEF Txs
    <2>2. \A m \in HeldBy(q) : m \in HeldBy(q)'
      BY <1>0, <1>4, CommitRows DEF HeldBy
    <2>3. \A o \in HeldBy(q)' : o \in HeldBy(q)
      BY <1>0, <1>4, <2>1, CommitRows DEF HeldBy
    <2> QED BY <2>2, <2>3
  <1>5. Committed # {} \/ HeldBy(tx) # {} => Committed' # {}
    BY <1>0, CommitRows DEF Committed, HeldBy
  <1>6. ASSUME NEW o \in models' PROVE Explained(o)'
    <2>1. PICK m \in models : o.key = m.key /\ o.name = m.name
      BY <1>0, CommitRows
    <2> QED BY <1>2, <2>1, KeepsExplained DEF IInv, KeysExplained
  <1>7. ASSUME NEW o \in models', o.tx \in Apis PROVE o.created_by # NoUser
    <2>1. PICK m \in models : /\ o.created_by = m.created_by
                              /\ o.tx = IF m.tx = tx THEN "committed" ELSE m.tx
      BY <1>0, CommitRows
    <2>2. o.tx # "committed"
      BY <1>7, TxsDiffer DEF Txs, Starters
    <2> QED BY <1>7, <2>1, <2>2 DEF IInv, SampleSigned
  <1>8. \A m \in models' : IsRow(m)
    BY <1>0, CommitRows
  <1> QED BY <1>1, <1>2, <1>3, <1>4, <1>5, <1>6, <1>7, <1>8 DEF Keeps, SampleSigned, KeysExplained

\* A step of which this is all there is to say.
LEMMA Stays ==
  ASSUME IInv, models' = models
  PROVE  /\ \A tx \in Txs : Keeps(tx)
         /\ \A q \in Starters : HeldBy(q)' = HeldBy(q)
         /\ Committed' = Committed
  <1>1. Committed' = Committed /\ \A q \in Starters : HeldBy(q)' = HeldBy(q)
    BY DEF Committed, HeldBy
  <1>2. \A k : Taken(k) => Taken(k)'
    BY <1>1 DEF Taken
  <1>3. \A m \in models' : Explained(m)'
    BY <1>2, KeepsExplained DEF IInv, KeysExplained
  <1> QED BY <1>1, <1>2, <1>3 DEF IInv, Keeps, Shapes, SampleSigned, KeysExplained

-----------------------------------------------------------------------------
(* The invariant is inductive                                                 *)

LEMMA NothingHeld == IsFiniteSet({}) /\ Cardinality({}) <= Len(Sample) /\ 1..Cardinality({}) = {}
  <1>1. IsFiniteSet({}) /\ Cardinality({}) = 0
    BY FS_EmptySet
  <1>2. Len(Sample) \in Nat
    BY SampleAssumption
  <1> QED BY <1>1, <1>2

LEMMA StartInit == Init => IInv
  <1> SUFFICES ASSUME Init PROVE IInv
    OBVIOUS
  <1> USE DEF Init, CatalogueInit
  <1>1. 0 \in 0..HEAD
    BY SixRevisions
  <1>2. Shapes
    BY <1>1 DEF Shapes, NoMemo, NotCreating
  <1>3. Migrated /\ UsersKnown
    BY DEF Migrated, UsersKnown, Starters
  <1>4. Probed
    BY DEF Probed, NotCreating
  <1>5. \A p \in Starters : HeldBy(p) = {}
    BY DEF HeldBy
  <1>6. Loading
    BY <1>5, NothingHeld DEF Loading
  <1>7. Loaded
    BY DEF Loaded, Committed, NotCreating
  <1> QED BY <1>2, <1>3, <1>4, <1>6, <1>7 DEF IInv, SampleSigned, KeysExplained

\* What the requests have found stays true while other transactions work.
LEMMA ProbedKept ==
  ASSUME IInv, NEW tx \in Txs, Keeps(tx), creating' = creating
  PROVE  Probed'
  BY DEF IInv, Probed, Keeps

\* A process that dies, having written nothing but rows that are rolled back.
LEMMA Death ==
  ASSUME IInv, NEW p \in Starters, Dies(p),
         UNCHANGED <<creating, schema, users, metrics, worker>>
  PROVE  IInv'
  <1>1. p \in Txs /\ models' = Rollback(p)
    BY DEF Txs, Dies
  <1>2. Keeps(p) /\ HeldBy(p)' = {} /\ Committed' = Committed
    BY <1>1, Rollbacks
  <1>3. 0 \in 0..HEAD
    BY SixRevisions
  <1>4. /\ pc' = [pc EXCEPT ![p] = "down"] /\ memo' = [memo EXCEPT ![p] = NoMemo]
    BY DEF Dies, Goto
  <1>5. Shapes'
    BY <1>2, <1>3, <1>4 DEF IInv, Shapes, Keeps, NoMemo
  <1>6. Migrated' /\ UsersKnown'
    BY <1>4 DEF IInv, Migrated, UsersKnown, Shapes, Starters
  <1>7. Probed'
    BY <1>1, <1>2, ProbedKept
  <1>8. Loading'
    <2>1. ASSUME NEW q \in Starters, q # p PROVE HeldBy(q)' = HeldBy(q) /\ pc'[q] = pc[q]
      BY <1>2, <1>4, <2>1 DEF Keeps, IInv, Shapes
    <2> QED BY <1>2, <2>1, NothingHeld DEF IInv, Loading
  <1>9. Loaded'
    <2>1. \A k : Taken(k)' <=> Taken(k)
      BY <1>2 DEF Taken
    <2> QED BY <1>2, <1>4, <2>1 DEF IInv, Loaded, Shapes
  <1> QED BY <1>2, <1>5, <1>6, <1>7, <1>8, <1>9 DEF IInv, Keeps

\* A step of a starter that writes no model: the other steps of its start.
LEMMA Move ==
  ASSUME IInv, NEW p \in Starters, NEW label, NEW read, Goto(p, label, read),
         UNCHANGED <<models, creating, metrics, worker>>,
         label \in {"migrate", "users", "add_users", "seed", "insert", "serving", "done"},
         read \in [schema : 0..HEAD, missing : SUBSET DEMO_USERS, created_by : DEMO_USERS \union {NoUser}],
         pc[p] # "insert",
         label \in {"serving", "done"} => Committed # {},
         schema' = schema \/ schema' = HEAD, users \subseteq users',
         label # "migrate" => schema' = HEAD,
         p \in Apis /\ label \in {"seed", "insert", "serving"} => DEMO_USERS \subseteq users',
         p \in Apis /\ label = "add_users" => DEMO_USERS \subseteq users' \union read.missing,
         p \in Apis /\ label = "insert" => read.created_by # NoUser
  PROVE  IInv'
  <1>1. /\ \A tx \in Txs : Keeps(tx)
        /\ \A q \in Starters : HeldBy(q)' = HeldBy(q)
        /\ Committed' = Committed
    BY Stays
  <1>2. pc' = [pc EXCEPT ![p] = label] /\ memo' = [memo EXCEPT ![p] = read]
    BY DEF Goto
  <1>3. p \in Txs
    BY DEF Txs
  <1>4. Shapes'
    BY <1>1, <1>2, <1>3 DEF IInv, Shapes, Keeps
  <1>5. Migrated'
    BY <1>2 DEF IInv, Migrated, Shapes
  <1>6. UsersKnown'
    <2>1. \A q \in Apis : q \in Starters
      BY DEF Starters
    <2> QED BY <1>2, <2>1 DEF IInv, UsersKnown, Shapes
  <1>7. Probed'
    BY <1>1, <1>3, ProbedKept
  <1>8. Loading'
    <2>1. HeldBy(p) = {}
      BY DEF IInv, Loading
    <2>2. \A q \in Starters : q # p => pc'[q] = pc[q]
      BY <1>2 DEF IInv, Shapes
    <2> QED BY <1>1, <2>1, <2>2 DEF IInv, Loading
  <1>9. Loaded'
    <2>1. \A k : Taken(k)' <=> Taken(k)
      BY <1>1 DEF Taken
    <2> QED BY <1>1, <1>2, <2>1 DEF IInv, Loaded, Shapes
  <1> QED BY <1>1, <1>3, <1>4, <1>5, <1>6, <1>7, <1>8, <1>9 DEF IInv, Keeps

\* A step of the worker, of the reader, or none.
LEMMA Quiet ==
  ASSUME IInv, UNCHANGED <<models, creating, schema, users, metrics, pc, memo>>,
         worker' = "running" => schema = HEAD
  PROVE  IInv'
  <1>1. Committed' = Committed /\ \A q \in Starters : HeldBy(q)' = HeldBy(q)
    BY DEF Committed, HeldBy
  <1>2. \A k : Taken(k)' <=> Taken(k)
    BY <1>1 DEF Taken
  <1>3. Shapes' /\ UsersKnown' /\ SampleSigned'
    BY DEF IInv, Shapes, UsersKnown, SampleSigned
  <1>4. Migrated'
    BY DEF IInv, Migrated
  <1>5. Probed' /\ Loaded'
    BY <1>1, <1>2 DEF IInv, Probed, Loaded
  <1>6. Loading'
    BY <1>1 DEF IInv, Loading
  <1>7. \A m \in models' : Explained(m)'
    BY <1>2, KeepsExplained DEF IInv, KeysExplained
  <1> QED BY <1>3, <1>4, <1>5, <1>6, <1>7 DEF IInv, KeysExplained

\* The step of a request: it finds the sample loaded, because requests are only accepted
\* by an API process that has started.
LEMMA Request ==
  ASSUME IInv, NEW h \in Handlers, Keeps(h), Committed # {}, UNCHANGED startVars,
         NEW c, creating' = [creating EXCEPT ![h] = c],
         c \in [step : {"idle"}] \union [step : {"probe", "insert", "commit"}, name : Names, n : Nat \ {0}],
         c.step \in {"probe", "insert"} => \A k \in 1..(c.n - 1) : Taken(Candidate(c.name, k))'
  PROVE  IInv'
  <1>1. /\ Committed' # {} /\ \A k : Taken(k) => Taken(k)'
        /\ \A q \in Starters : HeldBy(q)' = HeldBy(q)
    BY TxsDiffer DEF Keeps
  <1>2. Shapes'
    BY DEF IInv, Shapes, Keeps, startVars
  <1>3. Migrated' /\ UsersKnown'
    BY DEF IInv, Migrated, UsersKnown, startVars
  <1>4. Probed'
    <2>1. ASSUME NEW g \in Handlers, (creating[g].step \in {"probe", "insert"})',
                 NEW k \in (1..(creating[g].n - 1))'
          PROVE  Taken(Candidate(creating[g].name, k))'
      <3>1. CASE g = h
        <4>1. creating'[g] = c
          BY <3>1 DEF IInv, Shapes
        <4>2. k \in 1..(c.n - 1) /\ c.step \in {"probe", "insert"}
          BY <2>1, <4>1
        <4>3. Taken(Candidate(c.name, k))'
          BY <4>2
        <4> QED BY <4>1, <4>3
      <3>2. CASE g # h
        <4>1. creating'[g] = creating[g]
          BY <3>2 DEF IInv, Shapes
        <4>2. k \in 1..(creating[g].n - 1) /\ creating[g].step \in {"probe", "insert"}
          BY <2>1, <4>1
        <4>3. Taken(Candidate(creating[g].name, k))
          BY <4>2 DEF IInv, Probed
        <4> QED BY <1>1, <4>1, <4>3 DEF Candidate, slugify, Taken
      <3> QED BY <3>1, <3>2
    <2> QED BY <2>1 DEF Probed
  <1>5. Loading'
    BY <1>1 DEF IInv, Loading, startVars
  <1>6. Loaded'
    BY <1>1 DEF IInv, Loaded, startVars
  <1> QED BY <1>2, <1>3, <1>4, <1>5, <1>6 DEF IInv, Keeps

\* The insert of the next model of the sample.
LEMMA SampleInsert ==
  ASSUME IInv, NEW p \in Starters, InsertModel(p)
  PROVE  IInv'
  <1> DEFINE n == Cardinality(HeldBy(p)) + 1
             key == slugify(Sample[n])
             m == Row(key, Sample[n], memo[p].created_by, p)
  <1>0. p \in Txs /\ UNCHANGED <<creating, schema, users, metrics, worker>>
    BY DEF Txs, InsertModel
  <1>1. pc[p] = "insert" /\ n \in Nat \ {0} /\ n <= Len(Sample) /\ MayInsert(key)
    <2>1. Cardinality(HeldBy(p)) \in Nat
      BY FS_CardinalityType DEF IInv, Loading
    <2> QED BY <2>1 DEF InsertModel
  <1>2. CASE Taken(key)
    <2>1. Dies(p)
      BY <1>2 DEF InsertModel
    <2> QED BY <1>0, <2>1, Death
  <1>3. CASE ~Taken(key)
    <2>1. models' = models \union {m} /\ pc' = pc /\ memo' = memo
      BY <1>3 DEF InsertModel
    <2>2. /\ m.key = key /\ m.name = Sample[n] /\ m.created_by = memo[p].created_by /\ m.tx = p
          /\ m = [id |-> m.id, key |-> m.key, name |-> m.name, created_by |-> m.created_by, tx |-> m.tx]
      BY DEF Row
    <2>3. Sample[n] \in Names
      BY <1>1, SampleAssumption
    <2>4. key \in Seq(Nat)
      BY <2>3, SlugAssumption DEF slugify
    <2>5. IsRow(m) /\ Explained(m)
      BY <2>2, <2>3, <2>4 DEF IsRow, Explained
    <2>6. m.tx \in Apis => m.created_by # NoUser
      BY <1>1, <2>2 DEF IInv, UsersKnown
    <2>7. Keeps(p) /\ HeldBy(p)' = HeldBy(p) \union {m} /\ Committed' = Committed
      <3> HIDE DEF m
      <3> QED BY <1>0, <2>1, <2>2, <2>5, <2>6, Inserts
    <2>8. m \notin HeldBy(p)
      BY <1>0, <1>1, <2>2, TxsDiffer DEF MayInsert, HeldBy
    <2>9. Loading'
      <3> HIDE DEF m
      <3>1. IsFiniteSet(HeldBy(p)) /\ Cardinality(HeldBy(p)) \in Nat
        BY FS_CardinalityType DEF IInv, Loading
      <3>2. IsFiniteSet(HeldBy(p)') /\ Cardinality(HeldBy(p)') = n
        BY <2>7, <2>8, <3>1, FS_AddElement
      <3>3. ASSUME NEW i \in 1..n PROVE \E o \in HeldBy(p)' : o.key = slugify(Sample[i])
        <4>1. CASE i = n
          BY <2>2, <2>7, <4>1
        <4>2. CASE i # n
          <5>1. i \in 1..Cardinality(HeldBy(p))
            BY <3>1, <4>2
          <5> QED BY <2>7, <5>1 DEF IInv, Loading
        <4> QED BY <4>1, <4>2
      <3>4. \A q \in Starters : q # p => HeldBy(q)' = HeldBy(q)
        BY <2>7 DEF Keeps
      <3> HIDE DEF n
      <3> QED BY <1>1, <2>1, <3>2, <3>3, <3>4 DEF IInv, Loading
    <2>10. Shapes' /\ Migrated' /\ UsersKnown'
      BY <1>0, <2>1, <2>7 DEF IInv, Shapes, Keeps, Migrated, UsersKnown
    <2>11. Probed'
      BY <1>0, <2>7, ProbedKept
    <2>12. Loaded'
      <3>1. \A k : Taken(k)' <=> Taken(k)
        BY <2>7 DEF Taken
      <3> QED BY <1>0, <2>1, <2>7, <3>1 DEF IInv, Loaded
    <2> QED BY <2>7, <2>9, <2>10, <2>11, <2>12 DEF IInv, Keeps
  <1> QED BY <1>2, <1>3

\* The commit of the whole sample.
LEMMA SampleCommit ==
  ASSUME IInv, NEW p \in Starters, seed_sample_data(p)
  PROVE  IInv'
  <1>1. /\ p \in Txs /\ models' = Commit(p) /\ metrics' = SampleMetrics
        /\ UNCHANGED <<creating, schema, users, worker>>
        /\ pc' = [pc EXCEPT ![p] = Started(p)] /\ memo' = [memo EXCEPT ![p] = NoMemo]
        /\ pc[p] = "insert" /\ Started(p) \in {"serving", "done"}
    BY DEF Txs, seed_sample_data, Goto, Started
  <1>2. /\ Keeps(p) /\ HeldBy(p)' = {}
        /\ \A m \in HeldBy(p) : Taken(m.key)'
        /\ HeldBy(p) # {} => Committed' # {}
    BY <1>1, Commits
  <1>3. \A i \in DOMAIN Sample : \E m \in HeldBy(p) : m.key = slugify(Sample[i])
    <2>1. Cardinality(HeldBy(p)) = Len(Sample)
      BY DEF seed_sample_data
    <2>2. DOMAIN Sample = 1..Len(Sample)
      BY SampleAssumption
    <2> QED BY <2>1, <2>2 DEF IInv, Loading
  <1>4. \A i \in DOMAIN Sample : Taken(slugify(Sample[i]))'
    <2> SUFFICES ASSUME NEW i \in DOMAIN Sample PROVE Taken(slugify(Sample[i]))'
      OBVIOUS
    <2>1. PICK m \in HeldBy(p) : m.key = slugify(Sample[i])
      BY <1>3
    <2>2. Taken(m.key)'
      BY <1>2
    <2> QED BY <2>1, <2>2
  <1>5. Committed' # {}
    <2>1. 1 \in DOMAIN Sample
      BY SampleAssumption
    <2> QED BY <1>2, <1>3, <2>1
  <1>6. 0 \in 0..HEAD /\ \A q \in Apis : q \in Starters
    BY SixRevisions DEF Starters
  <1>7. Shapes'
    BY <1>1, <1>2, <1>6 DEF IInv, Shapes, Keeps, NoMemo
  <1>8. Migrated'
    BY <1>1 DEF IInv, Migrated, Shapes
  <1>9. UsersKnown'
    BY <1>1, <1>6 DEF IInv, UsersKnown, Shapes
  <1>10. Probed'
    BY <1>1, <1>2, ProbedKept
  <1>11. Loading'
    <2>1. ASSUME NEW q \in Starters, q # p PROVE HeldBy(q)' = HeldBy(q) /\ pc'[q] = pc[q]
      BY <1>1, <1>2, <2>1 DEF Keeps, IInv, Shapes
    <2> QED BY <1>2, <2>1, NothingHeld DEF IInv, Loading
  <1>12. Loaded'
    BY <1>1, <1>4, <1>5 DEF IInv, Loaded, Shapes
  <1> QED BY <1>2, <1>7, <1>8, <1>9, <1>10, <1>11, <1>12 DEF IInv, Keeps

\* The other steps of a starter.
LEMMA StarterStep ==
  ASSUME IInv, NEW p \in Starters, BeginMigration(p) \/ Start(p) \/ Crash(p)
  PROVE  IInv'
  <1> DEFINE Memos == [schema : 0..HEAD, missing : SUBSET DEMO_USERS, created_by : DEMO_USERS \union {NoUser}]
  <1>0. /\ NoMemo \in Memos /\ HEAD \in Nat \ {0} /\ schema \in {0, HEAD}
        /\ "engineer" \in DEMO_USERS /\ NoUser # "engineer"
        /\ memo[p] \in Memos
    BY SixRevisions, UserAssumption DEF NoMemo, IInv, Migrated, Shapes
  <1>1. CASE BeginMigration(p)
    <2>1. schema \in 0..HEAD /\ pc[p] = "down" /\ AfterMigration(p) \in {"users", "seed"}
          /\ (p \in Apis => AfterMigration(p) = "users")
      BY <1>0, <1>1 DEF BeginMigration, AfterMigration
    <2>2. CASE schema = HEAD
      BY <1>0, <1>1, <2>1, <2>2, Move DEF BeginMigration, catalogueVars
    <2>3. CASE schema # HEAD
      <3>1. [NoMemo EXCEPT !.schema = schema] \in Memos
        BY <2>1 DEF NoMemo
      <3> QED BY <1>1, <2>1, <2>3, <3>1, Move DEF BeginMigration, catalogueVars
    <2> QED BY <2>2, <2>3
  <1>2. CASE upgrade_to_head(p)
    <2>1. AfterMigration(p) \in {"users", "seed"} /\ (p \in Apis => AfterMigration(p) = "users")
      BY DEF AfterMigration
    <2>2. CASE schema = memo[p].schema
      BY <1>0, <1>2, <2>1, <2>2, Move DEF upgrade_to_head
    <2>3. CASE schema # memo[p].schema
      BY <1>2, <2>3, Death DEF upgrade_to_head
    <2> QED BY <2>2, <2>3
  <1>3. CASE BeginUsers(p)
    <2>1. pc[p] = "users" /\ schema = HEAD
      BY <1>3 DEF BeginUsers, IInv, Migrated
    <2>2. CASE DEMO_USERS \subseteq users
      BY <1>0, <1>3, <2>1, <2>2, Move DEF BeginUsers, catalogueVars
    <2>3. CASE ~(DEMO_USERS \subseteq users)
      <3>1. /\ [NoMemo EXCEPT !.missing = DEMO_USERS \ users] \in Memos
            /\ [NoMemo EXCEPT !.missing = DEMO_USERS \ users].missing = DEMO_USERS \ users
        BY <1>0 DEF NoMemo
      <3> QED BY <1>3, <2>1, <2>3, <3>1, Move DEF BeginUsers, catalogueVars
    <2> QED BY <2>2, <2>3
  <1>4. CASE seed_demo_users(p)
    <2>1. pc[p] = "add_users" /\ schema = HEAD /\ (p \in Apis => DEMO_USERS \subseteq users \union memo[p].missing)
      BY <1>4 DEF seed_demo_users, IInv, Migrated, UsersKnown
    <2>2. CASE memo[p].missing \intersect users = {}
      <3>1. /\ users' = users \union memo[p].missing /\ Goto(p, "seed", NoMemo)
            /\ UNCHANGED <<models, creating, metrics, worker, schema>>
        BY <1>4, <2>2 DEF seed_demo_users
      <3> QED BY <1>0, <2>1, <3>1, Move
    <2>3. CASE memo[p].missing \intersect users # {}
      BY <1>4, <2>3, Death DEF seed_demo_users
    <2> QED BY <2>2, <2>3
  <1>5. CASE BeginSeed(p)
    <2>1. pc[p] = "seed" /\ schema = HEAD /\ (p \in Apis => DEMO_USERS \subseteq users)
      BY <1>5 DEF BeginSeed, IInv, Migrated, UsersKnown
    <2>2. CASE Committed # {}
      <3>1. Started(p) \in {"serving", "done"}
        BY DEF Started
      <3> QED BY <1>0, <1>5, <2>1, <2>2, <3>1, Move DEF BeginSeed, catalogueVars
    <2>3. CASE Committed = {}
      <3> DEFINE author == IF "engineer" \in users THEN "engineer" ELSE NoUser
      <3>1. /\ [NoMemo EXCEPT !.created_by = author] \in Memos
            /\ [NoMemo EXCEPT !.created_by = author].created_by = author
        BY <1>0 DEF NoMemo
      <3>2. p \in Apis => author # NoUser
        BY <1>0, <2>1
      <3>3. Goto(p, "insert", [NoMemo EXCEPT !.created_by = author])
        BY <1>5, <2>3 DEF BeginSeed
      <3> HIDE DEF author
      <3> QED BY <1>5, <2>1, <3>1, <3>2, <3>3, Move DEF BeginSeed, catalogueVars
    <2> QED BY <2>2, <2>3
  <1>6. CASE InsertModel(p)
    BY <1>6, SampleInsert
  <1>7. CASE seed_sample_data(p)
    BY <1>7, SampleCommit
  <1>8. CASE Crash(p)
    BY <1>8, Death DEF Crash
  <1> QED BY <1>1, <1>2, <1>3, <1>4, <1>5, <1>6, <1>7, <1>8 DEF Start

\* The steps of create_model and its request.
LEMMA RequestStep ==
  ASSUME IInv, Requests
  PROVE  IInv'
  <1> DEFINE Types == [step : {"idle"}] \union [step : {"probe", "insert", "commit"}, name : Names, n : Nat \ {0}]
  <1>0. NotCreating \in Types /\ NotCreating.step = "idle" /\ UNCHANGED startVars
    BY DEF NotCreating, Requests
  <1>1. ASSUME Read PROVE IInv'
    <2>1. UNCHANGED <<models, creating>>
      BY <1>1 DEF Read, BeginWalk, CountModels, list_models
    <2> QED BY <1>0, <2>1, Quiet DEF startVars, IInv, Migrated
  <1>2. ASSUME NEW h \in Handlers, NEW name \in Wanted, Serving, BeginCreateModel(h, name) PROVE IInv'
    <2>1. PICK c : c = [step |-> "probe", name |-> name, n |-> 1]
      OBVIOUS
    <2>2. c \in Types /\ 1..(c.n - 1) = {}
      BY <2>1, SlugAssumption
    <2>3. Committed # {}
      BY <1>2 DEF Serving, Starters, IInv, Loaded
    <2>4. h \in Txs /\ models' = models /\ creating' = [creating EXCEPT ![h] = c]
      BY <1>2, <2>1 DEF BeginCreateModel, Txs
    <2>5. Keeps(h)
      BY <2>4, Stays
    <2> QED BY <1>0, <2>2, <2>3, <2>4, <2>5, Request
  <1>3. ASSUME NEW h \in Handlers, Create(h) PROVE IInv'
    <2> DEFINE o == creating[h]
    <2>1. o.step # "idle" /\ h \in Txs
      BY <1>3 DEF Create, _unique_key, create_model, CommitModel, AbandonModel, Txs
    <2>2. /\ Committed # {} /\ o.step \in {"probe", "insert", "commit"}
          /\ o = [step |-> o.step, name |-> o.name, n |-> o.n]
          /\ o.name \in Names /\ o.n \in Nat \ {0}
      BY <2>1 DEF IInv, Loaded, Shapes
    <2>3. CASE _unique_key(h)
      <3>1. o.step = "probe" /\ models' = models
        BY <2>3 DEF _unique_key
      <3>2. Keeps(h) /\ \A k : Taken(k) => Taken(k)'
        BY <2>1, <3>1, Stays DEF Keeps
      <3>3. \A k \in 1..(o.n - 1) : Taken(Candidate(o.name, k))
        BY <3>1 DEF IInv, Probed
      <3>4. PICK c : c = IF Taken(Candidate(o.name, o.n)) THEN [o EXCEPT !.n = o.n + 1] ELSE [o EXCEPT !.step = "insert"]
        OBVIOUS
      <3>5. creating' = [creating EXCEPT ![h] = c]
        BY <2>3, <3>4 DEF _unique_key
      <3>6. /\ c \in Types /\ c.name = o.name
            /\ \A k \in 1..(c.n - 1) : Taken(Candidate(o.name, k))
        <4>1. CASE Taken(Candidate(o.name, o.n))
          <5>1. c = [step |-> o.step, name |-> o.name, n |-> o.n + 1]
            BY <2>2, <3>4, <4>1
          <5>2. \A k \in 1..(c.n - 1) : k = o.n \/ k \in 1..(o.n - 1)
            BY <2>2, <5>1
          <5> QED BY <2>2, <3>3, <4>1, <5>1, <5>2
        <4>2. CASE ~Taken(Candidate(o.name, o.n))
          <5>1. c = [step |-> "insert", name |-> o.name, n |-> o.n]
            BY <2>2, <3>4, <4>2
          <5> QED BY <2>2, <3>3, <5>1
        <4> QED BY <4>1, <4>2
      <3>7. PICK name \in Names : name = o.name
        BY <2>2
      <3>8. \A k \in 1..(c.n - 1) : Taken(Candidate(c.name, k))'
        <4>1. \A k \in 1..(c.n - 1) : Taken(Candidate(name, k))
          BY <3>6, <3>7
        <4>2. \A k \in 1..(c.n - 1) : Taken(Candidate(name, k))'
          BY <3>2, <4>1
        <4> QED BY <3>6, <3>7, <4>2
      <3> QED BY <1>0, <2>2, <3>2, <3>5, <3>6, <3>8, Request
    <2>4. CASE create_model(h)
      <3> DEFINE key == Candidate(o.name, o.n)
                 m == Row(key, o.name, "engineer", h)
      <3>1. o.step = "insert"
        BY <2>4 DEF create_model
      <3>2. CASE Taken(key)
        <4>1. models' = models /\ creating' = [creating EXCEPT ![h] = NotCreating]
          BY <2>4, <3>2 DEF create_model
        <4>2. Keeps(h)
          BY <2>1, <4>1, Stays
        <4> QED BY <1>0, <2>2, <4>1, <4>2, Request
      <3>3. CASE ~Taken(key)
        <4>1. /\ models' = models \union {m}
              /\ creating' = [creating EXCEPT ![h].step = "commit"]
          BY <2>4, <3>3 DEF create_model
        <4>2. PICK c : c = [o EXCEPT !.step = "commit"]
          OBVIOUS
        <4>3. creating' = [creating EXCEPT ![h] = c] /\ c \in Types /\ c.step = "commit"
          BY <2>2, <4>1, <4>2 DEF IInv, Shapes
        <4>4. /\ m.key = key /\ m.name = o.name /\ m.tx = h
              /\ m = [id |-> m.id, key |-> m.key, name |-> m.name, created_by |-> m.created_by, tx |-> m.tx]
          BY DEF Row
        <4>5. key \in Seq(Nat)
          BY <2>2, CandidateType
        <4>6. \A k \in 1..(o.n - 1) : Taken(Candidate(o.name, k))
          BY <3>1 DEF IInv, Probed
        <4>7. Explained(m)
          <5>1. CASE o.n = 1
            BY <4>4, <5>1 DEF Explained, Candidate
          <5>2. CASE o.n # 1
            <6>1. key = Append(slugify(o.name), o.n) /\ key[Len(slugify(o.name)) + 1] = o.n
              BY <2>2, <5>2, Suffix
            <6> HIDE DEF m, key
            <6> QED BY <2>2, <4>4, <4>6, <5>2, <6>1 DEF Explained
          <5> QED BY <5>1, <5>2
        <4>8. m.tx \notin Apis
          BY <4>4, TxsDiffer DEF Starters
        <4>9. IsRow(m)
          BY <2>2, <4>4, <4>5 DEF IsRow
        <4>10. Keeps(h)
          <5> HIDE DEF m
          <5> QED BY <2>1, <4>1, <4>4, <4>7, <4>8, <4>9, Inserts
        <4> QED BY <1>0, <2>2, <4>3, <4>10, Request
      <3> QED BY <3>2, <3>3
    <2>5. CASE CommitModel(h)
      <3>1. models' = Commit(h) /\ creating' = [creating EXCEPT ![h] = NotCreating]
        BY <2>5 DEF CommitModel
      <3>2. Keeps(h)
        BY <2>1, <3>1, Commits
      <3> QED BY <1>0, <2>2, <3>1, <3>2, Request
    <2>6. CASE AbandonModel(h)
      <3>1. models' = Rollback(h) /\ creating' = [creating EXCEPT ![h] = NotCreating]
        BY <2>6 DEF AbandonModel
      <3>2. Keeps(h)
        BY <2>1, <3>1, Rollbacks
      <3> QED BY <1>0, <2>2, <3>1, <3>2, Request
    <2> QED BY <1>3, <2>3, <2>4, <2>5, <2>6 DEF Create
  <1> QED BY <1>1, <1>2, <1>3 DEF Requests

LEMMA Inductive == Spec => []IInv
  <1>1. IInv /\ [Next]_vars => IInv'
    <2> SUFFICES ASSUME IInv, [Next]_vars PROVE IInv'
      OBVIOUS
    <2>1. ASSUME NEW p \in Starters, BeginMigration(p) \/ Start(p) \/ Crash(p) PROVE IInv'
      BY <2>1, StarterStep
    <2>2. CASE _wait_for_schema
      <3>1. worker' = "running" => schema = HEAD
        BY <2>2, SixRevisions DEF _wait_for_schema, IInv, Migrated
      <3> QED BY <2>2, <3>1, Quiet DEF _wait_for_schema, catalogueVars
    <2>3. CASE RestartWorker
      BY <2>3, Quiet DEF RestartWorker, catalogueVars
    <2>4. CASE Requests
      BY <2>4, RequestStep
    <2>5. CASE UNCHANGED vars
      BY <2>5, Quiet DEF vars, catalogueVars, startVars, IInv, Migrated
    <2> QED BY <2>1, <2>2, <2>3, <2>4, <2>5 DEF Next
  <1> QED BY <1>1, StartInit, PTL DEF Spec

-----------------------------------------------------------------------------
(* Theorems                                                                   *)

\* Whatever processes raced or died on the way, who serves serves over the current schema,
\* with the demo users and with the whole sample.
THEOREM StartIsComplete == Spec => []ServesComplete
  <1>1. IInv => ServesComplete
    <2> SUFFICES ASSUME IInv, NEW p \in Apis, pc[p] = "serving" PROVE
          /\ schema = HEAD /\ DEMO_USERS \subseteq users /\ metrics = SampleMetrics
          /\ SampleKeys \subseteq {m.key : m \in Committed}
      BY DEF ServesComplete, Serving
    <2>1. p \in Starters
      BY DEF Starters
    <2>2. schema = HEAD /\ DEMO_USERS \subseteq users
      BY <2>1 DEF IInv, Migrated, UsersKnown
    <2>3. metrics = SampleMetrics /\ \A i \in DOMAIN Sample : Taken(slugify(Sample[i]))
      BY <2>1 DEF IInv, Loaded
    <2>4. SampleKeys \subseteq {m.key : m \in Committed}
      BY <2>3 DEF SampleKeys, Taken
    <2> QED BY <2>2, <2>3, <2>4
  <1> QED BY <1>1, Inductive, PTL

\* The worker starts over the schema it was written for: the table it waits for is only
\* ever committed together with all later revisions.
THEOREM SchemaIsWhole == Spec => []WorkerSeesHead
  <1>1. IInv => WorkerSeesHead
    BY SixRevisions DEF IInv, Migrated, WorkerSeesHead
  <1> QED BY <1>1, Inductive, PTL

\* The models an API process loads have an author.
THEOREM AuthorsKnown == Spec => []SampleSigned
  <1>1. IInv => SampleSigned
    BY DEF IInv
  <1> QED BY <1>1, Inductive, PTL

\* Every key is the slug of its model's name, or the slug with a suffix all of whose
\* predecessors are taken, although the search and the insert are statements apart.
THEOREM KeysAlwaysExplained == Spec => []KeysExplained
  <1>1. IInv => KeysExplained
    BY DEF IInv
  <1> QED BY <1>1, Inductive, PTL

-----------------------------------------------------------------------------
(* The table of models: ids, keys, and who came first                         *)

IsNewRow(m) ==
  m.id \in Nat \ {0} /\ m.created_by \in DEMO_USERS \union {NoUser} /\ m.tx \in Txs \union {"committed"}

\* Rows are told apart by their ids, and by their keys.
Table ==
  /\ IsFiniteSet(models)
  /\ \A m \in models : IsNewRow(m)
  /\ \A m, o \in models : m.key = o.key \/ m.id = o.id => m = o

Others ==
  /\ users \subseteq DEMO_USERS /\ metrics \in {{}, SampleMetrics}
  /\ worker \in {"waiting", "running", "gave_up"} /\ crashes \in 0..MaxCrashes

\* Until a sample is committed there is nothing but samples; from then on what is
\* inserted is not in the sample and comes after it.
SampleOrder ==
  /\ Committed = {} => metrics = {} /\ \A m \in models : m.key \in SampleKeys
  /\ Committed # {} =>
       \A m, o \in models : m.key \in SampleKeys /\ o.key \notin SampleKeys => m.id < o.id

\* The INSERT of a model, by the sample or by a request.
Adds(tx, key, name, user) ==
  /\ models' = models \union {Row(key, name, user, tx)}
  /\ tx \in Txs /\ user \in DEMO_USERS \union {NoUser}
  /\ MayInsert(key) /\ ~Taken(key)
  /\ Committed = {} => key \in SampleKeys

\* What a step does to the models.
TableStep ==
  \/ UNCHANGED models
  \/ \E tx \in Txs : models' = Commit(tx) \/ models' = Rollback(tx)
  \/ \E tx, key, name, user : Adds(tx, key, name, user)

LEMMA NextIdIsNew ==
  ASSUME Table
  PROVE  NextId \in Nat \ {0} /\ \A m \in models : m.id < NextId
  <1> DEFINE ids == {0} \union {m.id : m \in models}
             Highest(n) == \A m \in models : m.id <= n
  <1>1. \E n \in ids : Highest(n)
    <2>1. CASE models = {}
      BY <2>1
    <2>2. CASE models # {}
      <3> DEFINE f == [m \in models |-> m.id]
      <3>1. \A m \in models : f[m] = m.id /\ m.id \in Nat
        BY DEF Table, IsNewRow
      <3> HIDE DEF f
      <3>2. PICK x \in models : \A y \in models : f[y] <= f[x]
        BY <2>2, <3>1, HasGreatest DEF Table
      <3> QED BY <3>1, <3>2
    <2> QED BY <2>1, <2>2
  <1> DEFINE top == CHOOSE n \in ids : Highest(n)
  <1>2. top \in ids /\ Highest(top) /\ NextId = 1 + top
    BY <1>1 DEF NextId
  <1>3. \A m \in models : m.id \in Nat \ {0}
    BY DEF Table, IsNewRow
  <1> HIDE DEF top
  <1> QED BY <1>2, <1>3

\* A commit changes the rows in nothing but the transaction.
LEMMA CommitKeepsRows ==
  ASSUME Shapes, Table, NEW tx \in Txs, models' = Commit(tx)
  PROVE  \E f \in Surjection(models, models') : \A m \in models :
           /\ f[m].id = m.id /\ f[m].key = m.key /\ f[m].created_by = m.created_by
           /\ f[m].tx = IF m.tx = tx THEN "committed" ELSE m.tx
           /\ m.tx # tx => f[m] = m
  <1> DEFINE Done(m) == IF m.tx = tx THEN [m EXCEPT !.tx = "committed"] ELSE m
             f == [m \in models |-> Done(m)]
  <1>1. models' = {Done(m) : m \in models}
    BY DEF Commit
  <1>2. f \in Surjection(models, models')
    BY <1>1 DEF Surjection
  <1>3. ASSUME NEW m \in models
        PROVE  /\ Done(m).id = m.id /\ Done(m).key = m.key /\ Done(m).created_by = m.created_by
               /\ Done(m).tx = IF m.tx = tx THEN "committed" ELSE m.tx
               /\ m.tx # tx => Done(m) = m
    <2>1. m = [id |-> m.id, key |-> m.key, name |-> m.name, created_by |-> m.created_by, tx |-> m.tx]
      BY DEF Shapes, IsRow
    <2>2. m.tx = tx => Done(m) = [id |-> m.id, key |-> m.key, name |-> m.name,
                                  created_by |-> m.created_by, tx |-> "committed"]
      BY <2>1
    <2> QED BY <2>2
  <1> HIDE DEF Done
  <1> QED BY <1>2, <1>3

LEMMA TableKept ==
  ASSUME Shapes, Table, TableStep
  PROVE  Table'
  <1>1. CASE UNCHANGED models
    BY <1>1 DEF Table, IsNewRow
  <1>2. ASSUME NEW tx \in Txs, models' = Commit(tx) PROVE Table'
    <2>1. PICK f \in Surjection(models, models') : \A m \in models :
            /\ f[m].id = m.id /\ f[m].key = m.key /\ f[m].created_by = m.created_by
            /\ f[m].tx = IF m.tx = tx THEN "committed" ELSE m.tx
      BY <1>2, CommitKeepsRows
    <2>2. \A o \in models' : \E m \in models : o = f[m]
      BY DEF Surjection
    <2>3. IsFiniteSet(models')
      BY FS_Surjection DEF Table
    <2> QED BY <2>1, <2>2, <2>3 DEF Table, IsNewRow
  <1>3. ASSUME NEW tx \in Txs, models' = Rollback(tx) PROVE Table'
    <2>1. models' \subseteq models
      BY <1>3 DEF Rollback
    <2>2. IsFiniteSet(models')
      BY <2>1, FS_Subset DEF Table
    <2> QED BY <2>1, <2>2 DEF Table, IsNewRow
  <1>4. ASSUME NEW tx, NEW key, NEW name, NEW user, Adds(tx, key, name, user) PROVE Table'
    <2> DEFINE row == Row(key, name, user, tx)
    <2>1. row.id = NextId /\ row.key = key /\ row.created_by = user /\ row.tx = tx
      BY DEF Row
    <2>2. models' = models \union {row}
      BY <1>4 DEF Adds
    <2>3. NextId \in Nat \ {0} /\ \A m \in models : m.id < NextId /\ m.id \in Nat
      BY NextIdIsNew DEF Table, IsNewRow
    <2>4. \A m \in models : m.key # key
      BY <1>4 DEF Adds, MayInsert, Taken, Committed
    <2> HIDE DEF row
    <2>5. IsFiniteSet(models')
      BY <2>2, FS_AddElement DEF Table
    <2>6. IsNewRow(row)
      BY <1>4, <2>1, <2>3 DEF Adds, IsNewRow
    <2>7. \A m \in models : m.key # row.key /\ m.id # row.id
      BY <2>1, <2>3, <2>4
    <2> QED BY <2>2, <2>5, <2>6, <2>7 DEF Table, IsNewRow
  <1> QED BY <1>1, <1>2, <1>3, <1>4 DEF TableStep

LEMMA OrderKept ==
  ASSUME IInv, IInv', Table, SampleOrder, TableStep, metrics' = metrics \/ Committed' # {}
  PROVE  SampleOrder'
  <1>0. /\ \A tx \in Txs : tx # "committed"
        /\ Shapes /\ \A m \in models : m.id \in Nat
    BY TxsDiffer DEF Txs, Table, IsNewRow, IInv
  \* Rows come from rows, but for the one that is added.
  <1>1. \A o \in models' : \/ \E m \in models : o.id = m.id /\ o.key = m.key
                           \/ \E tx, key, name, user : /\ Adds(tx, key, name, user)
                                                       /\ o.id = NextId /\ o.key = key
    <2>1. ASSUME NEW tx \in Txs, models' = Commit(tx), NEW o \in models'
          PROVE  \E m \in models : o.id = m.id /\ o.key = m.key
      <3>1. PICK f \in Surjection(models, models') :
              \A m \in models : f[m].id = m.id /\ f[m].key = m.key
        BY <1>0, <2>1, CommitKeepsRows
      <3> QED BY <3>1 DEF Surjection
    <2>2. ASSUME NEW tx, NEW key, NEW name, NEW user, Adds(tx, key, name, user), NEW o \in models'
          PROVE  o \in models \/ (o.id = NextId /\ o.key = key)
      BY <2>2 DEF Adds, Row
    <2> QED BY <2>1, <2>2 DEF TableStep, Rollback
  <1>2. ASSUME Committed = {} PROVE \A o \in models' : o.key \in SampleKeys
    BY <1>1, <1>2 DEF SampleOrder, Adds
  <1>3. ASSUME Committed # {} PROVE Committed' # {}
    <2>1. ASSUME NEW tx \in Txs, models' = Commit(tx) PROVE Committed' # {}
      <3>1. PICK m \in models : m.tx = "committed"
        BY <1>3 DEF Committed
      <3>2. PICK f \in Surjection(models, models') :
              \A o \in models : f[o].tx = IF o.tx = tx THEN "committed" ELSE o.tx
        BY <1>0, <2>1, CommitKeepsRows
      <3>3. f[m] \in models' /\ f[m].tx = "committed"
        BY <3>1, <3>2 DEF Surjection
      <3> QED BY <3>3 DEF Committed
    <2>2. ASSUME NEW tx \in Txs, models' = Rollback(tx) PROVE Committed \subseteq Committed'
      BY <1>0, <2>2 DEF Rollback, HeldBy, Committed
    <2>3. ASSUME NEW tx, NEW key, NEW name, NEW user, Adds(tx, key, name, user)
          PROVE  Committed \subseteq Committed'
      BY <2>3 DEF Adds, Committed
    <2> QED BY <1>3, <2>1, <2>2, <2>3 DEF TableStep, Committed
  <1>4. ASSUME Committed # {}, NEW m \in models', NEW o \in models',
               m.key \in SampleKeys, o.key \notin SampleKeys
        PROVE  m.id < o.id
    <2>1. \A k \in SampleKeys : Taken(k)
      BY <1>4 DEF IInv, Loaded, SampleKeys
    <2>2. PICK x \in models : m.id = x.id /\ m.key = x.key
      BY <1>1, <1>4, <2>1 DEF Adds
    <2>3. CASE \E y \in models : o.id = y.id /\ o.key = y.key
      BY <1>4, <2>2, <2>3 DEF SampleOrder
    <2>4. CASE o.id = NextId
      BY <2>2, <2>4, NextIdIsNew
    <2> QED BY <1>1, <2>3, <2>4
  <1>5. SampleKeys' = SampleKeys
    BY DEF SampleKeys, slugify
  <1> QED BY <1>2, <1>3, <1>4, <1>5 DEF SampleOrder

\* Every step of the system is one of these to the table.
LEMMA StepsOfTable ==
  ASSUME IInv, IInv', Others, [Next]_vars
  PROVE  TableStep /\ Others' /\ (metrics' = metrics \/ Committed' # {})
  <1>0. /\ \A p \in Starters : p \in Txs /\ memo[p].created_by \in DEMO_USERS \union {NoUser}
        /\ \A p \in Starters : memo[p].missing \subseteq DEMO_USERS
        /\ \A h \in Handlers : h \in Txs
        /\ "engineer" \in DEMO_USERS
    BY UserAssumption DEF Txs, IInv, Shapes
  <1>1. ASSUME NEW p \in Starters, BeginMigration(p) \/ Start(p) \/ Crash(p)
        PROVE  TableStep /\ Others' /\ (metrics' = metrics \/ Committed' # {})
    <2>1. ASSUME Dies(p) PROVE TableStep
      BY <1>0, <2>1 DEF Dies, TableStep
    <2>2. CASE BeginMigration(p) \/ BeginUsers(p) \/ BeginSeed(p)
      BY <2>2 DEF BeginMigration, BeginUsers, BeginSeed, TableStep, Others, catalogueVars
    <2>3. CASE upgrade_to_head(p)
      BY <2>1, <2>3 DEF upgrade_to_head, TableStep, Others
    <2>4. CASE seed_demo_users(p)
      BY <1>0, <2>1, <2>4 DEF seed_demo_users, TableStep, Others
    <2>5. CASE Crash(p)
      <3>1. crashes \in 0..MaxCrashes /\ crashes < MaxCrashes /\ crashes' = crashes + 1
        BY <2>5 DEF Crash, Others
      <3>2. crashes' \in 0..MaxCrashes
        BY <3>1, CrashAssumption
      <3> QED BY <2>1, <2>5, <3>2 DEF Crash, Others
    <2>6. CASE InsertModel(p)
      <3> DEFINE n == Cardinality(HeldBy(p)) + 1
                 key == slugify(Sample[n])
      <3>1. Others' /\ metrics' = metrics
        BY <2>6 DEF InsertModel, Others
      <3>2. MayInsert(key) /\ n \in DOMAIN Sample
        <4>1. Cardinality(HeldBy(p)) \in Nat
          BY FS_CardinalityType DEF IInv, Loading
        <4> QED BY <2>6, <4>1, SampleAssumption DEF InsertModel
      <3>3. ~Taken(key) => models' = models \union {Row(key, Sample[n], memo[p].created_by, p)}
        BY <2>6 DEF InsertModel
      <3>4. Taken(key) => Dies(p)
        BY <2>6 DEF InsertModel
      <3>5. key \in SampleKeys
        BY <3>2 DEF SampleKeys
      <3> HIDE DEF key
      <3>6. ~Taken(key) => Adds(p, key, Sample[n], memo[p].created_by)
        BY <1>0, <3>2, <3>3, <3>5 DEF Adds
      <3> QED BY <2>1, <3>1, <3>4, <3>6 DEF TableStep
    <2>7. CASE seed_sample_data(p)
      <3>1. pc'[p] \in {"serving", "done"}
        BY <2>7 DEF seed_sample_data, Goto, Started, IInv, Shapes
      <3>2. Committed' # {}
        BY <3>1 DEF IInv, Loaded
      <3> QED BY <1>0, <2>7, <3>2 DEF seed_sample_data, TableStep, Others
    <2> QED BY <1>1, <2>2, <2>3, <2>4, <2>5, <2>6, <2>7 DEF Start, upgrade_to_head, seed_demo_users, Crash
  <1>2. CASE _wait_for_schema
    <2>1. crashes' \in 0..MaxCrashes
      BY <1>2, CrashAssumption DEF _wait_for_schema, Others
    <2> QED BY <1>2, <2>1 DEF _wait_for_schema, TableStep, Others, catalogueVars
  <1>3. CASE RestartWorker \/ UNCHANGED vars
    BY <1>3 DEF RestartWorker, TableStep, Others, vars, startVars, catalogueVars
  <1>4. CASE Requests
    <2>1. Others' /\ metrics' = metrics
      BY <1>4 DEF Requests, startVars, Others
    <2>2. CASE Read \/ \E h \in Handlers, name \in Wanted : BeginCreateModel(h, name)
      BY <2>1, <2>2 DEF Read, BeginWalk, CountModels, list_models, BeginCreateModel, TableStep
    <2>3. ASSUME NEW h \in Handlers, Create(h) PROVE TableStep
      <3> DEFINE c == creating[h]
                 key == Candidate(c.name, c.n)
      <3>1. CASE create_model(h)
        <4>1. Committed # {}
          BY <3>1 DEF create_model, IInv, Loaded
        <4>2. CASE ~Taken(key)
          <5>1. Adds(h, key, c.name, "engineer")
            BY <1>0, <3>1, <4>1, <4>2 DEF create_model, Adds
          <5> QED BY <5>1 DEF TableStep
        <4>3. CASE Taken(key)
          BY <3>1, <4>3 DEF create_model, TableStep
        <4> QED BY <4>2, <4>3
      <3> QED BY <1>0, <2>3, <3>1 DEF Create, _unique_key, CommitModel, AbandonModel, TableStep
    <2> QED BY <1>4, <2>1, <2>2, <2>3 DEF Requests
  <1> QED BY <1>1, <1>2, <1>3, <1>4 DEF Next

TInv == Table /\ Others /\ SampleOrder

LEMMA TableInductive == Spec => [](IInv /\ TInv)
  <1>1. Init => TInv
    <2> SUFFICES ASSUME Init PROVE TInv
      OBVIOUS
    <2> USE DEF Init, CatalogueInit
    <2>1. Table
      BY FS_EmptySet DEF Table
    <2> QED BY <2>1, CrashAssumption DEF TInv, Others, SampleOrder, Committed
  <1>2. IInv /\ IInv' /\ TInv /\ [Next]_vars => TInv'
    <2> SUFFICES ASSUME IInv, IInv', TInv, [Next]_vars PROVE TInv'
      OBVIOUS
    <2>1. TableStep /\ Others' /\ (metrics' = metrics \/ Committed' # {})
      BY StepsOfTable DEF TInv
    <2>2. Table'
      BY <2>1, TableKept DEF TInv, IInv
    <2> QED BY <2>1, <2>2, OrderKept DEF TInv
  <1> QED BY <1>1, <1>2, Inductive, PTL DEF Spec

\* Every variable of the start-up has its type; ids and keys tell models apart, whatever
\* was inserted, committed or rolled back at the same time.
THEOREM StartTyped == Spec => []TypeOK
  <1>1. IInv /\ TInv => TypeOK
    <2> SUFFICES ASSUME IInv, TInv PROVE TypeOK
      OBVIOUS
    <2>1. ASSUME NEW m \in models
          PROVE  m \in [id : Nat \ {0}, key : Seq(Nat), name : Names,
                        created_by : DEMO_USERS \union {NoUser},
                        tx : Handlers \union Starters \union {"committed"}]
      <3>1. IsRow(m) /\ IsNewRow(m)
        BY DEF IInv, Shapes, TInv, Table
      <3> QED BY <3>1 DEF IsRow, IsNewRow, Txs
    <2>2. \A m, o \in models : m.key = o.key \/ m.id = o.id => m = o
      BY DEF TInv, Table
    <2>3. schema \in 0..HEAD
      BY SixRevisions DEF IInv, Migrated
    <2>4. users \subseteq DEMO_USERS /\ metrics \subseteq SampleMetrics
          /\ worker \in {"waiting", "running", "gave_up"} /\ crashes \in 0..MaxCrashes
      BY DEF TInv, Others
    <2> QED BY <2>1, <2>2, <2>3, <2>4 DEF TypeOK, IInv, Shapes
  <1> QED BY <1>1, TableInductive, PTL

\* The sample is loaded whole, once, and before any model of the users: a process that
\* starts late finds the registry in use, or dies of a key that is taken.
THEOREM SampleComesFirst == Spec => []SampleFirst
  <1>1. IInv /\ TInv => SampleFirst
    <2> SUFFICES ASSUME IInv, TInv PROVE SampleFirst
      OBVIOUS
    <2>1. metrics = {} <=> Committed = {}
      BY SampleAssumption DEF IInv, Loaded, TInv, SampleOrder
    <2> QED BY <2>1 DEF SampleFirst, TInv, SampleOrder
  <1> QED BY <1>1, TableInductive, PTL

-----------------------------------------------------------------------------
(* The reader: what it has not seen lies beyond its offset                    *)

Newer(m) == {o \in Committed : o.id > m.id}

\* Whatever was there when the reader began and was on no page so far has at least as many
\* newer rows as the reader has gone through.
Ahead ==
  walk.step \in {"count", "page"} =>
    /\ walk = [step |-> walk.step, offset |-> walk.offset, counted |-> walk.counted, unseen |-> walk.unseen]
    /\ walk.offset \in Nat
    /\ \A i \in walk.unseen : \E m \in Committed : m.id = i /\ Cardinality(Newer(m)) >= walk.offset

WalkInv == Ahead /\ NothingMissed

\* What is committed stays committed.
LEMMA CommittedGrows ==
  ASSUME Shapes, Table, TableStep
  PROVE  Committed \subseteq Committed'
  <1>0. \A tx \in Txs : tx # "committed"
    BY TxsDiffer DEF Txs
  <1>1. ASSUME NEW tx \in Txs, models' = Commit(tx), NEW m \in Committed
        PROVE  m \in Committed'
    <2>1. PICK f \in Surjection(models, models') : \A o \in models : o.tx # tx => f[o] = o
      BY <1>1, CommitKeepsRows
    <2>2. m \in models /\ m.tx = "committed" /\ f[m] = m /\ f[m] \in models'
      BY <1>0, <2>1 DEF Committed, Surjection
    <2> QED BY <2>2 DEF Committed
  <1>2. ASSUME NEW tx \in Txs, models' = Rollback(tx) PROVE Committed \subseteq Committed'
    BY <1>0, <1>2 DEF Rollback, HeldBy, Committed
  <1>3. ASSUME NEW tx, NEW key, NEW name, NEW user, Adds(tx, key, name, user)
        PROVE  Committed \subseteq Committed'
    BY <1>3 DEF Adds, Committed
  <1> QED BY <1>1, <1>2, <1>3 DEF TableStep, Committed

\* A row has fewer newer ones than there are rows, and rows are as many as ids.
LEMMA NewerIsLess ==
  ASSUME Table, NEW m \in Committed
  PROVE  /\ Cardinality(Newer(m)) \in Nat
         /\ Cardinality(Newer(m)) < Cardinality(Ids(Committed))
  <1>1. IsFiniteSet(Committed) /\ m.id \in Nat
    BY FS_Subset DEF Table, Committed, IsNewRow
  <1>2. /\ IsFiniteSet(Committed \ {m}) /\ Cardinality(Committed) \in Nat
        /\ Cardinality(Committed \ {m}) = Cardinality(Committed) - 1
    BY <1>1, FS_RemoveElement, FS_CardinalityType
  <1>3. Newer(m) \subseteq Committed \ {m}
    BY <1>1 DEF Newer
  <1>4. /\ IsFiniteSet(Newer(m)) /\ Cardinality(Newer(m)) \in Nat
        /\ Cardinality(Newer(m)) <= Cardinality(Committed \ {m})
    BY <1>2, <1>3, FS_Subset, FS_CardinalityType
  <1>5. Cardinality(Ids(Committed)) = Cardinality(Committed)
    <2> DEFINE f == [o \in Committed |-> o.id]
    <2>1. f \in Surjection(Committed, Ids(Committed))
      BY DEF Surjection, Ids
    <2>2. f \in Injection(Committed, Ids(Committed))
      BY <2>1 DEF Injection, Surjection, IsInjective, Table, Committed
    <2> HIDE DEF f
    <2> QED BY <1>1, <2>1, <2>2, FS_Surjection
  <1> QED BY <1>2, <1>4, <1>5

\* While the reader stays where it is, the rows that are added only push others down.
LEMMA WalkStays ==
  ASSUME Table, Table', Committed \subseteq Committed', walk' = walk, WalkInv
  PROVE  WalkInv'
  <1>1. NothingMissed'
    BY DEF WalkInv, NothingMissed
  <1>2. ASSUME NEW m \in Committed
        PROVE  /\ Cardinality(Newer(m)) \in Nat /\ Cardinality(Newer(m))' \in Nat
               /\ Cardinality(Newer(m)) <= Cardinality(Newer(m))'
    <2>1. IsFiniteSet(Committed')
      BY FS_Subset DEF Table, Committed
    <2>2. IsFiniteSet(Newer(m)') /\ Newer(m) \subseteq Newer(m)'
      BY <2>1, FS_Subset DEF Newer
    <2> QED BY <2>2, FS_Subset, FS_CardinalityType
  <1>3. Ahead'
    <2> SUFFICES ASSUME walk.step \in {"count", "page"}, NEW i \in walk.unseen
                 PROVE  \E m \in Committed' : m.id = i /\ Cardinality(Newer(m))' >= walk.offset
      BY DEF Ahead, WalkInv
    <2>1. walk.offset \in Nat
      BY DEF Ahead, WalkInv
    <2>2. PICK m \in Committed : m.id = i /\ Cardinality(Newer(m)) >= walk.offset
      BY DEF Ahead, WalkInv
    <2> QED BY <1>2, <2>1, <2>2
  <1> QED BY <1>1, <1>3 DEF WalkInv

LEMMA WalkMoves ==
  ASSUME Table, WalkInv, Read
  PROVE  WalkInv'
  <1>0. /\ models' = models /\ Committed' = Committed /\ \A m : Newer(m)' = Newer(m)
        /\ PageSize \in Nat \ {0}
    BY ReaderAssumption DEF Read, BeginWalk, CountModels, list_models, Committed, Newer
  <1>1. CASE BeginWalk
    <2>1. walk' = [step |-> "count", offset |-> 0, counted |-> {}, unseen |-> Ids(Committed)]
      BY <1>1 DEF BeginWalk
    <2>2. ASSUME NEW i \in Ids(Committed)
          PROVE  \E m \in Committed : m.id = i /\ Cardinality(Newer(m)) >= 0
      <3>1. PICK m \in Committed : m.id = i
        BY DEF Ids
      <3>2. Cardinality(Newer(m)) \in Nat
        BY NewerIsLess
      <3> QED BY <3>1, <3>2
    <2>3. Ahead'
      BY <1>0, <2>1, <2>2 DEF Ahead
    <2> QED BY <2>1, <2>3 DEF WalkInv, NothingMissed
  <1>2. CASE CountModels
    <2>1. walk.step = "count" /\ Ahead
      BY <1>2 DEF CountModels, WalkInv
    <2>2. walk' = [step |-> "page", offset |-> walk.offset, counted |-> Ids(Committed), unseen |-> walk.unseen]
      BY <1>2, <2>1 DEF CountModels, Ahead
    <2>3. Ahead'
      BY <1>0, <2>1, <2>2 DEF Ahead
    <2> QED BY <2>2, <2>3 DEF WalkInv, NothingMissed
  <1>3. CASE list_models
    <2> DEFINE next   == walk.offset + PageSize
               unseen == walk.unseen \ Ids(Page(walk.offset))
    <2>1. walk.step = "page" /\ walk.offset \in Nat /\ next \in Nat
      BY <1>0, <1>3 DEF list_models, Ahead, WalkInv
    <2>2. ASSUME NEW i \in unseen
          PROVE  \E m \in Committed : m.id = i /\ Cardinality(Newer(m)) >= next
      <3>1. PICK m \in Committed : m.id = i /\ Cardinality(Newer(m)) >= walk.offset
        BY <2>1 DEF Ahead, WalkInv
      <3>2. Cardinality(Newer(m)) \in Nat
        BY NewerIsLess
      <3>3. ~ (Cardinality(Newer(m)) \in walk.offset..(walk.offset + PageSize - 1))
        BY <3>1 DEF Page, Ids, Newer
      <3>4. Cardinality(Newer(m)) >= next
        BY <1>0, <2>1, <3>1, <3>2, <3>3
      <3> QED BY <3>1, <3>4
    <2>3. CASE next < Cardinality(walk.counted)
      <3>1. walk' = [step |-> "count", offset |-> next, counted |-> {}, unseen |-> unseen]
        BY <1>3, <2>1, <2>3 DEF list_models, Ahead, WalkInv
      <3> HIDE DEF next, unseen
      <3>2. Ahead'
        BY <1>0, <2>1, <2>2, <3>1 DEF Ahead
      <3> QED BY <3>1, <3>2 DEF WalkInv, NothingMissed
    <2>4. CASE ~ (next < Cardinality(walk.counted))
      <3>1. walk' = [step |-> "done", outdated |-> Ids(Committed) # walk.counted, unseen |-> unseen]
        BY <1>3, <2>4 DEF list_models
      <3>2. Ids(Committed) = walk.counted => unseen = {}
        <4> SUFFICES ASSUME Ids(Committed) = walk.counted, NEW i \in unseen PROVE FALSE
          OBVIOUS
        <4>1. PICK m \in Committed : Cardinality(Newer(m)) >= next
          BY <2>2
        <4>2. Cardinality(Newer(m)) \in Nat /\ Cardinality(Newer(m)) < Cardinality(walk.counted)
          BY NewerIsLess
        <4>3. Cardinality(walk.counted) \in Nat
          <5>1. IsFiniteSet(Committed)
            BY FS_Subset DEF Table, Committed
          <5> DEFINE f == [o \in Committed |-> o.id]
          <5>2. f \in Surjection(Committed, Ids(Committed))
            BY DEF Surjection, Ids
          <5> QED BY <5>1, <5>2, FS_Surjection, FS_CardinalityType
        <4> HIDE DEF next
        <4> QED BY <2>1, <2>4, <4>1, <4>2, <4>3
      <3> HIDE DEF next, unseen
      <3> QED BY <3>1, <3>2 DEF WalkInv, Ahead, NothingMissed
    <2> QED BY <2>3, <2>4
  <1> QED BY <1>1, <1>2, <1>3 DEF Read

\* A reader who has paged to the end of the total it was told has seen every model that
\* was there when it began, whatever was committed in between, if that total was up to
\* date when it read its last page.
THEOREM ReaderMissesNothing == Spec => []NothingMissed
  <1>1. Init => WalkInv
    BY DEF Init, CatalogueInit, WalkInv, Ahead, NothingMissed, NoWalk
  <1>2. /\ IInv /\ IInv' /\ TInv /\ TInv' /\ WalkInv /\ [Next]_vars => WalkInv'
    <2> SUFFICES ASSUME IInv, IInv', TInv, TInv', WalkInv, [Next]_vars PROVE WalkInv'
      OBVIOUS
    <2>1. CASE Read
      BY <2>1, WalkMoves DEF TInv
    <2>2. CASE ~Read
      <3>1. walk' = walk
        BY <2>2 DEF Next, Start, Requests, Create, catalogueVars, vars, Dies,
           BeginMigration, upgrade_to_head, BeginUsers, seed_demo_users, BeginSeed, InsertModel,
           seed_sample_data, Crash, _wait_for_schema, RestartWorker, BeginCreateModel,
           _unique_key, create_model, CommitModel, AbandonModel
      <3>2. Committed \subseteq Committed'
        BY StepsOfTable, CommittedGrows DEF TInv, IInv
      <3> QED BY <3>1, <3>2, WalkStays DEF TInv
    <2> QED BY <2>1, <2>2
  <1>3. WalkInv => NothingMissed
    BY DEF WalkInv
  <1> QED BY <1>1, <1>2, <1>3, TableInductive, PTL DEF Spec

\* What users see of the loaded metrics is one story: each model has the same status and
\* latest sample in the overview and on its page, and a faithful series for each version
\* and environment on offer, before the sample is loaded and after.
THEOREM LoadedMetricsAgree == Spec => []MonitoringAgrees
  <1>1. TInv => MonitoringAgrees
    <2> SUFFICES ASSUME TInv PROVE MonitoringAgrees
      OBVIOUS
    <2>1. /\ IsFiniteSet(metrics) /\ DistinctTimes(metrics)
          /\ \A m \in metrics : m.timestamp \in Int /\ "null" \notin {m.version, m.environment}
      BY MetricsAssumption, FS_EmptySet DEF TInv, Others, DistinctTimes
    <2> DEFINE shown == {m.key : m \in Committed}
    <2>2. SameStory(metrics, shown, Points)
      BY <2>1, OneStory
    <2>3. SeriesFaithful(metrics, shown, Points)
      BY <2>1, FaithfulSeries, PointsAssumption
    <2> QED BY <2>2, <2>3 DEF MonitoringAgrees
  <1> QED BY <1>1, TableInductive, PTL
=============================================================================
