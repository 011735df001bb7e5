----------------------------- MODULE Catalogue ------------------------------
(* The table of models: create_model with its search for a free key, and a    *)
(* reader who pages through the list (app/services/model_service.py), as      *)
(* transactions at READ COMMITTED.  StartUp adds the processes that fill the  *)
(* table when they start.                                                     *)
EXTENDS Naturals, Sequences, FiniteSets

CONSTANTS
  Handlers,      \* create requests served at a time
  Names,         \* names of models
  Wanted,        \* those that users give to new models
  Slug,          \* the slug of each name: its words, coded as numbers; a numeral is itself
  NoUser,        \* NULL in created_by
  ReaderPresent, \* does somebody page through the list?
  PageSize,      \* limit of the reader's requests
  MaxModels      \* bound: rows there may be when a request begins

ASSUME HandlerAssumption == "committed" \notin Handlers
ASSUME ReaderAssumption == ReaderPresent \in BOOLEAN /\ PageSize \in Nat \ {0} /\ MaxModels \in Nat
ASSUME SlugAssumption == Slug \in [Names -> Seq(Nat)] /\ Wanted \subseteq Names

VARIABLES
  models,     \* the rows, each with the transaction that holds it or "committed"
  creating,   \* per handler: what create_model has found so far
  walk        \* the reader

catalogueVars == <<models, creating, walk>>

Committed == {m \in models : m.tx = "committed"}
HeldBy(tx) == {m \in models : m.tx = tx}
Taken(key) == \E m \in Committed : m.key = key

\* A row's id is its place in the order of the inserts (UUIDv7), which commits need not
\* follow.
NextId == 1 + CHOOSE n \in {0} \union {m.id : m \in models} : \A m \in models : m.id <= n

\* An INSERT waits for a transaction that holds the key (models.key is unique) ...
MayInsert(key) == \A m \in models : m.key = key => m.tx = "committed"

\* ... and fails if the key has been committed by then.
Row(key, name, user, tx) == [id |-> NextId, key |-> key, name |-> name, created_by |-> user, tx |-> tx]

Commit(tx) == {IF m.tx = tx THEN [m EXCEPT !.tx = "committed"] ELSE m : m \in models}
Rollback(tx) == models \ HeldBy(tx)

-----------------------------------------------------------------------------
(* create_model                                                               *)

NotCreating == [step |-> "idle"]

\* key of the n-th attempt: the slug itself, then slug-2, slug-3, ...
slugify(name) == Slug[name]
Candidate(name, n) == IF n = 1 THEN slugify(name) ELSE Append(slugify(name), n)

BeginCreateModel(h, name) ==
  /\ creating[h].step = "idle"
  /\ NextId <= MaxModels
  /\ creating' = [creating EXCEPT ![h] = [step |-> "probe", name |-> name, n |-> 1]]
  /\ UNCHANGED <<models, walk>>

\* Mutant: the first suffix tried is 3.
SuffixFromThree(h) ==
  LET c == creating[h] IN
  /\ c.step = "probe"
  /\ creating' = [creating EXCEPT ![h] =
       IF Taken(Candidate(c.name, c.n)) THEN [c EXCEPT !.n = IF c.n = 1 THEN 3 ELSE c.n + 1]
                                        ELSE [c EXCEPT !.step = "insert"]]
  /\ UNCHANGED <<models, walk>>

\* One turn of the loop, one SELECT.
_unique_key(h) ==
  LET c == creating[h] IN
  /\ c.step = "probe"
  /\ creating' = [creating EXCEPT ![h] = IF Taken(Candidate(c.name, c.n)) THEN [c EXCEPT !.n = c.n + 1]
                                                                        ELSE [c EXCEPT !.step = "insert"]]
  /\ UNCHANGED <<models, walk>>

\* Mutant: models.key is not unique.
InsertUnchecked(h) ==
  /\ creating[h].step = "insert"
  /\ models' = models \union {Row(Candidate(creating[h].name, creating[h].n), creating[h].name, "engineer", h)}
  /\ creating' = [creating EXCEPT ![h].step = "commit"]
  /\ UNCHANGED walk

\* The flush; an IntegrityError is caught by nobody and answered with a 500.
create_model(h) ==
  LET c == creating[h] IN
  /\ c.step = "insert"
  /\ LET key == Candidate(c.name, c.n) IN
       /\ MayInsert(key)
       /\ \/ /\ Taken(key)
             /\ creating' = [creating EXCEPT ![h] = NotCreating]
             /\ UNCHANGED models
          \/ /\ ~Taken(key)
             /\ models' = models \union {Row(key, c.name, "engineer", h)}
             /\ creating' = [creating EXCEPT ![h].step = "commit"]
  /\ UNCHANGED walk

CommitModel(h) ==
  /\ creating[h].step = "commit"
  /\ models' = Commit(h)
  /\ creating' = [creating EXCEPT ![h] = NotCreating]
  /\ UNCHANGED walk

\* The API dies in mid-request, or the database refuses the commit.
AbandonModel(h) ==
  /\ creating[h].step # "idle"
  /\ models' = Rollback(h)
  /\ creating' = [creating EXCEPT ![h] = NotCreating]
  /\ UNCHANGED walk

-----------------------------------------------------------------------------
(* list_models: a reader asks for page after page until it has been through   *)
(* the total it was told last.                                                *)

Ids(rows) == {m.id : m \in rows}
NoWalk == [step |-> "idle"]

\* unseen: the models that were there when the reader began and were on no page so far.
BeginWalk ==
  /\ ReaderPresent /\ walk = NoWalk
  /\ walk' = [step |-> "count", offset |-> 0, counted |-> {}, unseen |-> Ids(Committed)]
  /\ UNCHANGED <<models, creating>>

\* SELECT count(*)
CountModels ==
  /\ walk.step = "count"
  /\ walk' = [walk EXCEPT !.step = "page", !.counted = Ids(Committed)]
  /\ UNCHANGED <<models, creating>>

\* Mutant: the offset is that of the row after the page.
PageOffByOne(offset) ==
  {m \in Committed :
     Cardinality({o \in Committed : o.id > m.id}) \in (offset + 1)..(offset + PageSize)}

\* ORDER BY id DESC OFFSET offset LIMIT limit: the rows with that many newer ones.
Page(offset) ==
  {m \in Committed :
     Cardinality({o \in Committed : o.id > m.id}) \in offset..(offset + PageSize - 1)}

\* The second statement of the request.  A reader that has been through the total stops,
\* and what it knows is judged by NothingMissed.
list_models ==
  /\ walk.step = "page"
  /\ LET next   == walk.offset + PageSize
         unseen == walk.unseen \ Ids(Page(walk.offset))
     IN walk' = IF next < Cardinality(walk.counted)
                THEN [walk EXCEPT !.step = "count", !.offset = next, !.counted = {}, !.unseen = unseen]
                ELSE [step |-> "done", outdated |-> Ids(Committed) # walk.counted, unseen |-> unseen]
  /\ UNCHANGED <<models, creating>>

-----------------------------------------------------------------------------
CatalogueInit ==
  /\ models = {}
  /\ creating = [h \in Handlers |-> NotCreating]
  /\ walk = NoWalk

Create(h) == _unique_key(h) \/ create_model(h) \/ CommitModel(h) \/ AbandonModel(h)
Read == BeginWalk \/ CountModels \/ list_models

\* A key says why it is what it is, whatever requests overlapped: it is the slug of the
\* model's name, or the slug with a suffix, and then all lower candidates are taken.
Explained(m) ==
  LET slug == slugify(m.name)
      n    == m.key[Len(slug) + 1]
  IN \/ m.key = slug
     \/ /\ n \in Nat \ {0, 1} /\ m.key = Append(slug, n)
        /\ \A k \in 1..(n - 1) : Taken(Candidate(m.name, k))

KeysExplained == \A m \in models : Explained(m)

\* Rows that are added while a reader pages through the list push others down, never out
\* of its way: when it has been through the total it has seen every model that was there
\* when it began, unless its last total was out of date when the page was read.
NothingMissed == walk.step = "done" /\ ~walk.outdated => walk.unseen = {}
=============================================================================
