------------------------------ MODULE Registry ------------------------------
(* The registry of model versions (app/services/model_service.py) under       *)
(* concurrent API requests.  A handler runs one request in one database       *)
(* session: it reads the version it was asked about, decides, and commits     *)
(* its writes and the audit event in one transaction.  Reading takes no lock  *)
(* and the UPDATE names only the primary key, so anything may be committed    *)
(* by another handler between the read and the commit.                        *)
EXTENDS Lifecycle, Naturals, Sequences

CONSTANTS
  Versions,     \* identities (model_id, version) that requests name
  Users,        \* authenticated users
  Role,         \* the role of each user
  Handlers,     \* requests served at the same time
  NoUser,       \* NULL in approved_by
  Engineer, Approver,  \* the demo users whom the sample names
  SampleStages, \* stages of versions in the sample
  MaxEvents     \* bound: audit events per version

ASSUME RoleAssumption == Role \in [Users -> {"VIEWER", "ENGINEER", "APPROVER", "ADMIN"}]
ASSUME NoUserAssumption == NoUser \notin Users
ASSUME SampleAssumption ==
  /\ {Engineer, Approver} \subseteq Users /\ Role[Approver] = "APPROVER"
  /\ SampleStages \subseteq Stages
ASSUME MaxEventsAssumption == MaxEvents \in Nat

VARIABLES
  stage,        \* model_versions.stage, "ABSENT" while the row does not exist
  approvedBy,   \* model_versions.approved_by, NoUser for NULL
  events,       \* model_version_events of each version, in id order
  session,      \* what each handler has read and is about to write
  reply         \* the last answer of each handler

vars == <<stage, approvedBy, events, session, reply>>

------------------------------------------------------------------------------
\* Rows and sessions

Event == [from_stage : Stages \union {"NONE"}, to_stage : Stages, actor : Users]

NoSession == [op |-> "idle"]

OpenSession ==
  [op : {"create", "approve", "transition"}, version : Versions, actor : Users,
   from_stage : Stages \union {"NONE"}, target : Stages,
   approvedBy : Users \union {NoUser}]

\* approved == approved_at IS NOT NULL; approve_version and the sample are the only
\* writers of approved_at and approved_by, and write both.
approved(user) == user # NoUser

\* require_roles: ADMIN passes every guard.
Permitted(user, role) == Role[user] \in {role, "ADMIN"}

------------------------------------------------------------------------------
\* A handler's steps

Idle(h) == session[h] = NoSession

Open(h, s) ==
  /\ session' = [session EXCEPT ![h] = s]
  /\ UNCHANGED <<stage, approvedBy, events, reply>>

\* The service raised a domain error before it wrote anything.
Refuse(h, code) ==
  /\ reply' = [reply EXCEPT ![h] = code]
  /\ UNCHANGED <<stage, approvedBy, events, session>>

Answer(h, code) ==
  /\ session' = [session EXCEPT ![h] = NoSession]
  /\ reply' = [reply EXCEPT ![h] = code]

\* Mutants: the event reads the stage after it was assigned; or loses the actor.
StageReadLate(s) ==
  events' = [events EXCEPT ![s.version] =
               Append(@, [from_stage |-> s.target, to_stage |-> s.target,
                          actor |-> s.actor])]
ActorLost(s) ==
  events' = [events EXCEPT ![s.version] =
               Append(@, [from_stage |-> s.from_stage, to_stage |-> s.target,
                          actor |-> NoUser])]

_record_version_event(s) ==
  events' = [events EXCEPT ![s.version] =
               Append(@, [from_stage |-> s.from_stage, to_stage |-> s.target,
                          actor |-> s.actor])]

\* Mutant: no look for a duplicate.
CreateUnchecked(h, v, u) ==
  /\ Idle(h)
  /\ Permitted(u, "ENGINEER")
  /\ Open(h, [op |-> "create", version |-> v, actor |-> u, from_stage |-> "NONE",
              target |-> "DRAFT", approvedBy |-> NoUser])

\* create_version up to the flush: the duplicate check.
BeginCreate(h, v, u) ==
  /\ Idle(h)
  /\ Permitted(u, "ENGINEER")
  /\ IF stage[v] = "ABSENT"
     THEN Open(h, [op |-> "create", version |-> v, actor |-> u, from_stage |-> "NONE",
                   target |-> "DRAFT", approvedBy |-> NoUser])
     ELSE Refuse(h, "conflict")

\* The flush checks uq_model_version; nothing catches its IntegrityError.
create_version(h) ==
  LET s == session[h] IN
  /\ s.op = "create"
  /\ IF stage[s.version] = "ABSENT"
     THEN /\ stage' = [stage EXCEPT ![s.version] = "DRAFT"]
          /\ _record_version_event(s)
          /\ Answer(h, "ok")
     ELSE /\ Answer(h, "server_error")
          /\ UNCHANGED <<stage, events>>
  /\ UNCHANGED approvedBy

\* approve_version up to its writes: the approval is validated as if granted.
BeginApprove(h, v, u) ==
  /\ Idle(h)
  /\ Permitted(u, "APPROVER")
  /\ stage[v] # "ABSENT"
  /\ IF validate_transition(stage[v], "APPROVED", TRUE)
     THEN Open(h, [op |-> "approve", version |-> v, actor |-> u,
                   from_stage |-> stage[v], target |-> "APPROVED",
                   approvedBy |-> approvedBy[v]])
     ELSE Refuse(h, "conflict")

\* The ORM leaves approved_by out of the UPDATE when it equals the value read.
approve_version(h) ==
  LET s == session[h] IN
  /\ s.op = "approve"
  /\ Len(events[s.version]) < MaxEvents
  /\ stage' = [stage EXCEPT ![s.version] = "APPROVED"]
  /\ approvedBy' = [approvedBy EXCEPT ![s.version] =
                      IF s.actor = s.approvedBy THEN @ ELSE s.actor]
  /\ _record_version_event(s)
  /\ Answer(h, "ok")

\* transition_version (the promote endpoint) up to its writes.
BeginTransition(h, v, t, u) ==
  /\ Idle(h)
  /\ Permitted(u, "APPROVER")
  /\ stage[v] # "ABSENT"
  /\ IF validate_transition(stage[v], t, approved(approvedBy[v]))
     THEN Open(h, [op |-> "transition", version |-> v, actor |-> u,
                   from_stage |-> stage[v], target |-> t,
                   approvedBy |-> approvedBy[v]])
     ELSE Refuse(h, "conflict")

\* Mutant: archiving leaves no event.
ArchiveSilently(h) ==
  LET s == session[h] IN
  /\ s.op = "transition"
  /\ Len(events[s.version]) < MaxEvents
  /\ stage' = [stage EXCEPT ![s.version] = s.target]
  /\ IF s.target = "ARCHIVED" THEN UNCHANGED events ELSE _record_version_event(s)
  /\ Answer(h, "ok")
  /\ UNCHANGED approvedBy

transition_version(h) ==
  LET s == session[h] IN
  /\ s.op = "transition"
  /\ Len(events[s.version]) < MaxEvents
  /\ stage' = [stage EXCEPT ![s.version] = s.target]
  /\ _record_version_event(s)
  /\ Answer(h, "ok")
  /\ UNCHANGED approvedBy

\* The API process dies in mid-request: the transaction rolls back.
Abandon(h) ==
  /\ ~Idle(h)
  /\ session' = [session EXCEPT ![h] = NoSession]
  /\ UNCHANGED <<stage, approvedBy, events, reply>>

------------------------------------------------------------------------------
\* The versions of the sample, which is there before the first request.

\* The trail of a sample version: created by the engineer, then led to its stage by the
\* approver.
_record_lifecycle(st) ==
  LET chain == _STAGE_CHAIN[st]
      entered(i) == IF i = 0 THEN "DRAFT" ELSE chain[i]
  IN [i \in 1..(Len(chain) + 1) |-> [from_stage |-> IF i = 1 THEN "NONE" ELSE entered(i - 2),
                                     to_stage   |-> entered(i - 1),
                                     actor      |-> IF i = 1 THEN Engineer ELSE Approver]]

\* models.json says approved of exactly the versions that have passed the approval.
SampleApproved == REQUIRES_APPROVAL \union {"ARCHIVED"}

Init ==
  /\ stage \in [Versions -> SampleStages \union {"ABSENT"}]
  /\ approvedBy = [v \in Versions |-> IF stage[v] \in SampleApproved THEN Approver ELSE NoUser]
  /\ events = [v \in Versions |-> IF stage[v] = "ABSENT" THEN <<>> ELSE _record_lifecycle(stage[v])]
  /\ session = [h \in Handlers |-> NoSession]
  /\ reply = [h \in Handlers |-> "none"]

Next ==
  \E h \in Handlers :
    \/ \E v \in Versions, u \in Users :
         \/ BeginCreate(h, v, u)
         \/ BeginApprove(h, v, u)
         \/ \E t \in Stages : BeginTransition(h, v, t, u)
    \/ create_version(h)
    \/ approve_version(h)
    \/ transition_version(h)
    \/ Abandon(h)

Spec == Init /\ [][Next]_vars

------------------------------------------------------------------------------
\* Properties

\* Every variable has its type.
TypeOK ==
  /\ stage \in [Versions -> Stages \union {"ABSENT"}]
  /\ approvedBy \in [Versions -> Users \union {NoUser}]
  /\ events \in [Versions -> Seq(Event)]
  /\ session \in [Handlers -> OpenSession \union {NoSession}]
  /\ reply \in [Handlers -> {"none", "ok", "conflict", "server_error"}]

\* The core governance rule (ADR-0005): however the requests interleave, a
\* version in a governed stage carries an approval, and the trail holds the
\* APPROVED event of the very user the row names, who may approve.
NeverUnapproved ==
  \A v \in Versions : stage[v] \in REQUIRES_APPROVAL =>
    \E i \in DOMAIN events[v] :
      /\ events[v][i].to_stage = "APPROVED"
      /\ events[v][i].actor = approvedBy[v]
      /\ approvedBy[v] \in Users
      /\ Permitted(approvedBy[v], "APPROVER")

\* The row and its trail are written together: the stage of a version is the
\* one its last event says it entered, and every event is a legal transition.
TrailMatchesStage ==
  \A v \in Versions :
    /\ stage[v] = "ABSENT" <=> events[v] = <<>>
    /\ events[v] # <<>> => /\ events[v][Len(events[v])].to_stage = stage[v]
                           /\ events[v][1].from_stage = "NONE"
    /\ \A i \in DOMAIN events[v] :
         \/ i = 1 /\ events[v][i].to_stage = "DRAFT"
         \/ can_transition(events[v][i].from_stage, events[v][i].to_stage)

\* lifecycle.py: forward-only, no demotions, ARCHIVED is terminal.  What the
\* check promises for one read must hold of what the commits do to the row.
ForwardOnly ==
  [][\A v \in Versions : stage'[v] # stage[v] =>
       \/ stage[v] = "ABSENT" /\ stage'[v] = "DRAFT"
       \/ can_transition(stage[v], stage'[v])]_vars

\* The trail of a version is a path: each event starts where the one before
\* it ended.
TrailIsAPath ==
  \A v \in Versions : \A i \in 2..Len(events[v]) :
    events[v][i].from_stage = events[v][i - 1].to_stage

\* A duplicate version is refused as a conflict (api-design.md), not by an
\* uncaught error of the database.
NoServerError == \A h \in Handlers : reply[h] # "server_error"
=============================================================================
