--------------------------- MODULE RegistryProofs ---------------------------
(* What holds of the registry for any number of versions, users and handlers. *)
EXTENDS Registry, TLAPS

LEMMA AppendEvent ==
  ASSUME NEW s \in Seq(Event), NEW e \in Event
  PROVE  /\ Append(s, e) \in Seq(Event)
         /\ DOMAIN Append(s, e) = 1..(Len(s) + 1)
         /\ DOMAIN s \subseteq DOMAIN Append(s, e)
         /\ \A i \in DOMAIN s : Append(s, e)[i] = s[i]
         /\ Append(s, e)[Len(s) + 1] = e
  OBVIOUS

\* An open session is the record its handler built when it read the version.
LEMMA OpenSessions ==
  ASSUME TypeOK, NEW h \in Handlers, session[h].op # "idle"
  PROVE  /\ session[h] \in OpenSession
         /\ session[h].version \in Versions
         /\ session[h].actor \in Users
         /\ session[h].target \in Stages
         /\ [from_stage |-> session[h].from_stage, to_stage |-> session[h].target,
             actor |-> session[h].actor] \in Event
  <1>1. session[h] # NoSession
    BY DEF NoSession
  <1>2. session[h] \in OpenSession
    BY <1>1 DEF TypeOK
  <1> QED BY <1>2 DEF OpenSession, Event

------------------------------------------------------------------------------
\* Types

LEMMA StagesKnown == "DRAFT" \in Stages /\ "APPROVED" \in Stages /\ "ABSENT" \notin Stages
  BY DEF Stages

\* The trail of a sample version goes from its creation to its stage, one legal
\* transition at a time, and past the approval if the stage asks for one.
LEMMA SampleTrail ==
  ASSUME NEW st \in SampleStages
  PROVE  LET trail == _record_lifecycle(st)
         IN /\ trail \in Seq(Event) /\ Len(trail) >= 1
            /\ trail[Len(trail)].to_stage = st
            /\ trail[1].from_stage = "NONE" /\ trail[1].to_stage = "DRAFT"
            /\ \A i \in 2..Len(trail) : can_transition(trail[i].from_stage, trail[i].to_stage)
            /\ \A i \in 2..Len(trail) : trail[i].from_stage = trail[i - 1].to_stage
            /\ st \in SampleApproved => 3 \in DOMAIN trail /\ trail[3].to_stage = "APPROVED"
                                                             /\ trail[3].actor = Approver
  <1> DEFINE chain == _STAGE_CHAIN[st]
             entered(i) == IF i = 0 THEN "DRAFT" ELSE chain[i]
             trail == _record_lifecycle(st)
  <1>1. st \in Stages /\ Engineer \in Users /\ Approver \in Users
    BY SampleAssumption
  <1>2. /\ Len(chain) \in 0..5 /\ entered(0) = "DRAFT" /\ entered(Len(chain)) = st
        /\ \A i \in 0..Len(chain) : entered(i) \in Stages
        /\ \A i \in 1..Len(chain) : can_transition(entered(i - 1), entered(i))
        /\ st \in SampleApproved => Len(chain) >= 2 /\ entered(2) = "APPROVED"
    <2>1. CASE st = "DRAFT"
      <3>1. chain = <<>>
        BY <2>1 DEF _STAGE_CHAIN
      <3>2. Len(chain) = 0 /\ entered(0) = "DRAFT"
        BY <3>1
      <3> HIDE DEF chain, entered
      <3> QED BY <2>1, <3>2 DEF Stages, SampleApproved, REQUIRES_APPROVAL, can_transition, ALLOWED_TRANSITIONS
    <2>2. CASE st = "VALIDATED"
      <3>1. chain = <<"VALIDATED">>
        BY <2>2 DEF _STAGE_CHAIN
      <3>2. Len(chain) = 1 /\ entered(0) = "DRAFT" /\ entered(1) = "VALIDATED"
        BY <3>1
      <3> HIDE DEF chain, entered
      <3> QED BY <2>2, <3>2 DEF Stages, SampleApproved, REQUIRES_APPROVAL, can_transition, ALLOWED_TRANSITIONS
    <2>3. CASE st = "APPROVED"
      <3>1. chain = <<"VALIDATED", "APPROVED">>
        BY <2>3 DEF _STAGE_CHAIN
      <3>2. Len(chain) = 2 /\ entered(0) = "DRAFT" /\ entered(1) = "VALIDATED" /\ entered(2) = "APPROVED"
        BY <3>1
      <3> HIDE DEF chain, entered
      <3> QED BY <2>3, <3>2 DEF Stages, SampleApproved, REQUIRES_APPROVAL, can_transition, ALLOWED_TRANSITIONS
    <2>4. CASE st = "STAGING"
      <3>1. chain = <<"VALIDATED", "APPROVED", "STAGING">>
        BY <2>4 DEF _STAGE_CHAIN
      <3>2. Len(chain) = 3 /\ entered(0) = "DRAFT" /\ entered(1) = "VALIDATED" /\ entered(2) = "APPROVED" /\ entered(3) = "STAGING"
        BY <3>1
      <3> HIDE DEF chain, entered
      <3> QED BY <2>4, <3>2 DEF Stages, SampleApproved, REQUIRES_APPROVAL, can_transition, ALLOWED_TRANSITIONS
    <2>5. CASE st = "PRODUCTION"
      <3>1. chain = <<"VALIDATED", "APPROVED", "STAGING", "PRODUCTION">>
        BY <2>5 DEF _STAGE_CHAIN
      <3>2. Len(chain) = 4 /\ entered(0) = "DRAFT" /\ entered(1) = "VALIDATED" /\ entered(2) = "APPROVED" /\ entered(3) = "STAGING" /\ entered(4) = "PRODUCTION"
        BY <3>1
      <3> HIDE DEF chain, entered
      <3> QED BY <2>5, <3>2 DEF Stages, SampleApproved, REQUIRES_APPROVAL, can_transition, ALLOWED_TRANSITIONS
    <2>6. CASE st = "ARCHIVED"
      <3>1. chain = <<"VALIDATED", "APPROVED", "STAGING", "PRODUCTION", "ARCHIVED">>
        BY <2>6 DEF _STAGE_CHAIN
      <3>2. Len(chain) = 5 /\ entered(0) = "DRAFT" /\ entered(1) = "VALIDATED" /\ entered(2) = "APPROVED" /\ entered(3) = "STAGING" /\ entered(4) = "PRODUCTION" /\ entered(5) = "ARCHIVED"
        BY <3>1
      <3> HIDE DEF chain, entered
      <3> QED BY <2>6, <3>2 DEF Stages, SampleApproved, REQUIRES_APPROVAL, can_transition, ALLOWED_TRANSITIONS
    <2> QED BY <1>1, <2>1, <2>2, <2>3, <2>4, <2>5, <2>6 DEF Stages
  <1>3. trail = [i \in 1..(Len(chain) + 1) |-> [from_stage |-> IF i = 1 THEN "NONE" ELSE entered(i - 2),
                                               to_stage   |-> entered(i - 1),
                                               actor      |-> IF i = 1 THEN Engineer ELSE Approver]]
    BY DEF _record_lifecycle
  <1> HIDE DEF chain, entered, trail
  <1>4. ASSUME NEW i \in 1..(Len(chain) + 1)
        PROVE  /\ trail[i] \in Event /\ trail[i].to_stage = entered(i - 1)
               /\ i # 1 => trail[i].from_stage = entered(i - 2) /\ trail[i].actor = Approver
               /\ i = 1 => trail[i].from_stage = "NONE"
    <2>1. i - 1 \in 0..Len(chain) /\ (i # 1 => i - 2 \in 0..Len(chain))
      BY <1>2
    <2>2. trail[i] = [from_stage |-> IF i = 1 THEN "NONE" ELSE entered(i - 2),
                      to_stage |-> entered(i - 1), actor |-> IF i = 1 THEN Engineer ELSE Approver]
      BY <1>3
    <2> QED BY <1>1, <1>2, <2>1, <2>2 DEF Event
  <1>5. trail \in Seq(Event) /\ Len(trail) = Len(chain) + 1 /\ DOMAIN trail = 1..(Len(chain) + 1)
    BY <1>2, <1>3, <1>4
  <1>6. \A i \in 2..Len(trail) : can_transition(trail[i].from_stage, trail[i].to_stage)
    <2> SUFFICES ASSUME NEW i \in 2..Len(trail) PROVE can_transition(entered(i - 2), entered(i - 1))
      BY <1>2, <1>4, <1>5
    <2>1. i - 1 \in 1..Len(chain) /\ (i - 1) - 1 = i - 2
      BY <1>2, <1>5
    <2> QED BY <1>2, <2>1
  <1>7. trail[Len(trail)].to_stage = st /\ trail[1].from_stage = "NONE" /\ trail[1].to_stage = "DRAFT"
    BY <1>2, <1>4, <1>5
  <1>8. st \in SampleApproved => 3 \in DOMAIN trail /\ trail[3].to_stage = "APPROVED" /\ trail[3].actor = Approver
    BY <1>2, <1>4, <1>5
  <1>9. ASSUME NEW i \in 2..Len(trail) PROVE trail[i].from_stage = trail[i - 1].to_stage
    <2>1. i \in 1..(Len(chain) + 1) /\ i # 1 /\ i - 1 \in 1..(Len(chain) + 1) /\ (i - 1) - 1 = i - 2
      BY <1>2, <1>5
    <2> QED BY <1>4, <2>1
  <1> QED BY <1>2, <1>5, <1>6, <1>7, <1>8, <1>9 DEF trail

LEMMA TypeInit == Init => TypeOK
  <1> SUFFICES ASSUME Init PROVE TypeOK
    OBVIOUS
  <1>1. events \in [Versions -> Seq(Event)]
    <2> SUFFICES ASSUME NEW v \in Versions
                 PROVE  (IF stage[v] = "ABSENT" THEN <<>> ELSE _record_lifecycle(stage[v])) \in Seq(Event)
      BY DEF Init
    <2>1. stage[v] \in SampleStages \union {"ABSENT"}
      BY DEF Init
    <2> QED BY <2>1, SampleTrail
  <1>2. approvedBy \in [Versions -> Users \union {NoUser}]
    BY SampleAssumption DEF Init
  <1> QED BY <1>1, <1>2, SampleAssumption DEF Init, TypeOK

LEMMA OpenTypes ==
  ASSUME TypeOK, NEW h \in Handlers, NEW s \in OpenSession, Open(h, s)
  PROVE  TypeOK'
  BY DEF TypeOK, Open

LEMMA RefuseTypes ==
  ASSUME TypeOK, NEW h \in Handlers, Refuse(h, "conflict")
  PROVE  TypeOK'
  BY DEF TypeOK, Refuse

LEMMA AnswerTypes ==
  ASSUME TypeOK, NEW h \in Handlers, NEW code \in {"ok", "server_error"}, Answer(h, code)
  PROVE  /\ session' \in [Handlers -> OpenSession \union {NoSession}]
         /\ reply' \in [Handlers -> {"none", "ok", "conflict", "server_error"}]
  BY DEF TypeOK, Answer

LEMMA EventTypes ==
  ASSUME TypeOK, NEW h \in Handlers, session[h].op # "idle",
         _record_version_event(session[h])
  PROVE  events' \in [Versions -> Seq(Event)]
  BY OpenSessions, AppendEvent DEF TypeOK, _record_version_event

LEMMA TypeStep == TypeOK /\ [Next]_vars => TypeOK'
  <1> SUFFICES ASSUME TypeOK, [Next]_vars PROVE TypeOK'
    OBVIOUS
  <1> USE StagesKnown
  <1>1. ASSUME NEW h \in Handlers, NEW v \in Versions, NEW u \in Users, BeginCreate(h, v, u)
        PROVE TypeOK'
    <2>1. [op |-> "create", version |-> v, actor |-> u, from_stage |-> "NONE",
           target |-> "DRAFT", approvedBy |-> NoUser] \in OpenSession
      BY DEF OpenSession
    <2> QED BY <1>1, <2>1, OpenTypes, RefuseTypes DEF BeginCreate
  <1>2. ASSUME NEW h \in Handlers, NEW v \in Versions, NEW u \in Users, BeginApprove(h, v, u)
        PROVE TypeOK'
    <2>1. [op |-> "approve", version |-> v, actor |-> u, from_stage |-> stage[v],
           target |-> "APPROVED", approvedBy |-> approvedBy[v]] \in OpenSession
      BY <1>2 DEF OpenSession, BeginApprove, TypeOK
    <2> QED BY <1>2, <2>1, OpenTypes, RefuseTypes DEF BeginApprove
  <1>3. ASSUME NEW h \in Handlers, NEW v \in Versions, NEW u \in Users, NEW t \in Stages,
               BeginTransition(h, v, t, u)
        PROVE TypeOK'
    <2>1. [op |-> "transition", version |-> v, actor |-> u, from_stage |-> stage[v],
           target |-> t, approvedBy |-> approvedBy[v]] \in OpenSession
      BY <1>3 DEF OpenSession, BeginTransition, TypeOK
    <2> QED BY <1>3, <2>1, OpenTypes, RefuseTypes DEF BeginTransition
  <1>4. ASSUME NEW h \in Handlers, create_version(h) PROVE TypeOK'
    <2> USE <1>4 DEF create_version
    <2>1. stage' \in [Versions -> Stages \union {"ABSENT"}]
      BY DEF TypeOK
    <2>2. events' \in [Versions -> Seq(Event)]
      BY EventTypes DEF TypeOK
    <2>3. Answer(h, "ok") \/ Answer(h, "server_error")
      OBVIOUS
    <2>4. approvedBy' \in [Versions -> Users \union {NoUser}]
      BY DEF TypeOK
    <2> QED BY <2>1, <2>2, <2>3, <2>4, AnswerTypes DEF TypeOK
  <1>5. ASSUME NEW h \in Handlers, approve_version(h) PROVE TypeOK'
    BY <1>5, OpenSessions, EventTypes, AnswerTypes DEF TypeOK, approve_version
  <1>6. ASSUME NEW h \in Handlers, transition_version(h) PROVE TypeOK'
    BY <1>6, OpenSessions, EventTypes, AnswerTypes DEF TypeOK, transition_version
  <1>7. ASSUME NEW h \in Handlers, Abandon(h) PROVE TypeOK'
    BY <1>7 DEF TypeOK, Abandon
  <1>8. CASE UNCHANGED vars
    BY <1>8 DEF TypeOK, vars
  <1> QED BY <1>1, <1>2, <1>3, <1>4, <1>5, <1>6, <1>7, <1>8 DEF Next

\* Every variable keeps its type, however many requests interleave.
THEOREM TypeCorrect == Spec => []TypeOK
  BY TypeInit, TypeStep, PTL DEF Spec

------------------------------------------------------------------------------
\* The approval gate

\* The row of v is approved, and the trail shows by whom.
Evidence(v) ==
  /\ approvedBy[v] \in Users
  /\ Permitted(approvedBy[v], "APPROVER")
  /\ \E i \in DOMAIN events[v] :
       events[v][i].to_stage = "APPROVED" /\ events[v][i].actor = approvedBy[v]

\* What an open session knows.  An approval that was read is never taken back,
\* so a promotion that was allowed on the strength of it stays allowed, though
\* the stage it was read with may be long out of date.
SessionSound(h) ==
  LET s == session[h] IN
  /\ s.op # "idle" /\ s.approvedBy # NoUser => approvedBy[s.version] # NoUser
  /\ s.op = "transition" /\ s.target \in REQUIRES_APPROVAL => s.approvedBy # NoUser
  /\ s.op = "approve" => s.target = "APPROVED" /\ Permitted(s.actor, "APPROVER")

ApprovalInv ==
  /\ \A v \in Versions : stage[v] \in REQUIRES_APPROVAL => approvedBy[v] # NoUser
  /\ \A v \in Versions : approvedBy[v] # NoUser => Evidence(v)
  /\ \A h \in Handlers : SessionSound(h)

LEMMA ApprovalInit == Init => ApprovalInv
  <1> SUFFICES ASSUME Init PROVE ApprovalInv
    OBVIOUS
  <1>1. ASSUME NEW v \in Versions, approvedBy[v] # NoUser PROVE Evidence(v)
    <2>1. /\ stage[v] \in SampleStages /\ stage[v] \in SampleApproved
          /\ approvedBy[v] = Approver /\ events[v] = _record_lifecycle(stage[v])
      BY <1>1 DEF Init, SampleApproved, REQUIRES_APPROVAL
    <2>2. Approver \in Users /\ Permitted(Approver, "APPROVER")
      BY SampleAssumption DEF Permitted
    <2> QED BY <2>1, <2>2, SampleTrail DEF Evidence
  <1>2. \A v \in Versions : stage[v] \in REQUIRES_APPROVAL => approvedBy[v] # NoUser
    BY SampleAssumption, NoUserAssumption DEF Init, SampleApproved
  <1> QED BY <1>1, <1>2 DEF Init, ApprovalInv, SessionSound, NoSession

\* Opening a sound session, and closing any, disturbs nothing else.
LEMMA OpenApproval ==
  ASSUME TypeOK, ApprovalInv, NEW h \in Handlers, NEW s, Open(h, s),
         s.approvedBy # NoUser => approvedBy[s.version] # NoUser,
         s.op = "transition" /\ s.target \in REQUIRES_APPROVAL => s.approvedBy # NoUser,
         s.op = "approve" => s.target = "APPROVED" /\ Permitted(s.actor, "APPROVER")
  PROVE  ApprovalInv'
  BY DEF TypeOK, ApprovalInv, Open, SessionSound, Evidence, Permitted

LEMMA CloseApproval ==
  ASSUME TypeOK, NEW h \in Handlers, session' = [session EXCEPT ![h] = NoSession],
         \A g \in Handlers : SessionSound(g),
         approvedBy' \in [Versions -> Users \union {NoUser}],
         \A v \in Versions : approvedBy[v] # NoUser => approvedBy'[v] # NoUser
  PROVE  \A g \in Handlers : SessionSound(g)'
  <1> TAKE g \in Handlers
  <1>1. CASE g = h
    BY <1>1 DEF TypeOK, SessionSound, NoSession
  <1>2. CASE g # h
    <2>1. session'[g] = session[g]
      BY <1>2 DEF TypeOK
    <2>2. SessionSound(g)
      OBVIOUS
    <2>3. session[g].op # "idle" => session[g].version \in Versions
      BY OpenSessions
    <2> QED BY <2>1, <2>2, <2>3 DEF SessionSound, Permitted
  <1> QED BY <1>1, <1>2

\* The trail only grows.
LEMMA TrailGrows ==
  ASSUME TypeOK, NEW h \in Handlers, session[h].op # "idle",
         _record_version_event(session[h])
  PROVE  /\ \A v \in Versions : /\ DOMAIN events[v] \subseteq DOMAIN events'[v]
                                /\ \A i \in DOMAIN events[v] : events'[v][i] = events[v][i]
         /\ \E i \in DOMAIN events'[session[h].version] :
              /\ events'[session[h].version][i].to_stage = session[h].target
              /\ events'[session[h].version][i].actor = session[h].actor
  <1> DEFINE s == session[h]
             e == [from_stage |-> s.from_stage, to_stage |-> s.target, actor |-> s.actor]
             old == events[s.version]
  <1>1. s.version \in Versions /\ e \in Event /\ old \in Seq(Event)
    BY OpenSessions DEF TypeOK
  <1>2. events' = [events EXCEPT ![s.version] = Append(old, e)]
    BY DEF _record_version_event
  <1>3. events'[s.version] = Append(old, e)
    BY <1>1, <1>2 DEF TypeOK
  <1>4. \A v \in Versions \ {s.version} : events'[v] = events[v]
    BY <1>2 DEF TypeOK
  <1>5. Len(old) + 1 \in DOMAIN Append(old, e)
    BY <1>1, AppendEvent
  <1>6. ASSUME NEW v \in Versions
        PROVE  /\ DOMAIN events[v] \subseteq DOMAIN events'[v]
               /\ \A i \in DOMAIN events[v] : events'[v][i] = events[v][i]
    <2>1. CASE v = s.version
      BY <1>1, <1>3, <2>1, AppendEvent
    <2>2. CASE v # s.version
      BY <1>4, <2>2
    <2> QED BY <2>1, <2>2
  <1>7. Append(old, e)[Len(old) + 1] = e
    BY <1>1, AppendEvent
  <1> QED BY <1>3, <1>5, <1>6, <1>7

LEMMA ApprovalStep == TypeOK /\ ApprovalInv /\ [Next]_vars => ApprovalInv'
  <1> SUFFICES ASSUME TypeOK, ApprovalInv, [Next]_vars PROVE ApprovalInv'
    OBVIOUS
  <1> USE StagesKnown
  <1>0. ASSUME NEW h \in Handlers, Refuse(h, "conflict") PROVE ApprovalInv'
    BY <1>0 DEF ApprovalInv, Refuse, SessionSound, Evidence, Permitted
  <1>1. ASSUME NEW h \in Handlers, NEW v \in Versions, NEW u \in Users, BeginCreate(h, v, u)
        PROVE ApprovalInv'
    BY <1>0, <1>1, OpenApproval DEF BeginCreate
  <1>2. ASSUME NEW h \in Handlers, NEW v \in Versions, NEW u \in Users, BeginApprove(h, v, u)
        PROVE ApprovalInv'
    BY <1>0, <1>2, OpenApproval DEF BeginApprove
  <1>3. ASSUME NEW h \in Handlers, NEW v \in Versions, NEW u \in Users, NEW t \in Stages,
               BeginTransition(h, v, t, u)
        PROVE ApprovalInv'
    BY <1>0, <1>3, OpenApproval DEF BeginTransition, validate_transition, approved
  <1>4. ASSUME NEW h \in Handlers, create_version(h) PROVE ApprovalInv'
    <2> DEFINE s == session[h]
    <2>1. s.version \in Versions /\ s.op # "idle"
      BY <1>4, OpenSessions DEF create_version
    <2>2. \A g \in Handlers : SessionSound(g)'
      BY <1>4, CloseApproval DEF create_version, Answer, ApprovalInv, TypeOK
    <2>3. \A v \in Versions : stage'[v] \in REQUIRES_APPROVAL => approvedBy'[v] # NoUser
      BY <1>4, <2>1 DEF create_version, ApprovalInv, TypeOK, REQUIRES_APPROVAL
    <2>4. \A v \in Versions : approvedBy'[v] # NoUser => Evidence(v)'
      BY <1>4, <2>1, TrailGrows DEF create_version, ApprovalInv, Evidence, Permitted
    <2> QED BY <2>2, <2>3, <2>4 DEF ApprovalInv
  <1>5. ASSUME NEW h \in Handlers, approve_version(h) PROVE ApprovalInv'
    <2> DEFINE s == session[h]
    <2>1. s.version \in Versions /\ s.actor \in Users /\ s.op # "idle" /\ s.op = "approve"
      BY <1>5, OpenSessions DEF approve_version
    <2>2. approvedBy' \in [Versions -> Users \union {NoUser}]
      BY <1>5, <2>1 DEF approve_version, TypeOK
    <2>3. /\ \A v \in Versions \ {s.version} : approvedBy'[v] = approvedBy[v]
          /\ approvedBy'[s.version] = IF s.actor = s.approvedBy THEN approvedBy[s.version]
                                      ELSE s.actor
      BY <1>5, <2>1 DEF approve_version, TypeOK
    <2>4. SessionSound(h)
      BY DEF ApprovalInv
    <2>5. approvedBy'[s.version] # NoUser
      BY <2>1, <2>3, <2>4, NoUserAssumption DEF SessionSound
    <2>6. \A g \in Handlers : SessionSound(g)'
      BY <1>5, <2>2, <2>3, <2>5, CloseApproval DEF approve_version, Answer, ApprovalInv
    <2>7. \A v \in Versions : stage'[v] \in REQUIRES_APPROVAL => approvedBy'[v] # NoUser
      BY <1>5, <2>3, <2>5 DEF approve_version, ApprovalInv, TypeOK
    <2>8. ASSUME NEW v \in Versions, approvedBy'[v] # NoUser PROVE Evidence(v)'
      <3>1. CASE approvedBy'[v] = approvedBy[v]
        BY <1>5, <2>1, <2>8, <3>1, TrailGrows DEF approve_version, ApprovalInv, Evidence, Permitted
      <3>2. CASE approvedBy'[v] # approvedBy[v]
        <4>1. v = s.version /\ approvedBy'[v] = s.actor
          BY <2>3, <3>2
        <4>2. s.target = "APPROVED" /\ Permitted(s.actor, "APPROVER")
          BY <2>1, <2>4 DEF SessionSound
        <4> QED BY <1>5, <2>1, <4>1, <4>2, TrailGrows DEF approve_version, Evidence, Permitted
      <3> QED BY <3>1, <3>2
    <2> QED BY <2>6, <2>7, <2>8 DEF ApprovalInv
  <1>6. ASSUME NEW h \in Handlers, transition_version(h) PROVE ApprovalInv'
    <2> DEFINE s == session[h]
    <2>1. s.version \in Versions /\ s.op # "idle" /\ s.op = "transition"
      BY <1>6, OpenSessions DEF transition_version
    <2>2. \A g \in Handlers : SessionSound(g)'
      BY <1>6, CloseApproval DEF transition_version, Answer, ApprovalInv, TypeOK
    <2>3. s.target \in REQUIRES_APPROVAL => approvedBy[s.version] # NoUser
      BY <2>1 DEF ApprovalInv, SessionSound
    <2>4. \A v \in Versions : stage'[v] \in REQUIRES_APPROVAL => approvedBy'[v] # NoUser
      BY <1>6, <2>1, <2>3 DEF transition_version, ApprovalInv, TypeOK
    <2>5. \A v \in Versions : approvedBy'[v] # NoUser => Evidence(v)'
      BY <1>6, <2>1, TrailGrows DEF transition_version, ApprovalInv, Evidence, Permitted
    <2> QED BY <2>2, <2>4, <2>5 DEF ApprovalInv
  <1>7. ASSUME NEW h \in Handlers, Abandon(h) PROVE ApprovalInv'
    BY <1>7, CloseApproval DEF Abandon, ApprovalInv, TypeOK, Evidence, Permitted
  <1>8. CASE UNCHANGED vars
    BY <1>8 DEF vars, ApprovalInv, SessionSound, Evidence, Permitted
  <1> QED BY <1>1, <1>2, <1>3, <1>4, <1>5, <1>6, <1>7, <1>8 DEF Next

\* ADR-0005: an unapproved version never reaches a governed stage, for any
\* number of concurrent requests, although a handler decides on a version it
\* has read without a lock.
THEOREM ApprovalGate == Spec => []NeverUnapproved
  <1>1. ApprovalInv => NeverUnapproved
    BY DEF ApprovalInv, NeverUnapproved, Evidence
  <1> QED BY <1>1, TypeInit, TypeStep, ApprovalInit, ApprovalStep, PTL DEF Spec

------------------------------------------------------------------------------
\* The trail

LegalTrail(trail, st) ==
  /\ st = "ABSENT" <=> trail = <<>>
  /\ trail # <<>> => /\ trail[Len(trail)].to_stage = st
                     /\ trail[1].from_stage = "NONE"
  /\ \A i \in DOMAIN trail :
       \/ i = 1 /\ trail[i].to_stage = "DRAFT"
       \/ can_transition(trail[i].from_stage, trail[i].to_stage)

\* What a session has validated: a creation, or a legal transition of a version that exists.
\* Whether the version is still in from_stage, a session cannot know.
Validated(h) ==
  LET s == session[h] IN
  /\ s.op = "create" => s.from_stage = "NONE" /\ s.target = "DRAFT"
  /\ s.op \in {"approve", "transition"} =>
       stage[s.version] # "ABSENT" /\ can_transition(s.from_stage, s.target)
  /\ s.op = "approve" => s.target = "APPROVED"

TrailInv == TrailMatchesStage /\ \A h \in Handlers : Validated(h)

LEMMA TrailExtends ==
  ASSUME NEW trail \in Seq(Event), NEW e \in Event, NEW st, LegalTrail(trail, st),
         \/ trail = <<>> /\ e.from_stage = "NONE" /\ e.to_stage = "DRAFT"
         \/ trail # <<>> /\ can_transition(e.from_stage, e.to_stage)
  PROVE  LegalTrail(Append(trail, e), e.to_stage)
  <1> DEFINE longer == Append(trail, e)
  <1>1. e.to_stage # "ABSENT"
    BY StagesKnown DEF Event
  <1>2. /\ longer # <<>> /\ Len(longer) = Len(trail) + 1 /\ longer[Len(trail) + 1] = e
        /\ \A i \in DOMAIN trail : longer[i] = trail[i]
        /\ DOMAIN longer = 1..(Len(trail) + 1) /\ DOMAIN trail = 1..Len(trail) /\ Len(trail) \in Nat
    <2>1. longer # <<>> /\ Len(longer) = Len(trail) + 1 /\ DOMAIN trail = 1..Len(trail) /\ Len(trail) \in Nat
      OBVIOUS
    <2> QED BY <2>1, AppendEvent
  <1>3. CASE trail = <<>>
    <2>1. Len(trail) = 0
      BY <1>3
    <2> HIDE DEF longer
    <2> QED BY <1>1, <1>2, <1>3, <2>1 DEF LegalTrail
  <1>4. CASE trail # <<>>
    <2>1. Len(trail) >= 1 /\ 1 \in DOMAIN trail
      BY <1>2, <1>4
    <2> HIDE DEF longer
    <2>2. ASSUME NEW i \in DOMAIN longer
          PROVE  \/ i = 1 /\ longer[i].to_stage = "DRAFT"
                 \/ can_transition(longer[i].from_stage, longer[i].to_stage)
      <3>1. CASE i = Len(trail) + 1
        BY <1>2, <1>4, <3>1
      <3>2. CASE i # Len(trail) + 1
        <4>1. i \in DOMAIN trail
          BY <1>2, <3>2
        <4> QED BY <1>2, <4>1 DEF LegalTrail
      <3> QED BY <3>1, <3>2
    <2>3. longer[1].from_stage = "NONE"
      BY <1>2, <1>4, <2>1 DEF LegalTrail
    <2> QED BY <1>1, <1>2, <2>2, <2>3 DEF LegalTrail
  <1> QED BY <1>3, <1>4

LEMMA TrailInit == Init => TrailInv
  <1> SUFFICES ASSUME Init PROVE TrailInv
    OBVIOUS
  <1>1. ASSUME NEW v \in Versions PROVE LegalTrail(events[v], stage[v])
    <2>1. CASE stage[v] = "ABSENT"
      BY <2>1 DEF Init, LegalTrail
    <2>2. CASE stage[v] \in SampleStages
      <3> DEFINE trail == _record_lifecycle(stage[v])
      <3>1. stage[v] # "ABSENT" /\ events[v] = trail
        BY <2>2, SampleAssumption, StagesKnown DEF Init
      <3>2. /\ trail \in Seq(Event) /\ Len(trail) >= 1
            /\ trail[Len(trail)].to_stage = stage[v]
            /\ trail[1].from_stage = "NONE" /\ trail[1].to_stage = "DRAFT"
            /\ \A i \in 2..Len(trail) : can_transition(trail[i].from_stage, trail[i].to_stage)
        BY <2>2, SampleTrail
      <3> HIDE DEF trail
      <3>3. trail # <<>> /\ \A i \in DOMAIN trail : i = 1 \/ i \in 2..Len(trail)
        BY <3>2
      <3> QED BY <3>1, <3>2, <3>3 DEF LegalTrail
    <2> QED BY <2>1, <2>2 DEF Init
  <1>2. \A h \in Handlers : Validated(h)
    BY DEF Init, Validated, NoSession
  <1> QED BY <1>1, <1>2 DEF TrailInv, TrailMatchesStage, LegalTrail

LEMMA TrailOpen ==
  ASSUME TypeOK, TrailInv, NEW h \in Handlers, NEW s, Open(h, s),
         s.op = "create" => s.from_stage = "NONE" /\ s.target = "DRAFT",
         s.op \in {"approve", "transition"} =>
           stage[s.version] # "ABSENT" /\ can_transition(s.from_stage, s.target),
         s.op = "approve" => s.target = "APPROVED"
  PROVE  TrailInv'
  BY DEF TypeOK, TrailInv, Open, Validated, TrailMatchesStage

\* The commit of a session writes the stage that its event says was entered.
LEMMA TrailWrite ==
  ASSUME TypeOK, TrailInv, NEW h \in Handlers, NEW code, Answer(h, code),
         session[h].op # "idle", _record_version_event(session[h]),
         stage' = [stage EXCEPT ![session[h].version] = session[h].target],
         session[h].op = "create" => stage[session[h].version] = "ABSENT"
  PROVE  TrailInv'
  <1> DEFINE s == session[h]
             e == [from_stage |-> s.from_stage, to_stage |-> s.target, actor |-> s.actor]
             old == events[s.version]
  <1>1. s.version \in Versions /\ e \in Event /\ old \in Seq(Event) /\ s.target \in Stages
        /\ s.op \in {"create", "approve", "transition"}
    BY OpenSessions DEF TypeOK, OpenSession
  <1>2. /\ events'[s.version] = Append(old, e) /\ stage'[s.version] = s.target
        /\ \A v \in Versions \ {s.version} : events'[v] = events[v] /\ stage'[v] = stage[v]
    BY <1>1 DEF _record_version_event, TypeOK
  <1>3. LegalTrail(old, stage[s.version])
    BY <1>1 DEF TrailInv, TrailMatchesStage, LegalTrail
  <1>4. \/ old = <<>> /\ s.from_stage = "NONE" /\ s.target = "DRAFT"
        \/ old # <<>> /\ can_transition(s.from_stage, s.target)
    BY <1>1, <1>3 DEF TrailInv, Validated, LegalTrail
  <1>5. LegalTrail(Append(old, e), s.target)
    <2>1. e.from_stage = s.from_stage /\ e.to_stage = s.target
      OBVIOUS
    <2> HIDE DEF e, old
    <2> QED BY <1>1, <1>3, <1>4, <2>1, TrailExtends
  <1>6. ASSUME NEW v \in Versions PROVE LegalTrail(events'[v], stage'[v])
    <2>1. CASE v = s.version
      BY <1>2, <1>5, <2>1
    <2>2. CASE v # s.version
      BY <1>2, <2>2 DEF TrailInv, TrailMatchesStage, LegalTrail
    <2> QED BY <2>1, <2>2
  <1>7. ASSUME NEW g \in Handlers PROVE Validated(g)'
    <2>1. CASE g = h
      BY <2>1 DEF Answer, TypeOK, Validated, NoSession
    <2>2. CASE g # h
      <3>1. session'[g] = session[g] /\ Validated(g)
        BY <2>2 DEF Answer, TypeOK, TrailInv
      <3>2. session[g].op # "idle" => session[g].version \in Versions
        BY OpenSessions
      <3>3. \A v \in Versions : stage[v] # "ABSENT" => stage'[v] # "ABSENT"
        BY <1>1, <1>2, StagesKnown
      <3> QED BY <3>1, <3>2, <3>3 DEF Validated
    <2> QED BY <2>1, <2>2
  <1> QED BY <1>6, <1>7 DEF TrailInv, TrailMatchesStage, LegalTrail

LEMMA TrailStep == TypeOK /\ TrailInv /\ [Next]_vars => TrailInv'
  <1> SUFFICES ASSUME TypeOK, TrailInv, [Next]_vars PROVE TrailInv'
    OBVIOUS
  <1>0. ASSUME NEW h \in Handlers, UNCHANGED <<stage, events>>,
               session' = session \/ session' = [session EXCEPT ![h] = NoSession]
        PROVE TrailInv'
    <2>1. \A g \in Handlers : session'[g] \in {session[g], NoSession}
      BY <1>0 DEF TypeOK
    <2>2. \A g \in Handlers : Validated(g)'
      BY <1>0, <2>1 DEF TrailInv, Validated, NoSession
    <2> QED BY <1>0, <2>2 DEF TrailInv, TrailMatchesStage
  <1>1. ASSUME NEW h \in Handlers, NEW v \in Versions, NEW u \in Users, BeginCreate(h, v, u)
        PROVE TrailInv'
    BY <1>0, <1>1, TrailOpen DEF BeginCreate, Refuse
  <1>2. ASSUME NEW h \in Handlers, NEW v \in Versions, NEW u \in Users, BeginApprove(h, v, u)
        PROVE TrailInv'
    BY <1>0, <1>2, TrailOpen DEF BeginApprove, Refuse, validate_transition
  <1>3. ASSUME NEW h \in Handlers, NEW v \in Versions, NEW u \in Users, NEW t \in Stages,
               BeginTransition(h, v, t, u)
        PROVE TrailInv'
    BY <1>0, <1>3, TrailOpen DEF BeginTransition, Refuse, validate_transition
  <1>4. ASSUME NEW h \in Handlers, create_version(h) PROVE TrailInv'
    <2>1. session[h].op = "create" /\ session[h].target = "DRAFT"
      BY <1>4 DEF create_version, TrailInv, Validated
    <2>2. CASE stage[session[h].version] = "ABSENT"
      BY <1>4, <2>1, <2>2, TrailWrite DEF create_version
    <2>3. CASE stage[session[h].version] # "ABSENT"
      BY <1>0, <1>4, <2>3 DEF create_version, Answer
    <2> QED BY <2>2, <2>3
  <1>5. ASSUME NEW h \in Handlers, approve_version(h) PROVE TrailInv'
    <2>1. session[h].op = "approve" /\ session[h].target = "APPROVED"
      BY <1>5 DEF approve_version, TrailInv, Validated
    <2> QED BY <1>5, <2>1, TrailWrite DEF approve_version
  <1>6. ASSUME NEW h \in Handlers, transition_version(h) PROVE TrailInv'
    BY <1>6, TrailWrite DEF transition_version
  <1>7. ASSUME NEW h \in Handlers, Abandon(h) PROVE TrailInv'
    BY <1>0, <1>7 DEF Abandon
  <1>8. CASE UNCHANGED vars
    BY <1>8 DEF vars, TrailInv, TrailMatchesStage, Validated
  <1> QED BY <1>1, <1>2, <1>3, <1>4, <1>5, <1>6, <1>7, <1>8 DEF Next

\* The row and its trail never part: the last event names the stage the row is in, and
\* every event is a legal transition, however many requests overlap.  (That the events
\* form a path needs requests that do not.)
THEOREM TrailTrue == Spec => []TrailMatchesStage
  <1>1. TrailInv => TrailMatchesStage
    BY DEF TrailInv
  <1> QED BY <1>1, TypeInit, TypeStep, TrailInit, TrailStep, PTL DEF Spec

------------------------------------------------------------------------------
\* The lifecycle when requests do not overlap

\* What a handler has read is still so, and allows what it is about to write.
ReadsCurrent ==
  \A h \in Handlers : session[h].op \in {"approve", "transition"} =>
    /\ session[h].from_stage = stage[session[h].version]
    /\ can_transition(session[h].from_stage, session[h].target)
    /\ session[h].op = "approve" => session[h].target = "APPROVED"

LEMMA ReadsCurrentStep ==
  ASSUME \A g, h \in Handlers : g = h
  PROVE  TypeOK /\ ReadsCurrent /\ [Next]_vars => ReadsCurrent'
  <1> SUFFICES ASSUME TypeOK, ReadsCurrent, [Next]_vars PROVE ReadsCurrent'
    OBVIOUS
  <1>0. ASSUME NEW h \in Handlers, session'[h] = NoSession PROVE ReadsCurrent'
    BY <1>0 DEF ReadsCurrent, NoSession
  <1>1. ASSUME NEW h \in Handlers, Refuse(h, "conflict") PROVE ReadsCurrent'
    BY <1>1 DEF ReadsCurrent, Refuse
  <1>2. ASSUME NEW h \in Handlers, NEW v \in Versions, NEW u \in Users,
               \/ BeginCreate(h, v, u)
               \/ BeginApprove(h, v, u)
               \/ \E t \in Stages : BeginTransition(h, v, t, u)
        PROVE ReadsCurrent'
    BY <1>1, <1>2 DEF BeginCreate, BeginApprove, BeginTransition, Open, ReadsCurrent, TypeOK,
                      validate_transition
  <1>3. ASSUME NEW h \in Handlers,
               create_version(h) \/ approve_version(h) \/ transition_version(h) \/ Abandon(h)
        PROVE ReadsCurrent'
    BY <1>0, <1>3 DEF create_version, approve_version, transition_version, Abandon, Answer, TypeOK
  <1>4. CASE UNCHANGED vars
    BY <1>4 DEF vars, ReadsCurrent
  <1> QED BY <1>2, <1>3, <1>4 DEF Next

\* ADR-0005: no demotions, and ARCHIVED is terminal, as long as one request is
\* served at a time.  (Two at a time lose an update: MCRegistry_lost_update.)
THEOREM SerialForwardOnly ==
  ASSUME \A g, h \in Handlers : g = h
  PROVE  Spec => ForwardOnly
  <1>1. Init => ReadsCurrent
    BY DEF Init, ReadsCurrent, NoSession
  <1>2. ASSUME TypeOK, ReadsCurrent, [Next]_vars
        PROVE  [\A v \in Versions : stage'[v] # stage[v] =>
                  \/ stage[v] = "ABSENT" /\ stage'[v] = "DRAFT"
                  \/ can_transition(stage[v], stage'[v])]_vars
    <2>1. ASSUME NEW h \in Handlers, create_version(h), NEW v \in Versions, stage'[v] # stage[v]
          PROVE  stage[v] = "ABSENT" /\ stage'[v] = "DRAFT"
      BY <1>2, <2>1 DEF create_version, TypeOK
    <2>2. ASSUME NEW h \in Handlers, approve_version(h) \/ transition_version(h),
                 NEW v \in Versions, stage'[v] # stage[v]
          PROVE  can_transition(stage[v], stage'[v])
      BY <1>2, <2>2 DEF approve_version, transition_version, ReadsCurrent, TypeOK
    <2>3. ASSUME UNCHANGED stage, NEW v \in Versions PROVE stage'[v] = stage[v]
      BY <2>3
    <2> QED BY <1>2, <2>1, <2>2, <2>3
        DEF Next, vars, BeginCreate, BeginApprove, BeginTransition, Abandon, Open, Refuse
  <1> QED BY <1>1, <1>2, TypeInit, TypeStep, ReadsCurrentStep, PTL DEF Spec, ForwardOnly

\* The trail of each version is a path and ends in its stage, and a version that is being
\* created does not exist.
PathInv ==
  /\ TrailInv /\ ReadsCurrent /\ TrailIsAPath /\ NoServerError
  /\ \A h \in Handlers : session[h].op = "create" => stage[session[h].version] = "ABSENT"

LEMMA PathInit == Init => PathInv
  <1> SUFFICES ASSUME Init PROVE PathInv
    OBVIOUS
  <1>1. ASSUME NEW v \in Versions, NEW i \in 2..Len(events[v])
        PROVE  events[v][i].from_stage = events[v][i - 1].to_stage
    <2>1. CASE stage[v] = "ABSENT"
      <3>1. events[v] = <<>>
        BY <2>1 DEF Init
      <3>2. Len(<<>>) = 0
        OBVIOUS
      <3> QED BY <1>1, <3>1, <3>2
    <2>2. CASE stage[v] # "ABSENT"
      <3> DEFINE trail == _record_lifecycle(stage[v])
      <3>1. stage[v] \in SampleStages /\ events[v] = trail
        BY <2>2 DEF Init
      <3>2. \A j \in 2..Len(trail) : trail[j].from_stage = trail[j - 1].to_stage
        BY <3>1, SampleTrail
      <3> HIDE DEF trail
      <3> QED BY <1>1, <3>1, <3>2
    <2> QED BY <2>1, <2>2
  <1> QED BY <1>1, TrailInit DEF Init, PathInv, ReadsCurrent, TrailIsAPath, NoServerError, NoSession

LEMMA PathWrite ==
  ASSUME TypeOK, PathInv, NEW h \in Handlers, session[h].op # "idle", _record_version_event(session[h])
  PROVE  TrailIsAPath'
  <1> DEFINE s == session[h]
             e == [from_stage |-> s.from_stage, to_stage |-> s.target, actor |-> s.actor]
             old == events[s.version]
  <1>1. s.version \in Versions /\ e \in Event /\ old \in Seq(Event)
        /\ s.op \in {"create", "approve", "transition"} /\ Len(old) \in Nat
    BY OpenSessions DEF TypeOK, OpenSession
  <1>2. /\ events'[s.version] = Append(old, e)
        /\ \A v \in Versions \ {s.version} : events'[v] = events[v]
    BY <1>1 DEF _record_version_event, TypeOK
  <1>3. old # <<>> => e.from_stage = old[Len(old)].to_stage
    BY <1>1 DEF PathInv, TrailInv, TrailMatchesStage, ReadsCurrent
  <1>4. ASSUME NEW i \in 2..Len(Append(old, e))
        PROVE  Append(old, e)[i].from_stage = Append(old, e)[i - 1].to_stage
    <2>1. Len(Append(old, e)) = Len(old) + 1 /\ DOMAIN old = 1..Len(old) /\ i - 1 \in 1..Len(old)
      BY <1>1
    <2>2. Append(old, e)[i - 1] = old[i - 1]
      BY <1>1, <2>1, AppendEvent
    <2>3. CASE i = Len(old) + 1
      <3>1. old # <<>> /\ i - 1 = Len(old)
        BY <1>1, <2>1, <2>3
      <3>2. Append(old, e)[i] = e
        BY <1>1, <2>3, AppendEvent
      <3> HIDE DEF e, old
      <3> QED BY <1>3, <2>2, <3>1, <3>2
    <2>4. CASE i # Len(old) + 1
      <3>1. i \in 2..Len(old) /\ i \in DOMAIN old
        BY <1>1, <2>1, <2>4
      <3>2. Append(old, e)[i] = old[i]
        BY <1>1, <3>1, AppendEvent
      <3>3. old[i].from_stage = old[i - 1].to_stage
        BY <1>1, <3>1 DEF PathInv, TrailIsAPath
      <3> QED BY <2>2, <3>2, <3>3
    <2> QED BY <2>3, <2>4
  <1>5. ASSUME NEW v \in Versions, NEW i \in 2..Len(events'[v])
        PROVE  events'[v][i].from_stage = events'[v][i - 1].to_stage
    <2>1. CASE v = s.version
      BY <1>2, <1>4, <1>5, <2>1
    <2>2. CASE v # s.version
      BY <1>2, <1>5, <2>2 DEF PathInv, TrailIsAPath
    <2> QED BY <2>1, <2>2
  <1> QED BY <1>5 DEF TrailIsAPath

LEMMA PathStep ==
  ASSUME \A g, h \in Handlers : g = h
  PROVE  TypeOK /\ PathInv /\ [Next]_vars => PathInv'
  <1> SUFFICES ASSUME TypeOK, PathInv, [Next]_vars PROVE PathInv'
    OBVIOUS
  <1>0. TrailInv' /\ ReadsCurrent'
    BY TrailStep, ReadsCurrentStep DEF PathInv
  <1>1. ASSUME NEW h \in Handlers, session'[h] = NoSession, TrailIsAPath', reply'[h] # "server_error"
        PROVE  PathInv'
    BY <1>0, <1>1 DEF PathInv, NoServerError, NoSession
  <1>2. ASSUME NEW h \in Handlers, Refuse(h, "conflict") PROVE PathInv'
    BY <1>0, <1>2 DEF PathInv, Refuse, TrailIsAPath, NoServerError, TypeOK
  <1>3. ASSUME NEW h \in Handlers, NEW v \in Versions, NEW u \in Users,
               \/ BeginCreate(h, v, u)
               \/ BeginApprove(h, v, u)
               \/ \E t \in Stages : BeginTransition(h, v, t, u)
        PROVE  PathInv'
    <2>1. CASE Refuse(h, "conflict")
      BY <1>2, <2>1
    <2>2. CASE ~Refuse(h, "conflict")
      <3>1. UNCHANGED <<stage, events, reply>> /\ (session'[h].op = "create" => stage[session'[h].version] = "ABSENT")
        <4>1. CASE BeginCreate(h, v, u)
          BY <2>2, <4>1 DEF BeginCreate, Open, TypeOK
        <4>2. ASSUME BeginApprove(h, v, u)
              PROVE  UNCHANGED <<stage, events, reply>> /\ session'[h].op = "approve"
          <5>1. Open(h, [op |-> "approve", version |-> v, actor |-> u, from_stage |-> stage[v],
                         target |-> "APPROVED", approvedBy |-> approvedBy[v]])
            BY <2>2, <4>2 DEF BeginApprove
          <5> QED BY <5>1 DEF Open, TypeOK
        <4>3. ASSUME NEW t \in Stages, BeginTransition(h, v, t, u)
              PROVE  UNCHANGED <<stage, events, reply>> /\ session'[h].op = "transition"
          BY <2>2, <4>3 DEF BeginTransition, Open, TypeOK
        <4> QED BY <1>3, <4>1, <4>2, <4>3
      <3> QED BY <1>0, <3>1 DEF PathInv, TrailIsAPath, NoServerError
    <2> QED BY <2>1, <2>2
  <1>4. ASSUME NEW h \in Handlers, create_version(h) PROVE PathInv'
    <2>1. stage[session[h].version] = "ABSENT" /\ session[h].op # "idle"
      BY <1>4 DEF create_version, PathInv
    <2> QED BY <1>1, <1>4, <2>1, PathWrite DEF create_version, Answer, TypeOK
  <1>5. ASSUME NEW h \in Handlers, approve_version(h) \/ transition_version(h) PROVE PathInv'
    BY <1>1, <1>5, PathWrite DEF approve_version, transition_version, Answer, TypeOK
  <1>6. ASSUME NEW h \in Handlers, Abandon(h) PROVE PathInv'
    BY <1>1, <1>6 DEF Abandon, PathInv, TrailIsAPath, NoServerError, TypeOK
  <1>7. CASE UNCHANGED vars
    BY <1>0, <1>7 DEF vars, PathInv, TrailIsAPath, NoServerError
  <1> QED BY <1>3, <1>4, <1>5, <1>6, <1>7 DEF Next

\* One request at a time, the trail tells the whole story: every event starts where the
\* one before it ended.
THEOREM SerialTrail ==
  ASSUME \A g, h \in Handlers : g = h
  PROVE  Spec => []TrailIsAPath
  <1>1. PathInv => TrailIsAPath
    BY DEF PathInv
  <1> QED BY <1>1, TypeInit, TypeStep, PathInit, PathStep, PTL DEF Spec

\* One request at a time, no creation fails on the constraint it has just checked.
THEOREM SerialCreate ==
  ASSUME \A g, h \in Handlers : g = h
  PROVE  Spec => []NoServerError
  <1>1. PathInv => NoServerError
    BY DEF PathInv
  <1> QED BY <1>1, TypeInit, TypeStep, PathInit, PathStep, PTL DEF Spec
=============================================================================
