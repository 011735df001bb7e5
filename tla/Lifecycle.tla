----------------------------- MODULE Lifecycle -----------------------------
(* The two rule tables every other component asks: the lifecycle of a model   *)
(* version (app/services/lifecycle.py) and the stage gate of deployments      *)
(* (app/services/deployment_policy.py); and the path that the sample data     *)
(* take through the first.  All are pure; nothing here has state.             *)

Stages == {"DRAFT", "VALIDATED", "APPROVED", "STAGING", "PRODUCTION", "ARCHIVED"}

EnvironmentNames == {"DEVELOPMENT", "STAGING", "PRODUCTION"}

\* The table as a relation: one step forward at a time, or retirement from any
\* stage but ARCHIVED itself.
ALLOWED_TRANSITIONS ==
  { <<"DRAFT", "VALIDATED">>, <<"VALIDATED", "APPROVED">>,
    <<"APPROVED", "STAGING">>, <<"STAGING", "PRODUCTION">> }
  \union ((Stages \ {"ARCHIVED"}) \X {"ARCHIVED"})

REQUIRES_APPROVAL == {"APPROVED", "STAGING", "PRODUCTION"}

can_transition(current, target) == <<current, target>> \in ALLOWED_TRANSITIONS

\* Mutants: the table, or the approval, is not consulted.
AnyTransition(current, target, approved) ==
  current # target /\ (target \in REQUIRES_APPROVAL => approved)
NoApproval(current, target, approved) == can_transition(current, target)

\* validate_transition returns (rather than raises) exactly when this holds.
validate_transition(current, target, approved) ==
  /\ current # target
  /\ can_transition(current, target)
  /\ target \in REQUIRES_APPROVAL => approved

\* The stages that a version of the sample has been led through, after DRAFT.
_STAGE_CHAIN ==
  [DRAFT      |-> <<>>,
   VALIDATED  |-> <<"VALIDATED">>,
   APPROVED   |-> <<"VALIDATED", "APPROVED">>,
   STAGING    |-> <<"VALIDATED", "APPROVED", "STAGING">>,
   PRODUCTION |-> <<"VALIDATED", "APPROVED", "STAGING", "PRODUCTION">>,
   ARCHIVED   |-> <<"VALIDATED", "APPROVED", "STAGING", "PRODUCTION", "ARCHIVED">>]

DEPLOYABLE_STAGES ==
  [ DEVELOPMENT |-> Stages \ {"DRAFT", "ARCHIVED"},
    STAGING     |-> {"STAGING", "PRODUCTION"},
    PRODUCTION  |-> {"PRODUCTION"} ]

is_deployable(stage, environment) == stage \in DEPLOYABLE_STAGES[environment]
=============================================================================
