----------------------------- MODULE MCRegistry -----------------------------
(* Instances of Registry for TLC: an engineer who registers versions, and an  *)
(* approver and an administrator who approve and promote them.                *)
EXTENDS Registry, TLC

CONSTANTS eng, app, adm

MCUsers == {eng, app, adm}
MCRole == (eng :> "ENGINEER") @@ (app :> "APPROVER") @@ (adm :> "ADMIN")
HandlerSymmetry == Permutations(Handlers)
=============================================================================
