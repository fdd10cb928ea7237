------------------------------ MODULE MCGateway ------------------------------
(* Instances of Gateway for TLC.                                           *)
EXTENDS GatewayInvariants

(* One stored session: an answered prompt and one whose turn was stopped.  *)
OneStored ==
  {<<UserMsg(0), AssistantMsg(0, 0), UserMsg(0), AssistantMsg(0, 1)>>}
=============================================================================
