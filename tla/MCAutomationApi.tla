--------------------------- MODULE MCAutomationApi ---------------------------
(* Values of the constants of AutomationApi for TLC. *)
EXTENDS AutomationApi

AllRequests == Endpoints
AddOnly == {"add"}
=============================================================================
