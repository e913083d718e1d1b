---------------------------- MODULE MCSeleniumApi ----------------------------
(* Values of the constants of SeleniumApi for TLC. *)
EXTENDS SeleniumApi

AllRequests == Endpoints
AddOnly == {"add_to_cart"}
=============================================================================
