----------------------------- MODULE MCCampaign -----------------------------
(* The story has no parameters; the module gives the bound of the purse.   *)
EXTENDS Campaign

Purse == 2
=============================================================================
