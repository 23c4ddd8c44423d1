---------------------------- MODULE MCBurnPublish ----------------------------
(***************************************************************************)
(* All setups of FastForwardBranch in one run.                             *)
(***************************************************************************)
EXTENDS BurnPublish

AllSetups == {"mirror", "shared", "local"}
=============================================================================
