----------------------------- MODULE MCCloudSync -----------------------------
(* An instance of CloudSync for TLC.                                       *)
EXTENDS CloudSync
=============================================================================
