----------------------------- MODULE MCRecovery -----------------------------
(***************************************************************************)
(* Recovery with the instances of MCServer: two expected requests, so that *)
(* every life can reach both write-backs.                                  *)
(***************************************************************************)
EXTENDS MCServer, Recovery

=============================================================================
