-------------------------- MODULE MCProviderUpdate --------------------------
(* Small instances of ProviderUpdate.                                      *)
EXTENDS ProviderUpdate
=============================================================================
