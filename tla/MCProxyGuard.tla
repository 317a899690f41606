---------------------------- MODULE MCProxyGuard ----------------------------
(***************************************************************************)
(* An instance of ProxyGuard for TLC: one group that admits every member.  *)
(***************************************************************************)
EXTENDS ProxyGuard, TLC

OneGroup == "all" :> Node
=============================================================================
