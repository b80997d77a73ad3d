---------------------------- MODULE MCDiscovery ----------------------------
(* Small instances of Discovery for TLC.                                   *)
EXTENDS Discovery, TLC

CONSTANTS c1, c2

\* client_out and gogup_mcast do what gogup_client does.
AllPrograms ==
  {gogup_client, client_out, gogup_mcast, gogup_without_mcast, client, client_core, tcp_client}

\* One client is a gogup_client, the other any of the programs.
GogupAndAny == (c1 :> {gogup_client}) @@ (c2 :> AllPrograms)
=============================================================================
