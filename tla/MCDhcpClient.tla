---------------------------- MODULE MCDhcpClient ----------------------------
(* Two servers, of which one answers only what is meant for it and the     *)
(* other neither selects nor names itself.                                 *)
EXTENDS DhcpClient, TLC

MCAddrOf == "s1" :> "a1" @@ "s2" :> "a2"

=============================================================================
