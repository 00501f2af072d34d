---------------------------- MODULE MCMcpManager ----------------------------
(* Two servers, one with two tools, and a name they share.                 *)
EXTENDS McpManager

ServerCountMC == 2
ToolsMC == {"a", "b"}
OffersMC == <<{"a", "b"}, {"a"}>>
QualifiedMC == <<[a |-> "n", b |-> "n1"], [a |-> "n", b |-> "n2"]>>
MaxPagesMC == 2
=============================================================================
