---------------------------- MODULE MCMcpSession ----------------------------
(* Instances of McpSession for TLC: Calls is a set of model values.        *)
EXTENDS McpSession
=============================================================================
