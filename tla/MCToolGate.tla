----------------------------- MODULE MCToolGate -----------------------------
(* Instance of ToolGate for TLC: the rules tell one input from another.     *)
EXTENDS ToolGate

CONSTANTS Plain, Risky

MCModes == {"read_only", "workspace_write", "danger_full_access"}
MCRuleSets == {{}, {<<"bash", Risky>>, <<"write_file", Risky>>}}
MCToolLists == {Tools \ {"read_file"}}
=============================================================================
