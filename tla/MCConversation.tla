--------------------------- MODULE MCConversation ---------------------------
(* Instances of Conversation for TLC: a small window, so that transcripts of *)
(* a few messages are compacted.                                             *)
EXTENDS Conversation

FileKinds == {"read_file", "write_file", "finish"}
ToolKinds == {"write_file", "run_command", "enter_plan_mode", "exit_plan_mode", "finish"}
SandboxWrite == {"workspace-write"}
PolicyFailure == {"on-failure"}
PolicyRequest == {"on-failure", "on-request"}
NoTerminal == {FALSE}
OneSize == {1}
=============================================================================
