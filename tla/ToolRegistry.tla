---------------------------- MODULE ToolRegistry ----------------------------
(***************************************************************************)
(* GlobalToolRegistry.execute, the permission enforcer it asks, and what   *)
(* each built-in executor can do: one tool call against one environment    *)
(* yields a set of possible results.  A result says whether the content    *)
(* starts with "ERROR:" (ok), whether the call is a finish, whether plan   *)
(* mode is active afterwards, and which part of the outside world it       *)
(* touched.  The content of a finish is its summary; the one summary told  *)
(* apart from the others is the finish guard's message, an "ERROR:".       *)
(***************************************************************************)
EXTENDS Naturals

Modes == {"read-only", "workspace-write", "danger-full-access"}
Policies == {"never", "on-failure", "on-request"}

(* The built-in tools, with one representative per group of tools that     *)
(* execute alike: read_file stands for list_files and search_files,        *)
(* write_file for edit_file; mcp is any tool discovered from a server,     *)
(* unknown a name that is not registered, bad_json a call whose arguments  *)
(* do not parse.                                                           *)
Kinds == {"read_file", "write_file", "run_command", "mcp", "todo_write",
          "ask_user_question", "enter_plan_mode", "exit_plan_mode", "finish",
          "unknown", "bad_json"}

\* What a call can change outside the transcript.
Effects == {"files", "shell", "risky", "mcp", "todos"}

Rank(mode) == CASE mode = "read-only" -> 0
                [] mode = "workspace-write" -> 1
                [] mode = "danger-full-access" -> 2

PermissionAllows(max, required) == Rank(required) <= Rank(max)

RequiredPermission(kind) ==
    IF kind \in {"write_file", "run_command", "mcp"}
    THEN "workspace-write" ELSE "read-only"

(* env: [sandbox: Modes, policy: Policies, tty: BOOLEAN]; planned is the   *)
(* conversation's plan-mode flag when the call starts.                     *)
Result(ok, finish, planned, effect) ==
    [ok |-> ok, finish |-> finish, plan |-> planned, effect |-> effect]

Rejected(planned) == Result(FALSE, FALSE, planned, "none")

\* A risky command runs unless on-request asks for it and nobody agrees; the
\* prompt answers no by itself when there is no terminal.
CommandRuns(env, planned) ==
    {Result(TRUE, FALSE, planned, "shell")}
    \cup (IF env.policy # "on-request" \/ env.tty
          THEN {Result(TRUE, FALSE, planned, "risky")} ELSE {})

ExitsPlanMode(env, planned) ==
    CASE ~planned  -> {Result(TRUE, FALSE, FALSE, "none")}
      [] planned /\ ~env.tty -> {Result(TRUE, FALSE, FALSE, "none")}
      [] planned /\ env.tty  -> {Result(TRUE, FALSE, yes, "none") : yes \in BOOLEAN}

\* What an executor returns when it does not throw and does not refuse.
Succeeds(kind, env, planned) ==
    CASE kind \in {"read_file", "ask_user_question"}
                                  -> {Result(TRUE, FALSE, planned, "none")}
      [] kind = "write_file"      -> {Result(TRUE, FALSE, planned, "files")}
      [] kind = "run_command"     -> CommandRuns(env, planned)
      [] kind = "mcp"             -> {Result(ok, FALSE, planned, "mcp") : ok \in BOOLEAN}
      [] kind = "todo_write"      -> {Result(TRUE, FALSE, planned, "todos")}
      [] kind = "enter_plan_mode" -> {Result(TRUE, FALSE, TRUE, "none")}
      [] kind = "exit_plan_mode"  -> ExitsPlanMode(env, planned)
      [] kind = "finish"          -> {Result(ok, TRUE, planned, "none") : ok \in BOOLEAN}
      [] OTHER                    -> {}

\* Plan mode lets only read-only tools through, and exit_plan_mode itself.
BlockedByPlanMode(kind, planned) ==
    /\ planned
    /\ kind # "exit_plan_mode"
    /\ ~PermissionAllows("read-only", RequiredPermission(kind))

Permitted(kind, env, planned) ==
    /\ kind \notin {"unknown", "bad_json"}
    /\ PermissionAllows(env.sandbox, RequiredPermission(kind))
    /\ ~BlockedByPlanMode(kind, planned)

(* Every executor can also fail (a missing argument, an I/O error): the    *)
(* registry turns the exception into an ERROR result.                      *)
Execute(kind, env, planned) ==
    {Rejected(planned)} \cup
    (IF Permitted(kind, env, planned) THEN Succeeds(kind, env, planned) ELSE {})

\* Variant: an edit that failed counts too.
SuccessfulModification_AnyEdit(kind, ok) == ok \in BOOLEAN /\ kind = "write_file"

\* isSuccessfulModificationTool: what lifts the finish guard.
SuccessfulModification(kind, ok) == ok /\ kind = "write_file"
=============================================================================
