------------------------------ MODULE ToolGate ------------------------------
(***************************************************************************)
(* What stands between a tool call of the model and the tool, in the Rust  *)
(* runtime: the PreToolUse hooks (programs that may veto, rewrite the      *)
(* input or override the decision), the permission policy with its rules   *)
(* and its prompt, the executor's own checks, and the PostToolUse hooks.   *)
(* ConversationRuntime::run_turn takes the calls of a reply one by one; a  *)
(* thread may raise the abort signal (Ctrl-C) at any moment.  An agent is  *)
(* the same loop with a policy of its own, an enforcer in its executor, no *)
(* prompter and no hooks.                                                  *)
(***************************************************************************)
EXTENDS Naturals

CONSTANTS
    Inputs,      \* inputs of a tool call, as the rules tell them apart
    Modes,       \* the modes a session may be started in
    RuleSets,    \* lists of rules: the <<tool, input>> pairs they match
    ToolLists,   \* what --allowedTools may name
    NoInput,     \* None
    MaxHooks,    \* hooks configured for an event (a bound of the model)
    MaxCalls     \* calls in the reply (a bound of the model)

ASSUME GateAssumption == NoInput \notin Inputs

\* PermissionMode derives Ord from the order of its variants.
Level == [read_only |-> 1, workspace_write |-> 2, danger_full_access |-> 3,
          prompt |-> 4, allow |-> 5]

Requires == [read_file |-> "read_only", write_file |-> "workspace_write",
             bash |-> "danger_full_access", unknown |-> "danger_full_access"]
Tools == DOMAIN Requires

\* authorize_with_context up to the prompt.
Covered(policy, tool, input) ==
    \/ <<tool, input>> \in policy.allow
    \/ policy.mode = "allow"
    \/ Level[policy.mode] >= Level[Requires[tool]]

Escalates(policy, tool) ==
    \/ policy.mode = "prompt"
    \/ policy.mode = "workspace_write" /\ Requires[tool] = "danger_full_access"

\* Variant: a hook's "allow" is the last word after the deny rules.
Decide_HookAllows(policy, tool, input, override) ==
    IF <<tool, input>> \in policy.deny \/ override = "deny" THEN "deny"
    ELSE IF override = "allow" THEN "allow"
    ELSE IF override = "ask" \/ <<tool, input>> \in policy.ask THEN "prompt"
    ELSE IF Covered(policy, tool, input) THEN "allow"
    ELSE IF Escalates(policy, tool) THEN "prompt" ELSE "deny"

(* A deny rule, then what the hooks said, then the ask rules, then the     *)
(* allow rules and the mode.  A hook's "allow" decides nothing by itself:  *)
(* ask rules still ask, and the mode must still cover the tool.            *)
Decide(policy, tool, input, override) ==
    IF <<tool, input>> \in policy.deny \/ override = "deny" THEN "deny"
    ELSE IF override = "ask" \/ <<tool, input>> \in policy.ask THEN "prompt"
    ELSE IF Covered(policy, tool, input) THEN "allow"
    ELSE IF Escalates(policy, tool) THEN "prompt" ELSE "deny"

\* A bash command counts as read-only or not (classify_bash_permission), which
\* is never less than workspace-write.
BashModes == {"workspace_write", "danger_full_access"}

\* The enforcer of an agent's executor; a mode of "prompt" is left to the caller.
Enforced(policy, tool, input) ==
    \/ policy.mode = "prompt"
    \/ tool = "bash" /\ \E mode \in BashModes : Level[policy.mode] >= Level[mode]
    \/ tool # "bash" /\ Decide(policy, tool, input, "none") = "allow"

VARIABLES
    setup,       \* the policy, the tool list and the hooks of this session
    aborted,     \* HookAbortSignal
    calls,       \* calls of the reply still to be taken, this one included
    call,        \* the call that is handled; its input is the effective one
    step,        \* where run_turn is with it
    hook,        \* how many hooks of the event have run, and the one under way
    said,        \* HookRunResult
    approved,    \* the input the prompt was answered yes for
    ran,         \* the input the tool was executed with
    vetoed,      \* the event whose hooks refuse this call, by what they said last
    result       \* is_error of the tool_result

gateVars == <<setup, aborted, calls, call, step, hook, said, approved, ran, vetoed, result>>

NothingSaid == [stop |-> "no", override |-> "none", input |-> NoInput]
NoHook == [done |-> 0, child |-> "none"]

\* What the command line and the settings give a session; what the spawn gives
\* an agent.
Setups ==
    [who : {"cli"}, allowed : ToolLists,
     hooks : [pre : 0 .. MaxHooks, post : 0 .. 1],
     policy : [mode : Modes, deny : RuleSets, ask : RuleSets, allow : RuleSets]]
    \cup
    [who : {"agent"}, allowed : ToolLists, hooks : {[pre |-> 0, post |-> 0]},
     policy : {[mode |-> "danger_full_access", deny |-> {}, ask |-> {}, allow |-> {}]}]

GateInit ==
    /\ setup \in Setups
    /\ aborted = FALSE
    /\ calls = MaxCalls
    /\ call \in [tool : Tools, input : Inputs]
    /\ step = "pre" /\ hook = NoHook /\ said = NothingSaid
    /\ approved = NoInput /\ ran = NoInput /\ vetoed = "no" /\ result = "none"

\* Ctrl-C: the monitor thread raises the signal of this turn.
Abort ==
    /\ ~aborted /\ step # "done"
    /\ aborted' = TRUE
    /\ UNCHANGED <<setup, calls, call, step, hook, said, approved, ran, vetoed, result>>

InHooks == step \in {"pre", "post"}
Configured == setup.hooks[step]
HooksSettled == <<setup, aborted, calls, call, step, approved, ran, result>>

\* run_commands with a list that is not empty and the signal already raised.
CancelledBefore ==
    /\ InHooks /\ hook = NoHook /\ Configured > 0 /\ aborted /\ said.stop = "no"
    /\ said' = [said EXCEPT !.stop = "cancelled"]
    /\ vetoed' = step
    /\ UNCHANGED <<hook, HooksSettled>>

\* The next hook is spawned, and the payload written to its stdin.
SpawnHook ==
    /\ InHooks /\ hook.child = "none" /\ hook.done < Configured /\ said.stop = "no"
    /\ hook.done > 0 \/ ~aborted
    /\ hook' = [hook EXCEPT !.child = "fed"]
    /\ UNCHANGED <<said, vetoed, HooksSettled>>

HookTakesPayload ==
    /\ hook.child = "fed"
    /\ hook' = [hook EXCEPT !.child = "running"]
    /\ UNCHANGED <<said, vetoed, HooksSettled>>

\* A hook that blocks, fails or is killed is the last; a permission decision
\* stands until a later hook takes another.
HookEnds(stop, override, merged) ==
    /\ hook' = [done |-> hook.done + 1, child |-> "none"]
    /\ said' = merged
    /\ vetoed' = IF stop # "no" \/ override = "deny" THEN step
                 ELSE IF override = "none" THEN vetoed ELSE "no"
    /\ UNCHANGED HooksSettled

\* Variant: a hook that fails is taken for one that had nothing to say.
Merged_FailedGoesOn(stop, override, input) ==
    [stop |-> IF stop = "failed" THEN "no" ELSE stop,
     override |-> IF override = "none" THEN said.override ELSE override,
     input |-> IF input = NoInput THEN said.input ELSE input]

\* merge_parsed_hook_output: what a later hook says replaces what earlier ones said.
Merged(stop, override, input) ==
    [stop |-> stop,
     override |-> IF override = "none" THEN said.override ELSE override,
     input |-> IF input = NoInput THEN said.input ELSE input]

\* What a hook's output may say; run_turn reads it before the tool runs only.
Overrides == IF step = "pre" THEN {"none", "allow", "deny", "ask"} ELSE {"none"}
Updates == IF step = "pre" THEN Inputs \cup {NoInput} ELSE {NoInput}

\* try_wait sees that the hook is gone; what it said is read to the end of its pipes.
HookExits ==
    /\ hook.child = "running"
    /\ hook' = [hook EXCEPT !.child = "exited"]
    /\ UNCHANGED <<said, vetoed, HooksSettled>>

\* Exit 0 allows unless the output blocks; exit 2 denies; any other end fails.
HookHeard ==
    /\ hook.child = "exited"
    /\ \E stop \in {"no", "denied", "failed"}, override \in Overrides, input \in Updates :
            HookEnds(stop, override, Merged(stop, override, input))

\* The hook cannot be spawned, or is gone before it took its stdin: the write
\* fails, and what the hook said is not read.
HookBreaks ==
    /\ hook.child = "fed"
    /\ HookEnds("failed", "none", Merged("failed", "none", NoInput))

\* Variant: the signal is looked at only before the hooks start.
KillHook_Never == FALSE /\ UNCHANGED gateVars

\* The wait for the hook looks at the signal every 20 ms, once the payload is taken;
\* after the kill its pipes are read to their end as well.
KillHook ==
    /\ hook.child = "running" /\ aborted
    /\ hook' = [hook EXCEPT !.child = "killed"]
    /\ UNCHANGED <<said, vetoed, HooksSettled>>

KilledOver ==
    /\ hook.child = "killed"
    /\ HookEnds("cancelled", "none", [said EXCEPT !.stop = "cancelled"])

\* No timer and no signal ends these waits: a hook that never reads a payload its
\* pipe does not hold, or a process it leaves behind that keeps its pipes open.
PipesHeld ==
    /\ hook.child \in {"fed", "exited", "killed"}
    /\ hook' = [hook EXCEPT !.child = "held"]
    /\ UNCHANGED <<said, vetoed, HooksSettled>>

HooksOver ==
    InHooks /\ hook.child = "none" /\ (hook.done = Configured \/ said.stop # "no")
Effective == IF said.input = NoInput THEN call.input ELSE said.input

Told(isError) ==
    /\ step' = "told" /\ result' = IF isError THEN "error" ELSE "ok"
    /\ UNCHANGED <<approved, ran>>
GoTo(next) == step' = next /\ UNCHANGED <<approved, ran, result>>

\* Variant: the policy sees the input the model wrote.
Authorize_ModelsInput ==
    LET decided == Decide(setup.policy, call.tool, call.input, said.override)
    IN  /\ step = "pre" /\ HooksOver
        /\ call' = [call EXCEPT !.input = Effective]
        /\ IF said.stop # "no" \/ decided = "deny" \/ (decided = "prompt" /\ setup.who = "agent")
           THEN Told(TRUE)
           ELSE GoTo(IF decided = "prompt" THEN "prompt" ELSE "execute")
        /\ UNCHANGED <<setup, aborted, calls, hook, said, vetoed>>

\* The hooks' verdict comes first; then the policy, which sees the input the
\* hooks left; without a prompter a prompt is a refusal.
Authorize ==
    LET decided == Decide(setup.policy, call.tool, Effective, said.override)
    IN  /\ step = "pre" /\ HooksOver
        /\ call' = [call EXCEPT !.input = Effective]
        /\ IF said.stop # "no" \/ decided = "deny" \/ (decided = "prompt" /\ setup.who = "agent")
           THEN Told(TRUE)
           ELSE GoTo(IF decided = "prompt" THEN "prompt" ELSE "execute")
        /\ UNCHANGED <<setup, aborted, calls, hook, said, vetoed>>

\* CliPermissionPrompter: y or yes approves, anything else and a read error refuse.
Answer ==
    /\ step = "prompt"
    /\ \/ step' = "execute" /\ approved' = call.input /\ UNCHANGED <<ran, result>>
       \/ Told(TRUE)
    /\ UNCHANGED <<setup, aborted, calls, call, hook, said, vetoed>>

\* The executor's own checks: the tool list, and for an agent the enforcer; a
\* tool nobody has is an error.
Accepted ==
    /\ call.tool \in setup.allowed /\ call.tool # "unknown"
    /\ setup.who = "agent" => Enforced(setup.policy, call.tool, call.input)

\* The tool runs and ends well or not; input that is not JSON is refused unrun.
Execute ==
    /\ step = "execute"
    /\ \/ Accepted /\ ran' = call.input /\ result' \in {"ok", "error"}
       \/ ran' = ran /\ result' = "error"
    /\ step' = "post" /\ hook' = NoHook /\ said' = NothingSaid
    /\ UNCHANGED <<setup, aborted, calls, call, approved, vetoed>>

\* A post hook that refuses, fails or is cancelled makes the result an error.
PostHooksOver ==
    /\ step = "post" /\ HooksOver
    /\ Told(result = "error" \/ said.stop # "no")
    /\ UNCHANGED <<setup, aborted, calls, call, hook, said, vetoed>>

NextCall ==
    /\ step = "told" /\ calls > 1
    /\ calls' = calls - 1
    /\ call' \in [tool : Tools, input : Inputs]
    /\ step' = "pre" /\ hook' = NoHook /\ said' = NothingSaid
    /\ approved' = NoInput /\ ran' = NoInput /\ vetoed' = "no" /\ result' = "none"
    /\ UNCHANGED <<setup, aborted>>

LastCall ==
    /\ step = "told" /\ calls = 1
    /\ step' = "done"
    /\ UNCHANGED <<setup, aborted, calls, call, hook, said, approved, ran, vetoed, result>>

\* A wait for the pipes of a hook: it ends, or never does.
PipesEnd == HookTakesPayload \/ HookBreaks \/ HookHeard \/ KilledOver \/ PipesHeld

GateNext ==
    \/ Abort \/ CancelledBefore \/ SpawnHook \/ HookExits \/ KillHook \/ PipesEnd
    \/ Authorize \/ Answer \/ Execute \/ PostHooksOver \/ NextCall \/ LastCall

GateSpec == GateInit /\ [][GateNext]_gateVars

\* The loop goes on by itself.  A hook, a tool and a prompt may take for ever, and
\* that a wait for pipes never ends is a step of its own.
GateFairSpec ==
    /\ GateSpec
    /\ WF_gateVars(CancelledBefore) /\ WF_gateVars(SpawnHook)
    /\ WF_gateVars(PipesEnd) /\ WF_gateVars(KillHook)
    /\ WF_gateVars(Authorize) /\ WF_gateVars(PostHooksOver)
    /\ WF_gateVars(NextCall) /\ WF_gateVars(LastCall)
-----------------------------------------------------------------------------
\* However hooks rewrite and override, a tool never runs with an input a deny
\* rule matches, and with one an ask rule matches only when the user said yes
\* to that very input.
RulesHold ==
    ran # NoInput =>
        /\ <<call.tool, ran>> \notin setup.policy.deny
        /\ <<call.tool, ran>> \in setup.policy.ask => approved = ran

\* Nothing runs above the session's mode unless an allow rule or the user let
\* this input through: a hook's "allow" is not enough.
ModeHolds ==
    ran # NoInput =>
        \/ Level[setup.policy.mode] >= Level[Requires[call.tool]]
        \/ <<call.tool, ran>> \in setup.policy.allow
        \/ approved = ran

\* What the PreToolUse hooks refuse does not run, and what hooks refuse is an error
\* to the model: a hook that blocks, fails or is cancelled is never overruled, and
\* of several permission decisions the last counts, so that a denial stands unless
\* a later hook says "allow" or "ask".
VetoHolds ==
    /\ vetoed = "pre" => ran = NoInput
    /\ vetoed # "no" /\ step = "told" => result = "error"

\* Ctrl-C brings the calls of the reply to their end, also while a hook runs that
\* never ends by itself, unless its payload is never taken or its pipes are held, or
\* a tool never ends or a prompt is never answered.
AbortEndsCalls ==
    aborted ~> \/ step = "done" \/ hook.child = "held"
               \/ [](step \in {"prompt", "execute"})
=============================================================================
