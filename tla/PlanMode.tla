------------------------------ MODULE PlanMode ------------------------------
(***************************************************************************)
(* The EnterPlanMode and ExitPlanMode tools: the permission mode in the    *)
(* worktree's settings file is set to "plan", and the mode it had is kept  *)
(* in a state file beside it until it is given back.  The two files are    *)
(* written one after the other, and the user, an editor or the Config tool *)
(* of a background agent changes the settings at any time.                 *)
(***************************************************************************)
EXTENDS Integers, Sequences

CONSTANTS
    Modes,         \* the modes a user sets other than "plan"
    MaxEdits       \* changes of the settings from outside (a bound)

Unset == "unset"              \* the key is not in the file
Settings == Modes \union {"plan", Unset}
NoState == [kind |-> "none"]
TornSettings == "torn"        \* a part of the file, which does not parse
TornState == [kind |-> "torn"]
StateWith(mode) == [kind |-> "kept", previous |-> mode]

VARIABLES
    planSettings,   \* permissions.defaultMode in the settings file
    planState,      \* tool-state/plan-mode.json
    planTodo,       \* the writes the tool that runs has left
    planWanted,     \* what the user last set (history)
    planMixed,      \* the user set the mode while a state was kept (history)
    planCut,        \* a write of the settings stopped short and left no mode
                    \* in them, and no other was set since (history)
    planEdits

planVars ==
    <<planSettings, planState, planTodo, planWanted, planMixed, planCut, planEdits>>

PlanInit ==
    /\ planSettings \in Settings /\ planWanted = planSettings
    /\ planState = NoState
    /\ planTodo = <<>> /\ planMixed = FALSE /\ planCut = FALSE /\ planEdits = 0

WriteState(mode) == [file |-> "state", value |-> StateWith(mode)]
ClearState == [file |-> "state", value |-> NoState]
WriteSettings(mode) == [file |-> "settings", value |-> mode]

(* Nothing when plan mode is on, by the tool or by hand; a state left from *)
(* a plan mode that was changed outside is cleared and written anew.       *)
EnterWrites ==
    IF planSettings = "plan" THEN <<>>
    ELSE IF planState = NoState
         THEN <<WriteState(planSettings), WriteSettings("plan")>>
         ELSE <<ClearState, WriteState(planSettings), WriteSettings("plan")>>

\* Variant: the state is cleared before the settings are given back.
ExitWrites_ClearFirst ==
    IF planState = NoState THEN <<>>
    ELSE IF planSettings # "plan" THEN <<ClearState>>
    ELSE <<ClearState, WriteSettings(planState.previous)>>

(* Without a state nothing is active; a state beside another mode is       *)
(* stale; else the mode that was kept, or its absence, is given back.      *)
ExitWrites ==
    IF planState = NoState THEN <<>>
    ELSE IF planSettings # "plan" THEN <<ClearState>>
    ELSE <<WriteSettings(planState.previous), ClearState>>

\* A torn file does not parse: the tool returns an error before any write.
Tool(writes) ==
    /\ planTodo = <<>> /\ planSettings # TornSettings /\ planState # TornState
    /\ writes # <<>> /\ planTodo' = writes
    /\ UNCHANGED <<planSettings, planState, planWanted, planMixed, planCut, planEdits>>

EnterPlanMode == Tool(EnterWrites)
ExitPlanMode == Tool(ExitWrites)

PlanWrite ==
    /\ planTodo # <<>> /\ planTodo' = Tail(planTodo)
    /\ IF Head(planTodo).file = "state"
       THEN planState' = Head(planTodo).value /\ UNCHANGED planSettings
       ELSE planSettings' = Head(planTodo).value /\ UNCHANGED planState
    /\ UNCHANGED <<planWanted, planMixed, planCut, planEdits>>

(* A write fails, or the process dies, before the next write or in the     *)
(* middle of one: fs::write has emptied the file, which reads as no state  *)
(* or as settings without a mode, or has left a part of it.                *)
WritesStop ==
    /\ planTodo # <<>> /\ planTodo' = <<>>
    /\ \/ UNCHANGED <<planSettings, planState, planCut>>
       \/ /\ Head(planTodo).file = "state" /\ Head(planTodo).value # NoState
          /\ planState' \in {NoState, TornState}
          /\ UNCHANGED <<planSettings, planCut>>
       \/ /\ Head(planTodo).file = "settings"
          /\ planSettings' \in {Unset, TornSettings}
          /\ planCut' = (planCut \/ planSettings' = Unset)
          /\ UNCHANGED planState
    /\ UNCHANGED <<planWanted, planMixed, planEdits>>

(* The Config tool or an editor.  The tool that runs writes the settings   *)
(* it read before, so a change in between may be lost.                     *)
Edit(mode) ==
    /\ planEdits < MaxEdits /\ planEdits' = planEdits + 1
    /\ mode # planSettings
    /\ planSettings' = mode /\ planWanted' = mode /\ planCut' = FALSE
    /\ planMixed' = \/ planTodo # <<>>
                    \/ planState # NoState /\ (mode = "plan" \/ planMixed)
    /\ UNCHANGED <<planState, planTodo>>

\* Their own write of the settings stops short.
EditCut ==
    /\ planEdits < MaxEdits /\ planEdits' = planEdits + 1
    /\ planSettings' \in {Unset, TornSettings} /\ planCut' = TRUE
    /\ planMixed' = (planMixed \/ planTodo # <<>>)
    /\ UNCHANGED <<planState, planTodo, planWanted>>

PlanNext ==
    \/ EnterPlanMode \/ ExitPlanMode \/ PlanWrite \/ WritesStop
    \/ EditCut \/ \E mode \in Settings : Edit(mode)

PlanSpec == PlanInit /\ [][PlanNext]_planVars
-----------------------------------------------------------------------------
\* Between two tool calls the user's own mode is never lost, wherever an earlier
\* call was cut off: it is in force, or the state keeps it and an exit gives it
\* back, at once or when torn settings, which both tools refuse, are mended.
\* Two things are left out: the user set "plan" by hand over a state, or changed
\* the settings while a tool was writing them; and a write of the settings that
\* stopped short left no mode in them, which the tools take for a change made
\* outside, so that the next call clears the mode that was kept.
PlanModeGivesBack ==
    planTodo = <<>> /\ ~planMixed /\ ~planCut =>
        \/ planSettings = planWanted
        \/ planSettings \in {"plan", TornSettings} /\ planState = StateWith(planWanted)
=============================================================================
