----------------------------- MODULE LaneAgents -----------------------------
(***************************************************************************)
(* Background agents of the Agent tool: a thread each, which ends with a   *)
(* section in the agent's report, with the crons that were about its work  *)
(* switched off when it completed, and with a manifest.  The steps of      *)
(* persist_agent_terminal_state interleave with other agents and with the  *)
(* CronCreate and CronDelete tools, and any of its writes may fail.        *)
(***************************************************************************)
EXTENDS Integers, Sequences

CONSTANTS
    Agents, Crons,
    About,           \* <<a, c>>: a's tokens occur in c's prompt or description
    MaxLaneFaults    \* writes that fail (a bound)

ASSUME LaneAssumption == About \subseteq Agents \X Crons /\ MaxLaneFaults \in Nat

VARIABLES
    laneStep,        \* per agent, where its thread, or its caller, is
    laneEnding,      \* the status being persisted
    laneReport,      \* the statuses of the sections in the report
    laneManifest,    \* the status in the manifest
    laneListed,      \* the crons listed and not yet looked at
    cronEntry,       \* the registry in memory: absent, on or off
    laneFaults

laneVars == <<laneStep, laneEnding, laneReport, laneManifest, laneListed, cronEntry,
              laneFaults>>

LaneInit ==
    /\ laneStep = [a \in Agents |-> "absent"]
    /\ laneEnding = [a \in Agents |-> "none"]
    /\ laneReport = [a \in Agents |-> <<>>]
    /\ laneManifest = [a \in Agents |-> "none"]
    /\ laneListed = [a \in Agents |-> {}]
    /\ cronEntry = [c \in Crons |-> "absent"]
    /\ laneFaults = 0

Goes(a, step) == laneStep' = [laneStep EXCEPT ![a] = step]
Persists(a, status) ==
    Goes(a, "report") /\ laneEnding' = [laneEnding EXCEPT ![a] = status]
LaneFault == laneFaults < MaxLaneFaults /\ laneFaults' = laneFaults + 1

\* execute_agent: the report is begun and the manifest says "running" before
\* the thread is started.
SpawnAgent(a) ==
    /\ laneStep[a] = "absent" /\ Goes(a, "spawn")
    /\ laneManifest' = [laneManifest EXCEPT ![a] = "running"]
    /\ UNCHANGED <<laneEnding, laneReport, laneListed, cronEntry, laneFaults>>

ThreadStarts(a) ==
    /\ laneStep[a] = "spawn" /\ Goes(a, "turn")
    /\ UNCHANGED <<laneEnding, laneReport, laneManifest, laneListed, cronEntry, laneFaults>>

\* run_turn is over; an error, a panic of the thread and a thread that could
\* not be started all end as "failed".
TurnCompletes(a) ==
    /\ laneStep[a] = "turn" /\ Persists(a, "completed")
    /\ UNCHANGED <<laneReport, laneManifest, laneListed, cronEntry, laneFaults>>
AgentFails(a) ==
    /\ laneStep[a] \in {"spawn", "turn"} /\ Persists(a, "failed")
    /\ UNCHANGED <<laneReport, laneManifest, laneListed, cronEntry, laneFaults>>

\* Variant: the crons are switched off whatever the agent's end was.
Report_AnyEnding(a) ==
    /\ laneStep[a] = "report"
    /\ laneReport' = [laneReport EXCEPT ![a] = Append(@, laneEnding[a])]
    /\ Goes(a, "crons") /\ laneListed' = [laneListed EXCEPT ![a] =
            {c \in Crons : cronEntry[c] = "on" /\ <<a, c>> \in About}]
    /\ UNCHANGED <<laneEnding, laneManifest, cronEntry, laneFaults>>

(* append_agent_output.  An agent that completed goes on to the crons that *)
(* are enabled now and that its work was about.                            *)
Report(a) ==
    /\ laneStep[a] = "report"
    /\ laneReport' = [laneReport EXCEPT ![a] = Append(@, laneEnding[a])]
    /\ IF laneEnding[a] = "completed"
       THEN Goes(a, "crons") /\ laneListed' = [laneListed EXCEPT ![a] =
                    {c \in Crons : cronEntry[c] = "on" /\ <<a, c>> \in About}]
       ELSE Goes(a, "manifest") /\ UNCHANGED laneListed
    /\ UNCHANGED <<laneEnding, laneManifest, cronEntry, laneFaults>>

\* disable_matching_crons; one that was deleted since it was listed is passed over.
DisableCron(a, c) ==
    /\ laneStep[a] = "crons" /\ c \in laneListed[a]
    /\ laneListed' = [laneListed EXCEPT ![a] = @ \ {c}]
    /\ cronEntry' = [cronEntry EXCEPT ![c] = IF @ = "absent" THEN @ ELSE "off"]
    /\ UNCHANGED <<laneStep, laneEnding, laneReport, laneManifest, laneFaults>>
CronsLookedAt(a) ==
    /\ laneStep[a] = "crons" /\ laneListed[a] = {} /\ Goes(a, "manifest")
    /\ UNCHANGED <<laneEnding, laneReport, laneManifest, laneListed, cronEntry, laneFaults>>

WriteManifest(a) ==
    /\ laneStep[a] = "manifest" /\ Goes(a, "ended")
    /\ laneManifest' = [laneManifest EXCEPT ![a] = laneEnding[a]]
    /\ UNCHANGED <<laneEnding, laneReport, laneListed, cronEntry, laneFaults>>

\* Variant: the manifest is written again, but not the report.
AfterFailedWrite_ManifestOnly(a) ==
    IF laneEnding[a] = "completed"
    THEN Goes(a, "manifest") /\ laneEnding' = [laneEnding EXCEPT ![a] = "failed"]
    ELSE Goes(a, "ended") /\ UNCHANGED laneEnding

(* The error of a "completed" that could not be persisted is the job's,    *)
(* which is persisted as "failed"; the error of that is ignored.           *)
AfterFailedWrite(a) ==
    IF laneEnding[a] = "completed"
    THEN Persists(a, "failed")
    ELSE Goes(a, "ended") /\ UNCHANGED laneEnding

\* The report cannot be appended to, or the manifest not be written: fs::write
\* leaves it as it was or empty.
WriteFails(a) ==
    /\ LaneFault /\ laneStep[a] \in {"report", "manifest"}
    /\ IF laneStep[a] = "manifest"
       THEN laneManifest' \in {laneManifest, [laneManifest EXCEPT ![a] = "torn"]}
       ELSE UNCHANGED laneManifest
    /\ AfterFailedWrite(a)
    /\ UNCHANGED <<laneReport, laneListed, cronEntry>>

CronCreate(c) ==
    /\ cronEntry[c] = "absent"
    /\ cronEntry' = [cronEntry EXCEPT ![c] = "on"]
    /\ UNCHANGED <<laneStep, laneEnding, laneReport, laneManifest, laneListed, laneFaults>>
CronDelete(c) ==
    /\ cronEntry[c] # "absent"
    /\ cronEntry' = [cronEntry EXCEPT ![c] = "absent"]
    /\ UNCHANGED <<laneStep, laneEnding, laneReport, laneManifest, laneListed, laneFaults>>

\* The process ends: its threads with it, and the registry, which is in memory.
ProcessEnds ==
    /\ laneStep' = [a \in Agents |-> IF laneStep[a] = "absent" THEN "absent" ELSE "ended"]
    /\ laneListed' = [a \in Agents |-> {}]
    /\ cronEntry' = [c \in Crons |-> "absent"]
    /\ UNCHANGED <<laneEnding, laneReport, laneManifest, laneFaults>>

LaneNext ==
    \/ ProcessEnds
    \/ \E a \in Agents :
        \/ SpawnAgent(a) \/ ThreadStarts(a) \/ TurnCompletes(a) \/ AgentFails(a)
        \/ Report(a) \/ CronsLookedAt(a) \/ WriteManifest(a) \/ WriteFails(a)
        \/ \E c \in Crons : DisableCron(a, c)
    \/ \E c \in Crons : CronCreate(c) \/ CronDelete(c)

LaneSpec == LaneInit /\ [][LaneNext]_laneVars
-----------------------------------------------------------------------------
Reported(a, status) ==
    \E k \in DOMAIN laneReport[a] : laneReport[a][k] = status

\* A cron is off only when some agent whose work it was about has said in its
\* report that it completed, whatever failed afterwards.
CronsOffWithReason ==
    \A c \in Crons :
        cronEntry[c] = "off" =>
            \E a \in Agents : <<a, c>> \in About /\ Reported(a, "completed")

\* A manifest that names an end names the one the report ends with, also when
\* a first attempt to persist another end was cut off by a failing write.
ManifestAgreesWithReport ==
    \A a \in Agents :
        laneManifest[a] \in {"completed", "failed"} =>
            /\ laneReport[a] # <<>>
            /\ laneReport[a][Len(laneReport[a])] = laneManifest[a]
=============================================================================
