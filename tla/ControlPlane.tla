---------------------------- MODULE ControlPlane ----------------------------
(***************************************************************************)
(* The components around the agent loop that keep state of their own.      *)
(* They share none of it: what two of them do together is what each does   *)
(* alone.  So a behaviour follows one of them, its focus, while the others *)
(* keep the state they start in.                                           *)
(***************************************************************************)
EXTENDS CronDaemon, PlanMode, LaneAgents, PluginManager, PromptCache, ToolProcess

VARIABLE focus

Components == {"cron", "plan", "lanes", "plugins", "cache", "process"}

ControlInit ==
    /\ focus \in Components
    /\ Init /\ (focus # "cron" => time = 0)
    /\ PlanInit /\ (focus # "plan" => planSettings = Unset)
    /\ LaneInit /\ PluginInit /\ CacheInit
    /\ ProcInit
    /\ focus # "process" => procTool = "bash" /\ procTimeout = Forever /\ procLeft = 0

ControlNext ==
    /\ UNCHANGED focus
    /\ \/ /\ focus = "cron" /\ Next
          /\ UNCHANGED <<planVars, laneVars, pluginVars, cacheVars, procVars>>
       \/ /\ focus = "plan" /\ PlanNext
          /\ UNCHANGED <<vars, laneVars, pluginVars, cacheVars, procVars>>
       \/ /\ focus = "lanes" /\ LaneNext
          /\ UNCHANGED <<vars, planVars, pluginVars, cacheVars, procVars>>
       \/ /\ focus = "plugins" /\ PluginNext
          /\ UNCHANGED <<vars, planVars, laneVars, cacheVars, procVars>>
       \/ /\ focus = "cache" /\ CacheNext
          /\ UNCHANGED <<vars, planVars, laneVars, pluginVars, procVars>>
       \/ /\ focus = "process" /\ ProcNext
          /\ UNCHANGED <<vars, planVars, laneVars, pluginVars, cacheVars>>

controlVars == <<focus, vars, planVars, laneVars, pluginVars, cacheVars, procVars>>

ControlSpec ==
    ControlInit /\ [][ControlNext]_controlVars /\ (focus = "process" => ProcFairness)
=============================================================================
