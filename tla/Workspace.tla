----------------------------- MODULE Workspace -----------------------------
(***************************************************************************)
(* What lies around a repository that agents work in: the registry of the  *)
(* workers that are booted in it, the sessions of the Solarcido port, the  *)
(* skills, and the providers that sub-agents ask.  They share no state, so *)
(* a behaviour follows one of them, its part, while the others rest.       *)
(***************************************************************************)
EXTENDS WorkerBoot, SolarSession, SkillLookup, ProviderChain

VARIABLE part

Parts == {"workers", "sessions", "skills", "providers"}

WorkspaceInit ==
    /\ part \in Parts
    /\ Init /\ (part # "workers" => ~trustAutoResolve /\ ~autoRecover)
    /\ SolarInit
    /\ SkillInit /\ (part # "skills" => \A dir \in SkillDirs : skillTree[dir] = <<>>)
    /\ ChainInit /\ (part # "providers" => Len(chain) = 1)

WorkspaceNext ==
    /\ UNCHANGED part
    /\ \/ part = "workers" /\ Next /\ UNCHANGED <<solarVars, skillVars, chainVars>>
       \/ part = "sessions" /\ SolarNext /\ UNCHANGED <<vars, skillVars, chainVars>>
       \/ part = "skills" /\ SkillNext /\ UNCHANGED <<vars, solarVars, chainVars>>
       \/ part = "providers" /\ ChainNext /\ UNCHANGED <<vars, solarVars, skillVars>>

workspaceVars == <<part, vars, solarVars, skillVars, chainVars>>

WorkspaceSpec == WorkspaceInit /\ [][WorkspaceNext]_workspaceVars
=============================================================================
