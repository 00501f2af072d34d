---------------------------- MODULE MCWorkspace ----------------------------
(* Instance of Workspace for TLC.                                          *)
EXTENDS Workspace, TLC

Symmetric ==
    Permutations(Prompts) \cup Permutations(SolarProcs) \cup Permutations(SkillInstallers)

\* The name b is spelt so that it is installed as a.
Names == {"a", "b", "skill"}
Sanitized == [name \in Names |-> IF name = "b" THEN "a" ELSE name]

\* Directories that the two lookups take in different orders, one of them of
\* commands, and the one that skills are installed in.
Dirs == {"codex/skills", "claw/commands", "config/skills"}

\* A skill named by its directory, one named by its frontmatter, a command.
Entries ==
    {SkillEntry("dir", "a", "text", NoName), SkillEntry("dir", "b", "text", "a"),
     SkillEntry("md", "a", "text", NoName)}

\* Sources that claim one name, the first by its frontmatter, the second by the
\* name of its file.
Sources ==
    {[form |-> "dir", name |-> "skill", front |-> "b"],
     [form |-> "md", name |-> "a", front |-> NoName]}
=============================================================================
