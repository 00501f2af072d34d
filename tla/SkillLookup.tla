---------------------------- MODULE SkillLookup ----------------------------
(***************************************************************************)
(* Skills on disk: the directories they are looked for in, the listing,    *)
(* the lookup by name that /skills <name> uses, the second lookup that the *)
(* Skill tool falls back to, and installs, which run file by file, may     *)
(* fail, may be cut short, and may overlap in several processes.           *)
(*                                                                         *)
(* Names are compared without case, so a name stands for its spellings.    *)
(***************************************************************************)
EXTENDS Naturals, Sequences, SequencesExt

CONSTANTS
    SkillNames,         \* names a directory, a file or a frontmatter may carry
    NoName,             \* no name: none in the frontmatter
    SkillStem,          \* the name that the file name SKILL.md amounts to
    SkillSanitized,     \* what sanitize_skill_invocation_name makes of a name
    SkillDirs,          \* the directories that exist
    SkillHome,          \* the one that skills are installed in
    SkillEntries,       \* entries that a user may have put in a directory
    SkillSources,       \* what may be given to install
    SkillInstallers     \* processes that install, each once

\* What an entry may be, and what may be the matter with its prompt.
SkillForms == {"dir", "md"}
PromptStates == {"text", "broken", "none"}

\* What the user put there is nobody's copy.
ASSUME SkillAssumption ==
    /\ NoName \notin SkillNames /\ SkillStem \in SkillNames
    /\ SkillSanitized \in [SkillNames -> SkillNames \cup {NoName}]
    /\ SkillHome \in SkillDirs
    /\ SkillEntries \subseteq
           [form: SkillForms, name: SkillNames, prompt: PromptStates, front: SkillNames \cup {NoName},
            promptBy: {"user"}, restBy: {"user"}]
    /\ SkillSources \subseteq [form: SkillForms, name: SkillNames, front: SkillNames \cup {NoName}]
    /\ {"user", "none"} \cap SkillInstallers = {}

VARIABLES
    skillTree,          \* the entries of each directory, in the order it is read in
    skillJobs           \* the installs

skillVars == <<skillTree, skillJobs>>

\* An entry of a directory: a directory or a markdown file of some name; whether
\* there is a prompt in it (SKILL.md, or the file itself) that can be read; the
\* name in its frontmatter; and whose copies its prompt and its other file are.
SkillEntry(form, name, prompt, front) ==
    [form |-> form, name |-> name, prompt |-> prompt, front |-> front,
     promptBy |-> "user", restBy |-> "user"]

\* The order of discover_skill_roots, for one ancestor of the working directory.
ListedDirs ==
    <<"claw/skills", "omc/skills", "agents/skills", "codex/skills", "claude/skills",
      "claw/commands", "codex/commands", "claude/commands",
      "config/skills", "config/commands", "codexhome/skills", "codexhome/commands",
      "home/claw/skills", "home/omc/skills", "home/claw/commands",
      "home/codex/skills", "home/codex/commands", "home/claude/skills",
      "home/claude/skills/omc-learned", "home/claude/commands",
      "claudeconfig/skills", "claudeconfig/skills/omc-learned", "claudeconfig/commands">>

\* The order of skill_lookup_roots.
CompatDirs ==
    <<"omc/skills", "omc/commands", "agents/skills", "agents/commands",
      "claw/skills", "claw/commands", "codex/skills", "codex/commands",
      "claude/skills", "claude/commands",
      "config/skills", "config/commands", "codexhome/skills", "codexhome/commands",
      "home/omc/skills", "home/omc/commands", "home/claw/skills", "home/claw/commands",
      "home/codex/skills", "home/codex/commands", "home/claude/skills",
      "home/claude/commands", "home/agents/skills", "home/opencode/skills",
      "home/claude/skills/omc-learned",
      "claudeconfig/skills", "claudeconfig/skills/omc-learned", "claudeconfig/commands">>

CommandsDirs ==
    {"claw/commands", "codex/commands", "claude/commands", "config/commands",
     "codexhome/commands", "home/claw/commands", "home/codex/commands",
     "home/claude/commands", "claudeconfig/commands", "omc/commands",
     "agents/commands", "home/omc/commands"}

\* Where in an order the directories are that exist.
Existing(dirs) == {k \in 1 .. Len(dirs) : dirs[k] \in SkillDirs}

\* A place: the n-th entry of a directory.
NoPlace == [dir |-> "none", at |-> 0]
Place(dir, at) == [dir |-> dir, at |-> at]
EntryAt(place) == skillTree[place.dir][place.at]

\* Only directories count as skills, and markdown files among the commands.
Counts(dir, entry) ==
    /\ entry.prompt # "none"
    /\ entry.form = "dir" \/ dir \in CommandsDirs

\* The name in the frontmatter, or that of the directory or of the file; what
\* the commands take for the name of a file is SKILL where it lies in a directory.
SkillName(dir, entry) ==
    IF entry.front # NoName THEN entry.front
    ELSE IF dir \in CommandsDirs /\ entry.form = "dir" THEN SkillStem
    ELSE entry.name

\* One directory: the entries of a name, of which the first one counts (sorting
\* by name keeps the order of equal ones), and whether all of it can be read.
Named(dir, name) ==
    {i \in 1 .. Len(skillTree[dir]) :
        Counts(dir, skillTree[dir][i]) /\ SkillName(dir, skillTree[dir][i]) = name}
First(dir, places) == Place(dir, CHOOSE i \in places : \A j \in places : i <= j)
Readable(dir) ==
    \A i \in 1 .. Len(skillTree[dir]) :
        Counts(dir, skillTree[dir][i]) => skillTree[dir][i].prompt = "text"

\* /skills list: every skill with the first of its name, or an error where one
\* prompt cannot be read.
ListingWorks == \A k \in Existing(ListedDirs) : Readable(ListedDirs[k])
ListedAs(name) ==
    LET having == {k \in Existing(ListedDirs) : Named(ListedDirs[k], name) # {}}
    IN  IF having = {} THEN NoPlace
        ELSE LET k == CHOOSE k \in having : \A j \in having : k <= j
             IN  First(ListedDirs[k], Named(ListedDirs[k], name))

\* commands::resolve_skill_path: the directories in order, each read as a whole,
\* until one has the name; an error when one read so far cannot be read.
ResolvedByCommands(name) ==
    LET having == {k \in Existing(ListedDirs) : Named(ListedDirs[k], name) # {}}
        unreadable == {k \in Existing(ListedDirs) : ~Readable(ListedDirs[k])}
        hits == {k \in having : \A j \in having \cup unreadable : k <= j /\ k \notin unreadable}
    IN  IF hits = {} THEN NoPlace
        ELSE LET k == CHOOSE k \in hits : TRUE
             IN  First(ListedDirs[k], Named(ListedDirs[k], name))

\* The lookup of the Skill tool in one directory: an entry that lies at the
\* name itself, or else the first whose file or frontmatter has the name; what
\* cannot be read is passed over.
CompatMatches(dir, name) ==
    LET entries == skillTree[dir]
        eligible == {i \in 1 .. Len(entries) : Counts(dir, entries[i])}
        direct == {i \in eligible : entries[i].name = name}
        directories == {i \in direct : entries[i].form = "dir"}
        called(i) ==
            \/ entries[i].prompt = "text" /\ entries[i].front = name
            \/ dir \in CommandsDirs /\ entries[i].form = "dir" /\ name = SkillStem
    IN  IF directories # {} THEN directories
        ELSE IF direct # {} THEN direct
        ELSE {i \in eligible : called(i)}

ResolvedByCompat(name) ==
    LET having == {k \in Existing(CompatDirs) : CompatMatches(CompatDirs[k], name) # {}}
    IN  IF having = {} THEN NoPlace
        ELSE LET k == CHOOSE k \in having : \A j \in having : k <= j
             IN  First(CompatDirs[k], CompatMatches(CompatDirs[k], name))

\* Variant: the tool looks where the compatible layouts keep skills first.
SkillRun_CompatFirst(name) ==
    LET place == IF ResolvedByCompat(name) # NoPlace THEN ResolvedByCompat(name)
                 ELSE ResolvedByCommands(name)
    IN  IF place # NoPlace /\ EntryAt(place).prompt = "text" THEN place ELSE NoPlace

\* The Skill tool: any error of the first lookup leads to the second; the
\* prompt that is found is then read.
SkillRun(name) ==
    LET place == IF ResolvedByCommands(name) # NoPlace THEN ResolvedByCommands(name)
                 ELSE ResolvedByCompat(name)
    IN  IF place # NoPlace /\ EntryAt(place).prompt = "text" THEN place ELSE NoPlace
-----------------------------------------------------------------------------
SkillInit ==
    /\ skillTree \in [SkillDirs -> {<<>>} \cup {<<entry>> : entry \in SkillEntries}]
    /\ skillJobs = [i \in SkillInstallers |->
           [phase |-> "idle", source |-> NoName, name |-> NoName, todo |-> {}, alone |-> TRUE]]

\* The user makes a prompt unreadable, or readable again.
SkillToggle ==
    /\ \E dir \in SkillDirs \ {SkillHome} : \E i \in 1 .. Len(skillTree[dir]) :
           /\ skillTree[dir][i].prompt # "none"
           /\ skillTree' = [skillTree EXCEPT ![dir][i].prompt =
                  IF @ = "text" THEN "broken" ELSE "text"]
    /\ UNCHANGED skillJobs

\* The name to install under: that of the frontmatter if anything is left of it,
\* or else that of the directory or file.
InstallName(source) ==
    IF source.front # NoName /\ SkillSanitized[source.front] # NoName
    THEN SkillSanitized[source.front] ELSE SkillSanitized[source.name]

Installed(name) ==
    {k \in 1 .. Len(skillTree[SkillHome]) :
        skillTree[SkillHome][k].form = "dir" /\ skillTree[SkillHome][k].name = name}

UnderWay(job) == job.phase \in {"checked", "copying", "failing"}

\* Variant: what lies in the way is overwritten.
InstallStart_Over(i, source) ==
    LET name == InstallName(source)
        rivals == {j \in SkillInstallers \ {i} :
                       UnderWay(skillJobs[j]) /\ skillJobs[j].name = name}
    IN  /\ skillJobs[i].phase = "idle"
        /\ name # NoName
        /\ skillJobs' = [j \in SkillInstallers |->
               IF j = i THEN [phase |-> "checked", source |-> source, name |-> name,
                              todo |-> {}, alone |-> rivals = {}]
               ELSE [skillJobs[j] EXCEPT !.alone = @ /\ j \notin rivals]]
        /\ UNCHANGED skillTree

\* The source is read, its name derived, and nothing may be installed under it
\* yet; a source without prompt or name, or a name in use, is refused.
InstallStart(i, source) ==
    LET name == InstallName(source)
        rivals == {j \in SkillInstallers \ {i} :
                       UnderWay(skillJobs[j]) /\ skillJobs[j].name = name}
    IN  /\ skillJobs[i].phase = "idle"
        /\ name # NoName /\ Installed(name) = {}
        /\ skillJobs' = [j \in SkillInstallers |->
               IF j = i THEN [phase |-> "checked", source |-> source, name |-> name,
                              todo |-> {}, alone |-> rivals = {}]
               ELSE [skillJobs[j] EXCEPT !.alone = @ /\ j \notin rivals]]
        /\ UNCHANGED skillTree

\* A directory that was just made has no file yet.
NewDir(name) ==
    [form |-> "dir", name |-> name, prompt |-> "none", front |-> NoName,
     promptBy |-> "none", restBy |-> "none"]

\* create_dir_all, which is content with a directory made since the check.
InstallMakeDir(i) ==
    LET job == skillJobs[i]
    IN  /\ job.phase = "checked"
        /\ skillTree' = IF Installed(job.name) # {} THEN skillTree
               ELSE [skillTree EXCEPT ![SkillHome] = Append(@, NewDir(job.name))]
        /\ skillJobs' = [skillJobs EXCEPT ![i] =
               [@ EXCEPT !.phase = "copying",
                         !.todo = IF job.source.form = "dir" THEN {"prompt", "rest"}
                                                             ELSE {"prompt"}]]

\* One file is copied, over whatever is there, in the order of the directory.
InstallCopy(i, file) ==
    LET job == skillJobs[i]
    IN  /\ job.phase = "copying" /\ file \in job.todo
        /\ skillTree' = [skillTree EXCEPT ![SkillHome] = [k \in 1 .. Len(@) |->
               IF k \notin Installed(job.name) THEN @[k]
               ELSE IF file = "rest" THEN [@[k] EXCEPT !.restBy = i]
               ELSE [@[k] EXCEPT !.promptBy = i, !.prompt = "text",
                                 !.front = job.source.front]]]
        /\ Installed(job.name) # {}
        /\ skillJobs' = [skillJobs EXCEPT ![i].todo = @ \ {file}]

\* A copy fails, or the directory is gone.
InstallFail(i) ==
    /\ skillJobs[i].phase = "copying" /\ skillJobs[i].todo # {}
    /\ skillJobs' = [skillJobs EXCEPT ![i].phase = "failing"]
    /\ UNCHANGED skillTree

\* The directory, if it is still there, is removed with all that is in it, and
\* the error of the copy reported.
InstallRemove(i) ==
    /\ skillJobs[i].phase = "failing"
    /\ \/ Installed(skillJobs[i].name) = {} /\ UNCHANGED skillTree
       \/ \E k \in Installed(skillJobs[i].name) :
              skillTree' = [skillTree EXCEPT ![SkillHome] = RemoveAt(@, k)]
    /\ skillJobs' = [skillJobs EXCEPT ![i].phase = "failed"]

\* An entry that some of its files are gone from.
Without(entry, gone) ==
    [entry EXCEPT !.prompt = IF "prompt" \in gone THEN "none" ELSE @,
                  !.front = IF "prompt" \in gone THEN NoName ELSE @,
                  !.promptBy = IF "prompt" \in gone THEN "none" ELSE @,
                  !.restBy = IF "rest" \in gone THEN "none" ELSE @]

\* The removal itself fails, which nobody is told, or the process dies in it:
\* the directory stays, less the files that were removed before.
InstallRemoveFails(i) ==
    LET job == skillJobs[i]
    IN  /\ job.phase = "failing" /\ Installed(job.name) # {}
        /\ \E gone \in SUBSET {"prompt", "rest"} :
               skillTree' = [skillTree EXCEPT ![SkillHome] = [k \in 1 .. Len(@) |->
                   IF k \in Installed(job.name) THEN Without(@[k], gone) ELSE @[k]]]
        /\ skillJobs' = [skillJobs EXCEPT ![i].phase = "left"]

InstallReport(i) ==
    /\ skillJobs[i].phase = "copying" /\ skillJobs[i].todo = {}
    /\ skillJobs' = [skillJobs EXCEPT ![i].phase = "done"]
    /\ UNCHANGED skillTree

\* The process dies and leaves what there is.
InstallCrash(i) ==
    /\ UnderWay(skillJobs[i])
    /\ skillJobs' = [skillJobs EXCEPT ![i].phase = "dead"]
    /\ UNCHANGED skillTree

SkillNext ==
    \/ SkillToggle
    \/ \E i \in SkillInstallers :
           \/ \E source \in SkillSources : InstallStart(i, source)
           \/ \E file \in {"prompt", "rest"} : InstallCopy(i, file)
           \/ InstallMakeDir(i) \/ InstallFail(i) \/ InstallReport(i)
           \/ InstallRemove(i) \/ InstallRemoveFails(i) \/ InstallCrash(i)

SkillSpec == SkillInit /\ [][SkillNext]_skillVars
-----------------------------------------------------------------------------
\* What the listing shows as active is what the Skill tool runs, although one
\* reads the directories for all names and the other searches them twice, by
\* two orders: as long as the listing works, the two agree on every name
\* (commands/src/lib.rs: load_skills_from_roots; tools/src/lib.rs: resolve_skill_path).
ListedIsRun ==
    ListingWorks => \A name \in SkillNames : ListedAs(name) # NoPlace => SkillRun(name) = ListedAs(name)

\* An install that no other install of the same name overlapped leaves, once it
\* is reported, all of its own files and keeps them through every later
\* install, failed or not; one that failed leaves none, if what it had copied
\* could be removed (install_skill_into drops the error of remove_dir_all; the
\* phase is then "left", and nothing is said of the directory).
LoneInstallsWhole ==
    \A i \in SkillInstallers :
        LET job == skillJobs[i]
            home == skillTree[SkillHome]
        IN  job.alone =>
            /\ job.phase = "done" =>
                   \E k \in Installed(job.name) :
                       /\ home[k].promptBy = i /\ home[k].prompt = "text"
                       /\ job.source.form = "dir" => home[k].restBy = i
            /\ job.phase = "failed" =>
                   \A k \in 1 .. Len(home) : i \notin {home[k].promptBy, home[k].restBy}
=============================================================================
