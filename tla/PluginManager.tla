---------------------------- MODULE PluginManager ----------------------------
(***************************************************************************)
(* PluginManager: plugins are directories under the install root, with a   *)
(* record each in installed.json and a switch each in settings.json, which *)
(* the manager also keeps in memory.  An operation writes these one after  *)
(* the other; any write may fail and the process may die at any of them,   *)
(* and nothing is rolled back.  One manager works at a time.               *)
(***************************************************************************)
EXTENDS Integers, Sequences

CONSTANTS
    Bundled,        \* plugins that come with the program
    External,       \* plugins the user installs
    MaxVersion,     \* of a plugin's source (a bound)
    MaxFaults       \* failures, crashes and damages (a bound)

ASSUME PluginAssumption ==
    Bundled \intersect External = {} /\ MaxVersion \in Nat \ {0} /\ MaxFaults \in Nat

Plugins == Bundled \union External
Switches == {"absent", "on", "off"}

\* A directory: gone, without a manifest, with one that does not load, with one
\* that loads but not all its files, or as its source.
Contents == {"bare", "broken", "loads", "whole"}
Gone == [version |-> 0, content |-> "gone"]
Dir(v, content) == [version |-> v, content |-> content]
Loads(dir) == dir.content \in {"loads", "whole"}

VARIABLES
    pluginDirs,
    pluginRecords,   \* the version in installed.json; 0 for no record
    pluginTorn,      \* installed.json does not parse
    pluginSettings,  \* enabledPlugins of settings.json
    pluginCut,       \* what a failed write of this manager left of settings.json:
                     \* "no" loss, an "emptied" file or a "torn" one (history, but
                     \* for "torn", which does not parse)
    pluginMemory,    \* config.enabled_plugins
    pluginSources,   \* the version of each source
    pluginOp,        \* the operation at work and its stage
    pluginTodo,      \* the writes it has left in this stage
    pluginFaults

pluginVars == <<pluginDirs, pluginRecords, pluginTorn, pluginSettings, pluginCut,
                pluginMemory, pluginSources, pluginOp, pluginTodo, pluginFaults>>
disk == <<pluginDirs, pluginRecords, pluginTorn, pluginSettings, pluginCut>>

NoOp == [does |-> "nothing"]
NoTodo == <<>>
NoSwitches == [p \in Plugins |-> "absent"]

PluginInit ==
    /\ pluginDirs = [p \in Plugins |-> Gone]
    /\ pluginRecords = [p \in Plugins |-> 0] /\ pluginTorn = FALSE
    /\ pluginSettings = NoSwitches /\ pluginMemory = NoSwitches /\ pluginCut = "no"
    /\ pluginSources = [p \in Plugins |-> 1]
    /\ pluginOp = NoOp /\ pluginTodo = NoTodo /\ pluginFaults = 0

Remove(p) == [write |-> "remove", plugin |-> p]
Copy(p) == [write |-> "copy", plugin |-> p]
Store(records) == [write |-> "records", records |-> records]
Switch(p, to) == [write |-> "switch", plugin |-> p, to |-> to]

RemoveIfThere(p) == IF pluginDirs[p] = Gone THEN <<>> ELSE <<Remove(p)>>
Recorded(p) == [pluginRecords EXCEPT ![p] = pluginSources[p]]

\* Variant: a copy that does not load is not looked for.
NeedsSync_RecordOnly(p) ==
    pluginRecords[p] # pluginSources[p] \/ pluginDirs[p] = Gone

\* The record's version decides, and whether the copy exists and loads.
NeedsSync(p) ==
    \/ pluginRecords[p] # pluginSources[p]
    \/ pluginDirs[p] = Gone \/ ~Loads(pluginDirs[p])

\* discover_installed_plugins: a record whose directory is gone or has no
\* manifest is dropped.
StaleRecords ==
    {p \in Plugins : /\ pluginRecords[p] # 0
                     /\ pluginDirs[p].content \in {"gone", "bare"}}
DiscoveryWrites ==
    IF StaleRecords = {} THEN <<>>
    ELSE <<Store([p \in Plugins |-> IF p \in StaleRecords THEN 0 ELSE pluginRecords[p]])>>

\* into_registry: one plugin that does not load fails the whole registry.
RegistryLoads == \A p \in Plugins : pluginDirs[p].content # "broken"

Begin(op, writes) ==
    /\ pluginOp = NoOp /\ pluginOp' = op /\ pluginTodo' = writes
    /\ UNCHANGED <<disk, pluginMemory, pluginSources, pluginFaults>>

\* sync_bundled_plugins loads the records and looks at one plugin after the other.
Sync(then) ==
    /\ ~pluginTorn
    /\ Begin([does |-> "sync", then |-> then, left |-> Bundled,
              records |-> pluginRecords, changed |-> FALSE], NoTodo)

\* plugin_registry: for a listing, or for enable and disable, which look the
\* plugin up in it.
List == Sync(NoTodo)
Enable(p) == Sync(<<Switch(p, "on")>>)
Disable(p) == Sync(<<Switch(p, "off")>>)

SyncPlugin(p) ==
    /\ pluginOp # NoOp /\ pluginOp.does = "sync" /\ pluginTodo = NoTodo
    /\ p \in pluginOp.left
    /\ IF NeedsSync(p)
       THEN /\ pluginOp' = [pluginOp EXCEPT !.left = pluginOp.left \ {p}, !.changed = TRUE,
                                !.records = [pluginOp.records EXCEPT ![p] = pluginSources[p]]]
            /\ pluginTodo' = RemoveIfThere(p) \o <<Copy(p)>>
       ELSE /\ pluginOp' = [pluginOp EXCEPT !.left = pluginOp.left \ {p}]
            /\ pluginTodo' = NoTodo
    /\ UNCHANGED <<disk, pluginMemory, pluginSources, pluginFaults>>

\* The records are stored once, after all copies, if there were any.
SyncEnds ==
    /\ pluginOp # NoOp /\ pluginOp.does = "sync" /\ pluginTodo = NoTodo
    /\ pluginOp.left = {}
    /\ pluginOp' = [does |-> "store", then |-> pluginOp.then]
    /\ pluginTodo' = IF pluginOp.changed THEN <<Store(pluginOp.records)>> ELSE NoTodo
    /\ UNCHANGED <<disk, pluginMemory, pluginSources, pluginFaults>>

\* The records are read only after the copy is made.
Install(p) ==
    Begin([does |-> "install", plugin |-> p], RemoveIfThere(p) \o <<Copy(p)>>)

Uninstall(p) ==
    /\ ~pluginTorn /\ pluginRecords[p] # 0 /\ p \notin Bundled
    /\ Begin([does |-> "uninstall"],
             RemoveIfThere(p) \o
             <<Store([pluginRecords EXCEPT ![p] = 0]), Switch(p, "absent")>>)

\* Any plugin with a record, from the source it came from.
Update(p) ==
    /\ ~pluginTorn /\ pluginRecords[p] # 0
    /\ Begin([does |-> "update"],
             RemoveIfThere(p) \o <<Copy(p), Store(Recorded(p))>>)

\* Variant: the memory is changed before the settings are written.
SwitchBegins_InMemory(w) ==
    pluginMemory' = [pluginMemory EXCEPT ![w.plugin] = w.to]

\* Nothing is changed in memory before the settings are written.
SwitchBegins(w) == UNCHANGED pluginMemory

PluginWrite ==
    /\ pluginTodo # NoTodo /\ pluginTodo' = Tail(pluginTodo)
    /\ LET w == Head(pluginTodo)
       IN  \/ /\ w.write = "remove"
              /\ pluginDirs' = [pluginDirs EXCEPT ![w.plugin] = Gone]
              /\ UNCHANGED <<pluginRecords, pluginSettings, pluginMemory>>
           \/ /\ w.write = "copy"
              /\ pluginDirs' = [pluginDirs EXCEPT ![w.plugin] =
                                  Dir(pluginSources[w.plugin], "whole")]
              /\ UNCHANGED <<pluginRecords, pluginSettings, pluginMemory>>
           \/ /\ w.write = "records"
              /\ pluginRecords' = w.records
              /\ UNCHANGED <<pluginDirs, pluginSettings, pluginMemory>>
           \/ /\ w.write = "switch" /\ pluginCut # "torn"
              /\ pluginSettings' = [pluginSettings EXCEPT ![w.plugin] = w.to]
              /\ pluginMemory' = [pluginMemory EXCEPT ![w.plugin] = w.to]
              /\ UNCHANGED <<pluginDirs, pluginRecords>>
    /\ UNCHANGED <<pluginTorn, pluginCut, pluginSources, pluginOp, pluginFaults>>

\* The settings are read before they are written, and torn ones do not parse.
SwitchRefused ==
    /\ pluginTodo # NoTodo /\ Head(pluginTodo).write = "switch" /\ pluginCut = "torn"
    /\ SwitchBegins(Head(pluginTodo))
    /\ pluginOp' = NoOp /\ pluginTodo' = NoTodo
    /\ UNCHANGED <<disk, pluginSources, pluginFaults>>

(* The writes of a stage are made.  After the sync comes the discovery,    *)
(* and then, for a plugin that is in the registry, its switch; after the   *)
(* copy of an install the records are read and its switch is set.          *)
NextStage ==
    /\ pluginOp # NoOp /\ pluginOp.does # "sync" /\ pluginTodo = NoTodo
    /\ CASE pluginOp.does = "store" ->
                /\ pluginOp' = [does |-> "discover", then |-> pluginOp.then]
                /\ pluginTodo' = DiscoveryWrites
         [] /\ pluginOp.does = "discover" /\ pluginOp.then # NoTodo
            /\ RegistryLoads /\ Loads(pluginDirs[pluginOp.then[1].plugin]) ->
                pluginOp' = [does |-> "switch"] /\ pluginTodo' = pluginOp.then
         [] pluginOp.does = "install" /\ ~pluginTorn ->
                /\ pluginOp' = [does |-> "record"]
                /\ pluginTodo' = <<Store(Recorded(pluginOp.plugin)), Switch(pluginOp.plugin, "on")>>
         [] OTHER -> pluginOp' = NoOp /\ pluginTodo' = NoTodo
    /\ UNCHANGED <<disk, pluginMemory, pluginSources, pluginFaults>>

\* What the write that is cut off leaves behind.
HalfWritten(w) ==
    CASE w.write \in {"remove", "copy"} ->
            /\ \/ UNCHANGED pluginDirs
               \/ \E content \in Contents \ {"whole"} :
                    pluginDirs' = [pluginDirs EXCEPT ![w.plugin] =
                        Dir(IF w.write = "copy" THEN pluginSources[w.plugin] ELSE @.version, content)]
            /\ UNCHANGED <<pluginRecords, pluginTorn>>
      [] w.write = "records" ->
            /\ \/ UNCHANGED <<pluginRecords, pluginTorn>>
               \/ pluginRecords' = [p \in Plugins |-> 0] /\ pluginTorn' \in BOOLEAN
            /\ UNCHANGED pluginDirs
      [] OTHER -> UNCHANGED <<pluginDirs, pluginRecords, pluginTorn>>

(* And of the settings: fs::write has emptied the file, which then holds   *)
(* no switch of any plugin, or has left a part of it.                      *)
SettingsLeft(w) ==
    {[switches |-> pluginSettings, cut |-> pluginCut]} \union
    IF w.write = "switch" /\ pluginCut # "torn"
    THEN [switches : {NoSwitches}, cut : {"emptied", "torn"}] ELSE {}

Fault == pluginFaults < MaxFaults /\ pluginFaults' = pluginFaults + 1

\* The operation returns the error of a write.
PluginWriteFails ==
    /\ Fault /\ pluginTodo # NoTodo
    /\ HalfWritten(Head(pluginTodo))
    /\ \E left \in SettingsLeft(Head(pluginTodo)) :
            pluginSettings' = left.switches /\ pluginCut' = left.cut
    /\ IF Head(pluginTodo).write = "switch"
       THEN SwitchBegins(Head(pluginTodo)) ELSE UNCHANGED pluginMemory
    /\ pluginOp' = NoOp /\ pluginTodo' = NoTodo
    /\ UNCHANGED pluginSources

(* The next manager reads the switches from the settings.  With torn ones  *)
(* the program does not start: somebody empties the file first.            *)
ReadSettings == pluginMemory' = pluginSettings' /\ pluginCut' = "no"

Crash ==
    /\ Fault /\ pluginTodo # NoTodo
    /\ HalfWritten(Head(pluginTodo))
    /\ \E left \in SettingsLeft(Head(pluginTodo)) : pluginSettings' = left.switches
    /\ ReadSettings
    /\ pluginOp' = NoOp /\ pluginTodo' = NoTodo
    /\ UNCHANGED pluginSources

\* build_plugin_manager, for another command or another run of the program.
NewManager ==
    /\ pluginOp = NoOp /\ UNCHANGED <<pluginDirs, pluginRecords, pluginTorn, pluginSettings>>
    /\ ReadSettings
    /\ UNCHANGED <<pluginSources, pluginOp, pluginTodo, pluginFaults>>

\* Someone deletes files of a plugin, or all of them.
Damage(p) ==
    /\ Fault /\ pluginOp = NoOp /\ pluginDirs[p] # Gone
    /\ pluginDirs' \in {[pluginDirs EXCEPT ![p] = Gone],
                        [pluginDirs EXCEPT ![p].content = "bare"],
                        [pluginDirs EXCEPT ![p].content = "broken"]}
    /\ UNCHANGED <<pluginRecords, pluginTorn, pluginSettings, pluginCut, pluginMemory,
                   pluginSources, pluginOp, pluginTodo>>

\* A newer program or a newer source (they never get older here).
NewVersion(p) ==
    /\ pluginOp = NoOp /\ pluginSources[p] < MaxVersion
    /\ pluginSources' = [pluginSources EXCEPT ![p] = @ + 1]
    /\ UNCHANGED <<disk, pluginMemory, pluginOp, pluginTodo, pluginFaults>>

PluginNext ==
    \/ List \/ SyncEnds \/ PluginWrite \/ SwitchRefused \/ NextStage
    \/ PluginWriteFails \/ Crash \/ NewManager
    \/ \E p \in Plugins :
        Enable(p) \/ Disable(p) \/ Uninstall(p) \/ Update(p) \/ Damage(p) \/ NewVersion(p)
    \/ \E p \in Bundled : SyncPlugin(p)
    \/ \E p \in External : Install(p)

PluginSpec == PluginInit /\ [][PluginNext]_pluginVars
-----------------------------------------------------------------------------
\* Whatever earlier failures, crashes and damages left, once the sync of an
\* operation is over every bundled plugin loads, in the version the program
\* comes with, and its record says so.
PluginSyncRepairs ==
    pluginOp # NoOp /\ pluginOp.does = "discover" =>
        \A p \in Bundled :
            /\ Loads(pluginDirs[p]) /\ pluginDirs[p].version = pluginSources[p]
            /\ pluginRecords[p] = pluginSources[p]

\* What the manager in memory calls enabled or disabled is what the settings say,
\* at every point at which an operation can fail or be cut off; only where a write
\* of the settings itself failed half-way can they have lost a switch that this
\* manager still has.
PluginMemoryFollowsSettings ==
    \A p \in Plugins :
        \/ pluginSettings[p] = pluginMemory[p]
        \/ pluginCut # "no" /\ pluginSettings[p] = "absent"
=============================================================================
