# A formal model of Solarcido

The repository holds three programs that grew out of each other. **claw-rust** is a
Rust workspace (`src/claw-rust/crates`): a coding agent with a REPL, tools, hooks,
MCP servers, plugins, skills and sub-agents. **Solarcido** is a TypeScript agent of
the same design (`src/src`). The **Solarcido port** is a small Rust agent
(`src/crates`) that follows the TypeScript one. All three send a goal to a language
model, execute the tool calls it answers with, shorten the conversation when it
outgrows the model's window, and keep it in a session file.

This directory has TLA+ modules of those programs, configurations with which TLC
checks them on small instances, and proofs that TLAPS checks for instances of every
size. Every definition that models code is listed in `PROJECT.json`, under `map`,
with the lines it models.

    tlasany M.tla                            parse a module
    tlc -workers 2 -config X.cfg M.tla       check one configuration
    tlapm MProofs.tla                        check the proofs of a module

Contents: 1 [the system](#1-the-system) · 2 [the modules](#2-the-modules) ·
3 [model and code](#3-model-and-code) · 4 [runs](#4-what-each-run-checks) ·
5 [fairness](#5-fairness) · 6 [proofs](#6-what-is-proved) ·
7 [disagreements](#7-where-code-and-documents-disagree) ·
8 [weaknesses](#8-weaknesses-the-models-show) · 9 [limits](#9-what-is-not-modelled) ·
10 [plan](#10-plan)


## 1. The system

### How the parts interact

    REPL / one-shot prompt ──► conversation ──► model stream ──► provider (and its cache)
        │  /resume /fork         │   │   │          └─ chain of fallbacks (sub-agents)
        │                        │   │   └─ session file, rotation, compaction
        │                        │   └─ tool gate: hooks, permission, prompt, abort
        │                        │            │
        │                        │        tools ──► command processes
        │                        │          ├─ Agent: a thread with the same loop ──► manifest, crons
        │                        │          ├─ EnterPlanMode / ExitPlanMode / Config ──► settings file
        │                        │          ├─ Skill ──► directories of skills
        │                        │          ├─ Worker*: registry of workers to boot
        │                        │          └─ MCP ──► server manager ──► child processes
        └─ /plugin, /skills install ──► plugin manager, skill directories

    TypeScript:  cli / repl / team / cron ──► runTurn ──► registry, hooks, MCP session, store

- One process runs one conversation at a time. What it awaits (requests, hooks,
  tools, writes) is sequential *inside* a turn; interleaving comes from the abort
  signal, from agent threads, from child processes, and from other processes over
  the same files.
- No store has a lock. A crash or a failing write between two writes of one
  operation is therefore part of each model of a store: sessions, plan mode,
  plugins, agent manifests, skills, the prompt cache.
- In the TypeScript program concurrency proper is in three places: the slices of
  `TaskRunner` while others use the same registry, the calls that share one
  `McpServerSession`, and the ticks of the cron daemon, which nobody awaits.

### Inventory

| Component | State | Operations | What makes it correct |
|---|---|---|---|
| Conversation and compaction (`runtime/src/conversation.rs`, `compact.rs`) | messages of the turn, usage, summary | `run_turn`, automatic and manual compaction, health probe | results follow their calls in every request; no call of the turn is left unanswered |
| Sessions (`session.rs`, `session_control.rs`, REPL commands in `rusty-claude-cli/src/main.rs`) | JSONL files, rotated files, which one is newest | append, save, rotate, load, fork, delete, resume, clear | the file follows memory; finished turns survive; lines stay apart; latest is the one before |
| Permissions and hooks (`permissions.rs`, `permission_enforcer.rs`, `hooks.rs`) | the input as hooks rewrite it, the verdict, the abort flag | both hook phases, `authorize_with_context`, prompt, execution | rules and mode hold for the input that runs; what hooks refuse does not run; an abort ends the calls |
| Model stream (`api/src/providers/openai_compat.rs`, `anthropic.rs`, consumers in the CLI and in `tools`) | open blocks, events not yet read, collected calls | chunk translation, retries, stall handling, fallback request | events are a block stream; every call is delivered whole; attempts and retries end |
| Provider chain of sub-agents (`tools/src/lib.rs`) | position in the chain, failures so far | `stream`, `send_with_retry` | an answer is of one attempt; nothing is given up early |
| Prompt cache (`api/src/prompt_cache.rs`) | completions on disk, what was last observed | lookup, expiry, tracking, break detection | a break is called unexpected only when it is recent |
| MCP servers (`mcp_stdio.rs`, `mcp_tool_bridge.rs`) | child processes, handshake, routes | discover, list, read, call, reset, retry, shutdown, bridge call | no request meets an old answer; handshake first; bounded retries; sound routes |
| Plan mode and settings (`tools/src/lib.rs`) | settings file, state file | enter, exit, Config | the user's own mode is given back |
| Sub-agents and crons (`tools/src/lib.rs`, `team_cron_registry.rs`) | report, manifest, cron entries | spawn, run, persist the end, switch crons off | manifest and report agree; crons go off for a reason |
| Plugin manager (`plugins/src/lib.rs`) | directories, records, switches on disk and in memory | install, uninstall, enable, disable, update, list with sync | the sync repairs what was cut short; memory has every switch the settings have |
| Skills (`commands/src/lib.rs`, `tools/src/lib.rs`) | directories and files | list, look up (two ways), install | what is listed is what runs; an install on its own is whole, or absent if it could be removed |
| Command processes (`bash.rs`, `tools/src/lib.rs`) | child, pipe, deadline | bash, PowerShell, REPL, background start | "exited" means that all output was read; a timeout comes back |
| Worker boot registry (`worker_boot.rs`) | status, gates, prompt in flight, replay | observe, resolve_trust, send_prompt, restart, terminate, completion, timeout | a block says why; no prompt is taken for another |
| Solarcido port (`src/crates`) | transcript, session files, `latest` | start, resume, turn, save | what `--resume` finds holds whole turns |
| TypeScript conversation, tools, store (`src/src/runtime/conversation.ts`, `tools/`, `runtime/session.ts`) | transcript, plan mode, session file | `runTurn`, `compactIfNeeded`, `execute`, `create`/`complete`/`fail` | as for the Rust conversation; the goal stays; a finish is honest; a run does not go on for ever by itself |
| TypeScript task runner (`runtime/task-*.ts`, `workflow/team.ts`) | tasks, slices under way | `runBatch`, `runPending`, `stop`, `remove` | slices are barriers; reports complete; nothing stays running |
| TypeScript MCP session (`runtime/mcp/client.ts`) | ids, pending map, timers | calls, `handleMessage`, `close` | answers reach their own call; close settles |
| TypeScript cron daemon (`workflow/cron-daemon.ts`) | last minute, ticks under way | tick, interval | each due job once per minute |
| Configuration, LSP, OAuth, telemetry, lane events, policy, recovery, sandbox, trust, rendering | - | - | outside the models, §9 |

The behaviours that are hard to test are listed one by one, at the line where each
bites, in `PROJECT.json` under `hazards`. They fall into seven groups:

1. *Transcript surgery*: compaction, rotation, resume and fork cut a conversation
   in which results must follow their calls.
2. *Writes that are cut*: two writes that belong together, each of which may fail,
   be torn, or be the last thing the process did.
3. *Verdict and input*: an input that hooks rewrite before and after the decision.
4. *Late answers*: what a timed-out server, a second settler of one promise, or a
   screen scraped too early says about something else.
5. *Several writers, no lock*: agents, installers, resumed processes, editors.
6. *Retries*: of what was already done, for ever, or with the state of the last try.
7. *Waiting*: on a pipe someone else holds, a hook that never ends, a silent server.


## 2. The modules

| Module | Models | Composed or checked by |
|---|---|---|
| `ClawCompact` | the cut of a compaction in claw-rust, the boundary walk included | `ClawSession` |
| `ClawSession` | REPL, turn loop and session files of claw-rust | run `claw_session` |
| `ToolGate` | hooks, permission, prompt, executor, abort | `MCToolGate` |
| `BlockStream` | abstract: what a consumer of block events may rely on | implemented by `ModelStream` |
| `ModelStream` | requests with retries, chunk translation, two consumers | run `model_stream` |
| `McpManager` | the MCP server manager and the bridge | `MCMcpManager` |
| `PlanMode`, `LaneAgents`, `PluginManager`, `PromptCache`, `ToolProcess`, `CronDaemon` | the components around the loop | `ControlPlane`, `MCControlPlane` |
| `ControlPlane` | the sum of those six | `MCControlPlane` |
| `WorkerBoot`, `SolarSession`, `SkillLookup`, `ProviderChain` | workers, the port's sessions, skills, provider chains | `Workspace`, `MCWorkspace` |
| `Workspace` | the sum of those four | `MCWorkspace` |
| `ToolRegistry`, `Compaction`, `Conversation` | TypeScript: one tool call, compaction, the turn loop with its store | `MCConversation` |
| `TaskRunner` | TypeScript: task registry and runner | `MCTaskRunner` |
| `McpSession` | TypeScript: one MCP session | `MCMcpSession` |
| `*Proofs` | theorems, §6 | - |

`ControlPlane` and `Workspace` are *sums*: their parts share no state, so what two of
them do together is what each does alone, and a behaviour follows one part (its
`focus`, its `part`) while the others rest in a fixed initial state. The product
would have the same behaviours of each part and many times the states. Everything
that does interact is in one module: the turn loop with compaction, files and
commands in `ClawSession`, hooks with permission and execution in `ToolGate`,
translator with consumers and retries in `ModelStream`, agents with crons in
`LaneAgents`.

The `MC*` modules only give constants their values. An operator called
`Name_Something`, under a comment that starts with "Variant:", is a changed form of
`Name` in the way a plausible programming error would change it; no specification
uses it. `PROJECT.json` (`mutants`) says which property fails when it takes the
place of `Name`: that is the evidence that the property depends on the code.

The grain of a step is what nobody else can come between: what runs between two
awaits in the TypeScript program, one write of a file, one request, one read from a
pipe or one decision in the Rust ones. Names of variables that several modules would
share carry a prefix (`plan…`, `lane…`, `plugin…`, `cache…`, `proc…`, `solar…`,
`skill…`, `chain…`), because the sums extend the modules side by side.


## 3. Model and code

### ClawSession, ClawCompact

| Model | Code |
|---|---|
| `RecordPrompt` | `record_prompt_history`: the prompt is appended to the file before the turn; a write that fails is only warned of, whatever it left |
| `StartTurn` | `run_turn` up to its loop: health probe, the user message appended to memory and to the file |
| `Reply`, `RunTool`, `NextIteration`, `Commit` | one iteration: the assistant message is persisted before its calls run, then each result; automatic compaction at the end of the turn |
| `TurnFails` | any error of a turn; it ends the REPL, the messages stay in the file |
| `Command` | `/compact`, `/clear`, `/resume`, `/fork`, `/session delete` and the save each ends with |
| `Save`, `WriteSnapshot` | `save_to_path`: a long file is renamed before the new one is written |
| `Push`, `PushCut`, `Cut`; `Noted`, `NotedCut` | `append_persisted_message` and `append_persisted_prompt_entry`: a line, then its newline; what is left of one that is cut |
| `ClawCompact!…` | `compact_session`: the summary, the preserved tail, and the walk back to a boundary that keeps calls and results together |

A message is its kind, the number of calls it makes or that it is a result; a file is
its messages, a stamp (what "latest" compares), the state of its last line (`ended`,
`unended`, `torn`, or `joined` with another record) and whether the user was warned of
a prompt that was not written whole (`warned`, history). A turn
works on a copy of the session (`turn`) that `Commit` makes the session (`memory`).

### ToolGate

`call` is the call as the model made it, `said` what the hooks of the phase have
answered so far (stop, override, rewritten input). `SpawnHook`, `HookTakesPayload`,
`HookExits`, `HookHeard`, `HookBreaks`, `KillHook` and `KilledOver` are one hook
process: it is fed, runs, is gone or is killed, and its pipes are then read to their
end (`wait_with_output`). `PipesHeld` is a wait that never ends: a payload that is not
taken, or a process the hook left behind that keeps the pipes. `Authorize` is
`authorize_with_context` in the order of its checks (deny rules, override, ask rules,
allow rules and mode, prompt); `Answer` is the person; `Execute` is the executor with its own
enforcer where it has one; `Abort` may come at any step. The history variables
`approved`, `vetoed` and `ran` record what a property is about and are read by no
action.

### ModelStream, BlockStream, ProviderChain

`Ingested` is `ingest_chunk`: for every call a chunk may say nothing, its name, a
piece of its arguments or both, in any order and interleaving; the block events that
come out are due in `pending` and read one by one, the first of them each time
(`TakeEvent`): `Place` gives the order in which the code pushes them on its queue. `FinishStream` is
`finish`, `ReadFails` and `Stall` are the errors and the stall timeout of the CLI for
the first event after a tool, `Endless` a provider that keeps its client waiting where
there is no timer, `Send` one try of `send_with_retry`. `collected` is what the consumer has
made of the events: one pending call for the CLI, one per block for a sub-agent.
`BlockStream` says what either relies on, and `HandsOutBlocks` that the events are
such a stream (`INSTANCE BlockStream WITH phase <- seen.phase, …`).
`ProviderChain` is the layer above for sub-agents: `ChainCall` starts at the primary,
`ChainSend`/`ChainPause` are the tries of one request with their back-off,
`ChainRead`, `ChainBreak` and `ChainStreamEnd` the stream, `ChainMessage` the second,
whole request when the stream brought nothing, `ChainFallBack` the next provider or
the end.

### McpManager

`op` is the operation under way: which kind, at which server, at which step of a
request (`check` the process, send `initialize`, send the `request`, wait for the
`answer`), with the attempts, tries and pages so far. `server[s]` is the child
process with what lies unread in its pipe. `Step` is the manager, `ProcessExits` the
child dying at any moment. An outcome of a wait is an answer, a refusal, a transport
error, a timeout, a stray message or a malformed one; `ShouldReset` and `Retries` say
which of them resets the process and which repeats the operation. A bridge call is
discovery, one call and shutdown under one lock (`op.bridge`).

### PlanMode, LaneAgents, PluginManager, PromptCache, ToolProcess

- *PlanMode*: `planSettings` and `planState` are the two files; a tool queues its
  writes in `planTodo`, `PlanWrite` makes the next, `WritesStop` is a crash or a
  failing write, before or within the write of either file (`fs::write` empties it
  first), `Edit` anyone else and `EditCut` their write cut short. `planWanted` is the
  mode the user asked for last, `planMixed` that the user and a tool were writing at
  once, `planCut` that a write of the settings left no mode in them.
- *LaneAgents*: `laneStep` follows an agent's thread through
  `persist_agent_terminal_state`: report, crons one by one, manifest. `WriteFails`
  leaves a torn file and sends the thread to the error path, which runs the same
  steps for "failed".
- *PluginManager*: an operation is a list of writes (`pluginTodo`) and what follows
  them (`NextStage`); the sync before a listing looks at one bundled plugin after the
  other (`SyncPlugin`) and stores the records once (`SyncEnds`); `PluginWriteFails`
  and `Crash` cut it anywhere and may leave half a directory, a torn record file, or
  settings that are empty or torn (`SettingsLeft`), which refuse every later switch
  (`SwitchRefused`) until the next manager reads them (`NewManager`); `pluginCut` says
  what a failed write of this manager left of the settings. `Damage` and `NewVersion` are the world. The program does not stop shipping a plugin.
- *PromptCache*: `CachedAnswer`, `SendMessage`, `StreamMessage` with the answer's
  cache tokens; `cachePrevious` is what the client last observed, `cacheAnswered` the
  history of what the provider really saw.
- *ToolProcess*: one call; the command writes into a pipe of `PipeSize`, forks a
  helper that inherits it, exits. bash reads while it waits; PowerShell and REPL look
  for the exit first.

### WorkerBoot, SolarSession, SkillLookup

- *WorkerBoot*: a scrape is the set of things its detectors find (`Screens`). The
  `Observe*` actions are the cases of `observe` in the order of its checks. Of the
  event log the model keeps the gates it has recorded, all that is read back.
- *SolarSession*: `solarProcs[p]` is one process of the CLI from start or `--resume`
  to its end; `SolarOpen`, `SolarWrite`, `SolarWritten` and `SolarPoint` are
  `save_snapshot` (truncate, line by line) and the pointer `latest`. A writer that
  was overtaken by another keeps its own file offset, so its lines land on foreign
  ones (`TornLine`).
- *SkillLookup*: `ListedAs` is `load_skills_from_roots` with its shadowing, `SkillRun`
  the lookup of `/skills` with the fallback of the Skill tool behind it; the install
  is `install_skill_into` file by file, with a removal after a failure that may itself
  fail unnoticed (`InstallRemoveFails`).

### Conversation, Compaction, ToolRegistry (TypeScript)

| Model | Code |
|---|---|
| `Start(from)` | `runTurn` up to its loop: `sessionStore.create`, the seed of `--resume`, the goal as a user message. `needsEdit` is what `requiresModification` finds in the goal |
| `Compact` | the head of a turn: `compactIfNeeded(budget)` with the paid summary, then `max_completion_tokens` |
| `AnswerWithText`, `AnswerWithCalls`, `RequestFails`, `Overflows` | the outcomes of the awaited chat request. A text answer is followed by the "continue" message |
| `Shed` | the catch of an overflow: `compactIfNeeded` with budget 0 and one retry, provided that tokens were shed |
| `CallTool(kind)` | one iteration over `message.tool_calls`: hook, `execute`, tool message, finish guard, end of turn. The guard's refusal is recognised by the content that differs from the summary, so a summary that is the guard's message itself is accepted; `summary` records whose it was |
| `Hang` | an await that never settles, where the code has no timer (`AwaitsTheWorld`) |
| `Complete`, `Fail` | `sessionStore.complete` inside the `try`, `sessionStore.fail` in the `catch` |
| `Crash` | the process dies at any await; only the session files stay, one of them perhaps torn |
| `ToolRegistry!Execute` | `GlobalToolRegistry.execute`: parsing, permission, plan mode, executor, exception to `ERROR:` |
| `Compaction!RecentStart` | the backwards scan of `safeRecentMessages` |

A message is its role, the calls it makes or answers, the run whose goal it states
and its token size. The tools of one kind behave alike for every property (see the
comment on `Kinds`), and every executor may also fail.

### TaskRunner, McpSession, CronDaemon (TypeScript)

- *TaskRunner*: `batch[b]` is one call of `runBatch` or `runPending`, `runs[i]` the
  promise of `runTask(ids[i])`. A slice starts at once, as `slice.map` does; `Settle`
  is the continuation of `runTask`, `Reject` that of `Promise.all` when one run
  threw, while the other runs go on. `Create`, `Stop` and `Remove` are others.
- *McpSession*: `Begin` runs up to the first request, `Answer` is `handleMessage`
  resolving (or dropping) a promise, `Continue` the awaiting function after that: two
  steps, because the continuation of a promise is a job of its own. `TimesOut`,
  `SendFails` and `Close` are the other three ways to settle a promise.
- *CronDaemon*: time runs in half minutes, the default interval. `ticks` has every
  tick with the jobs it has left. `Advance` lets time pass unless the callback would
  be late by a whole interval.


## 4. What each run checks

Every run finishes within two minutes on two workers. `CHECK_DEADLOCK FALSE` is
given where the system may stop: all calls, turns or operations of the instance are
over, or a process has ended for good.

| Run | Instance | What it shows |
|---|---|---|
| `conversation` | two runs of two turns with up to two calls, window 8, budget 4, recent limit 2, one crash, failing and torn writes, fairness | a sent transcript never has a result without its call (`NoOrphanToolResult`), a fresh run keeps its goal (`GoalKept`), a run that had to edit completes by `finish` only after an edit or with the guard's message as its summary (`FinishHonest`), every run comes back unless an await without a timer hangs (`RunEnds`) |
| `task_runner` | two calls, two tasks, concurrency 1 (0 is clamped) and 2, lists with duplicates, stops and removals meanwhile, fairness | no run of a slice starts while one of the slice before it executes or has thrown (`SliceBarrier`); no task stays running (`NoneLeftRunning`) |
| `mcp_session` | two calls, lists of two pages, with and without timer, refused sends, close, late and repeated answers, fairness | a call acts on the answer to its own request (`AnswersMatch`); close settles what waits and what is called after it (`CloseSettles`) |
| `mcp_servers` | two servers, two tools, one qualified name they share, two pages, processes that exit at any step, all outcomes of a request, fairness | no request is written to a pipe that still holds an answer (`CleanPipe`), none before that process has accepted the handshake (`GreetedFirst`), restarts and writes of a call are bounded (`RetriesBounded`), routes name listed tools (`RoutesSound`), operations end (`OperationEnds`) |
| `model_stream` | two calls of two pieces each in any interleaving, one retry, two providers, reads that fail, stalls, providers that keep the client waiting, fairness | the events handed out are a block stream (`HandsOutBlocks`, a refinement), a sub-agent gets every call whole (`AgentCallsDelivered`), the request ends, or waits where there is no timer (`StreamEnds`) |
| `claw_session` | two session ids, files of up to seven messages, rotation at six, one rotated file, compaction above two with two preserved, two calls per answer, five changes of time, crashes in every write | see the four invariants and `LinesApart` in the module: pairs in every request, no call left open by its turn, file equal to memory, finished turns kept, records apart but behind a prompt that was not written whole |
| `tool_gate` | three modes, rules that tell one input from another, two hooks before and one after, two calls, agent and CLI set-ups, an abort at any step, fairness | deny and ask rules hold for the input that runs (`RulesHold`), nothing runs above its mode unless allowed by a rule or a person (`ModeHolds`), what hooks refuse by what they said last does not run (`VetoHolds`), an abort ends the calls unless a hook's pipes are held or a tool or prompt never ends (`AbortEndsCalls`) |
| `control_plane` | three cron jobs over nine half minutes; three edits; two agents, two crons, two faults; one bundled and one installed plugin, two versions, two faults; two prompts, lives of 2 and 3 in a clock of 5; pipe of 2, output of 3, timeouts 1 and 2 | one property or two per component, see the inventory |
| `workspace` | two prompts, two attempts; two processes, two ids, two iterations, two calls, two turns; three directories, three names, three entries, two sources, two installers; chains of up to three of three models, two retries, two blocks | `ReplayIsLast`; `ResumableIsWhole` and `SavesExtend`; `ListedIsRun` and `LoneInstallsWhole`; `ChainOutcome` |
| `cli_call_lost`, `latest_is_itself`, `goal_lost_on_resume` | the smallest instance that shows it | disagreements of code and documents, §7 |

**Why the bounds are enough.**
*Conversation.* A compaction needs a head of two, a dropped part and a recent part;
with limit 2 and messages of up to two results, cuts fall before, inside and after a
group of results within two turns. Window 8 makes every request one of: it fits with
the full output ceiling, with a reduced reply, or not at all.
*ClawSession.* Seven messages hold a user message, an answer with two calls, its
results, an answer and the next turn, so a compaction that preserves two falls on
every position of a group; rotation at six happens inside such a turn; two ids give a
session that is resumed, forked or deleted while the other is open.
*ToolGate.* Two hooks tell first from last and one that denies from one that allows,
two inputs tell the rewritten from the written one, two calls show what an abort
leaves of the second.
*ModelStream.* Two calls are the least that can be open together; two pieces tell a
call that was cut from a whole one; a chain of two has a first and a last provider.
*McpManager.* Two servers are a first and a last of a discovery, a shared qualified
name makes one route shadow another, two pages make a listing that can fail half way.
The properties relate one pipe, one operation and one name; the theorems of §6 hold
for any number.
*ControlPlane.* Nine half minutes hold a first tick that ends early, late or never
and two ticks that overlap; two agents share a cron; two faults cut an operation and
the one that repairs it; a pipe smaller than the output fills up, and timeouts fall
before and after the exit; the two lives of the cache make an entry that has expired
in one sense and not in the other.
*Workspace.* Two processes suffice for one that overwrites the other's file, two
directories with different orders for a name that is found in one place first and
listed from another, two installers for an overlap, a chain of three for one that
fails in the middle.

Bounds that are no constants of the code are marked at their declaration:
`MaxRuns`, `MaxCrashes`, `MaxCalls`, `MaxTasks`, `MaxPages`, `MaxTime`, `MaxEdits`,
`MaxLaneFaults`, `MaxVersion`, `MaxFaults`, `MaxClock`, `MaxMessages`, `MaxPieces`,
`MaxOutput`, `MaxElapsed`, `SolarTurns`, `SolarIds`, `ChainBlocks`. Times, window,
token sizes and the lives of cache entries are scaled down from the code's.

`Workspace.cfg` uses symmetry in the prompts, the processes and the installers, which
no definition tells apart; none of its properties is a liveness property.


## 5. Fairness

Safety properties use the specification without fairness. The liveness properties
assume of the code's own steps that they are taken. Where the code waits without a
timer the wait may go on for ever: that is an action of the model, and the property
then names the state it leads to.

- *Conversation*: weak fairness of the whole `Step`, beside `Hang`: an await settles
  or never does. The body of an answer, a hook, and a question to a person have no
  timer (and a timeout of 0 disables those of commands and MCP calls), so `RunEnds`
  promises that no run goes on for ever by itself: it is back at its caller, or at an
  await that hangs. Nothing requires a *successful* answer or a new run, and a death of
  the process may come at any time.
- *TaskRunner*: weak fairness of what each call does. That executors settle is a
  condition of `NoneLeftRunning`: they are runs of the conversation, which may hang.
- *McpSession*: weak fairness per call of its continuation and its timer, and of the
  refusal of a closed transport. The server is under no obligation.
- *McpManager*: weak fairness of `Step`: each of its waits has a timeout.
- *ModelStream*: weak fairness of `Proceed` (the client's own steps, its one timer
  among them) and of `Responds` (a request is answered, fails, or hangs), strong
  fairness of `BodyOver` (a body ends, breaks off, or hangs, although chunks may be
  read in between). A provider that hangs where there is no timer, as in the second
  attempt after a stall, leads to "hung" (`Endless`): `StreamEnds` promises that
  attempts, retries and the fallback do not follow one another for ever.
- *ToolGate*: weak fairness of each step of the loop and of the abort monitor, and of
  `PipesEnd`: a wait for a hook's pipes ends, or is held for ever (`PipesHeld`). A hook
  that runs, a tool and a prompt need not end; `AbortEndsCalls` says so.
- *ToolProcess*: weak fairness of the tool's own steps and of the clock. The command
  need not write, exit or let go of its pipe.


## 6. What is proved

The proofs hold for every value of the constants under the named assumptions of each
module, which only give the constants their types. TLC evaluates them at the start of
every run that extends the module.

**ModelStream** (`ToolCallProofs`). `ReaderIsABlockStream` is the refinement: the
reader implements `BlockStream`, `StreamSpec => HandsOutBlocks`, for any number of
calls. It needs an invariant that relates what the translator remembers of a block,
which of its events are due, and what those handed out say: a start is due when the
block has started and was not opened, a stop when it was stopped and that was not
said (`BlockFits`, and `MessageFits` for the message). `FirstFacts` says what the
first event in the order of `Place` leaves out, so that it may be said
(`FirstMayBeSaid`). A chunk and `finish` make the same kind of step (`Batch`,
`BatchEvents`). `AgentGetsEveryCall` adds the consumer: the slot of an open call holds
the pieces up to where the delta that is due goes on (`SlotFits`, `Given`), and the
tool uses are the stopped calls, one each (`ToolsFit`).

**ToolGate** (`ToolCallProofs`). `RulesHold`, `ModeHolds` and `VetoHolds` for all
tools, inputs, modes, rules and any number of hooks and calls. None is inductive:
they rest on what each stage has established (`GateInv`). `Granted` says that a call
in the executor has been cleared *for the input it has now*, `HooksHeard` that the
veto so far is the hooks' and that a call past its hooks has none, `RanCleared` that
what ran is what was cleared. `DecideSound` is the lemma about the policy.

**McpManager** (`McpManagerProofs`). `CleanPipe`, `GreetedFirst`, `RetriesBounded`
and `RoutesSound` for any servers, tools, names and pages. The invariant adds that
*no process is kept that owes an answer* (`ServersOK`: a timeout or a stray message
always costs the process), that a process counts as initialized only if it has
greeted, and how spawns, tries and attempts depend on each other (`CountsOK`).

**ControlPlane** (`ControlPlaneProofs`). One invariant per component:
`PlanModeAlwaysGivesBack` (what the two files hold after *every* write of either tool,
or a write that was cut), `CronsAlwaysOffWithReason` and `ManifestAlwaysAgrees` (where
a thread is tells what its report ends with), `ExitedAlwaysWhole` and
`NothingEverRunsOn` (what each stage of the wait knows), `PluginMemoryAlwaysFollows`
(a switch on disk is the one in memory, and can be missing there only after a failed
write of the settings), `SyncAlwaysRepairs` (no record is ever ahead of the directory
it is about, now or after the writes that are left: `RecordsFit`, `Fits`; so a copy
that needs no sync is of the record's version), and `UnexpectedIsAlwaysRecent`
(everything the client believes of a prompt rests on an answer of the provider, no
older than a completion lives). `ControlPlaneSound` lifts them, and what is proved of
the cron daemon, to the specification in which the parts take turns.

**Workspace** (`WorkspaceProofs`). *Workers*: five invariants that are inductive
together and not one by one, since a prompt in flight is the last one and a replay is
of a prompt that is not in flight. *Sessions*: `ResumesWhole`. Whole turns are not
inductive while a turn runs: `MidTurn(m, left)` says how a transcript looks that still
lacks `left` results, and three lemmas take it from the prompt over answers and
results to the end of the turn; `SolarInv` says which of the two holds in each phase,
and that a settled file is the transcript behind its metadata. *Saves*:
`SavesAlwaysExtend`, from `SaveInv`: a process that is clean and knows the file as it
is goes on from what was kept (`ProcessExtends`), and beside a writer whose opening is
still the last one nobody else is such a process (`OneWriter`). The attempt corrected
the model: the property was first stated of every process that knew the file, which
two turns satisfy and four do not, since a process whose own earlier save was written
over took its file for what it had kept. *Skills*: `LoneInstallsAreWhole`, from where each
install is and what it has copied so far, that directories of different names are
apart and that one still alone has had no other of its name; `ListedIsAlwaysRun`, from
both searches ending at a least position of the same directories. *Chains*:
`ChainEndsSoundly`, from the failures so far being those of the providers before the
current one. `WorkspaceSound` lifts all of them to the whole workspace.

**CronDaemon** (`ControlPlaneProofs`). The counts of what was fired say nothing of the
ticks that will still raise them. The invariant ties them to the ticks: at most one
tick for a minute, none for a minute to come (`TicksOK`); a job was started once if
it has ended or runs in the tick of that minute (`FiredOK`); every minute polled has a
tick (`PolledOK`). `FiresOnce` and `NoneMissed` follow.

**Conversation** (`ConversationProofs`). `CompactedAnchored`: compaction takes a
transcript in which every tool result follows its call to another one, whatever the
limit. `Inv` adds to the types that the transcript is well formed at *every* point of
a run (`RunOK`), that while calls are pending the latest message that is no result is
the one that made them (`PendingOpen`), that completed files hold well-formed
transcripts (`StoreOK`), and the finish guard from the first edit on (`GuardOK`). From
it follow `NoOrphans`, `GoalStays`, `SavedAnchored`, `FinishIsHonest`, `ClosedForGood`.

**ClawSession** (`ClawSessionProofs`). `CompactedKeepsCalls` is the fact about the
cut: the boundary walk stops at a least index (`WalkSteps`, `RemovedFacts`), what is
kept is a tail of the transcript behind one summary, and it does not begin within the
results of a call, so a transcript whose results are paired stays paired. `ClawInv`
has one part per question: every file holds a paired transcript (`Stored`), memory and
the turn hold one (`Held`), the path of the session in memory is one it may have
(`Here`), at rest file and memory agree and their lines end (`AtRest`), a turn's
transcript has the session's before it (`InTurn`), and each call since the turn began
is answered or pending (`Calls`). `RequestsPaired` needs `Stored`, since a resume
brings back what a file holds; `FinishedTurnsKept` is a part of its own, carried by
what every write leaves behind when it is cut. The five properties of the run follow.

**TaskRunner** (`TaskRunnerProofs`). Runs before the current slice are settled and
those after it wait (`SliceOK`); a run threw only when its task is gone, and a task
that is gone stays so (`AbsenceOK`); the results are those of the runs so far
(`ResultsOK`). A step of the registry or of another batch touches none of this.

**McpSession** (`McpSessionProofs`). `AnswersMatch` is not inductive: an old answer
could carry the id of a new request. `Traceable` excludes it: ids on the wire are
below the counter, and an id some call waits for belongs to its own request.

Several theorems state properties that no run repeats (`SavedAnchored`,
`ReportsAreComplete`, `PendingExact`, `NoneMissed`, `BlockedSaysWhy`,
`NothingEverRunsOn`, …): what is proved for every instance needs no small one.

Only model-checked, and why:
- all liveness properties (`RunEnds`, `NoneLeftRunning`, `CloseSettles`,
  `OperationEnds`, `StreamEnds`, `AbortEndsCalls`, `TimedCallReturns`): the prover has
  no `ENABLED`.

Every invariant and every action property of a passing run is stated by a theorem.


## 7. Where code and documents disagree

Three runs end in a counterexample on purpose: the property is what a comment, a
banner, a document or a test of the repository says, and the trace is what the code
does. The quotations are in `PROJECT.json` under `findings`.

- `cli_call_lost`: the CLI's stream consumer keeps one pending tool call. The
  translator for OpenAI-compatible providers opens the blocks of several calls as
  their chunks come and closes them all at `finish_reason`, so all but the last are
  lost and the last one's input holds the pieces of all. The consumer of sub-agents
  keeps one per block, and `AgentCallsDelivered` holds.
- `latest_is_itself`: a REPL persists its own fresh session when it starts, which is
  then the newest, so `/resume latest` goes back to itself.
- `goal_lost_on_resume`: compaction of the TypeScript runtime keeps messages 0 and 1
  as "system prompt and goal". A resumed run has its goal later in the transcript.


## 8. Weaknesses the models show

Behaviours that the modules contain, that no document rules out, and that a reader of
the code should know. The properties are stated so that they hold beside them.

*Conversation and sessions.*
- The assistant message is persisted before the results of its calls. A process that
  dies in between leaves calls without answers in the file, which the next resume
  sends as they are (`TurnAnswersItsCalls` is about the turn's own calls only).
- After a compaction the health probe calls `glob_search`: where that tool is not
  allowed, every later turn fails (`Healthy`).
- `/compact` with nothing to remove still replaces the session and saves it.
- A record and its newline are two writes. A line torn by a crash makes the whole file
  unloadable, so its session is lost to `/resume`; a line that only lacks its end is
  mended by the save that follows a resume, which is why `LinesApart` holds.
- A prompt that cannot be written to the history is only warned of. If a part of its
  line is in the file, the next message is appended behind it, and the file does not
  load again until the session is saved anew: a process that dies in that turn leaves
  a session that `/resume` refuses.
- Rotated files are listed as sessions of their own.

*Gate.*
- A session in "prompt" mode never prompts: the derived order puts it above every
  mode a tool requires.
- The CLI's tool registry gets no enforcer, so the executor's own check is an agent's
  only; agents in turn run with full access.
- Of several permission decisions the last hook's counts: a deny is replaced by the
  "allow" or "ask" of a later hook. Only a block, a failure or a cancellation stops the
  hooks that follow.
- A hook that leaves a process behind keeps the turn waiting for its pipes, after the
  kill of an abort too; one that does not read a large payload keeps it waiting before
  the signal is looked at.
- Of several rewrites the last hook's wins; a hook that does not read its input makes
  the write fail with a broken pipe and counts as failed.
- An abort without hooks stops nothing; one that reaches only a post hook turns the
  result of a call that did run into an error.

*Stream and providers.*
- A stream that is cut in a call's arguments delivers what there is of them.
- The second attempt after a stall has no timeout, so a provider that stalls twice
  keeps the turn waiting, and the fallback to a whole message
  pays for the answer twice.
- Every iteration of a sub-agent starts at the primary again; an error in a body that
  is no timeout does not fall back.

*MCP.*
- A bridge call whose discovery fails returns without shutting its servers down.
- The page loop has no limit, and a shutdown stops at the first process that fails.
- Two servers' tools may share a qualified name; one of them is then unreachable.
- TypeScript: concurrent first calls each send `initialize`.

*Files around the loop.*
- A torn plan-mode state or torn settings make both tools fail until someone mends
  them. A settings write of plan mode that is cut when the file is empty is taken for a
  change made outside: the next call clears the mode that was kept. The write of a
  plugin's switch can empty the settings file as well, with every other setting in it. Config, an
  editor and plan mode read, change and write one file and lose each other's changes.
- Process death leaves a manifest "running" for good; crons that were switched off
  stay off although the report is later changed to "failed"; whether a cron is about
  an agent's work is a match of substrings.
- One plugin directory that does not load makes list, enable and disable fail for all;
  an update removes the old directory before it copies the new one; the sync believes
  the version in the record.
- bash leaves the child running when its time is up; PowerShell and REPL with a
  timeout do not read while they wait, so a command that fills the pipe times out; a
  helper that keeps the pipe open keeps the call waiting.
- A completion answered from disk counts as an observation of the provider.
- With one unreadable skill the Skill tool falls back to another order of directories
  and may run a skill that the listing shows as shadowed. An install cut between the
  directory and the copy leaves a name that later installs refuse; overlapping
  installs mix their files, or the one that fails removes the other's; a removal that
  fails goes unnoticed and leaves a part of the skill.

*Workers, port, TypeScript.*
- A restart keeps the creation time, so a startup timeout counts from the first boot;
  it may also fail a worker that is ready or finished. A ready cue from a stale screen
  clears a prompt that is in flight.
- A save of the port truncates first: a crash in it loses turns that were saved, and
  one that ends after a complete line leaves half a turn that loads. Two processes
  that resume one session overwrite each other. Ids are readings of a millisecond
  clock and may collide. A turn that fails is lost and ends the REPL.
- `runPending` runs a task that was stopped after it was listed, and `runTask`
  overwrites that status; a summary request that fails is paid for again; the newest
  group of messages is dropped when results alone fill the recent window; calls after
  an accepted `finish` stay unanswered in what `--resume` sends; the cron daemon polls
  nothing during its first tick.


## 9. What is not modelled

- *Text*: prompts, tool arguments, file contents, screens, JSON, SSE framing and rules
  appear as kinds, outcomes, sets of matches or detector results.
- *Argument parsing, reports, rendering, help*: most of `main.rs` and of
  `commands/src/lib.rs`.
- *Configuration, prompts, file tools, git context, bash validation, summary
  compression*: merging of JSON, text and file I/O without state of their own.
- *Lane events, policy engine, green contract, recovery recipes, MCP lifecycle, plugin
  lifecycle, lane completion*: libraries that no binary calls, or pure functions over
  event lists. Read and not modelled: `record_failure` and `record_timeout` of the MCP
  lifecycle bypass its table of transitions, and the attempts of a recovery recipe are
  never reset.
- *Branch lock, stale branch, stale base, trust resolver, sandbox, bootstrap*: pure
  decisions on git answers, paths and the environment.
- *LSP registry, task registry, teams, OAuth, telemetry, usage totals*: records behind
  one lock with single assignments.
- *Mock services and the compatibility harness*: test doubles.
- *TypeScript MCP manager, worker registry, plugins, LSP client, orchestrator*: the
  manager and the registry are modelled in their Rust form; the rest is not modelled.
- *The Anthropic stream*: its events are block events already and pass through; its
  client appears in `PromptCache` and in the retries of `ModelStream`.
- *Several programs on one worktree*, except where files are the subject (plan mode,
  skills, the port's sessions).

A large part of the Rust lines is text: argument parsing, reports, JSON shapes and
their tests. The share of lines that the map names is therefore small, and the
definitions it names are the ones with state, order and failure in them.


## 10. Plan

The order so far: the conversation with its files, the gate in front of the tools,
the stream behind the conversation, the servers, then the stores around it. Next:

1. The remaining pure decisions (branch lock, stale branch and base, lane
   reconciliation) against reference definitions over bounded inputs.
2. The orchestrator and role loops of the TypeScript program.
