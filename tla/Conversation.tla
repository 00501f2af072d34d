---------------------------- MODULE Conversation ----------------------------
(***************************************************************************)
(* ConversationRuntime.runTurn, run after run of the program: each run     *)
(* creates a session record, drives the model/tool loop over a transcript  *)
(* that is compacted when it outgrows its budget, and closes the record.   *)
(* A run may resume the transcript a completed session saved.  Every await *)
(* is a step of its own, so the process can die at each of them.           *)
(***************************************************************************)
EXTENDS Integers, Sequences, FiniteSets, Compaction, ToolRegistry

CONSTANTS
    MaxRuns,                  \* runs of the program (a bound of the model)
    MaxCrashes,               \* process deaths (a bound of the model)
    MaxTurns,                 \* runTurn's maxTurns
    MaxCalls,                 \* tool calls in one assistant message
    CallKinds,                \* the kinds of tool call the model makes
    Sandboxes, Approvals, Terminals,   \* the options a run may be given
    RecentLimit,              \* compactionRecentLimit
    MinTurnsBetweenSummaries,
    Window,                   \* the model's context window, in tokens
    Budget,                   \* resolveTranscriptBudget
    OutputCeiling,            \* maxTokensForModel
    Margin, MinReply,         \* the 512 and the 256 of the reply budget
    ToolsTokens,              \* tokens of the tool definitions
    Sizes,                    \* token sizes of the messages the run adds
    MayFailWrites             \* whether a session file write can fail

ASSUME RunAssumption ==
    /\ MaxRuns \in Nat \ {0} /\ MaxCrashes \in Nat
    /\ MaxTurns \in Nat \ {0} /\ MaxCalls \in Nat
    /\ CallKinds \subseteq Kinds
    /\ Sandboxes \subseteq Modes /\ Approvals \subseteq Policies
    /\ Terminals \subseteq BOOLEAN /\ MayFailWrites \in BOOLEAN

ASSUME TokenAssumption ==
    /\ RecentLimit \in Nat /\ MinTurnsBetweenSummaries \in Nat \ {0}
    /\ Window \in Nat /\ Budget \in Nat /\ OutputCeiling \in Nat
    /\ Margin \in Nat /\ MinReply \in Nat /\ ToolsTokens \in Nat
    /\ Sizes \subseteq Nat

Runs == 1 .. MaxRuns

VARIABLES
    run,          \* the latest run (0: none yet)
    pc,           \* the await the run is at; "idle" between runs
    env,          \* the run's options: sandbox, policy, tty
    needsEdit,    \* requiresModification
    resumed,      \* whether the run was seeded with a saved transcript
    messages,     \* the transcript sent to the model
    turn,
    pending,      \* ids of this turn's tool calls not executed yet
    edited,       \* successfulModification
    planMode,     \* planMode.active
    lastSummaryTurn,
    maxTokens,    \* the completion budget of the latest request
    summary,      \* what the accepted finish said (see FinishedWith)
    done,         \* how often the run's calls touched each part of the world
    nextId,       \* source of fresh tool call ids
    store,        \* the session file of each run
    crashes

loop == <<messages, turn, pending, edited, planMode, lastSummaryTurn,
          maxTokens, summary, done, nextId>>
options == <<run, env, needsEdit, resumed>>
vars == <<options, loop, pc, store, crashes>>

(* A session file: its status ("none" before it exists, "torn" when a      *)
(* write died half way) and the transcript a completed one carries.        *)
Statuses == {"none", "running", "completed", "failed", "torn"}
Session(status, msgs) == [status |-> status, messages |-> msgs]

Pcs == {"idle", "compact", "request", "shed", "retry", "tools",
        "completing", "failing", "hung"}

\* lastSummaryTurn starts at minus infinity: every first summary is due.
Never == 0 - MinTurnsBetweenSummaries

Input(msgs) == Tokens(msgs) + ToolsTokens
Larger(a, b) == IF a >= b THEN a ELSE b
Smaller(a, b) == IF a <= b THEN a ELSE b
ReplyBudget(msgs) ==
    Larger(MinReply, Smaller(OutputCeiling, Window - Input(msgs) - Margin))
-----------------------------------------------------------------------------
Init ==
    /\ run = 0 /\ pc = "idle"
    /\ env \in [sandbox: Sandboxes, policy: Approvals, tty: Terminals]
    /\ needsEdit = FALSE /\ resumed = FALSE
    /\ messages = <<>> /\ turn = 0 /\ pending = <<>>
    /\ edited = FALSE /\ planMode = FALSE
    /\ lastSummaryTurn = Never /\ maxTokens = 0 /\ summary = "none"
    /\ done = [e \in Effects |-> 0] /\ nextId = 1
    /\ store = [r \in Runs |-> Session("none", <<>>)]
    /\ crashes = 0

(* A write replaces the file; when it fails the file is as it was or torn. *)
Written(record) == store' = [store EXCEPT ![run'] = record]
NotWritten ==
    /\ MayFailWrites
    /\ store' \in {store, [store EXCEPT ![run'] = Session("torn", <<>>)]}

(* The transcripts a new run can be seeded with: none, or the one of a     *)
(* completed session.                                                      *)
Resumable == {r \in Runs : store[r].status = "completed"}

Seed(r) == IF r \in Resumable THEN store[r].messages ELSE <<Text("system", 0, 1)>>

\* runTurn up to the loop: a runtime and a session of its own for each run.
Start(from) ==
    /\ pc = "idle" /\ run < MaxRuns
    /\ run' = run + 1
    /\ env' \in [sandbox: Sandboxes, policy: Approvals, tty: Terminals]
    /\ needsEdit' \in BOOLEAN
    /\ resumed' = (from \in Resumable)
    /\ messages' = Append(Seed(from), Text("user", run + 1, 1))
    /\ turn' = 1 /\ pending' = <<>>
    /\ edited' = FALSE /\ planMode' = FALSE
    /\ lastSummaryTurn' = Never /\ maxTokens' = 0 /\ summary' = "none"
    /\ done' = [e \in Effects |-> 0]
    /\ \/ Written(Session("running", <<>>)) /\ pc' = "compact"
       \/ NotWritten /\ pc' = "idle"
    /\ UNCHANGED <<nextId, crashes>>

-----------------------------------------------------------------------------
(* compactIfNeeded.  The summary the model is asked for can come out empty *)
(* or fail, and only a summary that was used moves lastSummaryTurn.        *)
SummaryDue == turn - lastSummaryTurn >= MinTurnsBetweenSummaries

Summarise ==
    IF SummaryDue THEN lastSummaryTurn' \in {turn, lastSummaryTurn}
                  ELSE UNCHANGED lastSummaryTurn

Overflowing(budget) ==
    Input(messages) > budget /\ SomeDropped(messages, RecentLimit)

CompactTo(budget) ==
    IF Overflowing(budget)
    THEN /\ messages' = Compacted(messages, RecentLimit, 1)
         /\ Summarise
    ELSE UNCHANGED <<messages, lastSummaryTurn>>

\* The start of a turn: compact to the budget, then size the reply.
Compact ==
    /\ pc = "compact"
    /\ CompactTo(Budget)
    /\ maxTokens' = ReplyBudget(messages')
    /\ pc' = "request"
    /\ UNCHANGED <<options, turn, pending, edited, planMode, summary, done,
                   nextId, store, crashes>>

NextTurn ==
    IF turn < MaxTurns THEN turn' = turn + 1 /\ pc' = "compact"
                       ELSE turn' = turn /\ pc' = "failing"

(* The model answers, to the first request of a turn or to its one retry.  *)
AnswerWithText ==
    /\ pc \in {"request", "retry"}
    /\ \E size \in Sizes :
         messages' = Append(Append(messages, Assistant({}, size)), Text("user", 0, 1))
    /\ NextTurn
    /\ UNCHANGED <<options, pending, edited, planMode, lastSummaryTurn,
                   maxTokens, summary, done, nextId, store, crashes>>

AnswerWithCalls ==
    /\ pc \in {"request", "retry"}
    /\ \E n \in 1 .. MaxCalls, size \in Sizes :
         /\ messages' = Append(messages, Assistant(nextId .. nextId + n - 1, size))
         /\ pending' = [i \in 1 .. n |-> nextId + i - 1]
         /\ nextId' = nextId + n
    /\ pc' = "tools"
    /\ UNCHANGED <<options, turn, edited, planMode, lastSummaryTurn,
                   maxTokens, summary, done, store, crashes>>

\* An API error that is not an overflow, or a response without a message.
RequestFails ==
    /\ pc \in {"request", "retry"}
    /\ pc' = "failing"
    /\ UNCHANGED <<options, loop, store, crashes>>

\* The API's own token count finds the request too long, whatever the estimate.
Overflows ==
    /\ pc = "request"
    /\ pc' = "shed"
    /\ UNCHANGED <<options, loop, store, crashes>>

\* Variant: the overflow is retried as a new attempt at the turn.
Shed_Again ==
    /\ pc = "shed"
    /\ CompactTo(0)
    /\ maxTokens' = ReplyBudget(messages')
    /\ pc' = "request"
    /\ UNCHANGED <<options, turn, pending, edited, planMode, summary, done,
                   nextId, store, crashes>>

(* The forced compaction to budget 0; no retry unless it shed tokens.      *)
Shed ==
    /\ pc = "shed"
    /\ CompactTo(0)
    /\ IF Tokens(messages') < Tokens(messages)
       THEN maxTokens' = ReplyBudget(messages') /\ pc' = "retry"
       ELSE maxTokens' = maxTokens /\ pc' = "failing"
    /\ UNCHANGED <<options, turn, pending, edited, planMode, summary, done,
                   nextId, store, crashes>>
-----------------------------------------------------------------------------
(* One tool call: the PreToolUse hook may deny it, the registry decides    *)
(* and executes it, and a finish is refused while the goal still needs an  *)
(* edit.  The refusal puts the guard's message in place of the summary and *)
(* is recognised by the two being different, so a summary that is itself   *)
(* the guard's message gets through.  An accepted finish ends the run at   *)
(* once, whatever calls are left.                                          *)
HookDenies == {Rejected(planMode)}

ToolResults(kind) == HookDenies \cup Execute(kind, env, planMode)

Count(effect) ==
    IF effect = "none" THEN done ELSE [done EXCEPT ![effect] = @ + 1]

FinishedWith(result) ==
    CASE ~result.finish             -> "none"
      [] result.finish /\ result.ok  -> "own"
      [] result.finish /\ ~result.ok -> "guards"

FinishGuarded == needsEdit /\ ~edited

FinishBlocked(result) == FinishGuarded /\ FinishedWith(result) # "guards"

AfterCall(result) ==
    IF result.finish /\ ~FinishBlocked(result)
    THEN /\ pc' = "completing" /\ pending' = Tail(pending) /\ turn' = turn
         /\ summary' = FinishedWith(result)
    ELSE /\ pending' = Tail(pending) /\ summary' = summary
         /\ IF Len(pending) > 1 THEN pc' = "tools" /\ turn' = turn ELSE NextTurn

CallTool(kind) ==
    /\ pc = "tools"
    /\ \E result \in ToolResults(kind), size \in Sizes :
         /\ messages' = Append(messages, Answer(pending[1], size))
         /\ planMode' = result.plan
         /\ done' = Count(result.effect)
         /\ edited' = (edited \/ SuccessfulModification(kind, result.ok))
         /\ AfterCall(result)
    /\ UNCHANGED <<options, lastSummaryTurn, maxTokens, nextId,
                   store, crashes>>

(* Awaits no timer ends: the body of an answer being read, a hook that     *)
(* does not return, a question nobody answers.                             *)
AwaitsTheWorld ==
    \/ pc \in {"request", "retry", "tools"}
    \/ pc = "compact" /\ Overflowing(Budget) /\ SummaryDue
    \/ pc = "shed" /\ Overflowing(0) /\ SummaryDue

\* One of them never settles: the run stays there until its process dies.
Hang ==
    /\ AwaitsTheWorld
    /\ pc' = "hung"
    /\ UNCHANGED <<options, loop, store, crashes>>
-----------------------------------------------------------------------------
(* sessionStore.complete saves the transcript; a failed write lands in the *)
(* catch, which records the run as failed instead.                         *)
Complete ==
    /\ pc = "completing"
    /\ run' = run
    /\ \/ Written(Session("completed", messages)) /\ pc' = "idle"
       \/ NotWritten /\ pc' = "failing"
    /\ UNCHANGED <<env, needsEdit, resumed, loop, crashes>>

Fail ==
    /\ pc = "failing"
    /\ run' = run
    /\ \/ Written(Session("failed", <<>>))
       \/ NotWritten
    /\ pc' = "idle"
    /\ UNCHANGED <<env, needsEdit, resumed, loop, crashes>>

(* The process dies: everything but the session files is lost, and the     *)
(* file being written may be torn.                                         *)
Crash ==
    /\ pc # "idle" /\ crashes < MaxCrashes
    /\ crashes' = crashes + 1
    /\ pc' = "idle"
    /\ \/ store' = store
       \/ /\ pc \in {"completing", "failing"}
          /\ store' = [store EXCEPT ![run] = Session("torn", <<>>)]
    /\ UNCHANGED <<options, loop>>

\* What the code does once the await it is at has settled.
Step ==
    \/ Compact \/ AnswerWithText \/ AnswerWithCalls \/ RequestFails
    \/ Overflows \/ Shed \/ Complete \/ Fail
    \/ \E kind \in CallKinds : CallTool(kind)

Next ==
    \/ \E from \in 0 .. MaxRuns : Start(from)
    \/ Step
    \/ Hang
    \/ Crash

Spec == Init /\ [][Next]_vars

(* An await settles, and the event loop then resumes the run, or it hangs  *)
(* (Hang, the world's choice, of which nothing is asked).                  *)
FairSpec == Spec /\ WF_vars(Step)
-----------------------------------------------------------------------------
Requesting == pc \in {"request", "retry"}
Closed == {"completed", "failed"}

\* Every variable stays in its range: the one type invariant of the module.
TypeOK ==
    /\ run \in 0 .. MaxRuns /\ pc \in Pcs
    /\ env \in [sandbox: Sandboxes, policy: Approvals, tty: Terminals]
    /\ needsEdit \in BOOLEAN /\ resumed \in BOOLEAN
    /\ messages \in Seq(Message) /\ turn \in 0 .. MaxTurns
    /\ pending \in Seq(Nat) /\ nextId \in Nat
    /\ edited \in BOOLEAN /\ planMode \in BOOLEAN
    /\ lastSummaryTurn \in {Never} \cup (1 .. MaxTurns)
    /\ summary \in {"none", "own", "guards"}
    /\ done \in [Effects -> Nat]
    /\ store \in [Runs -> [status: Statuses, messages: Seq(Message)]]
    /\ crashes \in 0 .. MaxCrashes

\* No request carries a tool result whose call was compacted away, however
\* compactions, overflow retries and resumes interleave (safeRecentMessages).
NoOrphanToolResult == Requesting => Anchored(messages)

\* Compaction keeps the goal of a run that started afresh in every request.
GoalKept ==
    Requesting /\ ~resumed => \E i \in 1 .. Len(messages) : messages[i].goal = run

\* Compaction preserves the user's goal, whichever way the run started.
GoalAlwaysKept ==
    Requesting => \E i \in 1 .. Len(messages) : messages[i].goal = run

\* What a completed session saved: the system prompt, then a transcript in
\* which no tool result lost its call, up to the result of the finish.  Calls
\* that came after the finish are saved too, and stay unanswered.
SavedTranscriptAnchored ==
    \A r \in Runs : store[r].status = "completed" =>
        /\ Anchored(store[r].messages)
        /\ store[r].messages[1].role = "system"
        /\ store[r].messages[Len(store[r].messages)].role = "tool"

\* A run whose goal asks for a change completes only after one of its own
\* calls changed a file (neither a resumed transcript nor a denied edit nor a
\* blocked finish counts), or with the guard's own message for a summary.
FinishHonest ==
    run > 0 /\ store[run].status = "completed" /\ needsEdit =>
        done["files"] > 0 \/ summary = "guards"

\* A closed session is never written again, and no run writes the session of
\* an earlier one.
ClosedStaysClosed ==
    [][\A r \in Runs :
        /\ store[r].status \in Closed => store'[r] = store[r]
        /\ r < run => store'[r] = store[r]]_vars

\* Each run comes back to its caller, unless one of the awaits that no timer
\* ends never settles: no sequence of answers, overflows, tool results, failed
\* writes and deaths keeps the loop going.
RunEnds == pc # "idle" ~> pc \in {"idle", "hung"}
=============================================================================
