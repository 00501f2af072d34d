---------------------------- MODULE ClawSession ----------------------------
(***************************************************************************)
(* The claw-rust REPL and its session files.  A prompt is appended to the  *)
(* file for the history; the turn then runs on a copy of the session and   *)
(* appends every message as it comes; a command that is over writes the    *)
(* whole file anew, after setting a long one aside.  The process may end   *)
(* at any point, also in the middle of a line.                             *)
(* Left out: what the prompt history says, the model's name and the legacy *)
(* directory.                                                              *)
(***************************************************************************)
EXTENDS ClawCompact, FiniteSets

CONSTANTS
    Sessions,     \* session ids
    MaxDepth,     \* how often a file set aside is set aside again (a bound)
    RotateAfter,  \* length from which a file is set aside
    Threshold,    \* answers counted by the usage tracker that start a compaction
    MaxCalls,     \* tool calls of an answer (a bound)
    MaxMessages,  \* length of a transcript (a bound)
    MaxClock      \* new sessions and turns (a bound)

ASSUME ClawAssumption ==
    /\ MaxDepth \in Nat /\ RotateAfter \in Nat /\ Threshold \in Nat
    /\ MaxCalls \in Nat /\ MaxMessages \in Nat /\ MaxClock \in Nat

\* A file: the live one of a session, or one set aside from the one below.
Paths == Sessions \X (0 .. MaxDepth)
NoPath == <<"none", 0>>

VARIABLES
    files,      \* the session directory
    clock,      \* the newest updated_at_ms
    at,         \* LiveCli.session: an id and a path
    memory,     \* LiveCli.runtime's session, what it was once the process is gone
    turn,       \* the copy a turn works on: messages, usage, calls left
    phase,      \* what the process does
    restricted  \* --allowedTools leaves glob_search out

clawVars == <<files, clock, at, memory, turn, phase, restricted>>

NoFile == [exists |-> FALSE]
NoTurn == [messages |-> <<>>, usage |-> 0, asked |-> 0, done |-> 0]
Fresh(stamp) == [messages |-> <<>>, compacted |-> FALSE, stamp |-> stamp]

\* render_jsonl_snapshot; `tail` is how the last line ends, and `warned` says that
\* a prompt's line was cut and the process went on.
Snapshot(session) ==
    [exists |-> TRUE, messages |-> session.messages, compacted |-> session.compacted,
     stamp |-> session.stamp, tail |-> "ended", warned |-> FALSE]

\* from_jsonl takes a file whose lines are all records, the last one ended or not.
Loadable(path) == files[path].exists /\ files[path].tail \in {"ended", "unended"}
Loaded(path) ==
    [messages |-> files[path].messages, compacted |-> files[path].compacted,
     stamp |-> files[path].stamp]

\* UsageTracker::from_session, one unit for each answer.
UsageOf(messages) == Len(SelectSeq(messages, LAMBDA m : m.role = "assistant"))

ClawInit ==
    /\ files = [path \in Paths |-> NoFile]
    /\ clock = 0
    /\ at = [id |-> "none", path |-> NoPath]
    /\ memory = Fresh(0)
    /\ turn = NoTurn
    /\ phase = "down"
    /\ restricted \in BOOLEAN
-----------------------------------------------------------------------------
(* Writing.                                                                *)
Aside(path) == <<path[1], path[2] + 1>>
Long(path) ==
    files[path].exists /\ Len(files[path].messages) >= RotateAfter /\ path[2] < MaxDepth

\* save_to_path: a long file is renamed before the new one takes its place.
Save(path, session) ==
    IF Long(path)
    THEN /\ files' = [files EXCEPT ![path] = NoFile, ![Aside(path)] = files[path]]
         /\ phase' = "writing"
    ELSE /\ files' = [files EXCEPT ![path] = Snapshot(session)]
         /\ phase' = "idle"

WriteSnapshot ==
    /\ phase = "writing"
    /\ files' = [files EXCEPT ![at.path] = Snapshot(memory)]
    /\ phase' = "idle"
    /\ UNCHANGED <<clock, at, memory, turn, restricted>>

(* append_persisted_message: a line, then its end.  A missing file is      *)
(* written whole; behind a line that never ended two records share it.     *)
Appended(file, message) ==
    [file EXCEPT !.messages = Append(@, message),
                 !.tail = IF @ = "ended" THEN "ended" ELSE "joined"]

\* What a process that ends while it appends leaves behind.
Cut(file, message) ==
    {file, [file EXCEPT !.tail = IF @ = "ended" THEN "torn" ELSE "joined"],
     [Appended(file, message) EXCEPT !.tail = IF @ = "ended" THEN "unended" ELSE @]}

\* append_persisted_prompt_entry: a line that is no message, and what is left of
\* one that was cut.
Noted(file) == [file EXCEPT !.tail = IF @ = "ended" THEN "ended" ELSE "joined"]
NotedCut(file) ==
    {[file EXCEPT !.tail = IF @ = "ended" THEN end ELSE "joined"] : end \in {"torn", "unended"}}

Push(messages, message, stamp) ==
    LET file == files[at.path]
        whole == [memory EXCEPT !.messages = Append(messages, message), !.stamp = stamp]
    IN  files' = [files EXCEPT ![at.path] =
            IF file.exists THEN Appended(file, message) ELSE Snapshot(whole)]

\* The process is killed, or the write fails and the REPL ends with the turn.
PushCut(message) ==
    /\ files[at.path].exists
    /\ \E file \in Cut(files[at.path], message) : files' = [files EXCEPT ![at.path] = file]
    /\ phase' = "down"
    /\ turn' = NoTurn
-----------------------------------------------------------------------------
(* A turn.                                                                 *)

\* run_session_health_probe
Healthy == memory.compacted /\ memory.messages # <<>> => ~restricted

\* record_prompt_history: the prompt is written before the turn begins; the
\* process may die within the line, and of a write that fails, before or within
\* it, the user is warned and the turn begins all the same.
RecordPrompt ==
    /\ phase = "idle" /\ clock < MaxClock
    /\ Len(memory.messages) + 2 <= MaxMessages
    /\ LET file == files[at.path]
       IN  \/ /\ files' = [files EXCEPT ![at.path] =
                     IF file.exists THEN Noted(file) ELSE Snapshot(memory)]
              /\ phase' = "prompted"
           \/ /\ file.exists
              /\ \E cut \in NotedCut(file) : files' = [files EXCEPT ![at.path] = cut]
              /\ phase' = "down"
           \/ /\ file.exists
              /\ \E cut \in NotedCut(file) :
                    files' = [files EXCEPT ![at.path] = [cut EXCEPT !.warned = TRUE]]
              /\ phase' = "prompted"
           \/ UNCHANGED files /\ phase' = "prompted"
    /\ UNCHANGED <<clock, at, memory, turn, restricted>>

StartTurn ==
    /\ phase = "prompted" /\ Healthy
    /\ clock' = clock + 1
    /\ \/ /\ turn' = [NoTurn EXCEPT !.messages = Append(memory.messages, User),
                                     !.usage = UsageOf(memory.messages)]
          /\ Push(memory.messages, User, clock + 1)
          /\ phase' = "request"
       \/ PushCut(User)
    /\ UNCHANGED <<at, memory, restricted>>

\* Any error of a turn ends the REPL; the messages stay in the file.
TurnFails ==
    /\ \/ phase = "prompted" /\ ~Healthy
       \/ phase = "request"
    /\ phase' = "down"
    /\ turn' = NoTurn
    /\ UNCHANGED <<files, clock, at, memory, restricted>>

\* stream and build_assistant_message: an answer with calls, or the last one.
Reply ==
    /\ phase = "request"
    /\ \E k \in 0 .. MaxCalls :
          /\ Len(turn.messages) + k + 2 <= MaxMessages \/ k = 0
          /\ \/ /\ Len(turn.messages) < MaxMessages
                /\ turn' = [turn EXCEPT !.messages = Append(@, Assistant(k)), !.usage = @ + 1,
                                        !.asked = k, !.done = 0]
                /\ Push(turn.messages, Assistant(k), clock)
                /\ phase' = IF k = 0 THEN "commit" ELSE "tools"
             \/ PushCut(Assistant(k))
    /\ UNCHANGED <<clock, at, memory, restricted>>

\* A call is run or refused; both push a result.
\* Variant: the last call of an answer is left out.
CallsLeft_One == turn.done + 1 < turn.asked

CallsLeft == turn.done < turn.asked

RunTool ==
    /\ phase = "tools"
    /\ LET result == ToolResult(turn.done + 1)
       IN  \/ /\ turn' = [turn EXCEPT !.messages = Append(@, result), !.done = @ + 1]
              /\ Push(turn.messages, result, clock)
              /\ phase' = "tools"
           \/ PushCut(result)
    /\ CallsLeft
    /\ UNCHANGED <<clock, at, memory, restricted>>

NextIteration ==
    /\ phase = "tools" /\ ~CallsLeft
    /\ phase' = "request"
    /\ UNCHANGED <<files, clock, at, memory, turn, restricted>>

\* maybe_auto_compact, at the end of a turn.
AutoCompacts == turn.usage >= Threshold /\ Removes(turn.messages, TRUE)

\* The copy becomes the session, and the file is written anew.
Commit ==
    /\ phase = "commit"
    /\ LET session ==
               [messages |-> IF AutoCompacts THEN Compacted(turn.messages) ELSE turn.messages,
                compacted |-> memory.compacted \/ AutoCompacts,
                stamp |-> clock]
       IN  memory' = session /\ Save(at.path, session)
    /\ turn' = NoTurn
    /\ UNCHANGED <<clock, at, restricted>>
-----------------------------------------------------------------------------
(* Commands.                                                               *)
Unused(id) == \A path \in Paths : path[1] = id => ~files[path].exists

\* LiveCli::new and /clear both begin a session with an id of its own.
NewSession(id) ==
    /\ phase \in {"down", "idle"} /\ clock < MaxClock /\ Unused(id)
    /\ clock' = clock + 1
    /\ at' = [id |-> id, path |-> <<id, 0>>]
    /\ memory' = Fresh(clock + 1)
    /\ Save(<<id, 0>>, Fresh(clock + 1))
    /\ UNCHANGED <<turn, restricted>>

\* Variant: the loop saves nothing after /resume.
SaveOpened_Not(path) == phase' = "idle" /\ UNCHANGED files

SaveOpened(path) == Save(path, Loaded(path))

\* /resume and /session switch: the loop saves the session afterwards.
Open(path) ==
    /\ phase = "idle" /\ Loadable(path)
    /\ at' = [id |-> path[1], path |-> path]
    /\ memory' = Loaded(path)
    /\ SaveOpened(path)
    /\ UNCHANGED <<clock, turn, restricted>>

\* The alias "latest" is the file updated last; one that cannot be read is oldest.
Updated(path) == IF Loadable(path) THEN files[path].stamp ELSE 0
Latest(path) ==
    files[path].exists
    /\ \A other \in Paths : files[other].exists => Updated(other) <= Updated(path)
OpenLatest == \E path \in Paths : Latest(path) /\ Open(path)

\* /compact with the default budget.
\* Variant: the session is not saved.
SaveCompacted_Not(session) == phase' = "idle" /\ UNCHANGED files

SaveCompacted(session) == Save(at.path, session)

Compact ==
    /\ phase = "idle"
    /\ \/ /\ clock < MaxClock /\ ShouldCompact(memory.messages, TRUE)
          /\ clock' = clock + 1
          /\ LET session == [messages |-> Compacted(memory.messages), compacted |-> TRUE,
                             stamp |-> clock + 1]
             IN  memory' = session /\ SaveCompacted(session)
       \/ SaveCompacted(memory) /\ UNCHANGED <<clock, memory>>
    /\ UNCHANGED <<at, turn, restricted>>

\* /session fork: a copy under a new id.
Fork(id) ==
    /\ phase = "idle" /\ clock < MaxClock /\ Unused(id)
    /\ clock' = clock + 1
    /\ at' = [id |-> id, path |-> <<id, 0>>]
    /\ memory' = [memory EXCEPT !.stamp = clock + 1]
    /\ Save(<<id, 0>>, [memory EXCEPT !.stamp = clock + 1])
    /\ UNCHANGED <<turn, restricted>>

\* /session delete: the name of the file is compared with the active id.
\* Variant: the guard compares nothing.
Deletable_Any(path) == TRUE

Deletable(path) == path # <<at.id, 0>>

Delete(path) ==
    /\ phase = "idle" /\ files[path].exists /\ Deletable(path)
    /\ files' = [files EXCEPT ![path] = NoFile]
    /\ UNCHANGED <<clock, at, memory, turn, phase, restricted>>

\* /model, /permissions and /plugins rebuild the runtime on the same session.
Rebuild ==
    /\ phase = "idle"
    /\ Save(at.path, memory)
    /\ UNCHANGED <<clock, at, memory, turn, restricted>>

\* The process ends: /exit after its save, or a kill.
End ==
    /\ phase # "down"
    /\ phase' = "down"
    /\ turn' = NoTurn
    /\ UNCHANGED <<files, clock, at, memory, restricted>>

Command ==
    \/ Compact \/ Rebuild \/ OpenLatest
    \/ \E id \in Sessions : NewSession(id) \/ Fork(id)
    \/ \E path \in Paths : Open(path) \/ Delete(path)

ClawNext ==
    \/ RecordPrompt \/ StartTurn \/ TurnFails \/ Reply \/ RunTool \/ NextIteration \/ Commit
    \/ Command \/ WriteSnapshot \/ End

ClawSpec == ClawInit /\ [][ClawNext]_clawVars
-----------------------------------------------------------------------------
(* Properties.                                                             *)
(* No request carries a tool result without the call it answers, wherever  *)
(* compaction cut the transcript and whatever was resumed.                 *)
RequestsPaired ==
    phase = "request" => \A i \in DOMAIN turn.messages : Paired(turn.messages, i)

(* A turn leaves no call of its own unanswered in the next request: only   *)
(* what the session held before the turn may be, after a turn was cut.     *)
TurnAnswersItsCalls ==
    phase = "request" =>
        \A i \in Len(memory.messages) + 1 .. Len(turn.messages) : Answered(turn.messages, i)

(* While the REPL waits for a prompt the session's file, if it was not     *)
(* deleted, loads to the session in memory.                                *)
FileFollowsMemory ==
    phase = "idle" /\ files[at.path].exists =>
        Loadable(at.path) /\ Loaded(at.path) = memory

\* The text of a file holds a session, whole or as compaction left it.
Holds(file, messages) ==
    /\ file.exists
    /\ \/ IsPrefix(messages, file.messages)
       \/ PrefixLen(messages) = 1 /\ IsSuffix(Tail(messages), file.messages)

(* What finished turns said is in the session's file, or in the one set    *)
(* aside, also when the process ends within a turn, a line or a save.      *)
FinishedTurnsKept ==
    at.path # NoPath /\ at.path[2] = 0 =>
        Holds(files[at.path], memory.messages) \/ Holds(files[Aside(at.path)], memory.messages)

(* A line that the end of a process cut is rewritten before anything is    *)
(* appended behind it.  Two records share a line, and their file does not  *)
(* load until it is written anew, only in one case: a prompt whose write   *)
(* to the history failed within its line, of which the REPL only warns.    *)
LinesApart ==
    \A path \in Paths :
        files[path].exists /\ files[path].tail = "joined" => files[path].warned

(* "/resume latest" in a REPL without messages goes back to another        *)
(* session, when one has messages.                                         *)
LatestGoesBack ==
    phase = "idle" /\ memory.messages = <<>>
      /\ (\E path \in Paths : Loadable(path) /\ files[path].messages # <<>>)
    => \E path \in Paths : Latest(path) /\ path # at.path
=============================================================================
