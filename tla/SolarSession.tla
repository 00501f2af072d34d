---------------------------- MODULE SolarSession ----------------------------
(***************************************************************************)
(* The conversation loop of the Solarcido port in Rust and its session     *)
(* files: processes of the CLI (a one-shot prompt or a REPL) that start a  *)
(* session or resume one, run turns, and save the whole transcript after   *)
(* each turn that succeeded.  A save truncates the file and writes it line *)
(* by line, then writes the pointer `latest`; several processes may work   *)
(* on one store, and any of them may die between two writes.               *)
(***************************************************************************)
EXTENDS Naturals, Sequences, SequencesExt

CONSTANTS
    SolarProcs,         \* slots for processes of the CLI
    SolarIds,           \* highest reading of the millisecond clock: ids are readings
    SolarIterations,    \* model requests in one turn (128 in the code)
    SolarCalls,         \* most tool calls in one answer
    SolarTurns          \* bound: turns begun by all processes together

ASSUME SolarAssumption ==
    {SolarIds, SolarIterations, SolarCalls, SolarTurns} \subseteq Nat \ {0}

VARIABLES
    solarClock,         \* what now_ms() returns
    solarBegun,         \* turns begun so far
    solarProcs,         \* the processes
    solarFiles,         \* the session files, by id
    solarLatest         \* the id in `latest`, 0 while it names none

solarVars == <<solarClock, solarBegun, solarProcs, solarFiles, solarLatest>>

Line(role, calls, turn) == [role |-> role, calls |-> calls, turn |-> turn]

\* The metadata record that each file begins with, and a line that no record
\* can be read from: one cut by a crash, or written over by two processes.
Metadata == Line("metadata", 0, 0)
TornLine == Line("torn", 0, 0)

\* A slot that no process uses.  Of the last three fields the code knows
\* nothing: the opening of the file that the process has seen last, whether its
\* transcript comes from settled files only, and whether at the opening for
\* the save under way the file was still as it knew it, and settled or new.
NoProcess ==
    [phase |-> "off", repl |-> FALSE, id |-> 0, messages |-> <<>>, left |-> 0,
     iterations |-> 0, written |-> 0, seen |-> 0, clean |-> TRUE, alone |-> FALSE]

\* `settled`: the last save ran to its end, alone, from a settled transcript.
\* `kept` is the transcript of the last such save, `openings` counts them all,
\* `saved` says that one of them at least has returned.
NoFile ==
    [lines |-> <<>>, settled |-> FALSE, kept |-> <<>>, openings |-> 0, saved |-> FALSE]

SolarInit ==
    /\ solarClock = 1
    /\ solarBegun = 0
    /\ solarProcs = [p \in SolarProcs |-> NoProcess]
    /\ solarFiles = [id \in 1 .. SolarIds |-> NoFile]
    /\ solarLatest = 0

SolarTick ==
    /\ solarClock < SolarIds
    /\ solarClock' = solarClock + 1
    /\ UNCHANGED <<solarBegun, solarProcs, solarFiles, solarLatest>>

\* A process starts a session of its own, named after the clock.
SolarStart(p, repl) ==
    /\ solarProcs[p].phase = "off"
    /\ solarProcs' = [solarProcs EXCEPT ![p] =
           [NoProcess EXCEPT !.phase = "idle", !.repl = repl, !.id = solarClock]]
    /\ UNCHANGED <<solarClock, solarBegun, solarFiles, solarLatest>>

\* load_snapshot: a file that is missing, has no metadata or has a line that is
\* no record makes --resume fail, which ends the process before it did anything.
Loadable(file) ==
    /\ file.lines # <<>>
    /\ Head(file.lines) = Metadata
    /\ TornLine \notin ToSet(file.lines)

\* Variant: the messages of the loaded session do not reach the runtime.
SolarResume_Empty(p, repl, id) ==
    /\ solarProcs[p].phase = "off"
    /\ Loadable(solarFiles[id])
    /\ solarProcs' = [solarProcs EXCEPT ![p] =
           [NoProcess EXCEPT !.phase = "idle", !.repl = repl, !.id = id,
                             !.seen = solarFiles[id].openings,
                             !.clean = solarFiles[id].settled]]
    /\ UNCHANGED <<solarClock, solarBegun, solarFiles, solarLatest>>

\* A process resumes a session by its id or by `latest`: it goes on under the
\* same id, with what the file holds at this moment.
SolarResume(p, repl, id) ==
    /\ solarProcs[p].phase = "off"
    /\ Loadable(solarFiles[id])
    /\ solarProcs' = [solarProcs EXCEPT ![p] =
           [NoProcess EXCEPT !.phase = "idle", !.repl = repl, !.id = id,
                             !.messages = Tail(solarFiles[id].lines),
                             !.seen = solarFiles[id].openings,
                             !.clean = solarFiles[id].settled]]
    /\ UNCHANGED <<solarClock, solarBegun, solarFiles, solarLatest>>

Spoken(proc, line) == [proc EXCEPT !.messages = Append(proc.messages, line)]

\* A prompt: the message of the user is pushed before anything is asked.
SolarPrompt(p) ==
    /\ solarProcs[p].phase = "idle"
    /\ solarBegun < SolarTurns
    /\ solarBegun' = solarBegun + 1
    /\ solarProcs' = [solarProcs EXCEPT ![p] =
           [Spoken(@, Line("user", 0, solarBegun')) EXCEPT
               !.phase = "asking", !.iterations = 0]]
    /\ UNCHANGED <<solarClock, solarFiles, solarLatest>>

TurnOf(proc) == Last(proc.messages).turn

\* The model answers with some tool calls, or with none, which ends the turn.
SolarAnswer(p, calls) ==
    /\ solarProcs[p].phase = "asking"
    /\ solarProcs[p].iterations < SolarIterations
    /\ solarProcs' = [solarProcs EXCEPT ![p] =
           [Spoken(@, Line("assistant", calls, TurnOf(@))) EXCEPT
               !.phase = IF calls = 0 THEN "saving" ELSE "acting",
               !.left = calls, !.iterations = solarProcs[p].iterations + 1]]
    /\ UNCHANGED <<solarClock, solarBegun, solarFiles, solarLatest>>

\* One call is decided and executed: allowed, refused or failed, its result is
\* pushed before the next call is looked at.
SolarExecute(p) ==
    /\ solarProcs[p].phase = "acting"
    /\ solarProcs' = [solarProcs EXCEPT ![p] =
           [Spoken(@, Line("tool", 0, TurnOf(@))) EXCEPT
               !.phase = IF solarProcs[p].left = 1 THEN "asking" ELSE "acting",
               !.left = solarProcs[p].left - 1]]
    /\ UNCHANGED <<solarClock, solarBegun, solarFiles, solarLatest>>

\* Variant: the REPL saves what it has after a turn that failed.
SolarFail_Saved(p) ==
    /\ solarProcs[p].phase = "asking"
    /\ solarProcs' = [solarProcs EXCEPT ![p].phase = "saving"]
    /\ UNCHANGED <<solarClock, solarBegun, solarFiles, solarLatest>>

\* The request fails for good, the stream breaks off, or the turn has used up
\* its iterations: the error ends the process, a REPL too, and nothing is saved.
SolarFail(p) ==
    /\ solarProcs[p].phase = "asking"
    /\ solarProcs' = [solarProcs EXCEPT ![p] = NoProcess]
    /\ UNCHANGED <<solarClock, solarBegun, solarFiles, solarLatest>>

\* File::create: whatever the file held is gone.
SolarOpen(p) ==
    LET proc == solarProcs[p]
        file == solarFiles[proc.id]
    IN  /\ proc.phase = "saving"
        /\ solarFiles' = [solarFiles EXCEPT ![proc.id] =
               [file EXCEPT !.lines = <<>>, !.settled = FALSE,
                            !.openings = file.openings + 1]]
        /\ solarProcs' = [solarProcs EXCEPT ![p] =
               [proc EXCEPT !.phase = "writing", !.written = 0, !.seen = file.openings + 1,
                            !.alone = /\ proc.clean /\ proc.seen = file.openings
                                      /\ file.settled \/ file.openings = 0]]
        /\ UNCHANGED <<solarClock, solarBegun, solarLatest>>

\* The next record.  A writer keeps its own place in the file: once another
\* process has truncated the file, the records land over each other.
SolarWrite(p) ==
    LET proc == solarProcs[p]
        file == solarFiles[proc.id]
        records == <<Metadata>> \o proc.messages
        undisturbed == file.openings = proc.seen /\ Len(file.lines) = proc.written
    IN  /\ proc.phase = "writing"
        /\ proc.written < Len(records)
        /\ solarFiles' = [solarFiles EXCEPT ![proc.id] =
               [file EXCEPT !.settled = FALSE,
                            !.lines = Append(file.lines,
                                IF undisturbed THEN records[proc.written + 1] ELSE TornLine)]]
        /\ solarProcs' = [solarProcs EXCEPT ![p].written = proc.written + 1]
        /\ UNCHANGED <<solarClock, solarBegun, solarLatest>>

\* save_snapshot returns after the last record.
SolarWritten(p) ==
    LET proc == solarProcs[p]
        file == solarFiles[proc.id]
        settled == /\ proc.clean /\ file.openings = proc.seen
                   /\ file.lines = <<Metadata>> \o proc.messages
    IN  /\ proc.phase = "writing"
        /\ proc.written = Len(proc.messages) + 1
        /\ solarFiles' = [solarFiles EXCEPT ![proc.id] =
               [file EXCEPT !.settled = settled, !.saved = TRUE,
                            !.kept = IF settled THEN proc.messages ELSE file.kept]]
        /\ solarProcs' = [solarProcs EXCEPT ![p].phase = "pointing"]
        /\ UNCHANGED <<solarClock, solarBegun, solarLatest>>

\* The pointer is written; a REPL goes on with the next prompt.
SolarPoint(p) ==
    LET proc == solarProcs[p]
    IN  /\ proc.phase = "pointing"
        /\ solarLatest' = proc.id
        /\ solarProcs' = [solarProcs EXCEPT ![p] =
               IF proc.repl THEN [proc EXCEPT !.phase = "idle"] ELSE NoProcess]
        /\ UNCHANGED <<solarClock, solarBegun, solarFiles>>

\* A write fails or the process dies, at any point; a REPL may also be left.
\* A record may be cut in two, and a pointer that was truncated names nothing.
SolarStop(p) ==
    LET proc == solarProcs[p]
        file == solarFiles[proc.id]
    IN  /\ proc.phase # "off"
        /\ solarProcs' = [solarProcs EXCEPT ![p] = NoProcess]
        /\ \/ UNCHANGED <<solarFiles, solarLatest>>
           \/ /\ proc.phase = "writing" /\ proc.written <= Len(proc.messages)
              /\ solarFiles' = [solarFiles EXCEPT ![proc.id] =
                     [file EXCEPT !.settled = FALSE, !.lines = Append(file.lines, TornLine)]]
              /\ UNCHANGED solarLatest
           \/ /\ proc.phase = "pointing"
              /\ solarLatest' = 0
              /\ UNCHANGED solarFiles
        /\ UNCHANGED <<solarClock, solarBegun>>

SolarNext ==
    \/ SolarTick
    \/ \E p \in SolarProcs :
           \/ \E repl \in BOOLEAN : SolarStart(p, repl)
           \/ \E repl \in BOOLEAN, id \in 1 .. SolarIds : SolarResume(p, repl, id)
           \/ \E calls \in 0 .. SolarCalls : SolarAnswer(p, calls)
           \/ SolarPrompt(p) \/ SolarExecute(p) \/ SolarFail(p)
           \/ SolarOpen(p) \/ SolarWrite(p) \/ SolarWritten(p) \/ SolarPoint(p)
           \/ SolarStop(p)

SolarSpec == SolarInit /\ [][SolarNext]_solarVars
-----------------------------------------------------------------------------
\* A transcript of whole turns: each begins with its prompt, every answer has
\* the results of all its calls behind it and then the next answer, and the
\* answer that ends a turn is the last message or is followed by a prompt.
WholeTurns(messages) ==
    \A i \in 1 .. Len(messages) :
        LET role(k) == IF k \in 1 .. Len(messages) THEN messages[k].role ELSE "none"
            calls == messages[i].calls
        IN  /\ i = 1 => role(i) = "user"
            /\ role(i) = "user" => role(i + 1) = "assistant"
            /\ role(i) = "assistant" =>
                   /\ \A k \in 1 .. calls : role(i + k) = "tool"
                   /\ role(i + calls + 1) \in
                          IF calls = 0 THEN {"none", "user"} ELSE {"assistant"}

\* What --resume finds: whenever the last save of a session ran to its end
\* alone, from such a file, it holds whole turns only, however turns failed in
\* between; and `latest` only ever names a session that some save has reached
\* the end of.  Of a file that a crash cut, or that two processes saved at
\* once, nothing is said (runtime/src/session.rs: save, load).
ResumableIsWhole ==
    /\ \A id \in 1 .. SolarIds :
           solarFiles[id].settled => WholeTurns(Tail(solarFiles[id].lines))
    /\ solarLatest # 0 => solarFiles[solarLatest].saved

\* A save rewrites the whole file, yet loses no turn: it extends what the last
\* save had left, unless another process has opened the file since this one
\* loaded or wrote it, or was still writing it then, or a crash had cut it
\* (save_snapshot, with_session).
SavesExtend ==
    [][\A p \in SolarProcs :
          /\ solarProcs[p].phase = "writing"
          /\ solarProcs'[p].phase = "pointing"
          /\ solarProcs[p].alone
          /\ solarFiles[solarProcs[p].id].openings = solarProcs[p].seen
          /\ solarFiles'[solarProcs[p].id].settled
          => IsPrefix(solarFiles[solarProcs[p].id].kept,
                      solarFiles'[solarProcs[p].id].kept)]_solarVars
=============================================================================
