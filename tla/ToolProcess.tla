---------------------------- MODULE ToolProcess ----------------------------
(***************************************************************************)
(* A call of a tool that runs a command in a child process: bash, whose    *)
(* output is read while it runs, and PowerShell and REPL, which, given a   *)
(* timeout, look every 10 ms whether the child has exited and read its     *)
(* pipes only then.  A process the command started in the background holds *)
(* the pipe open after the command is over.                                *)
(***************************************************************************)
EXTENDS Integers

CONSTANTS
    PipeSize,      \* chunks a pipe holds; a write to a full one blocks
    MaxOutput,     \* chunks a command writes (a bound)
    Timeouts,      \* the timeouts callers give
    MaxElapsed     \* a bound of the model, past every timeout

ASSUME ProcessAssumption ==
    /\ PipeSize \in Nat \ {0} /\ MaxOutput \in Nat
    /\ Timeouts \subseteq 0 .. MaxElapsed /\ MaxElapsed \in Nat

CommandTools == {"bash", "PowerShell", "REPL"}
Forever == -1                 \* no timeout was given

VARIABLES
    procTool, procTimeout,
    procStage,       \* idle, watching, draining, returned
    procResult,      \* none, exited, timeout, background or error
    procChild,       \* none, runs, exited, killed
    procHelper,      \* a background process of the command holds the pipe
    procLeft,        \* chunks the command has still to write
    procPipe,        \* chunks in the pipe
    procElapsed

procVars == <<procTool, procTimeout, procStage, procResult, procChild, procHelper,
              procLeft, procPipe, procElapsed>>

ProcInit ==
    /\ procTool \in CommandTools
    /\ procTimeout \in Timeouts \union {Forever}
    /\ procStage = "idle" /\ procResult = "none"
    /\ procChild = "none" /\ procHelper = FALSE
    /\ procLeft \in 0 .. MaxOutput /\ procPipe = 0
    /\ procElapsed = 0

\* PowerShell and REPL with a timeout; the other calls read while they wait.
Polls == procTool # "bash" /\ procTimeout # Forever

Start ==
    /\ procStage = "idle" /\ procStage' = "watching" /\ procChild' = "runs"
    /\ UNCHANGED <<procTool, procTimeout, procResult, procHelper, procLeft, procPipe,
                   procElapsed>>

CannotStart ==
    /\ procStage = "idle" /\ procStage' = "returned" /\ procResult' = "error"
    /\ UNCHANGED <<procTool, procTimeout, procChild, procHelper, procLeft, procPipe,
                   procElapsed>>

\* run_in_background of bash and PowerShell: nobody reads it or waits for it.
StartInBackground ==
    /\ procTool # "REPL" /\ procStage = "idle"
    /\ procStage' = "returned" /\ procResult' = "background" /\ procChild' = "runs"
    /\ procLeft' = 0
    /\ UNCHANGED <<procTool, procTimeout, procHelper, procPipe, procElapsed>>

\* The command's side.  The pipe of a call that has returned is closed.
CommandWrites ==
    /\ procChild = "runs" /\ procStage # "returned" /\ procLeft > 0 /\ procPipe < PipeSize
    /\ procLeft' = procLeft - 1 /\ procPipe' = procPipe + 1
    /\ UNCHANGED <<procTool, procTimeout, procStage, procResult, procChild, procHelper,
                   procElapsed>>
CommandForks ==
    /\ procChild = "runs" /\ procStage # "returned"
    /\ ~procHelper /\ procHelper' = TRUE
    /\ UNCHANGED <<procTool, procTimeout, procStage, procResult, procChild, procLeft,
                   procPipe, procElapsed>>
CommandExits ==
    /\ procChild = "runs" /\ (procLeft = 0 \/ procStage = "returned")
    /\ procChild' = "exited"
    /\ UNCHANGED <<procTool, procTimeout, procStage, procResult, procHelper, procLeft,
                   procPipe, procElapsed>>
HelperExits ==
    /\ procHelper /\ procHelper' = FALSE
    /\ UNCHANGED <<procTool, procTimeout, procStage, procResult, procChild, procLeft,
                   procPipe, procElapsed>>

ReadPipe ==
    /\ procPipe > 0
    /\ procStage = "draining" \/ (procStage = "watching" /\ ~Polls)
    /\ procPipe' = procPipe - 1
    /\ UNCHANGED <<procTool, procTimeout, procStage, procResult, procChild, procHelper,
                   procLeft, procElapsed>>

\* Variant: a pipe that is empty counts as at its end.
AtEndOfFile_Empty == procPipe = 0

\* read returns 0: nothing in the pipe, and nobody left who could write to it.
AtEndOfFile == procPipe = 0 /\ procChild # "runs" /\ ~procHelper

\* try_wait returns a status; wait_with_output reads what is left.
SeesExit ==
    /\ procStage = "watching" /\ Polls /\ procChild = "exited"
    /\ procStage' = "draining" /\ procResult' = "exited"
    /\ UNCHANGED <<procTool, procTimeout, procChild, procHelper, procLeft, procPipe,
                   procElapsed>>

TimeIsUp == procTimeout # Forever /\ procElapsed >= procTimeout

\* Variant: the child is left to itself.
ChildAtDeadline_Kept == procChild

\* PowerShell and REPL kill the child itself; bash drops the future that waits
\* for it, and tokio leaves the process running.
ChildAtDeadline ==
    IF Polls /\ procChild = "runs" THEN "killed" ELSE procChild

(* bash returns at once, without what it has read, unless its output is    *)
(* complete; the others, which have seen no exit, read to the end.         *)
DeadlinePasses ==
    /\ procStage = "watching" /\ TimeIsUp
    /\ procTool = "bash" => ~AtEndOfFile
    /\ procStage' = (IF Polls THEN "draining" ELSE "returned")
    /\ procResult' = "timeout" /\ procChild' = ChildAtDeadline
    /\ UNCHANGED <<procTool, procTimeout, procHelper, procLeft, procPipe, procElapsed>>

\* The output is complete and the child is reaped.
OutputEnds ==
    /\ AtEndOfFile
    /\ \/ procStage = "draining" /\ UNCHANGED procResult
       \/ procStage = "watching" /\ ~Polls /\ procResult' = "exited"
    /\ procStage' = "returned"
    /\ UNCHANGED <<procTool, procTimeout, procChild, procHelper, procLeft, procPipe,
                   procElapsed>>

TimePasses ==
    /\ procStage \in {"watching", "draining"} /\ procElapsed < MaxElapsed
    /\ procElapsed' = procElapsed + 1
    /\ UNCHANGED <<procTool, procTimeout, procStage, procResult, procChild, procHelper,
                   procLeft, procPipe>>

ProcNext ==
    \/ Start \/ CannotStart \/ StartInBackground
    \/ CommandWrites \/ CommandForks \/ CommandExits \/ HelperExits
    \/ ReadPipe \/ SeesExit \/ DeadlinePasses \/ OutputEnds \/ TimePasses

ProcSpec == ProcInit /\ [][ProcNext]_procVars

\* The tool's own steps and the clock; what the command does is its own affair.
ProcFairness ==
    /\ WF_procVars(ReadPipe) /\ WF_procVars(SeesExit) /\ WF_procVars(DeadlinePasses)
    /\ WF_procVars(OutputEnds) /\ WF_procVars(TimePasses)

ProcFairSpec == ProcSpec /\ ProcFairness
-----------------------------------------------------------------------------
\* A result that says the command exited rests on all of its output: the command
\* had written all it had to write, and the tool has read all of it (of which bash
\* shows the model the first 16 KiB).
ExitedIsWhole ==
    procStage = "returned" /\ procResult = "exited" =>
        procChild = "exited" /\ procLeft = 0 /\ procPipe = 0

\* A PowerShell or REPL call that has returned leaves no command running that
\* it was to wait for; only processes the command started can live on.
NothingRunsOn ==
    procStage = "returned" /\ procResult \in {"exited", "timeout"} /\ procTool # "bash" =>
        procChild # "runs"

\* A call with a timeout comes back, however long the command runs and however
\* much it writes; PowerShell and REPL need for that that nothing the command
\* has left behind holds the pipe open.
TimedCallReturns ==
    procStage = "watching" /\ procTimeout # Forever
        ~> procStage = "returned" \/ (procTool # "bash" /\ procHelper)
=============================================================================
