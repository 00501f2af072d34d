----------------------------- MODULE TaskRunner -----------------------------
(***************************************************************************)
(* TaskRegistry and the TaskRunner that drives its tasks: batches of tasks *)
(* are started slice by slice, an injected executor settles each one, and  *)
(* meanwhile other callers of the registry stop and remove tasks.  What    *)
(* runs between two awaits is one step: the start of a slice, and what     *)
(* runTask does when the executor settles.                                 *)
(***************************************************************************)
EXTENDS Integers, Sequences, FiniteSets

CONSTANTS
    MaxTasks,      \* tasks the registry ever creates (a bound of the model)
    Batches,       \* the calls of runPending and runBatch
    IdLists,       \* what runBatch is called with
    Widths,        \* options.concurrency
    Interferes     \* whether others stop and remove tasks

ASSUME TaskAssumption ==
    /\ MaxTasks \in Nat /\ Widths \subseteq Int /\ Interferes \in BOOLEAN
    /\ IdLists \subseteq Seq(1 .. MaxTasks)

Tasks == 1 .. MaxTasks    \* in the order of creation

VARIABLES
    created,    \* how many tasks were created
    status,     \* of each task; "absent" before creation and after removal
    batch       \* of each call of the runner

vars == <<created, status, batch>>

Terminal == {"completed", "failed", "stopped"}
Statuses == {"absent", "created", "running"} \cup Terminal

(* runs[i] follows runTask(ids[i]): the status it returned with once it is *)
(* settled, "threw" when its promise rejected.  from is the first index of *)
(* the current slice; results are what the batch resolves with.            *)
Settled == {"completed", "failed"}
RunStates == {"waiting", "executing", "threw"} \cup Settled
Idle == [phase |-> "idle", ids |-> <<>>, width |-> 1, from |-> 1,
         runs |-> <<>>, results |-> <<>>]

Present(t) == status[t] # "absent"
Positions(b) == 1 .. Len(batch[b].ids)

Slice(from, width, ids) ==
    {i \in 1 .. Len(ids) : from <= i /\ i < from + width}
CurrentSlice(b) == Slice(batch[b].from, batch[b].width, batch[b].ids)

Init ==
    /\ created = 0
    /\ status = [t \in Tasks |-> "absent"]
    /\ batch = [b \in Batches |-> Idle]

Create ==
    /\ created < MaxTasks
    /\ created' = created + 1
    /\ status' = [status EXCEPT ![created + 1] = "created"]
    /\ UNCHANGED batch

\* TaskRegistry.stop refuses a task that is already in a terminal state.
Stop(t) ==
    /\ Interferes /\ Present(t) /\ status[t] \notin Terminal
    /\ status' = [status EXCEPT ![t] = "stopped"]
    /\ UNCHANGED <<created, batch>>

Remove(t) ==
    /\ Interferes /\ Present(t)
    /\ status' = [status EXCEPT ![t] = "absent"]
    /\ UNCHANGED <<created, batch>>
-----------------------------------------------------------------------------
(* Every runTask of a slice runs up to its await in the same step: it sets *)
(* the status, whatever it was, or throws when the task is gone.           *)
Launch(runs, ids, slice) ==
    [i \in DOMAIN runs |->
        IF i \notin slice THEN runs[i]
        ELSE IF Present(ids[i]) THEN "executing" ELSE "threw"]

Launched(ids, slice) ==
    [t \in Tasks |->
        IF Present(t) /\ \E i \in slice : ids[i] = t THEN "running" ELSE status[t]]

\* Concurrency is at least one.
Width(w) == IF w < 1 THEN 1 ELSE w

\* A caller has the ids that create returned to it, of tasks since removed too.
RunBatch(b, ids, w) ==
    LET width == Width(w)
        slice == Slice(1, width, ids)
        waiting == [i \in 1 .. Len(ids) |-> "waiting"]
    IN  /\ batch[b].phase = "idle"
        /\ ids \in Seq(1 .. created)
        /\ status' = Launched(ids, slice)
        /\ batch' = [batch EXCEPT ![b] =
              [phase |-> "running", ids |-> ids, width |-> width, from |-> 1,
               runs |-> Launch(waiting, ids, slice), results |-> <<>>]]
        /\ UNCHANGED created

\* runPending takes the list of created tasks when it is called.
Pending == SelectSeq([t \in Tasks |-> t], LAMBDA t : status[t] = "created")

RunPending(b, w) == RunBatch(b, Pending, w)

\* Variant: the catch records the output but not the status.
Settle_NoStatus(b, i) ==
    LET t == batch[b].ids[i]
    IN  /\ batch[b].runs[i] = "executing"
        /\ \E end \in Settled :
              /\ status' = IF end = "completed" /\ Present(t)
                           THEN [status EXCEPT ![t] = end] ELSE status
              /\ batch' = [batch EXCEPT ![b].runs[i] =
                              IF Present(t) THEN end ELSE "threw"]
        /\ UNCHANGED created

(* The executor settles: runTask records output and status, unless the     *)
(* task is gone, when its own error handler throws as well.                *)
Settle(b, i) ==
    LET t == batch[b].ids[i]
    IN  /\ batch[b].runs[i] = "executing"
        /\ IF Present(t)
           THEN \E end \in Settled :
                   /\ status' = [status EXCEPT ![t] = end]
                   /\ batch' = [batch EXCEPT ![b].runs[i] = end]
           ELSE /\ batch' = [batch EXCEPT ![b].runs[i] = "threw"]
                /\ status' = status
        /\ UNCHANGED created

\* Variant: the first run to settle ends the slice.
SliceDone_Any(b) == \E i \in CurrentSlice(b) : batch[b].runs[i] \in Settled

\* Promise.all of the slice is fulfilled: its results join those of the batch.
SliceDone(b) == \A i \in CurrentSlice(b) : batch[b].runs[i] \in Settled

SliceEnd(b) ==
    LET end == batch[b].from + batch[b].width - 1
    IN  IF end < Len(batch[b].ids) THEN end ELSE Len(batch[b].ids)

SliceResults(b) ==
    [k \in 1 .. SliceEnd(b) - batch[b].from + 1 |->
        LET i == batch[b].from + k - 1
        IN  [task |-> batch[b].ids[i], status |-> batch[b].runs[i]]]

NextSlice(b) ==
    LET from == batch[b].from + batch[b].width
        slice == Slice(from, batch[b].width, batch[b].ids)
    IN  /\ batch[b].phase = "running" /\ SliceDone(b)
        /\ status' = Launched(batch[b].ids, slice)
        /\ batch' = [batch EXCEPT
              ![b].phase = IF from > Len(batch[b].ids) THEN "resolved" ELSE @,
              ![b].from = from,
              ![b].runs = Launch(@, batch[b].ids, slice),
              ![b].results = @ \o SliceResults(b)]
        /\ UNCHANGED created

\* Promise.all rejects at the first rejection; the other runs go on.
Reject(b) ==
    /\ batch[b].phase = "running"
    /\ \E i \in CurrentSlice(b) : batch[b].runs[i] = "threw"
    /\ batch' = [batch EXCEPT ![b].phase = "rejected"]
    /\ UNCHANGED <<created, status>>

Runner(b) ==
    \/ \E i \in Positions(b) : Settle(b, i)
    \/ NextSlice(b)
    \/ Reject(b)

Next ==
    \/ Create
    \/ \E t \in Tasks : Stop(t) \/ Remove(t)
    \/ \E b \in Batches, w \in Widths :
          RunPending(b, w) \/ \E ids \in IdLists : RunBatch(b, ids, w)
    \/ \E b \in Batches : Runner(b)

Spec == Init /\ [][Next]_vars

(* Executors settle, and the event loop runs what awaits them.  Nobody is  *)
(* obliged to create, stop or remove a task or to call the runner.         *)
FairSpec == Spec /\ \A b \in Batches : WF_vars(Runner(b))
-----------------------------------------------------------------------------
Phases == {"idle", "running", "resolved", "rejected"}
Result == [task: Tasks, status: Settled]
Call == [phase: Phases, ids: Seq(Tasks), width: Nat \ {0}, from: Nat \ {0},
         runs: Seq(RunStates), results: Seq(Result)]

\* Every variable stays in its range, with one run per id of a batch.
TypeOK ==
    /\ created \in 0 .. MaxTasks
    /\ status \in [Tasks -> Statuses]
    /\ batch \in [Batches -> Call]
    /\ \A b \in Batches : Len(batch[b].runs) = Len(batch[b].ids)

\* While a run of one slice executes no run of a later slice has started: the
\* slices of Promise.all are barriers, and a rejected batch starts nothing.
SliceBarrier ==
    \A b \in Batches : \A i, j \in Positions(b) :
        /\ batch[b].runs[i] \in {"executing", "threw"}
        /\ i < j /\ j \notin CurrentSlice(b)
        => batch[b].runs[j] = "waiting"

\* A resolved batch reports one result per id, in the order of the ids however
\* the executors settled, each of them completed or failed: so runTeam's two
\* counts add up to its tasks, even when tasks were stopped meanwhile.
ReportComplete ==
    \A b \in Batches : batch[b].phase = "resolved" =>
        /\ Len(batch[b].results) = Len(batch[b].ids)
        /\ \A i \in Positions(b) :
              /\ batch[b].results[i].task = batch[b].ids[i]
              /\ batch[b].results[i].status \in Settled

\* A batch rejects only for a task that is not in the registry: an executor
\* that fails or throws never makes it reject.
RejectedOnlyByAbsence ==
    \A b \in Batches : batch[b].phase = "rejected" =>
        \E i \in Positions(b) : ~Present(batch[b].ids[i])

\* No task is left running: not even by a batch that was rejected while its
\* siblings executed.
NoneLeftRunning ==
    \A t \in Tasks : status[t] = "running" ~> status[t] # "running"
=============================================================================
