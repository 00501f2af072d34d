----------------------------- MODULE CronDaemon -----------------------------
(***************************************************************************)
(* runCronDaemon: the first tick is awaited, then an interval starts ticks *)
(* and awaits none of them, so ticks overlap when jobs take longer than a  *)
(* minute.  A tick awaits its due jobs one after another.  Time runs in    *)
(* half minutes, the default interval.                                     *)
(***************************************************************************)
EXTENDS Integers, Sequences

CONSTANTS
    Jobs,         \* the number of valid jobs, numbered in the file's order
    Schedule,     \* the minutes at which each job is due
    MaxTime       \* half minutes the daemon is watched (a bound of the model)

ASSUME CronAssumption ==
    /\ Jobs \in Nat \ {0} /\ MaxTime \in Nat \ {0}
    /\ Schedule \in [1 .. Jobs -> SUBSET Nat]

Minute(t) == t \div 2
Minutes == 0 .. Minute(MaxTime)

VARIABLES
    time,
    since,         \* when the interval was set; -1 while the first tick runs
    lastPoll,      \* when the interval's callback last ran
    lastMinute,    \* -1 for the initial ""
    ticks,         \* every tick with the jobs it has left; the first one runs
    fired          \* how often each job was started for each minute

vars == <<time, since, lastPoll, lastMinute, ticks, fired>>

Polling == since >= 0

DueJobs(m) == {j \in 1 .. Jobs : m \in Schedule[j]}

\* runCronTick runs its jobs in the order of the file.
IsFirst(j, jobs) == j \in jobs /\ \A i \in jobs : j <= i

\* runJob is called for the first of these jobs.
Fire(jobs, m) ==
    fired' = [j \in 1 .. Jobs |->
                [fired[j] EXCEPT ![m] = IF IsFirst(j, jobs) THEN @ + 1 ELSE @]]

NewTick ==
    /\ ticks' = Append(ticks, [at |-> Minute(time), left |-> DueJobs(Minute(time))])
    /\ Fire(DueJobs(Minute(time)), Minute(time))

\* Variant: a minute is recorded only when it has no jobs to wait for.
Tick_Unrecorded ==
    IF Minute(time) = lastMinute
    THEN UNCHANGED <<lastMinute, ticks, fired>>
    ELSE /\ lastMinute' = IF DueJobs(Minute(time)) = {} THEN Minute(time) ELSE lastMinute
         /\ NewTick

(* tick up to its first await: nothing in a minute that has had its tick;  *)
(* the minute is recorded before the jobs run.                             *)
Tick ==
    IF Minute(time) = lastMinute
    THEN UNCHANGED <<lastMinute, ticks, fired>>
    ELSE lastMinute' = Minute(time) /\ NewTick

Init ==
    /\ time \in {0, 1}
    /\ since = -1 /\ lastPoll = time /\ lastMinute = -1
    /\ ticks = <<>>
    /\ fired = [j \in 1 .. Jobs |-> [m \in Minutes |-> 0]]

FirstTick == ticks = <<>> /\ Tick /\ UNCHANGED <<time, since, lastPoll>>

\* The first tick is over: setInterval, whose callback comes half a minute later.
SetInterval ==
    /\ ~Polling /\ ticks # <<>> /\ ticks[1].left = {}
    /\ since' = time /\ lastPoll' = time
    /\ UNCHANGED <<time, lastMinute, ticks, fired>>

Poll ==
    /\ Polling /\ time > lastPoll
    /\ lastPoll' = time
    /\ Tick
    /\ UNCHANGED <<time, since>>

\* The job that runs settles and runCronTick calls runJob for the next one;
\* the default runJob catches what runWorkflow throws.
JobEnds(k) ==
    \E j \in 1 .. Jobs :
        LET left == ticks[k].left \ {j}
        IN  /\ IsFirst(j, ticks[k].left)
            /\ ticks' = [ticks EXCEPT ![k].left = left]
            /\ Fire(left, ticks[k].at)
            /\ UNCHANGED <<time, since, lastPoll, lastMinute>>

(* The callback is due every half minute and may be late by less than one: *)
(* no two half minutes go by without it.                                   *)
Advance ==
    /\ time < MaxTime
    /\ ticks # <<>>
    /\ Polling => time - lastPoll < 2
    /\ time' = time + 1
    /\ UNCHANGED <<since, lastPoll, lastMinute, ticks, fired>>

Next ==
    \/ FirstTick \/ SetInterval \/ Poll \/ Advance
    \/ \E k \in DOMAIN ticks : JobEnds(k)

Spec == Init /\ [][Next]_vars

-----------------------------------------------------------------------------
TickState == [at: Minutes, left: SUBSET (1 .. Jobs)]

\* Every variable stays in its range and the callback is never late by more
\* than a minute.
TypeOK ==
    /\ time \in 0 .. MaxTime
    /\ since \in -1 .. time /\ lastPoll \in 0 .. time
    /\ Polling => time - lastPoll <= 2
    /\ lastMinute \in -1 .. Minute(time)
    /\ ticks \in Seq(TickState)
    /\ fired \in [1 .. Jobs -> [Minutes -> Nat]]

\* The daemon "de-duplicates firings within the same minute": however its ticks
\* overlap, a job is started at most once for any minute, and only for a minute
\* at which it is due.
OncePerMinute ==
    \A j \in 1 .. Jobs, m \in Minutes :
        fired[j][m] <= (IF m \in Schedule[j] THEN 1 ELSE 0)

InTick(j, m) ==
    \E k \in DOMAIN ticks : ticks[k].at = m /\ j \in ticks[k].left
Handled(m) ==
    \A j \in 1 .. Jobs : m \in Schedule[j] => fired[j][m] > 0 \/ InTick(j, m)

\* Once the interval runs, no minute goes by without its due jobs started or in
\* line in a tick, also while earlier ticks are still busy.
PollingMissesNone ==
    \A m \in Minutes :
        Polling /\ Minute(since) < m /\ m < Minute(time) => Handled(m)

=============================================================================
