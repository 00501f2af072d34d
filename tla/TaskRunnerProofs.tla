-------------------------- MODULE TaskRunnerProofs --------------------------
(***************************************************************************)
(* For any number of tasks and of calls, any concurrency and any lists of  *)
(* ids: the slices of a batch are barriers, a resolved batch reports every *)
(* id once and in order, and only an absent task makes one reject.         *)
(***************************************************************************)
EXTENDS TaskRunner, SequenceTheorems, TLAPS

Smaller(a, b) == IF a <= b THEN a ELSE b

\* Runs before the slice are settled and reported, runs after it wait.
SliceOK(b) ==
    \A i \in Positions(b) :
        /\ i < batch[b].from => batch[b].runs[i] \in Settled
        /\ i >= batch[b].from + batch[b].width => batch[b].runs[i] = "waiting"

\* A run throws only when its task is gone, and a task does not come back.
AbsenceOK(b) ==
    /\ \A i \in Positions(b) :
          /\ batch[b].ids[i] <= created
          /\ batch[b].runs[i] = "threw" => ~Present(batch[b].ids[i])
    /\ batch[b].phase = "rejected" =>
          \E i \in Positions(b) : batch[b].runs[i] = "threw"

ResultsOK(b) ==
    /\ Len(batch[b].results) = Smaller(batch[b].from - 1, Len(batch[b].ids))
    /\ \A k \in 1 .. Len(batch[b].results) :
          batch[b].results[k] = [task |-> batch[b].ids[k], status |-> batch[b].runs[k]]
    /\ batch[b].phase = "resolved" => batch[b].from > Len(batch[b].ids)
    /\ batch[b].phase = "running" => batch[b].from <= Len(batch[b].ids) + 1

BatchOK(b) == SliceOK(b) /\ AbsenceOK(b) /\ ResultsOK(b)

Inv == TypeOK /\ \A b \in Batches : BatchOK(b)
-----------------------------------------------------------------------------
\* A function on 1 .. n is a sequence.
LEMMA MakeSeq ==
    ASSUME NEW S, NEW n \in Nat, NEW f \in [1 .. n -> S]
    PROVE  f \in Seq(S) /\ Len(f) = n /\ DOMAIN f = 1 .. n
  OBVIOUS

\* What a step must leave alone for a batch it does not touch.
Untouched(b) ==
    /\ batch'[b] = batch[b]
    /\ created \in Nat /\ created' \in Nat /\ created <= created'

NoRevival ==
    \A t \in Tasks : t <= created /\ ~Present(t) => ~Present(t)'

\* A step that does not touch a batch and brings no task back keeps it well
\* formed: registry calls, and the steps of the other batches.
LEMMA Frame ==
    ASSUME NEW b \in Batches, TypeOK, BatchOK(b), Untouched(b), NoRevival
    PROVE  BatchOK(b)'
  <1>1. batch[b].ids \in Seq(Tasks) /\ Len(batch[b].ids) \in Nat
    BY DEF TypeOK, Call
  <1>2. SliceOK(b)'
    BY DEF BatchOK, SliceOK, Positions, Untouched
  <1>3. AbsenceOK(b)'
    <2>1. ASSUME NEW i \in Positions(b) PROVE batch[b].ids[i] \in Tasks
      BY <1>1 DEF Positions
    <2>2. \A i \in Positions(b) : batch[b].ids[i] \in Nat /\ batch[b].ids[i] <= created'
      BY <2>1 DEF BatchOK, AbsenceOK, Untouched, Tasks
    <2>3. \A i \in Positions(b) : batch[b].runs[i] = "threw" => ~Present(batch[b].ids[i])'
      <3> SUFFICES ASSUME NEW i \in Positions(b), batch[b].runs[i] = "threw"
                   PROVE  ~Present(batch[b].ids[i])'
        OBVIOUS
      <3>1. ~Present(batch[b].ids[i]) /\ batch[b].ids[i] <= created
        BY DEF BatchOK, AbsenceOK
      <3>2. \A t \in Tasks : t = batch[b].ids[i] => status'[t] = "absent"
        BY <3>1 DEF NoRevival, Present
      <3>. QED BY <3>2, <2>1 DEF Present, Untouched
    <2>. QED BY <2>2, <2>3 DEF BatchOK, AbsenceOK, Positions, Untouched, Present
  <1>4. ResultsOK(b)'
    BY DEF BatchOK, ResultsOK, Untouched
  <1>. QED BY <1>2, <1>3, <1>4 DEF BatchOK

LEMMA LaunchSeq ==
    ASSUME NEW ids \in Seq(Tasks), NEW runs \in Seq(RunStates),
           Len(runs) = Len(ids), NEW slice
    PROVE  /\ Launch(runs, ids, slice) \in Seq(RunStates)
           /\ Len(Launch(runs, ids, slice)) = Len(ids)
           /\ \A i \in 1 .. Len(ids) : Launch(runs, ids, slice)[i] =
                 IF i \notin slice THEN runs[i]
                 ELSE IF Present(ids[i]) THEN "executing" ELSE "threw"
  <1> DEFINE n == Len(ids)
  <1>1. n \in Nat /\ DOMAIN runs = 1 .. n /\ \A i \in 1 .. n : runs[i] \in RunStates
    OBVIOUS
  <1>2. Launch(runs, ids, slice) \in [1 .. n -> RunStates]
    BY <1>1 DEF Launch, RunStates
  <1>3. \A i \in 1 .. n : Launch(runs, ids, slice)[i] =
                 IF i \notin slice THEN runs[i]
                 ELSE IF Present(ids[i]) THEN "executing" ELSE "threw"
    BY <1>1 DEF Launch
  <1>. QED BY <1>1, <1>2, <1>3, MakeSeq

LEMMA LaunchedStatus ==
    ASSUME TypeOK, NEW ids \in Seq(Tasks), NEW slice \in SUBSET (1 .. Len(ids))
    PROVE  /\ Launched(ids, slice) \in [Tasks -> Statuses]
           /\ \A t \in Tasks : ~Present(t) => Launched(ids, slice)[t] = "absent"
  BY DEF TypeOK, Launched, Present, Statuses

LEMMA Created ==
    ASSUME TypeOK PROVE created \in Nat
  BY DEF TypeOK

LEMMA RunBatchStep ==
    ASSUME TypeOK, NEW b \in Batches, NEW ids, NEW w \in Int, RunBatch(b, ids, w)
    PROVE  TypeOK' /\ BatchOK(b)' /\ NoRevival
           /\ \A c \in Batches \ {b} : Untouched(c)
  <1> DEFINE width == Width(w)
             slice == Slice(1, width, ids)
             waiting == [i \in 1 .. Len(ids) |-> "waiting"]
             runs == Launch(waiting, ids, slice)
             call == [phase |-> "running", ids |-> ids, width |-> width,
                      from |-> 1, runs |-> runs, results |-> <<>>]
  <1>1. created \in Nat /\ created <= MaxTasks /\ 1 .. created \subseteq Tasks
    BY TaskAssumption DEF TypeOK, Tasks
  <1>2. ids \in Seq(Tasks) /\ Len(ids) \in Nat
        /\ \A i \in 1 .. Len(ids) : ids[i] <= created
    BY <1>1 DEF RunBatch
  <1>3. width \in Nat \ {0}
    BY DEF Width
  <1>4. slice \in SUBSET (1 .. Len(ids))
    BY DEF Slice
  <1>5. waiting \in Seq(RunStates) /\ Len(waiting) = Len(ids)
    <2>1. waiting \in [1 .. Len(ids) -> RunStates]
      BY DEF RunStates
    <2>. QED BY <2>1, <1>2, MakeSeq
  <1>6. /\ runs \in Seq(RunStates) /\ Len(runs) = Len(ids)
        /\ \A i \in 1 .. Len(ids) : runs[i] =
              IF i \notin slice THEN waiting[i]
              ELSE IF Present(ids[i]) THEN "executing" ELSE "threw"
    BY <1>2, <1>5, LaunchSeq
  <1>7. batch' = [batch EXCEPT ![b] = call] /\ created' = created
        /\ status' = Launched(ids, slice)
    BY DEF RunBatch
  <1>8. <<>> \in Seq(Result) /\ Len(<<>>) = 0
    OBVIOUS
  <1>9. call \in Call
    BY <1>2, <1>3, <1>6, <1>8 DEF Call, Phases
  <1>10. batch \in [Batches -> Call]
    BY DEF TypeOK
  <1>11. batch' \in [Batches -> Call] /\ batch'[b] = call
         /\ \A c \in Batches \ {b} : batch'[c] = batch[c]
    BY <1>7, <1>9, <1>10
  <1>12. TypeOK'
    <2>1. status' \in [Tasks -> Statuses]
      BY <1>2, <1>4, <1>7, LaunchedStatus
    <2>2. ASSUME NEW c \in Batches PROVE Len(batch'[c].runs) = Len(batch'[c].ids)
      <3>1. CASE c = b
        <4>1. call.runs = runs /\ call.ids = ids
          OBVIOUS
        <4> HIDE DEF call, runs
        <4>. QED BY <3>1, <4>1, <1>6, <1>11
      <3>2. CASE c # b
        <4> HIDE DEF call
        <4>. QED BY <3>2, <1>11 DEF TypeOK
      <3>. QED BY <3>1, <3>2
    <2>. QED BY <2>1, <2>2, <1>1, <1>7, <1>11 DEF TypeOK
  <1>13. \A t \in Tasks : ~Present(t) => status'[t] = "absent"
    BY <1>2, <1>4, <1>7, LaunchedStatus
  <1>14. SliceOK(b)'
    <2>1. \A i \in 1 .. Len(ids) : i >= 1 + width => i \notin slice
      BY <1>3 DEF Slice
    <2>2. \A i \in 1 .. Len(ids) : waiting[i] = "waiting"
      OBVIOUS
    <2>3. \A k \in 1 .. Len(ids) : k >= 1 + width => runs[k] = "waiting"
      BY <2>1, <2>2, <1>6
    <2> HIDE DEF slice, waiting, runs, width
    <2>. QED BY <2>3, <1>11, <1>2 DEF SliceOK, Positions
  <1>15. AbsenceOK(b)'
    <2>1. \A i \in 1 .. Len(ids) : runs[i] = "threw" => ~Present(ids[i])
      BY <1>6
    <2>2. \A i \in 1 .. Len(ids) : runs[i] = "threw" => ~Present(ids[i])'
      BY <2>1, <1>13, <1>2 DEF Present
    <2>. QED BY <2>2, <1>11, <1>2, <1>7 DEF AbsenceOK, Positions, Present
  <1>16. ResultsOK(b)'
    BY <1>8, <1>11, <1>2 DEF ResultsOK, Smaller
  <1>17. NoRevival
    BY <1>13 DEF NoRevival, Present
  <1>18. \A c \in Batches \ {b} : Untouched(c)
    BY <1>11, <1>1, <1>7 DEF Untouched
  <1>. QED BY <1>12, <1>14, <1>15, <1>16, <1>17, <1>18 DEF BatchOK

LEMMA SettleStep ==
    ASSUME TypeOK, NEW b \in Batches, BatchOK(b),
           NEW i \in Positions(b), Settle(b, i)
    PROVE  TypeOK' /\ BatchOK(b)' /\ NoRevival
           /\ \A c \in Batches \ {b} : Untouched(c)
  <1> DEFINE t == batch[b].ids[i]
  <1>1. /\ batch[b] \in Call /\ created \in Nat
        /\ batch[b].ids \in Seq(Tasks) /\ Len(batch[b].ids) \in Nat
        /\ batch[b].runs \in Seq(RunStates)
        /\ Len(batch[b].runs) = Len(batch[b].ids)
        /\ batch[b].width \in Nat \ {0} /\ batch[b].from \in Nat \ {0}
        /\ batch[b].results \in Seq(Result)
    BY DEF TypeOK, Call
  <1>2. i \in 1 .. Len(batch[b].ids) /\ t \in Tasks /\ t <= created
    BY <1>1 DEF Positions, BatchOK, AbsenceOK
  <1>3. PICK end \in Settled \cup {"threw"} :
          /\ batch' = [batch EXCEPT ![b].runs[i] = end]
          /\ created' = created
          /\ end = "threw" <=> ~Present(t)
          /\ status' = IF Present(t) THEN [status EXCEPT ![t] = end] ELSE status
    <2>1. CASE Present(t)
      BY <2>1 DEF Settle, Settled
    <2>2. CASE ~Present(t)
      BY <2>2 DEF Settle
    <2>. QED BY <2>1, <2>2
  <1> DEFINE runs == [batch[b].runs EXCEPT ![i] = end]
             call == [batch[b] EXCEPT !.runs = runs]
  <1>4. end \in RunStates /\ end # "waiting" /\ end # "absent"
        /\ (end # "threw" => end \in Settled /\ end \in Statuses)
    BY DEF RunStates, Settled, Statuses, Terminal
  <1>5. runs \in Seq(RunStates) /\ Len(runs) = Len(batch[b].ids)
        /\ runs[i] = end
        /\ \A k \in 1 .. Len(batch[b].ids) : k # i => runs[k] = batch[b].runs[k]
    BY <1>1, <1>2, <1>4
  <1>6. call \in Call /\ call.runs = runs
        /\ call.ids = batch[b].ids /\ call.phase = batch[b].phase
        /\ call.from = batch[b].from /\ call.width = batch[b].width
        /\ call.results = batch[b].results
    BY <1>1, <1>5 DEF Call
  <1>7. batch' \in [Batches -> Call] /\ batch'[b] = call
        /\ \A c \in Batches \ {b} : batch'[c] = batch[c]
    <2>1. batch' = [batch EXCEPT ![b] = call]
      BY <1>3
    <2>. QED BY <2>1, <1>6 DEF TypeOK
  <1>8. status' \in [Tasks -> Statuses]
        /\ \A u \in Tasks : ~Present(u) => status'[u] = "absent"
    BY <1>2, <1>3, <1>4 DEF TypeOK, Present
  <1>9. TypeOK'
    <2>1. \A c \in Batches : Len(batch'[c].runs) = Len(batch'[c].ids)
      BY <1>7, <1>6, <1>5 DEF TypeOK
    <2>. QED BY <2>1, <1>3, <1>7, <1>8 DEF TypeOK
  <1>10. ~(i < batch[b].from) /\ ~(i >= batch[b].from + batch[b].width)
    <2>1. batch[b].runs[i] = "executing"
      BY DEF Settle
    <2>. QED BY <2>1 DEF BatchOK, SliceOK, Settled
  <1>11. SliceOK(b)'
    BY <1>10, <1>5, <1>6, <1>7, <1>1, <1>2 DEF BatchOK, SliceOK, Positions
  <1>12. AbsenceOK(b)'
    <2>1. \A k \in 1 .. Len(batch[b].ids) : batch[b].ids[k] \in Tasks
      BY <1>1
    <2>2. \A k \in 1 .. Len(batch[b].ids) :
            runs[k] = "threw" => status'[batch[b].ids[k]] = "absent"
      <3> SUFFICES ASSUME NEW k \in 1 .. Len(batch[b].ids), runs[k] = "threw"
                   PROVE  status'[batch[b].ids[k]] = "absent"
        OBVIOUS
      <3>1. ~Present(batch[b].ids[k])
        BY <1>3, <1>5 DEF BatchOK, AbsenceOK, Positions
      <3>. QED BY <3>1, <2>1, <1>8
    <2>3. (\E k \in 1 .. Len(batch[b].ids) : batch[b].runs[k] = "threw")
          => \E k \in 1 .. Len(batch[b].ids) : runs[k] = "threw"
      <3>1. batch[b].runs[i] = "executing"
        BY DEF Settle
      <3>. QED BY <3>1, <1>5
    <2>. QED BY <2>2, <2>3, <1>3, <1>6, <1>7 DEF BatchOK, AbsenceOK, Positions, Present
  <1>13. ResultsOK(b)'
    <2>1. \A k \in 1 .. Len(batch[b].results) :
             k \in 1 .. Len(batch[b].ids) /\ runs[k] = batch[b].runs[k]
      <3> SUFFICES ASSUME NEW k \in 1 .. Len(batch[b].results)
                   PROVE  k \in 1 .. Len(batch[b].ids) /\ runs[k] = batch[b].runs[k]
        OBVIOUS
      <3>1. Len(batch[b].results) \in Nat
            /\ Len(batch[b].results) <= batch[b].from - 1
            /\ Len(batch[b].results) <= Len(batch[b].ids)
        BY <1>1 DEF BatchOK, ResultsOK, Smaller
      <3>2. k \in 1 .. Len(batch[b].ids) /\ k # i
        BY <3>1, <1>10, <1>1, <1>2
      <3>. QED BY <3>2, <1>5
    <2>. QED BY <2>1, <1>6, <1>7 DEF BatchOK, ResultsOK
  <1>14. NoRevival /\ \A c \in Batches \ {b} : Untouched(c)
    BY <1>1, <1>3, <1>7, <1>8 DEF NoRevival, Untouched, Present
  <1>. QED BY <1>9, <1>11, <1>12, <1>13, <1>14 DEF BatchOK

LEMMA NextSliceStep ==
    ASSUME TypeOK, NEW b \in Batches, BatchOK(b), NextSlice(b)
    PROVE  TypeOK' /\ BatchOK(b)' /\ NoRevival
           /\ \A c \in Batches \ {b} : Untouched(c)
  <1> DEFINE ids == batch[b].ids
             width == batch[b].width
             from == batch[b].from + width
             slice == Slice(from, width, ids)
             runs == Launch(batch[b].runs, ids, slice)
             added == SliceResults(b)
             results == batch[b].results \o added
             phase == IF from > Len(ids) THEN "resolved" ELSE batch[b].phase
             call == [batch[b] EXCEPT !.phase = phase, !.from = from,
                                      !.runs = runs, !.results = results]
  <1>1. /\ batch[b] \in Call /\ created \in Nat
        /\ ids \in Seq(Tasks) /\ Len(ids) \in Nat
        /\ batch[b].runs \in Seq(RunStates) /\ Len(batch[b].runs) = Len(ids)
        /\ width \in Nat \ {0} /\ batch[b].from \in Nat \ {0}
        /\ batch[b].results \in Seq(Result) /\ Len(batch[b].results) \in Nat
    BY DEF TypeOK, Call
  <1>2. batch[b].phase = "running" /\ batch[b].from <= Len(ids) + 1
    BY DEF NextSlice, BatchOK, ResultsOK
  <1>3. slice \in SUBSET (1 .. Len(ids))
    BY DEF Slice
  <1>4. /\ runs \in Seq(RunStates) /\ Len(runs) = Len(ids)
        /\ \A i \in 1 .. Len(ids) : runs[i] =
              IF i \notin slice THEN batch[b].runs[i]
              ELSE IF Present(ids[i]) THEN "executing" ELSE "threw"
    BY <1>1, LaunchSeq
  <1>5. \A i \in 1 .. Len(ids) : i < from => batch[b].runs[i] \in Settled
    <2> SUFFICES ASSUME NEW i \in 1 .. Len(ids), i < from
                 PROVE  batch[b].runs[i] \in Settled
      OBVIOUS
    <2>1. CASE i < batch[b].from
      BY <2>1 DEF BatchOK, SliceOK, Positions
    <2>2. CASE ~(i < batch[b].from)
      <3>1. batch[b].from <= i /\ i < batch[b].from + width
        BY <2>2, <1>1
      <3>2. i \in CurrentSlice(b)
        BY <3>1 DEF CurrentSlice, Slice
      <3>. QED BY <3>2 DEF NextSlice, SliceDone
    <2>. QED BY <2>1, <2>2
  <1>6. \A i \in 1 .. Len(ids) : i < from => i \notin slice
    BY <1>1 DEF Slice
  <1>7. PICK n \in Nat : n = SliceEnd(b) - batch[b].from + 1
    BY <1>1, <1>2 DEF SliceEnd
  <1>8. \A k \in 1 .. n : batch[b].from + k - 1 \in 1 .. Len(ids)
                          /\ batch[b].from + k - 1 < from
    <2>1. PICK f \in Nat \ {0}, w \in Nat \ {0}, len \in Nat :
             f = batch[b].from /\ w = width /\ len = Len(ids)
      BY <1>1
    <2>2. n = (IF f + w - 1 < len THEN f + w - 1 ELSE len) - f + 1
      BY <2>1, <1>7 DEF SliceEnd
    <2>3. \A k \in 1 .. n : f + k - 1 \in 1 .. len /\ f + k - 1 < f + w
      BY <2>2
    <2>. QED BY <2>1, <2>3
  <1>9. \A k \in 1 .. n : added[k] =
            [task |-> ids[batch[b].from + k - 1], status |-> batch[b].runs[batch[b].from + k - 1]]
    BY <1>7 DEF SliceResults
  <1>10. added \in [1 .. n -> Result]
    <2>1. \A k \in 1 .. n : ids[batch[b].from + k - 1] \in Tasks
                            /\ batch[b].runs[batch[b].from + k - 1] \in Settled
      BY <1>1, <1>5, <1>8
    <2>2. \A k \in 1 .. n :
            [task |-> ids[batch[b].from + k - 1],
             status |-> batch[b].runs[batch[b].from + k - 1]] \in Result
      BY <2>1 DEF Result
    <2>. QED BY <2>2, <1>7 DEF SliceResults
  <1>11. added \in Seq(Result) /\ Len(added) = n
    BY <1>10, MakeSeq
  <1>12. Len(batch[b].results) = batch[b].from - 1
    BY <1>1, <1>2 DEF BatchOK, ResultsOK, Smaller
  <1> DEFINE m == batch[b].from - 1
  <1>13. m \in Nat
    BY <1>1
  <1>14. /\ results \in Seq(Result) /\ Len(results) = m + n
         /\ \A k \in 1 .. m + n : results[k] =
               IF k <= m THEN batch[b].results[k] ELSE added[k - m]
    <2> DEFINE old == batch[b].results
    <2>1. old \in Seq(Result) /\ added \in Seq(Result) /\ Len(old) = m /\ Len(added) = n
      BY <1>1, <1>11, <1>12
    <2> HIDE DEF old, added, m
    <2>2. /\ old \o added \in Seq(Result) /\ Len(old \o added) = Len(old) + Len(added)
          /\ \A k \in 1 .. Len(old) + Len(added) : (old \o added)[k] =
               IF k <= Len(old) THEN old[k] ELSE added[k - Len(old)]
      BY <2>1, ConcatProperties
    <2>3. /\ old \o added \in Seq(Result) /\ Len(old \o added) = m + n
          /\ \A k \in 1 .. m + n : (old \o added)[k] =
               IF k <= m THEN old[k] ELSE added[k - m]
      BY <2>1, <2>2
    <2>. QED BY <2>3 DEF old
  <1>15. batch' = [batch EXCEPT ![b] = call] /\ created' = created
         /\ status' = Launched(ids, slice)
    BY DEF NextSlice
  <1>16. call \in Call /\ call.runs = runs /\ call.ids = ids
         /\ call.phase = phase /\ call.from = from /\ call.width = width
         /\ call.results = results
    <2>1. phase \in Phases /\ from \in Nat \ {0}
      BY <1>1 DEF Phases, Call
    <2> HIDE DEF phase, from, runs, results, ids, width
    <2>. QED BY <2>1, <1>1, <1>4, <1>14 DEF Call, ids, width
  <1>17. batch' \in [Batches -> Call] /\ batch'[b] = call
         /\ \A c \in Batches \ {b} : batch'[c] = batch[c]
    <2> HIDE DEF call
    <2>. QED BY <1>15, <1>16 DEF TypeOK
  <1> HIDE DEF runs, slice, added, results, phase, call
  <1>18. status' \in [Tasks -> Statuses]
         /\ \A t \in Tasks : ~Present(t) => status'[t] = "absent"
    BY <1>1, <1>3, <1>15, LaunchedStatus
  <1>19. TypeOK'
    <2>1. \A c \in Batches : Len(batch'[c].runs) = Len(batch'[c].ids)
      BY <1>4, <1>16, <1>17 DEF TypeOK
    <2>. QED BY <2>1, <1>15, <1>17, <1>18 DEF TypeOK
  <1>20. SliceOK(b)'
    <2>1. \A i \in 1 .. Len(ids) : i < from => runs[i] \in Settled
      BY <1>4, <1>5, <1>6
    <2>2. \A i \in 1 .. Len(ids) : i >= from + width => runs[i] = "waiting"
      <3> SUFFICES ASSUME NEW i \in 1 .. Len(ids), i >= from + width
                   PROVE  runs[i] = "waiting"
        OBVIOUS
      <3>1. i \notin slice /\ i >= batch[b].from + width
        BY <1>1 DEF slice, Slice
      <3>. QED BY <3>1, <1>4 DEF BatchOK, SliceOK, Positions
    <2>. QED BY <2>1, <2>2, <1>16, <1>17 DEF SliceOK, Positions
  <1>21. AbsenceOK(b)'
    <2>1. \A i \in 1 .. Len(ids) : ids[i] \in Tasks /\ ids[i] <= created
      BY <1>1 DEF BatchOK, AbsenceOK, Positions
    <2>2. \A i \in 1 .. Len(ids) : runs[i] = "threw" => status'[ids[i]] = "absent"
      BY <2>1, <1>4, <1>18 DEF BatchOK, AbsenceOK, Positions
    <2>3. phase # "rejected"
      BY <1>2 DEF phase
    <2>. QED BY <2>1, <2>2, <2>3, <1>15, <1>16, <1>17 DEF AbsenceOK, Positions, Present
  <1>22. ResultsOK(b)'
    <2>1. PICK f \in Nat \ {0}, w \in Nat \ {0}, len \in Nat :
             f = batch[b].from /\ w = width /\ len = Len(ids)
      BY <1>1
    <2>2. n = (IF f + w - 1 < len THEN f + w - 1 ELSE len) - f + 1
          /\ f <= len + 1 /\ m = f - 1 /\ from = f + w
      BY <2>1, <1>7, <1>2 DEF SliceEnd
    <2> HIDE DEF m, from
    <2>3. m + n = Smaller(from - 1, len)
      BY <2>2 DEF Smaller
    <2>4. Len(results) = Smaller(from - 1, Len(ids))
      BY <1>14, <2>3, <2>1
    <2>5. \A k \in 1 .. m + n :
            results[k] = [task |-> ids[k], status |-> runs[k]]
      <3> SUFFICES ASSUME NEW k \in 1 .. m + n
                   PROVE  results[k] = [task |-> ids[k], status |-> runs[k]]
        OBVIOUS
      <3>1. k \in 1 .. len /\ k < from
        BY <2>2
      <3>2. runs[k] = batch[b].runs[k]
        BY <3>1, <2>1, <1>4, <1>6
      <3>3. CASE k <= m
        <4>1. k \in 1 .. Len(batch[b].results)
          BY <3>3, <1>12, <1>13 DEF m
        <4>2. batch[b].results[k] = [task |-> ids[k], status |-> batch[b].runs[k]]
          BY <4>1 DEF BatchOK, ResultsOK
        <4>. QED BY <4>2, <3>2, <3>3, <1>14
      <3>4. CASE ~(k <= m)
        <4>0. k - m \in 1 .. n /\ f + (k - m) - 1 = k
          BY <3>4, <1>13, <2>2
        <4>1. k - m \in 1 .. n /\ batch[b].from + (k - m) - 1 = k
          BY <4>0, <2>1
        <4>2. added[k - m] = [task |-> ids[k], status |-> batch[b].runs[k]]
          BY <4>1, <1>9
        <4>. QED BY <4>2, <3>2, <3>4, <1>14
      <3>. QED BY <3>3, <3>4
    <2>6. (phase = "resolved" => from > Len(ids))
          /\ (phase = "running" => from <= Len(ids) + 1)
      <3>1. from \in Nat /\ Len(ids) \in Nat
        BY <2>1, <2>2
      <3>2. CASE from > Len(ids)
        BY <3>2 DEF phase
      <3>3. CASE ~(from > Len(ids))
        <4>1. from <= Len(ids) + 1 /\ phase = "running"
          BY <1>2, <3>1, <3>3 DEF phase
        <4>. QED BY <4>1
      <3>. QED BY <3>2, <3>3
    <2>7. /\ batch'[b].results = results /\ batch'[b].ids = ids /\ batch'[b].runs = runs
          /\ batch'[b].phase = phase /\ batch'[b].from = from
      BY <1>16, <1>17
    <2>8. Len(results) = m + n
      BY <1>14
    <2> HIDE DEF ids
    <2>. QED BY <2>4, <2>5, <2>6, <2>7, <2>8 DEF ResultsOK
  <1>23. NoRevival /\ \A c \in Batches \ {b} : Untouched(c)
    BY <1>1, <1>15, <1>17, <1>18 DEF NoRevival, Untouched, Present
  <1>. QED BY <1>19, <1>20, <1>21, <1>22, <1>23 DEF BatchOK

LEMMA RejectStep ==
    ASSUME TypeOK, NEW b \in Batches, BatchOK(b), Reject(b)
    PROVE  TypeOK' /\ BatchOK(b)' /\ NoRevival
           /\ \A c \in Batches \ {b} : Untouched(c)
  <1> DEFINE call == [batch[b] EXCEPT !.phase = "rejected"]
  <1>1. batch[b] \in Call /\ batch' = [batch EXCEPT ![b] = call]
        /\ created' = created /\ status' = status /\ created \in Nat
    BY DEF TypeOK, Reject
  <1>2. call \in Call /\ call.phase = "rejected" /\ call.ids = batch[b].ids
        /\ call.width = batch[b].width /\ call.from = batch[b].from
        /\ call.runs = batch[b].runs /\ call.results = batch[b].results
    BY <1>1 DEF Call, Phases
  <1>3. batch' \in [Batches -> Call] /\ batch'[b] = call
        /\ \A c \in Batches \ {b} : batch'[c] = batch[c]
    <2> HIDE DEF call
    <2>. QED BY <1>1, <1>2 DEF TypeOK
  <1> HIDE DEF call
  <1>4. TypeOK'
    <2>1. \A c \in Batches : Len(batch'[c].runs) = Len(batch'[c].ids)
      BY <1>2, <1>3 DEF TypeOK
    <2>. QED BY <2>1, <1>1, <1>3 DEF TypeOK
  <1>5. \E i \in Positions(b) : batch[b].runs[i] = "threw"
    BY DEF Reject, CurrentSlice, Slice, Positions
  <1>6. SliceOK(b)' /\ ResultsOK(b)'
    BY <1>2, <1>3 DEF BatchOK, SliceOK, ResultsOK, Positions
  <1>7. AbsenceOK(b)'
    BY <1>1, <1>2, <1>3, <1>5 DEF BatchOK, AbsenceOK, Positions, Present
  <1>8. NoRevival /\ \A c \in Batches \ {b} : Untouched(c)
    BY <1>1, <1>3 DEF NoRevival, Untouched, Present
  <1>. QED BY <1>4, <1>6, <1>7, <1>8 DEF BatchOK

LEMMA RegistryStep ==
    ASSUME TypeOK,
           Create \/ (\E t \in Tasks : Stop(t) \/ Remove(t)) \/ UNCHANGED vars
    PROVE  TypeOK' /\ NoRevival /\ \A c \in Batches : Untouched(c)
  <1>1. created \in Nat /\ created \in 0 .. MaxTasks /\ status \in [Tasks -> Statuses]
    BY TaskAssumption DEF TypeOK
  <1>2. CASE Create
    <2>1. created + 1 \in Tasks /\ created' = created + 1 /\ created' \in 0 .. MaxTasks
          /\ status' = [status EXCEPT ![created + 1] = "created"] /\ batch' = batch
      BY <1>1, <1>2, TaskAssumption DEF Create, Tasks
    <2>2. status' \in [Tasks -> Statuses] /\ \A t \in Tasks : t # created + 1 => status'[t] = status[t]
      BY <2>1, <1>1 DEF Statuses
    <2>3. TypeOK'
      BY <2>1, <2>2 DEF TypeOK
    <2>4. NoRevival
      BY <2>2, <1>1 DEF NoRevival, Present, Tasks
    <2>. QED BY <2>1, <2>3, <2>4, <1>1 DEF Untouched
  <1>3. ASSUME NEW t \in Tasks, Stop(t) \/ Remove(t)
        PROVE  TypeOK' /\ NoRevival /\ \A c \in Batches : Untouched(c)
    <2>1. PICK end \in Statuses :
             /\ status' = [status EXCEPT ![t] = end]
             /\ created' = created /\ batch' = batch /\ Present(t)
      BY <1>3 DEF Stop, Remove, Statuses, Terminal
    <2>2. status' \in [Tasks -> Statuses]
      BY <2>1, <1>1
    <2>3. TypeOK'
      BY <2>1, <2>2 DEF TypeOK
    <2>. QED BY <2>1, <2>3, <1>1 DEF NoRevival, Present, Untouched
  <1>4. CASE UNCHANGED vars
    BY <1>1, <1>4 DEF vars, TypeOK, NoRevival, Present, Untouched
  <1>. QED BY <1>2, <1>3, <1>4

LEMMA InitInv == Init => Inv
  <1> SUFFICES ASSUME Init PROVE Inv
    OBVIOUS
  <1>1. Idle \in Call /\ Len(Idle.ids) = 0 /\ Len(Idle.runs) = 0
        /\ Len(Idle.results) = 0 /\ Idle.from = 1 /\ Idle.phase = "idle"
    BY DEF Idle, Call, Phases
  <1>2. \A b \in Batches : batch[b] = Idle
    BY DEF Init
  <1>3. TypeOK
    BY <1>1, TaskAssumption DEF Init, TypeOK, Statuses
  <1>4. ASSUME NEW b \in Batches PROVE BatchOK(b)
    BY <1>1, <1>2 DEF BatchOK, SliceOK, AbsenceOK, ResultsOK, Positions, Smaller
  <1>. QED BY <1>3, <1>4 DEF Inv

LEMMA NextInv == Inv /\ [Next]_vars => Inv'
  <1> SUFFICES ASSUME Inv, [Next]_vars PROVE Inv'
    OBVIOUS
  <1>1. TypeOK /\ \A b \in Batches : BatchOK(b)
    BY DEF Inv
  <1>2. ASSUME TypeOK', NoRevival, NEW b \in Batches, BatchOK(b)',
               \A c \in Batches \ {b} : Untouched(c)
        PROVE  Inv'
    <2>1. \A c \in Batches : BatchOK(c)'
      <3> SUFFICES ASSUME NEW c \in Batches, c # b PROVE BatchOK(c)'
        BY <1>2
      <3>. QED BY <1>1, <1>2, Frame
    <2>. QED BY <1>2, <2>1 DEF Inv
  <1>3. CASE Create \/ (\E t \in Tasks : Stop(t) \/ Remove(t)) \/ UNCHANGED vars
    <2>1. TypeOK' /\ NoRevival /\ \A c \in Batches : Untouched(c)
      BY <1>1, <1>3, RegistryStep
    <2>2. ASSUME NEW c \in Batches PROVE BatchOK(c)'
      BY <1>1, <2>1, Frame
    <2>. QED BY <2>1, <2>2 DEF Inv
  <1>4. ASSUME NEW b \in Batches, NEW w \in Widths, NEW ids, RunBatch(b, ids, w)
        PROVE  Inv'
    <2>1. w \in Int
      BY TaskAssumption
    <2>. QED BY <1>1, <1>2, <1>4, <2>1, RunBatchStep
  <1>5. ASSUME NEW b \in Batches, Runner(b) PROVE Inv'
    <2>1. ASSUME NEW i \in Positions(b), Settle(b, i) PROVE Inv'
      BY <1>1, <1>2, <2>1, SettleStep
    <2>2. CASE NextSlice(b)
      BY <1>1, <1>2, <2>2, NextSliceStep
    <2>3. CASE Reject(b)
      BY <1>1, <1>2, <2>3, RejectStep
    <2>. QED BY <1>5, <2>1, <2>2, <2>3 DEF Runner
  <1>. QED BY <1>3, <1>4, <1>5 DEF Next, RunPending
-----------------------------------------------------------------------------
THEOREM Invariance == Spec => []Inv
  BY InitInv, NextInv, PTL DEF Spec

\* Types, of every reachable state.
THEOREM TypeCorrect == Spec => []TypeOK
  <1>1. Inv => TypeOK
    BY DEF Inv
  <1>. QED BY <1>1, Invariance, PTL

\* The slices of every batch are barriers, whatever its concurrency: no run of a
\* later slice starts while one of the current slice executes or has thrown.
THEOREM SlicesAreBarriers == Spec => []SliceBarrier
  <1>1. Inv => SliceBarrier
    <2> SUFFICES ASSUME Inv, NEW b \in Batches, NEW i \in Positions(b), NEW j \in Positions(b),
                        batch[b].runs[i] \in {"executing", "threw"}, i < j,
                        j \notin CurrentSlice(b)
                 PROVE  batch[b].runs[j] = "waiting"
      BY DEF SliceBarrier
    <2>1. batch[b].from \in Nat /\ batch[b].width \in Nat /\ i \in Nat /\ j \in Nat
      BY DEF Inv, TypeOK, Call, Positions
    <2>2. ~(i < batch[b].from)
      BY DEF Inv, BatchOK, SliceOK, Settled
    <2>3. j >= batch[b].from + batch[b].width
      BY <2>1, <2>2 DEF CurrentSlice, Slice, Positions
    <2>. QED BY <2>3 DEF Inv, BatchOK, SliceOK
  <1>. QED BY <1>1, Invariance, PTL

\* A resolved batch reports every id once, in order, as completed or failed.
THEOREM ReportsAreComplete == Spec => []ReportComplete
  <1>1. Inv => ReportComplete
    <2> SUFFICES ASSUME Inv, NEW b \in Batches, batch[b].phase = "resolved"
                 PROVE  /\ Len(batch[b].results) = Len(batch[b].ids)
                        /\ \A i \in Positions(b) :
                              /\ batch[b].results[i].task = batch[b].ids[i]
                              /\ batch[b].results[i].status \in Settled
      BY DEF ReportComplete
    <2>1. batch[b].from \in Nat /\ Len(batch[b].ids) \in Nat
      BY DEF Inv, TypeOK, Call
    <2>2. Len(batch[b].results) = Len(batch[b].ids) /\ batch[b].from > Len(batch[b].ids)
      BY <2>1 DEF Inv, BatchOK, ResultsOK, Smaller
    <2>3. \A i \in Positions(b) : batch[b].runs[i] \in Settled
      BY <2>1, <2>2 DEF Inv, BatchOK, SliceOK, Positions
    <2>4. \A i \in Positions(b) : batch[b].results[i] =
              [task |-> batch[b].ids[i], status |-> batch[b].runs[i]]
      BY <2>2 DEF Inv, BatchOK, ResultsOK, Positions
    <2>5. \A i \in Positions(b) :
             /\ batch[b].results[i].task = batch[b].ids[i]
             /\ batch[b].results[i].status = batch[b].runs[i]
      <3> SUFFICES ASSUME NEW i \in Positions(b)
                   PROVE  /\ batch[b].results[i].task = batch[b].ids[i]
                          /\ batch[b].results[i].status = batch[b].runs[i]
        OBVIOUS
      <3> DEFINE r == batch[b].results[i]
                 t == batch[b].ids[i]
                 st == batch[b].runs[i]
      <3>1. r = [task |-> t, status |-> st]
        BY <2>4
      <3> HIDE DEF r, t, st
      <3>2. r.task = t /\ r.status = st
        BY <3>1
      <3>. QED BY <3>2 DEF r, t, st
    <2>6. Len(batch[b].results) = Len(batch[b].ids)
      BY <2>2
    <2>. QED
      <3> SUFFICES ASSUME NEW i \in Positions(b)
                   PROVE  /\ batch[b].results[i].task = batch[b].ids[i]
                          /\ batch[b].results[i].status \in Settled
        BY <2>6
      <3>. QED BY <2>3, <2>5
  <1>. QED BY <1>1, Invariance, PTL

\* A batch that rejected has an id whose task is gone.
THEOREM RejectionMeansAbsence == Spec => []RejectedOnlyByAbsence
  <1>1. Inv => RejectedOnlyByAbsence
    BY DEF Inv, BatchOK, AbsenceOK, RejectedOnlyByAbsence
  <1>. QED BY <1>1, Invariance, PTL
=============================================================================
