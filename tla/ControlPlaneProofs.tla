------------------------- MODULE ControlPlaneProofs -------------------------
(***************************************************************************)
(* What the components around the agent loop promise, for every number of  *)
(* agents, crons, prompts, edits and faults, every timeout and every size  *)
(* of a pipe, any schedule and any length of time.  Each part strengthens  *)
(* one property to an invariant of the component's own steps.              *)
(***************************************************************************)
EXTENDS ControlPlane, TLAPS, SequenceTheorems

-----------------------------------------------------------------------------
(* Plan mode: what the two files hold after every write of either tool,    *)
(* as long as nobody has changed the settings behind the tools' back and   *)
(* no write has emptied them.                                              *)
EnterLeft(n) ==
    IF n = 3 THEN <<ClearState, WriteState(planWanted), WriteSettings("plan")>>
    ELSE IF n = 2 THEN <<WriteState(planWanted), WriteSettings("plan")>>
    ELSE <<WriteSettings("plan")>>

PlanHolds ==
    \/ planTodo = <<>> /\ planSettings = planWanted
    \/ /\ planTodo = <<>> /\ planSettings \in {"plan", TornSettings}
       /\ planState = StateWith(planWanted)
    \/ planTodo \in {EnterLeft(3), EnterLeft(2)} /\ planSettings = planWanted
    \/ planTodo = EnterLeft(1) /\ planSettings = planWanted
                               /\ planState = StateWith(planWanted)
    \/ /\ planTodo = <<WriteSettings(planWanted), ClearState>>
       /\ planSettings = "plan" /\ planState = StateWith(planWanted)
    \/ planTodo = <<ClearState>> /\ planSettings = planWanted

\* Nothing is kept while the user's own mode is "plan".
PlanByHand ==
    planWanted = "plan" =>
        planTodo = <<>> /\ planSettings = "plan" /\ planState = NoState

\* Nobody changed the settings behind a tool's back, and no write emptied them.
PlanClean == ~planMixed /\ ~planCut

PlanInv ==
    /\ planMixed \in BOOLEAN /\ planCut \in BOOLEAN
    /\ PlanClean => PlanHolds /\ PlanByHand

LEMMA PlanRests ==
    ASSUME planTodo' = <<>>, planMixed' \in BOOLEAN, planCut' \in BOOLEAN,
           planWanted' # "plan",
           PlanClean' => \/ planSettings' = planWanted'
                         \/ /\ planSettings' \in {"plan", TornSettings}
                            /\ planState' = StateWith(planWanted')
    PROVE  PlanInv'
  BY DEF PlanInv, PlanHolds, PlanByHand

\* What a tool cut off in the middle of a write leaves.
LEMMA WritesStopStep ==
    ASSUME PlanInv, PlanClean, WritesStop
    PROVE  PlanInv'
<1>1. planTodo # <<>> /\ planMixed = FALSE /\ planCut = FALSE
  BY DEF WritesStop, PlanInv, PlanClean
<1>2. /\ planWanted # "plan"
      /\ \/ planSettings = planWanted /\ planTodo \in {EnterLeft(3), EnterLeft(2)}
         \/ planSettings = planWanted /\ planTodo = <<ClearState>>
         \/ planSettings \in {planWanted, "plan"} /\ planState = StateWith(planWanted)
  BY <1>1 DEF PlanInv, PlanClean, PlanHolds, PlanByHand
<1>3. /\ planTodo' = <<>> /\ planWanted' = planWanted /\ planMixed' = FALSE
      /\ planCut' = FALSE \/ planCut' = (planSettings' = Unset)
  BY <1>1 DEF WritesStop
<1>4. planCut' \in BOOLEAN
  BY <1>3
<1>5. Head(planTodo).file = "settings" => planState = StateWith(planWanted)
  <2>1. CASE planTodo \in {EnterLeft(3), EnterLeft(2)}
    BY <2>1 DEF EnterLeft, ClearState, WriteState
  <2>2. CASE planTodo = <<ClearState>>
    BY <2>2 DEF ClearState
  <2>. QED
    BY <1>2, <2>1, <2>2
<1>6. Head(planTodo).file = "state" => planSettings = planWanted
  <2>1. CASE planTodo = <<WriteSettings(planWanted), ClearState>>
    BY <2>1 DEF WriteSettings
  <2>. QED
    BY <1>1, <2>1 DEF PlanInv, PlanClean, PlanHolds
<1>7. CASE UNCHANGED <<planSettings, planState, planCut>>
  BY <1>2, <1>3, <1>4, <1>7, PlanRests,
     planSettings = planWanted \/ (planSettings = "plan" /\ planState = StateWith(planWanted))
<1>8. CASE Head(planTodo).file = "state" /\ UNCHANGED planSettings
  BY <1>2, <1>3, <1>4, <1>6, <1>8, PlanRests
<1>9. CASE /\ Head(planTodo).file = "settings" /\ UNCHANGED planState
           /\ planSettings' \in {Unset, TornSettings}
           /\ planCut' = (planSettings' = Unset)
  <2>1. PlanClean' => planSettings' = TornSettings
    BY <1>9 DEF PlanClean
  <2>. QED
    BY <1>2, <1>3, <1>4, <1>5, <1>9, <2>1, PlanRests
<1>. QED
  BY <1>1, <1>7, <1>8, <1>9 DEF WritesStop

LEMMA PlanInvStep == PlanInv /\ [PlanNext]_planVars => PlanInv'
<1> SUFFICES ASSUME PlanInv, [PlanNext]_planVars PROVE PlanInv'
  OBVIOUS
<1> USE DEF PlanInv, PlanClean, PlanHolds, PlanByHand, EnterLeft
<1>1. CASE EnterPlanMode
  BY <1>1 DEF EnterPlanMode, Tool, EnterWrites
<1>2. CASE ExitPlanMode
  <2>1. CASE ~PlanClean
    BY <1>2, <2>1 DEF ExitPlanMode, Tool
  <2>2. CASE PlanClean /\ planSettings # "plan"
    BY <1>2, <2>2 DEF ExitPlanMode, Tool, ExitWrites
  <2>3. CASE PlanClean /\ planSettings = "plan"
    <3>1. planTodo = <<>> /\ planState # NoState
      BY <1>2 DEF ExitPlanMode, Tool, ExitWrites
    <3>2. planState = StateWith(planWanted)
      BY <2>3, <3>1
    <3>3. planTodo' = <<WriteSettings(planWanted), ClearState>>
      BY <1>2, <2>3, <3>1, <3>2 DEF ExitPlanMode, Tool, ExitWrites, StateWith
    <3>. QED
      BY <1>2, <2>3, <3>1, <3>2, <3>3 DEF ExitPlanMode, Tool
  <2>. QED
    BY <2>1, <2>2, <2>3
<1>3. CASE PlanWrite
  <2>1. CASE ~PlanClean
    BY <1>3, <2>1 DEF PlanWrite
  <2>2. CASE PlanClean /\ planTodo = EnterLeft(3)
    BY <1>3, <2>2 DEF PlanWrite, ClearState, WriteState, WriteSettings
  <2>3. CASE PlanClean /\ planTodo = EnterLeft(2)
    BY <1>3, <2>3 DEF PlanWrite, WriteState, WriteSettings
  <2>4. CASE PlanClean /\ planTodo = EnterLeft(1)
    BY <1>3, <2>4 DEF PlanWrite, WriteSettings, ClearState
  <2>5. CASE PlanClean /\ planTodo = <<WriteSettings(planWanted), ClearState>>
    BY <1>3, <2>5 DEF PlanWrite, WriteSettings, ClearState
  <2>6. CASE PlanClean /\ planTodo = <<ClearState>>
    BY <1>3, <2>6 DEF PlanWrite, ClearState
  <2>. QED
    BY <1>3, <2>1, <2>2, <2>3, <2>4, <2>5, <2>6 DEF PlanWrite
<1>4. CASE WritesStop
  <2>1. CASE ~PlanClean
    BY <1>4, <2>1 DEF WritesStop
  <2>. QED
    BY <1>4, <2>1, WritesStopStep
<1>7. CASE EditCut
  BY <1>7 DEF EditCut
<1>5. CASE \E mode \in Settings : Edit(mode)
  BY <1>5 DEF Edit
<1>6. CASE UNCHANGED planVars
  BY <1>6 DEF planVars
<1>. QED
  BY <1>1, <1>2, <1>3, <1>4, <1>5, <1>6, <1>7 DEF PlanNext

\* Wherever the writes of EnterPlanMode and ExitPlanMode are cut off, the mode the
\* user set is in force or kept, unless a cut write emptied the settings or the
\* user changed them under a tool (tools/src/lib.rs: execute_enter_plan_mode).
THEOREM PlanModeAlwaysGivesBack == PlanSpec => []PlanModeGivesBack
<1>1. PlanInit => PlanInv
  BY DEF PlanInit, PlanInv, PlanClean, PlanHolds, PlanByHand
<1>2. PlanInv => PlanModeGivesBack
  BY DEF PlanInv, PlanClean, PlanHolds, EnterLeft, PlanModeGivesBack
<1>. QED
  BY <1>1, <1>2, PlanInvStep, PTL DEF PlanSpec

-----------------------------------------------------------------------------
(* Background agents: where a thread is tells what its report ends with.   *)
LaneTypeOK ==
    /\ laneStep \in [Agents -> {"absent", "spawn", "turn", "report", "crons", "manifest", "ended"}]
    /\ laneEnding \in [Agents -> {"none", "completed", "failed"}]
    /\ laneReport \in [Agents -> Seq({"none", "completed", "failed"})]
    /\ laneManifest \in [Agents -> {"none", "running", "torn", "completed", "failed"}]
    /\ laneListed \in [Agents -> SUBSET Crons]
    /\ cronEntry \in [Crons -> {"absent", "on", "off"}]

ReportEndsWith(a, status) ==
    laneReport[a] # <<>> /\ laneReport[a][Len(laneReport[a])] = status

LaneInv(a) ==
    /\ laneManifest[a] \in {"completed", "failed"} =>
            laneStep[a] = "ended" /\ ReportEndsWith(a, laneManifest[a])
    /\ laneStep[a] \in {"crons", "manifest"} => ReportEndsWith(a, laneEnding[a])
    /\ laneStep[a] = "crons" => laneEnding[a] = "completed"
    /\ laneStep[a] = "absent" => laneManifest[a] = "none"
    /\ \A c \in laneListed[a] : <<a, c>> \in About /\ Reported(a, "completed")

LaneHolds == LaneTypeOK /\ (\A a \in Agents : LaneInv(a)) /\ CronsOffWithReason

\* A report grows at its end: what it says it goes on saying.
LEMMA ReportGrows ==
    ASSUME LaneTypeOK, NEW a \in Agents, NEW status \in {"none", "completed", "failed"},
           laneReport' = [laneReport EXCEPT ![a] = Append(@, status)]
    PROVE  /\ laneReport' \in [Agents -> Seq({"none", "completed", "failed"})]
           /\ ReportEndsWith(a, status)'
           /\ Reported(a, status)'
           /\ \A b \in Agents : \A s : Reported(b, s) => Reported(b, s)'
<1>1. laneReport[a] \in Seq({"none", "completed", "failed"})
      /\ laneReport'[a] = Append(laneReport[a], status)
      /\ \A b \in Agents \ {a} : laneReport'[b] = laneReport[b]
  BY DEF LaneTypeOK
<1>2. /\ Len(laneReport'[a]) = Len(laneReport[a]) + 1 /\ Len(laneReport[a]) \in Nat
      /\ laneReport'[a][Len(laneReport[a]) + 1] = status
      /\ DOMAIN laneReport'[a] = 1 .. Len(laneReport[a]) + 1
      /\ \A k \in DOMAIN laneReport[a] :
            k \in DOMAIN laneReport'[a] /\ laneReport'[a][k] = laneReport[a][k]
  BY <1>1
<1>3. laneReport' \in [Agents -> Seq({"none", "completed", "failed"})]
  BY <1>1 DEF LaneTypeOK
<1>4. ReportEndsWith(a, status)' /\ Reported(a, status)'
  BY <1>1, <1>2 DEF ReportEndsWith, Reported
<1>5. ASSUME NEW b \in Agents, NEW s, Reported(b, s) PROVE Reported(b, s)'
  BY <1>1, <1>2, <1>5 DEF Reported
<1>. QED
  BY <1>3, <1>4, <1>5

LEMMA LaneInit_Holds == LaneInit => LaneHolds
  BY LaneAssumption DEF LaneInit, LaneHolds, LaneTypeOK, LaneInv, CronsOffWithReason

\* A step that leaves the reports and the crons alone and moves one agent.
LEMMA LaneMoves ==
    ASSUME LaneHolds, NEW a \in Agents, UNCHANGED laneReport,
           LaneTypeOK', LaneInv(a)',
           \A b \in Agents \ {a} :
                /\ laneStep'[b] = laneStep[b] /\ laneEnding'[b] = laneEnding[b]
                /\ laneManifest'[b] = laneManifest[b] /\ laneListed'[b] = laneListed[b],
           \A c \in Crons : cronEntry'[c] = "off" =>
                cronEntry[c] = "off" \/ c \in laneListed[a]
    PROVE  LaneHolds'
<1>1. ASSUME NEW b \in Agents \ {a} PROVE LaneInv(b)'
  BY DEF LaneHolds, LaneInv, ReportEndsWith, Reported
<1>2. ASSUME NEW c \in Crons, cronEntry'[c] = "off"
      PROVE  \E b \in Agents : <<b, c>> \in About /\ Reported(b, "completed")
  BY <1>2 DEF LaneHolds, LaneInv, CronsOffWithReason
<1>3. CronsOffWithReason'
  BY <1>2 DEF CronsOffWithReason, Reported
<1>. QED
  BY <1>1, <1>3 DEF LaneHolds

LEMMA LaneHoldsStep == LaneHolds /\ [LaneNext]_laneVars => LaneHolds'
<1> SUFFICES ASSUME LaneHolds, [LaneNext]_laneVars PROVE LaneHolds'
  OBVIOUS
<1>1. CASE ProcessEnds
  <2>1. LaneTypeOK'
    BY <1>1 DEF ProcessEnds, LaneHolds, LaneTypeOK
  <2>2. ASSUME NEW a \in Agents PROVE LaneInv(a)'
    BY <1>1 DEF ProcessEnds, LaneHolds, LaneTypeOK, LaneInv, ReportEndsWith
  <2>3. CronsOffWithReason'
    BY <1>1 DEF ProcessEnds, CronsOffWithReason
  <2>. QED
    BY <2>1, <2>2, <2>3 DEF LaneHolds
<1>2. ASSUME NEW a \in Agents, SpawnAgent(a) PROVE LaneHolds'
  <2>1. LaneTypeOK' /\ LaneInv(a)'
    BY <1>2 DEF SpawnAgent, Goes, LaneHolds, LaneTypeOK, LaneInv, ReportEndsWith, Reported
  <2>. QED
    BY <1>2, <2>1, LaneMoves DEF SpawnAgent, Goes, LaneHolds, LaneTypeOK
<1>3. ASSUME NEW a \in Agents, ThreadStarts(a) PROVE LaneHolds'
  <2>1. LaneTypeOK' /\ LaneInv(a)'
    BY <1>3 DEF ThreadStarts, Goes, LaneHolds, LaneTypeOK, LaneInv, ReportEndsWith, Reported
  <2>. QED
    BY <1>3, <2>1, LaneMoves DEF ThreadStarts, Goes, LaneHolds, LaneTypeOK
<1>4. ASSUME NEW a \in Agents, TurnCompletes(a) PROVE LaneHolds'
  <2>1. LaneTypeOK' /\ LaneInv(a)'
    BY <1>4 DEF TurnCompletes, Persists, Goes, LaneHolds, LaneTypeOK, LaneInv, ReportEndsWith,
                Reported
  <2>. QED
    BY <1>4, <2>1, LaneMoves DEF TurnCompletes, Persists, Goes, LaneHolds, LaneTypeOK
<1>5. ASSUME NEW a \in Agents, AgentFails(a) PROVE LaneHolds'
  <2>1. LaneTypeOK' /\ LaneInv(a)'
    BY <1>5 DEF AgentFails, Persists, Goes, LaneHolds, LaneTypeOK, LaneInv, ReportEndsWith,
                Reported
  <2>. QED
    BY <1>5, <2>1, LaneMoves DEF AgentFails, Persists, Goes, LaneHolds, LaneTypeOK
<1>6. ASSUME NEW a \in Agents, Report(a) PROVE LaneHolds'
  <2>0. PICK s \in {"none", "completed", "failed"} : s = laneEnding[a]
    BY DEF LaneHolds, LaneTypeOK
  <2>1. /\ laneStep[a] = "report"
        /\ laneReport' = [laneReport EXCEPT ![a] = Append(@, s)]
        /\ LaneTypeOK
    BY <1>6, <2>0 DEF Report, LaneHolds, LaneTypeOK
  <2>2. /\ laneReport' \in [Agents -> Seq({"none", "completed", "failed"})]
        /\ ReportEndsWith(a, s)' /\ Reported(a, s)'
        /\ \A b \in Agents : \A t : Reported(b, t) => Reported(b, t)'
    BY <2>1, ReportGrows
  <2>3. LaneTypeOK'
    <3>1. LaneTypeOK
      BY DEF LaneHolds
    <3>2. laneStep' \in [Agents -> {"absent", "spawn", "turn", "report", "crons", "manifest", "ended"}]
      <4>1. PICK step \in {"crons", "manifest"} : laneStep' = [laneStep EXCEPT ![a] = step]
        BY <1>6 DEF Report, Goes
      <4>. QED
        BY <3>1, <4>1 DEF LaneTypeOK
    <3>3. laneListed' \in [Agents -> SUBSET Crons]
      BY <1>6, <3>1 DEF Report, LaneTypeOK
    <3>4. laneEnding' = laneEnding /\ laneManifest' = laneManifest /\ cronEntry' = cronEntry
      BY <1>6 DEF Report
    <3>. QED
      BY <2>2, <3>1, <3>2, <3>3, <3>4 DEF LaneTypeOK
  <2>4. LaneInv(a)'
    <3>1. \/ s = "completed" /\ (\A c \in laneListed'[a] : <<a, c>> \in About)
          \/ s # "completed" /\ laneListed'[a] = laneListed[a] /\ laneStep'[a] = "manifest"
      <4>1. CASE laneEnding[a] = "completed"
        <5> DEFINE on == {c \in Crons : cronEntry[c] = "on" /\ <<a, c>> \in About}
        <5>1. laneListed' = [laneListed EXCEPT ![a] = on]
          BY <1>6, <4>1 DEF Report
        <5>. HIDE DEF on
        <5>2. laneListed'[a] = on
          BY <2>1, <5>1 DEF LaneTypeOK
        <5>3. \A c \in on : <<a, c>> \in About
          BY DEF on
        <5>. QED
          BY <2>0, <4>1, <5>2, <5>3
      <4>2. CASE laneEnding[a] # "completed"
        <5>1. laneStep' = [laneStep EXCEPT ![a] = "manifest"] /\ laneListed' = laneListed
          BY <1>6, <4>2 DEF Report, Goes
        <5>. QED
          BY <2>0, <2>1, <4>2, <5>1 DEF LaneTypeOK
      <4>. QED
        BY <4>1, <4>2
    <3>2. laneEnding' = laneEnding /\ laneManifest' = laneManifest
          /\ laneStep'[a] \in {"crons", "manifest"}
      BY <1>6, <2>1 DEF Report, Goes, LaneTypeOK
    <3>3. laneManifest[a] \notin {"completed", "failed"}
          /\ \A c \in laneListed[a] : <<a, c>> \in About /\ Reported(a, "completed")
      BY <2>1 DEF LaneHolds, LaneInv
    <3>. QED
      BY <2>0, <2>2, <3>1, <3>2, <3>3 DEF LaneInv
  <2>5. ASSUME NEW b \in Agents \ {a} PROVE LaneInv(b)'
    <3>1. /\ laneStep'[b] = laneStep[b] /\ laneEnding'[b] = laneEnding[b]
          /\ laneManifest'[b] = laneManifest[b] /\ laneListed'[b] = laneListed[b]
          /\ laneReport'[b] = laneReport[b]
      BY <1>6, <2>1 DEF Report, Goes, LaneTypeOK
    <3>. QED
      BY <3>1, <2>2 DEF LaneHolds, LaneInv, ReportEndsWith
  <2>6. CronsOffWithReason'
    BY <1>6, <2>2 DEF Report, LaneHolds, CronsOffWithReason
  <2>. QED
    BY <2>3, <2>4, <2>5, <2>6 DEF LaneHolds
<1>7. ASSUME NEW a \in Agents, CronsLookedAt(a) PROVE LaneHolds'
  <2>1. LaneTypeOK' /\ LaneInv(a)'
    BY <1>7 DEF CronsLookedAt, Goes, LaneHolds, LaneTypeOK, LaneInv, ReportEndsWith, Reported
  <2>. QED
    BY <1>7, <2>1, LaneMoves DEF CronsLookedAt, Goes, LaneHolds, LaneTypeOK
<1>8. ASSUME NEW a \in Agents, WriteManifest(a) PROVE LaneHolds'
  <2>1. LaneTypeOK' /\ LaneInv(a)'
    BY <1>8 DEF WriteManifest, Goes, LaneHolds, LaneTypeOK, LaneInv, ReportEndsWith, Reported
  <2>. QED
    BY <1>8, <2>1, LaneMoves DEF WriteManifest, Goes, LaneHolds, LaneTypeOK
<1>9. ASSUME NEW a \in Agents, WriteFails(a) PROVE LaneHolds'
  <2>1. /\ laneStep[a] \in {"report", "manifest"} /\ AfterFailedWrite(a)
        /\ UNCHANGED <<laneReport, laneListed, cronEntry>>
        /\ laneManifest' \in {laneManifest, [laneManifest EXCEPT ![a] = "torn"]}
    BY <1>9 DEF WriteFails
  <2>0. LaneTypeOK
    BY DEF LaneHolds
  <2>2. PICK step \in {"report", "ended"}, ending \in {"none", "completed", "failed"} :
           /\ laneStep' = [laneStep EXCEPT ![a] = step]
           /\ laneEnding' = [laneEnding EXCEPT ![a] = ending]
    <3>1. CASE laneEnding[a] = "completed"
      BY <2>1, <3>1 DEF AfterFailedWrite, Persists, Goes
    <3>2. CASE laneEnding[a] # "completed"
      <4>1. laneEnding' = [laneEnding EXCEPT ![a] = laneEnding[a]]
            /\ laneEnding[a] \in {"none", "completed", "failed"}
        BY <2>0, <2>1, <3>2 DEF AfterFailedWrite, LaneTypeOK
      <4>2. laneStep' = [laneStep EXCEPT ![a] = "ended"]
        BY <2>1, <3>2 DEF AfterFailedWrite, Goes
      <4>. QED
        BY <4>1, <4>2
    <3>. QED
      BY <3>1, <3>2
  <2>3. /\ laneStep'[a] = step
        /\ laneManifest'[a] \in {laneManifest[a], "torn"}
        /\ laneListed'[a] = laneListed[a] /\ laneReport'[a] = laneReport[a]
    BY <2>0, <2>1, <2>2 DEF LaneTypeOK
  <2>4. \A b \in Agents \ {a} :
          /\ laneStep'[b] = laneStep[b] /\ laneEnding'[b] = laneEnding[b]
          /\ laneManifest'[b] = laneManifest[b] /\ laneListed'[b] = laneListed[b]
    BY <2>0, <2>1, <2>2 DEF LaneTypeOK
  <2>5. LaneTypeOK'
    <3>1. laneManifest' \in [Agents -> {"none", "running", "torn", "completed", "failed"}]
      BY <2>0, <2>1 DEF LaneTypeOK
    <3>2. laneStep' \in [Agents -> {"absent", "spawn", "turn", "report", "crons", "manifest", "ended"}]
      BY <2>0, <2>2 DEF LaneTypeOK
    <3>3. laneEnding' \in [Agents -> {"none", "completed", "failed"}]
      BY <2>0, <2>2 DEF LaneTypeOK
    <3>. QED
      BY <2>0, <2>1, <3>1, <3>2, <3>3 DEF LaneTypeOK
  <2>6. LaneInv(a)'
    <3>1. laneManifest[a] \notin {"completed", "failed"}
          /\ \A c \in laneListed[a] : <<a, c>> \in About /\ Reported(a, "completed")
      BY <2>1 DEF LaneHolds, LaneInv
    <3>2. Reported(a, "completed") <=> Reported(a, "completed")'
      BY <2>3 DEF Reported
    <3>. QED
      BY <2>3, <3>1, <3>2 DEF LaneInv
  <2>. QED
    BY <2>1, <2>4, <2>5, <2>6, LaneMoves
<1>10. ASSUME NEW a \in Agents, NEW c \in Crons, DisableCron(a, c) PROVE LaneHolds'
  <2>1. LaneTypeOK' /\ LaneInv(a)'
    BY <1>10 DEF DisableCron, LaneHolds, LaneTypeOK, LaneInv, ReportEndsWith, Reported
  <2>. QED
    BY <1>10, <2>1, LaneMoves DEF DisableCron, LaneHolds, LaneTypeOK
<1>11. ASSUME NEW c \in Crons, CronCreate(c) \/ CronDelete(c) PROVE LaneHolds'
  <2>1. LaneTypeOK' /\ UNCHANGED <<laneStep, laneEnding, laneReport, laneManifest, laneListed>>
        /\ \A d \in Crons : cronEntry'[d] = "off" => cronEntry[d] = "off"
    BY <1>11 DEF CronCreate, CronDelete, LaneHolds, LaneTypeOK
  <2>. QED
    BY <2>1 DEF LaneHolds, LaneInv, ReportEndsWith, Reported, CronsOffWithReason
<1>12. CASE UNCHANGED laneVars
  BY <1>12 DEF laneVars, LaneHolds, LaneTypeOK, LaneInv, ReportEndsWith, Reported,
               CronsOffWithReason
<1>. QED
  BY <1>1, <1>2, <1>3, <1>4, <1>5, <1>6, <1>7, <1>8, <1>9, <1>10, <1>11, <1>12 DEF LaneNext

LEMMA LaneHoldsAlways == LaneSpec => []LaneHolds
  BY LaneInit_Holds, LaneHoldsStep, PTL DEF LaneSpec

\* For any number of agents, crons and failing writes: a cron goes off only for an
\* agent that said it completed (tools/src/lib.rs: disable_matching_crons).
THEOREM CronsAlwaysOffWithReason == LaneSpec => []CronsOffWithReason
<1>1. LaneHolds => CronsOffWithReason
  BY DEF LaneHolds
<1>. QED
  BY <1>1, LaneHoldsAlways, PTL

\* The end in the manifest is the one the report ends with, also after a first
\* attempt was cut off (tools/src/lib.rs: persist_agent_terminal_state).
THEOREM ManifestAlwaysAgrees == LaneSpec => []ManifestAgreesWithReport
<1>1. LaneHolds => ManifestAgreesWithReport
  BY DEF LaneHolds, LaneInv, ReportEndsWith, ManifestAgreesWithReport
<1>. QED
  BY <1>1, LaneHoldsAlways, PTL

-----------------------------------------------------------------------------
(* A command in a child process: what each stage of the wait knows of it.  *)
ProcTypeOK ==
    /\ procStage \in {"idle", "watching", "draining", "returned"}
    /\ procResult \in {"none", "exited", "timeout", "background", "error"}
    /\ procChild \in {"none", "runs", "exited", "killed"}

ProcInv ==
    /\ ProcTypeOK
    /\ procChild = "exited" /\ procStage \in {"watching", "draining"} => procLeft = 0
    /\ procStage = "idle" => procChild = "none" /\ procResult = "none"
    /\ procStage = "watching" => procChild \in {"runs", "exited"} /\ procResult = "none"
    /\ procStage = "draining" =>
            /\ procResult \in {"exited", "timeout"}
            /\ procResult = "exited" => procChild = "exited"
            /\ procResult = "timeout" => procChild # "runs"
    /\ ExitedIsWhole /\ NothingRunsOn

LEMMA ProcInvStep == ProcInv /\ [ProcNext]_procVars => ProcInv'
<1> SUFFICES ASSUME ProcInv, [ProcNext]_procVars PROVE ProcInv'
  OBVIOUS
<1> USE DEF ProcInv, ProcTypeOK, ExitedIsWhole, NothingRunsOn
<1>1. CASE Start \/ CannotStart \/ StartInBackground
  BY <1>1 DEF Start, CannotStart, StartInBackground
<1>2. CASE CommandWrites \/ CommandForks \/ CommandExits \/ HelperExits
  BY <1>2 DEF CommandWrites, CommandForks, CommandExits, HelperExits
<1>3. CASE ReadPipe \/ SeesExit \/ TimePasses
  BY <1>3 DEF ReadPipe, SeesExit, TimePasses
<1>4. CASE DeadlinePasses
  BY <1>4 DEF DeadlinePasses, ChildAtDeadline, Polls, TimeIsUp
<1>5. CASE OutputEnds
  BY <1>5 DEF OutputEnds, AtEndOfFile
<1>6. CASE UNCHANGED procVars
  BY <1>6 DEF procVars
<1>. QED
  BY <1>1, <1>2, <1>3, <1>4, <1>5, <1>6 DEF ProcNext

LEMMA ProcInvAlways == ProcSpec => []ProcInv
<1>1. ProcInit => ProcInv
  BY DEF ProcInit, ProcInv, ProcTypeOK, ExitedIsWhole, NothingRunsOn
<1>. QED
  BY <1>1, ProcInvStep, PTL DEF ProcSpec

\* Whatever a command writes, forks and is given for time: a call that says it
\* exited has read all of its output (bash.rs, tools/src/lib.rs: execute_shell_command).
THEOREM ExitedAlwaysWhole == ProcSpec => []ExitedIsWhole
<1>1. ProcInv => ExitedIsWhole
  BY DEF ProcInv
<1>. QED
  BY <1>1, ProcInvAlways, PTL

\* No PowerShell or REPL call that waited leaves its command running.
THEOREM NothingEverRunsOn == ProcSpec => []NothingRunsOn
<1>1. ProcInv => NothingRunsOn
  BY DEF ProcInv
<1>. QED
  BY <1>1, ProcInvAlways, PTL

-----------------------------------------------------------------------------
(* The prompt cache: everything the client believes about a prompt rests   *)
(* on an answer of the provider, which is not much older.                  *)
CacheTypeOK ==
    /\ cacheClock \in Nat
    /\ cacheEntries \in [Prompts -> {Nothing} \cup [at : Nat, read : Int]]
    /\ cacheAnswered \in [Prompts -> Int]
    /\ cacheAsked # Nothing => cacheAsked.prompt \in Prompts

\* The provider answered p, less than a completion's life before it was observed.
Rests(tracked) ==
    tracked # Nothing =>
        /\ tracked.prompt \in Prompts /\ tracked.observed \in Nat
        /\ cacheAnswered[tracked.prompt] >= 0
        /\ tracked.observed - cacheAnswered[tracked.prompt] < CompletionTtl

EntriesRest ==
    \A p \in Prompts : cacheEntries[p] # Nothing =>
        cacheAnswered[p] >= cacheEntries[p].at

CacheInv ==
    /\ CacheTypeOK
    /\ Rests(cachePrevious) /\ Rests(cacheOnDisk)
    /\ EntriesRest
    /\ \A p \in Prompts : cacheAnswered[p] <= cacheClock

LEMMA CacheInvStep == CacheInv /\ [CacheNext]_cacheVars => CacheInv'
<1> SUFFICES ASSUME CacheInv, [CacheNext]_cacheVars PROVE CacheInv'
  OBVIOUS
<1> USE CacheAssumption DEF CacheInv, CacheTypeOK
<1>1. CASE Elapse
  BY <1>1 DEF Elapse, Rests, EntriesRest
<1>2. ASSUME NEW p \in Prompts, CachedAnswer(p) PROVE CacheInv'
  <2> DEFINE tracked == Tracked(p, cacheClock, cacheEntries[p].read)
  <2>1. /\ cacheEntries[p] # Nothing /\ cacheClock - cacheEntries[p].at < CompletionTtl
        /\ cachePrevious' = tracked /\ cacheOnDisk' \in {tracked, cacheOnDisk, Nothing}
        /\ UNCHANGED <<cacheClock, cacheEntries, cacheAsked, cacheAnswered>>
    BY <1>2 DEF CachedAnswer, Persist, Expired
  <2>2. tracked.prompt = p /\ tracked.observed = cacheClock
    BY DEF Tracked
  <2>3. cacheEntries[p].at \in Nat /\ cacheAnswered[p] >= cacheEntries[p].at
        /\ cacheAnswered[p] \in Int
    BY <2>1 DEF EntriesRest
  <2>4. /\ cacheAnswered[p] >= 0
        /\ cacheClock - cacheAnswered[p] < CompletionTtl
    BY <2>1, <2>3
  <2>. HIDE DEF tracked
  <2>5. Rests(cachePrevious)'
    BY <2>1, <2>2, <2>4 DEF Rests
  <2>6. Rests(cacheOnDisk)'
    BY <2>1, <2>2, <2>4 DEF Rests
  <2>. QED
    BY <2>1, <2>5, <2>6 DEF EntriesRest
<1>3. ASSUME NEW p \in Prompts, SendMessage(p) PROVE CacheInv'
  <2>1. /\ cacheEntries' = [cacheEntries EXCEPT ![p] = Nothing]
        /\ cacheAsked'.prompt = p /\ cachePrevious' = cachePrevious
        /\ cacheOnDisk' \in {cachePrevious, cacheOnDisk, Nothing}
        /\ UNCHANGED <<cacheClock, cacheAnswered>>
    BY <1>3 DEF SendMessage, Persist
  <2>. QED
    BY <2>1 DEF Rests, EntriesRest
<1>4. ASSUME NEW p \in Prompts, StreamMessage(p) PROVE CacheInv'
  BY <1>4 DEF StreamMessage, Rests, EntriesRest
<1>5. CASE Answered
  <2>1. PICK p \in Prompts : cacheAsked.prompt = p
    BY <1>5 DEF Answered
  <2>2. PICK read \in 0 .. MaxRead :
            /\ cachePrevious' = Tracked(p, cacheClock, read)
            /\ cacheOnDisk' \in {Tracked(p, cacheClock, read), cacheOnDisk, Nothing}
            /\ \/ UNCHANGED cacheEntries
               \/ cacheEntries' = [cacheEntries EXCEPT ![p] = [at |-> cacheClock, read |-> read]]
            /\ cacheAnswered' = [cacheAnswered EXCEPT ![p] = cacheClock]
            /\ cacheAsked' = Nothing /\ UNCHANGED cacheClock
    BY <1>5, <2>1 DEF Answered, Persist
  <2>3. /\ cacheAnswered'[p] = cacheClock
        /\ \A q \in Prompts : cacheAnswered'[q] >= cacheAnswered[q] /\ cacheAnswered'[q] <= cacheClock
        /\ cacheAnswered' \in [Prompts -> Int]
    BY <2>2
  <2>4. Rests(cachePrevious)'
    BY <2>2, <2>3 DEF Rests, Tracked
  <2>5. Rests(cacheOnDisk)'
    BY <2>2, <2>3 DEF Rests, Tracked
  <2>6. cacheEntries' \in [Prompts -> {Nothing} \cup [at : Nat, read : Int]]
    BY <2>2
  <2>7. EntriesRest'
    BY <2>2, <2>3 DEF EntriesRest
  <2>. QED
    BY <2>2, <2>3, <2>4, <2>5, <2>6, <2>7
<1>6. CASE RequestFails
  BY <1>6 DEF RequestFails, Rests, EntriesRest
<1>7. CASE Reopen
  BY <1>7 DEF Reopen, Rests, EntriesRest
<1>8. CASE UNCHANGED cacheVars
  BY <1>8 DEF cacheVars, Rests, EntriesRest
<1>. QED
  BY <1>1, <1>2, <1>3, <1>4, <1>5, <1>6, <1>7, <1>8 DEF CacheNext

LEMMA CacheInvAlways == CacheSpec => []CacheInv
<1>1. CacheInit => CacheInv
  BY DEF CacheInit, CacheInv, CacheTypeOK, Rests, EntriesRest
<1>. QED
  BY <1>1, CacheInvStep, PTL DEF CacheSpec

\* For any lives of completions and prompts, and any drop: an unexpected break means
\* the provider answered this prompt shortly before (prompt_cache.rs:
\* detect_cache_break).
THEOREM UnexpectedIsAlwaysRecent == CacheSpec => UnexpectedIsRecent
<1> DEFINE Recent == cacheBreak' = "unexpected" =>
        /\ cacheAnswered[cacheAsked.prompt] >= 0
        /\ cacheClock - cacheAnswered[cacheAsked.prompt] < PromptTtl + CompletionTtl
<1>1. CacheInv /\ CacheNext => Recent
  <2> SUFFICES ASSUME CacheInv, CacheNext, cacheBreak' = "unexpected"
               PROVE  /\ cacheAnswered[cacheAsked.prompt] >= 0
                      /\ cacheClock - cacheAnswered[cacheAsked.prompt] < PromptTtl + CompletionTtl
    OBVIOUS
  <2>1. Answered
    BY DEF CacheNext, Elapse, CachedAnswer, SendMessage, StreamMessage, RequestFails, Reopen
  <2>2. PICK read \in 0 .. MaxRead : Detected(cacheAsked.prompt, read) = "unexpected"
    BY <2>1 DEF Answered
  <2>3. /\ cachePrevious # Nothing /\ cachePrevious.prompt = cacheAsked.prompt
        /\ ~(cacheClock - cachePrevious.observed > PromptTtl)
    BY <2>2 DEF Detected
  <2>4. /\ cachePrevious.prompt \in Prompts /\ cachePrevious.observed \in Nat
        /\ cacheAnswered[cachePrevious.prompt] \in Int /\ cacheClock \in Nat
        /\ cacheAnswered[cachePrevious.prompt] >= 0
        /\ cachePrevious.observed - cacheAnswered[cachePrevious.prompt] < CompletionTtl
    BY <2>3 DEF CacheInv, CacheTypeOK, Rests
  <2>. QED
    BY <2>3, <2>4, CacheAssumption
<1>2. CacheInv /\ [CacheNext]_cacheVars => [Recent]_cacheVars
  BY <1>1
<1>. QED
  BY <1>2, CacheInvAlways, PTL DEF CacheSpec, UnexpectedIsRecent
-----------------------------------------------------------------------------
(* Plugins: no write changes the settings and the memory apart.            *)
(* Plugins: the switches in memory and those of the settings.              *)
SwitchTable(f) == f = [q \in Plugins |-> f[q]]

SwitchInv ==
    /\ SwitchTable(pluginSettings) /\ SwitchTable(pluginMemory)
    /\ PluginMemoryFollowsSettings

LEMMA NoSwitchesTable ==
    SwitchTable(NoSwitches) /\ \A q \in Plugins : NoSwitches[q] = "absent"
  BY DEF SwitchTable, NoSwitches

LEMMA SwitchesStay ==
    ASSUME SwitchInv, UNCHANGED <<pluginSettings, pluginMemory, pluginCut>>
    PROVE  SwitchInv'
  BY DEF SwitchInv, SwitchTable, PluginMemoryFollowsSettings

LEMMA SwitchInvStep == SwitchInv /\ [PluginNext]_pluginVars => SwitchInv'
<1> SUFFICES ASSUME SwitchInv, [PluginNext]_pluginVars PROVE SwitchInv'
  OBVIOUS
<1>1. CASE List \/ SyncEnds \/ NextStage \/ SwitchRefused
  BY <1>1, SwitchesStay DEF List, Sync, SyncEnds, NextStage, Begin, disk, SwitchRefused,
                            SwitchBegins
<1>2. CASE PluginWrite
  <2> DEFINE p == Head(pluginTodo).plugin
             to == Head(pluginTodo).to
  <2>1. CASE UNCHANGED <<pluginSettings, pluginMemory>>
    BY <1>2, <2>1, SwitchesStay DEF PluginWrite
  <2>2. CASE /\ pluginSettings' = [pluginSettings EXCEPT ![p] = to]
             /\ pluginMemory' = [pluginMemory EXCEPT ![p] = to]
    <3>1. pluginCut' = pluginCut
      BY <1>2 DEF PluginWrite
    <3>. HIDE DEF p, to
    <3>2. ASSUME NEW f, SwitchTable(f), NEW g, g = [f EXCEPT ![p] = to]
          PROVE  SwitchTable(g) /\ \A q \in Plugins : g[q] = IF q = p THEN to ELSE f[q]
      BY <3>2 DEF SwitchTable
    <3>3. SwitchTable(pluginSettings) /\ SwitchTable(pluginMemory)
      BY DEF SwitchInv
    <3>4. SwitchTable(pluginSettings)' /\ SwitchTable(pluginMemory)'
      BY <2>2, <3>2, <3>3
    <3>5. \A q \in Plugins :
              /\ pluginSettings'[q] = IF q = p THEN to ELSE pluginSettings[q]
              /\ pluginMemory'[q] = IF q = p THEN to ELSE pluginMemory[q]
      BY <2>2, <3>2, <3>3
    <3>. QED
      BY <3>1, <3>4, <3>5 DEF SwitchInv, PluginMemoryFollowsSettings
  <2>. QED
    BY <1>2, <2>1, <2>2 DEF PluginWrite
<1>3. CASE PluginWriteFails
  <2>1. UNCHANGED pluginMemory
    BY <1>3 DEF PluginWriteFails, SwitchBegins
  <2>2. \/ UNCHANGED <<pluginSettings, pluginCut>>
        \/ pluginSettings' = NoSwitches /\ pluginCut' # "no"
    BY <1>3 DEF PluginWriteFails, SettingsLeft
  <2>. QED
    BY <2>1, <2>2, SwitchesStay, NoSwitchesTable
    DEF SwitchInv, SwitchTable, PluginMemoryFollowsSettings
<1>4. CASE Crash \/ NewManager
  <2>1. pluginMemory' = pluginSettings' /\ pluginSettings' \in {pluginSettings, NoSwitches}
    BY <1>4 DEF Crash, NewManager, ReadSettings, SettingsLeft
  <2>. QED
    BY <2>1, NoSwitchesTable DEF SwitchInv, SwitchTable, PluginMemoryFollowsSettings
<1>5. ASSUME NEW p \in Plugins,
             \/ Enable(p) \/ Disable(p) \/ SyncPlugin(p)
             \/ Uninstall(p) \/ Update(p) \/ Install(p)
      PROVE  SwitchInv'
  BY <1>5, SwitchesStay
  DEF Enable, Disable, Sync, SyncPlugin, Uninstall, Update, Install, Begin, disk
<1>6. ASSUME NEW p \in Plugins, Damage(p) \/ NewVersion(p)
      PROVE  SwitchInv'
  BY <1>6, SwitchesStay DEF Damage, NewVersion, disk
<1>7. CASE UNCHANGED pluginVars
  BY <1>7, SwitchesStay DEF pluginVars
<1>8. External \subseteq Plugins /\ Bundled \subseteq Plugins
  BY DEF Plugins
<1>. QED
  BY <1>1, <1>2, <1>3, <1>4, <1>5, <1>6, <1>7, <1>8 DEF PluginNext

\* For any plugins, versions and faults: what the manager in memory calls enabled or
\* disabled is what the settings say, or a failed write of the settings lost the
\* switch from the file (plugins/src/lib.rs: write_enabled_state).
THEOREM PluginMemoryAlwaysFollows == PluginSpec => []PluginMemoryFollowsSettings
<1>1. PluginInit => SwitchInv
  BY NoSwitchesTable DEF PluginInit, SwitchInv, PluginMemoryFollowsSettings
<1>2. SwitchInv => PluginMemoryFollowsSettings
  BY DEF SwitchInv
<1>. QED
  BY <1>1, <1>2, SwitchInvStep, PTL DEF PluginSpec

(* Plugins: the records, the directories and the writes that are left.     *)
Write ==
    [write: {"remove", "copy"}, plugin: Plugins]
    \union [write: {"records"}, records: [Plugins -> Nat]]
    \union [write: {"switch"}, plugin: Plugins, to: Switches]

PluginTypes ==
    /\ pluginSources \in [Plugins -> Nat \ {0}]
    /\ pluginDirs \in [Plugins -> [version: Nat, content: Contents \union {"gone"}]]
    /\ pluginRecords \in [Plugins -> Nat]
    /\ pluginTodo \in Seq(Write)
    /\ pluginOp = NoOp => pluginTodo = NoTodo

\* A record is never ahead of the directory it is about.
Covers(q, version) ==
    /\ version <= pluginSources[q]
    /\ pluginDirs[q] # Gone => version <= pluginDirs[q].version
RecordsFit ==
    \A q \in Plugins :
        Covers(q, pluginRecords[q]) /\ pluginDirs[q].version <= pluginSources[q]

\* Nor will it be once the writes that are left are made.
Fits(todo) ==
    \A k \in 1 .. Len(todo) :
        /\ todo[k].write = "remove" => k = 1 /\ pluginDirs[todo[k].plugin] # Gone
        /\ todo[k].write = "records" =>
              \A q \in Plugins :
                 \/ Covers(q, todo[k].records[q])
                 \/ /\ todo[k].records[q] <= pluginSources[q]
                    /\ \E j \in 1 .. k - 1 : todo[j] = Copy(q)

\* What each stage of an operation has reached.
Synced(q) == Loads(pluginDirs[q]) /\ pluginDirs[q].version = pluginSources[q]
Copying(q) == pluginTodo \in {<<Copy(q)>>, <<Remove(q), Copy(q)>>}
Thens == {NoTodo} \union {<<Switch(p, to)>> : p \in Plugins, to \in Switches}

SyncOK ==
    pluginOp.does = "sync" =>
        /\ pluginOp \in [does: {"sync"}, then: Thens, left: SUBSET Bundled,
                         records: [Plugins -> Nat], changed: BOOLEAN]
        /\ pluginTodo = NoTodo \/ \E q \in Bundled \ pluginOp.left : Copying(q)
        /\ \A q \in Bundled \ pluginOp.left :
               pluginOp.records[q] = pluginSources[q] /\ (Synced(q) \/ Copying(q))
        /\ \A q \in Plugins :
               q \notin Bundled \/ q \in pluginOp.left =>
                   pluginOp.records[q] = pluginRecords[q]
        /\ ~pluginOp.changed => pluginOp.records = pluginRecords
StoreOK ==
    pluginOp.does \in {"store", "discover"} =>
        /\ pluginOp \in [does: {"store", "discover"}, then: Thens]
        /\ \A q \in Bundled : Synced(q)
        /\ \/ pluginTodo = NoTodo
           \/ \E r \in [Plugins -> Nat] :
                 pluginTodo = <<Store(r)>> /\ \A q \in Bundled : r[q] = pluginSources[q]
        /\ pluginOp.does = "discover" \/ pluginTodo = NoTodo =>
               \A q \in Bundled : pluginRecords[q] = pluginSources[q]
InstallOK ==
    pluginOp.does = "install" =>
        /\ pluginOp \in [does: {"install"}, plugin: Plugins]
        /\ pluginTodo = NoTodo \/ Copying(pluginOp.plugin)
        /\ pluginTodo = NoTodo => Synced(pluginOp.plugin)

PluginInv ==
    PluginTypes /\ RecordsFit /\ Fits(pluginTodo) /\ SyncOK /\ StoreOK /\ InstallOK

LEMMA TupleFacts ==
    ASSUME NEW a, NEW b, NEW c
    PROVE  /\ Len(<<a, b>>) = 2 /\ <<a, b>>[1] = a /\ <<a, b>>[2] = b
           /\ Len(<<a, b, c>>) = 3 /\ <<a, b, c>>[1] = a /\ <<a, b, c>>[2] = b
           /\ <<a, b, c>>[3] = c
<1>1. Len(<<a, b>>) = 2 /\ <<a, b>>[1] = a /\ <<a, b>>[2] = b
  OBVIOUS
<1>2. Len(<<a, b, c>>) = 3 /\ <<a, b, c>>[1] = a /\ <<a, b, c>>[2] = b
  OBVIOUS
<1>3. <<a, b, c>>[3] = c
  OBVIOUS
<1>. QED
  BY <1>1, <1>2, <1>3

LEMMA TailFacts ==
    ASSUME NEW a, NEW b
    PROVE  /\ Tail(<<a>>) = <<>> /\ Tail(<<a, b>>) = <<b>>
           /\ Head(<<a>>) = a /\ Head(<<a, b>>) = a
           /\ <<>> \o <<a>> = <<a>> /\ <<>> \o <<a, b>> = <<a, b>>
           /\ <<a>> \o <<b>> = <<a, b>>
<1>1. Tail(<<a>>) = <<>>
  OBVIOUS
<1>2. Tail(<<a, b>>) = <<b>>
  OBVIOUS
<1>3. Head(<<a>>) = a /\ Head(<<a, b>>) = a
  OBVIOUS
<1>4. <<>> \o <<a>> = <<a>>
  OBVIOUS
<1>5. <<>> \o <<a, b>> = <<a, b>>
  OBVIOUS
<1>6. <<a>> \o <<b>> = <<a, b>>
  <2> DEFINE s == <<a>> \o <<b>>
             t == <<a, b>>
  <2>1. /\ <<a>> \in Seq({a, b}) /\ <<b>> \in Seq({a, b})
        /\ Len(<<a>>) = 1 /\ <<a>>[1] = a /\ Len(<<b>>) = 1 /\ <<b>>[1] = b
    OBVIOUS
  <2>2. s \in Seq({a, b}) /\ Len(s) = 2 /\ s[1] = a /\ s[2] = b
    BY <2>1, ConcatProperties
  <2>3. t \in Seq({a, b}) /\ Len(t) = 2 /\ t[1] = a /\ t[2] = b
    OBVIOUS
  <2> HIDE DEF s, t
  <2>4. \A i \in 1 .. 2 : s[i] = t[i]
    BY <2>2, <2>3
  <2>5. s = t
    BY <2>2, <2>3, <2>4, SeqEqual
  <2>. QED
    BY <2>5 DEF s, t
<1>. QED
  BY <1>1, <1>2, <1>3, <1>4, <1>5, <1>6

LEMMA ThreeWrites ==
    ASSUME NEW a, NEW b, NEW c
    PROVE  <<a>> \o <<b, c>> = <<a, b, c>>
<1> DEFINE s == <<a>> \o <<b, c>>
           t == <<a, b, c>>
<1>1. /\ <<a>> \in Seq({a, b, c}) /\ <<b, c>> \in Seq({a, b, c})
      /\ Len(<<a>>) = 1 /\ <<a>>[1] = a
      /\ Len(<<b, c>>) = 2 /\ <<b, c>>[1] = b /\ <<b, c>>[2] = c
  OBVIOUS
<1>2. s \in Seq({a, b, c}) /\ Len(s) = 3 /\ s[1] = a /\ s[2] = b /\ s[3] = c
  BY <1>1, ConcatProperties
<1>3. t \in Seq({a, b, c}) /\ Len(t) = 3 /\ t[1] = a /\ t[2] = b /\ t[3] = c
  BY TupleFacts
<1> HIDE DEF s, t
<1>4. \A i \in 1 .. 3 : s[i] = t[i]
  BY <1>2, <1>3
<1>5. s = t
  BY <1>2, <1>3, <1>4, SeqEqual
<1>. QED
  BY <1>5 DEF s, t

\* The writes an operation may begin with.
LEMMA WritesFit ==
    ASSUME PluginInv, NEW p \in Plugins, NEW r \in [Plugins -> Nat],
           NEW to \in Switches
    PROVE  /\ Fits(<<>>) /\ Fits(<<Copy(p)>>) /\ Fits(<<Switch(p, to)>>)
           /\ pluginDirs[p] # Gone => Fits(<<Remove(p), Copy(p)>>)
           /\ (\A q \in Plugins : Covers(q, r[q])) =>
                  /\ Fits(<<Store(r)>>) /\ Fits(<<Store(r), Switch(p, to)>>)
                  /\ pluginDirs[p] # Gone => Fits(<<Remove(p), Store(r), Switch(p, to)>>)
           /\ (r[p] <= pluginSources[p] /\ \A q \in Plugins \ {p} : Covers(q, r[q])) =>
                  /\ Fits(<<Copy(p), Store(r)>>)
                  /\ pluginDirs[p] # Gone => Fits(<<Remove(p), Copy(p), Store(r)>>)
<1>1. /\ Copy(p).write = "copy" /\ Switch(p, to).write = "switch"
      /\ Remove(p).write = "remove" /\ Remove(p).plugin = p
      /\ Store(r).write = "records" /\ Store(r).records = r
  BY DEF Copy, Switch, Remove, Store
<1>2. Fits(<<>>) /\ Fits(<<Copy(p)>>) /\ Fits(<<Switch(p, to)>>)
  BY <1>1 DEF Fits
<1>3. ASSUME pluginDirs[p] # Gone PROVE Fits(<<Remove(p), Copy(p)>>)
  BY <1>1, <1>3 DEF Fits
<1>4. ASSUME \A q \in Plugins : Covers(q, r[q])
      PROVE  /\ Fits(<<Store(r)>>) /\ Fits(<<Store(r), Switch(p, to)>>)
             /\ pluginDirs[p] # Gone => Fits(<<Remove(p), Store(r), Switch(p, to)>>)
  <2>1. Fits(<<Store(r)>>)
    BY <1>1, <1>4 DEF Fits
  <2>2. Fits(<<Store(r), Switch(p, to)>>)
    BY <1>1, <1>4 DEF Fits
  <2>3. ASSUME pluginDirs[p] # Gone PROVE Fits(<<Remove(p), Store(r), Switch(p, to)>>)
    BY <1>1, <1>4, <2>3 DEF Fits
  <2>. QED
    BY <2>1, <2>2, <2>3
<1>5. ASSUME r[p] <= pluginSources[p], \A q \in Plugins \ {p} : Covers(q, r[q])
      PROVE  /\ Fits(<<Copy(p), Store(r)>>)
             /\ pluginDirs[p] # Gone => Fits(<<Remove(p), Copy(p), Store(r)>>)
  <2>1. Fits(<<Copy(p), Store(r)>>)
    <3> DEFINE todo == <<Copy(p), Store(r)>>
    <3>1. todo[1] = Copy(p) /\ todo[2] = Store(r) /\ Len(todo) = 2
      BY ONLY TupleFacts
    <3> HIDE DEF todo
    <3>2. \A k \in 1 .. Len(todo) : todo[k].write # "remove"
                                    /\ (todo[k].write = "records" => k = 2)
      BY <1>1, <3>1
    <3>3. \A q \in Plugins : Covers(q, r[q]) \/ (r[q] <= pluginSources[q] /\ todo[1] = Copy(q))
      <4> TAKE q \in Plugins
      <4>1. CASE q = p
        BY <1>5, <3>1, <4>1
      <4>2. CASE q # p
        <5>1. q \in Plugins \ {p}
          BY <4>2
        <5>2. Covers(q, r[q])
          BY <1>5, <5>1, Zenon
        <5>. QED
          BY <5>2
      <4>. QED
        BY <4>1, <4>2
    <3>4. Fits(todo)
      BY <1>1, <3>1, <3>2, <3>3 DEF Fits
    <3>. QED
      BY <3>4 DEF todo
  <2>2. ASSUME pluginDirs[p] # Gone PROVE Fits(<<Remove(p), Copy(p), Store(r)>>)
    <3> DEFINE todo == <<Remove(p), Copy(p), Store(r)>>
    <3>1. todo[1] = Remove(p) /\ todo[2] = Copy(p) /\ todo[3] = Store(r) /\ Len(todo) = 3
      BY ONLY TupleFacts
    <3> HIDE DEF todo
    <3>2. \A k \in 1 .. Len(todo) : /\ todo[k].write = "remove" => k = 1
                                    /\ todo[k].write = "records" => k = 3
      BY <1>1, <3>1
    <3>3. \A q \in Plugins : Covers(q, r[q]) \/ (r[q] <= pluginSources[q] /\ todo[2] = Copy(q))
      <4> TAKE q \in Plugins
      <4>1. CASE q = p
        BY <1>5, <3>1, <4>1
      <4>2. CASE q # p
        <5>1. q \in Plugins \ {p}
          BY <4>2
        <5>2. Covers(q, r[q])
          BY <1>5, <5>1, Zenon
        <5>. QED
          BY <5>2
      <4>. QED
        BY <4>1, <4>2
    <3>4. Fits(todo)
      BY <1>1, <2>2, <3>1, <3>2, <3>3 DEF Fits
    <3>. QED
      BY <3>4 DEF todo
  <2>. QED
    BY <2>1, <2>2
<1>. QED
  BY <1>2, <1>3, <1>4, <1>5

LEMMA WritesType ==
    ASSUME NEW p \in Plugins, NEW r \in [Plugins -> Nat], NEW to \in Switches
    PROVE  Copy(p) \in Write /\ Remove(p) \in Write /\ Store(r) \in Write /\ Switch(p, to) \in Write
  BY DEF Copy, Remove, Store, Switch, Write

LEMMA HeadFacts ==
    ASSUME PluginInv, pluginTodo # NoTodo, NEW w, w = Head(pluginTodo)
    PROVE  /\ w \in Write /\ w = pluginTodo[1]
           /\ w.write \in {"remove", "copy"} => w.plugin \in Plugins
           /\ w.write = "copy" => w = Copy(w.plugin)
           /\ w.write = "remove" => pluginDirs[w.plugin] # Gone
           /\ w.write = "records" =>
                  w.records \in [Plugins -> Nat] /\ \A q \in Plugins : Covers(q, w.records[q])
<1>1. pluginTodo \in Seq(Write) /\ pluginTodo # <<>>
  BY DEF PluginInv, PluginTypes, NoTodo
<1>2. w \in Write /\ w = pluginTodo[1] /\ 1 \in 1 .. Len(pluginTodo)
  BY <1>1
<1>3. /\ w.write \in {"remove", "copy"} => w.plugin \in Plugins
      /\ w.write = "records" => w.records \in [Plugins -> Nat]
  BY <1>2 DEF Write
<1>4. w.write = "copy" => w = Copy(w.plugin)
  BY <1>2 DEF Write, Copy
<1>5. w.write = "remove" => pluginDirs[w.plugin] # Gone
  BY <1>2 DEF PluginInv, Fits
<1>6. w.write = "records" => \A q \in Plugins : Covers(q, w.records[q])
  BY <1>2 DEF PluginInv, Fits
<1>. QED
  BY <1>2, <1>3, <1>4, <1>5, <1>6

\* The writes that are left fit what the first of them made.
LEMMA RestFits ==
    ASSUME PluginInv, pluginTodo # NoTodo, pluginTodo' = Tail(pluginTodo),
           pluginSources' = pluginSources,
           \A q \in Plugins : Head(pluginTodo) = Copy(q) \/ pluginDirs'[q] = pluginDirs[q]
                                                         \/ pluginDirs'[q] = Gone,
           \A q \in Plugins : Head(pluginTodo) = Copy(q) =>
                                  pluginDirs'[q].version = pluginSources[q]
    PROVE  pluginTodo' \in Seq(Write) /\ Fits(pluginTodo)'
<1> DEFINE todo == pluginTodo
           rest == pluginTodo'
<1>1. todo \in Seq(Write) /\ todo # <<>>
  BY DEF PluginInv, PluginTypes, NoTodo
<1>2. /\ rest \in Seq(Write) /\ Len(rest) \in Nat /\ Len(todo) = Len(rest) + 1
      /\ \A k \in 1 .. Len(rest) : rest[k] = todo[k + 1]
      /\ Head(todo) = todo[1]
  BY <1>1, HeadTailProperties, LenProperties
<1>3. ASSUME NEW k \in 1 .. Len(rest), rest[k].write = "remove" PROVE FALSE
  <2>1. k + 1 \in 1 .. Len(todo) /\ k + 1 # 1 /\ rest[k] = todo[k + 1]
    BY <1>2
  <2>. QED
    BY <1>3, <2>1 DEF PluginInv, Fits
<1>4. ASSUME NEW k \in 1 .. Len(rest), rest[k].write = "records", NEW q \in Plugins
      PROVE  \/ /\ rest[k].records[q] <= pluginSources'[q]
                /\ pluginDirs'[q] # Gone => rest[k].records[q] <= pluginDirs'[q].version
             \/ /\ rest[k].records[q] <= pluginSources'[q]
                /\ \E j \in 1 .. k - 1 : rest[j] = Copy(q)
  <2> DEFINE version == rest[k].records[q]
  <2>1. k + 1 \in 1 .. Len(todo) /\ rest[k] = todo[k + 1]
    BY <1>2
  <2>2. \/ Covers(q, version)
        \/ /\ version <= pluginSources[q]
           /\ \E j \in 1 .. (k + 1) - 1 : todo[j] = Copy(q)
    BY <1>4, <2>1 DEF PluginInv, Fits
  <2> HIDE DEF version
  <2>3. CASE Head(todo) = Copy(q)
    <3>1. version <= pluginSources'[q] /\ version <= pluginDirs'[q].version
      BY <2>2, <2>3 DEF Covers
    <3>. QED
      BY <3>1 DEF version
  <2>4. CASE Head(todo) # Copy(q)
    <3>1. CASE Covers(q, version)
      <4>1. version <= pluginSources'[q]
        BY <3>1 DEF Covers
      <4>2. pluginDirs'[q] # Gone => version <= pluginDirs'[q].version
        BY <2>4, <3>1 DEF Covers
      <4>. QED
        BY <4>1, <4>2 DEF version
    <3>2. ASSUME version <= pluginSources[q],
                 NEW j \in 1 .. (k + 1) - 1, todo[j] = Copy(q)
          PROVE  version <= pluginSources'[q] /\ \E i \in 1 .. k - 1 : rest[i] = Copy(q)
      <4>1. j # 1
        BY <1>2, <2>4, <3>2
      <4>2. j - 1 \in 1 .. k - 1 /\ j - 1 \in 1 .. Len(rest) /\ (j - 1) + 1 = j
        BY <1>2, <4>1
      <4>3. rest[j - 1] = Copy(q)
        BY <1>2, <3>2, <4>2
      <4>. QED
        BY <3>2, <4>2, <4>3
    <3>. QED
      BY <2>2, <3>1, <3>2 DEF version
  <2>. QED
    BY <2>3, <2>4
<1>5. Fits(pluginTodo)'
  BY <1>3, <1>4 DEF Fits, Covers
<1>. QED
  BY <1>2, <1>5

\* The types and the records are kept by each write.
LEMMA WriteKeeps ==
    ASSUME PluginInv, PluginWrite
    PROVE  PluginTypes' /\ RecordsFit' /\ Fits(pluginTodo)'
<1> DEFINE w == Head(pluginTodo)
<1>1. pluginTodo # NoTodo /\ pluginTodo' = Tail(pluginTodo) /\ pluginSources' = pluginSources
      /\ pluginOp' = pluginOp
  BY DEF PluginWrite
<1>2. /\ w \in Write
      /\ w.write \in {"remove", "copy"} => w.plugin \in Plugins
      /\ w.write = "copy" => w = Copy(w.plugin)
      /\ w.write = "remove" => pluginDirs[w.plugin] # Gone
      /\ w.write = "records" =>
             w.records \in [Plugins -> Nat] /\ \A q \in Plugins : Covers(q, w.records[q])
  BY <1>1, HeadFacts
<1>3. \/ w.write = "remove" /\ pluginRecords' = pluginRecords
         /\ pluginDirs' = [pluginDirs EXCEPT ![w.plugin] = Gone]
      \/ w.write = "copy" /\ pluginRecords' = pluginRecords
         /\ pluginDirs' = [pluginDirs EXCEPT ![w.plugin] = Dir(pluginSources[w.plugin], "whole")]
      \/ w.write = "records" /\ pluginRecords' = w.records /\ pluginDirs' = pluginDirs
      \/ w.write = "switch" /\ pluginRecords' = pluginRecords /\ pluginDirs' = pluginDirs
  BY DEF PluginWrite
<1>4. /\ pluginDirs \in [Plugins -> [version: Nat, content: Contents \union {"gone"}]]
      /\ pluginSources \in [Plugins -> Nat \ {0}] /\ pluginRecords \in [Plugins -> Nat]
      /\ pluginOp # NoOp
  BY <1>1 DEF PluginInv, PluginTypes
<1> HIDE DEF w
<1>5. ASSUME NEW q \in Plugins
      PROVE  /\ w = Copy(q) \/ pluginDirs'[q] = pluginDirs[q] \/ pluginDirs'[q] = Gone
             /\ w = Copy(q) => pluginDirs'[q].version = pluginSources[q]
  <2>1. w = Copy(q) => w.write = "copy" /\ w.plugin = q
    BY DEF Copy
  <2>. QED
    BY <1>2, <1>3, <1>4, <2>1 DEF Dir
<1>6. pluginTodo' \in Seq(Write) /\ Fits(pluginTodo)'
  BY <1>1, <1>5, RestFits DEF w
<1>7. pluginRecords' \in [Plugins -> Nat]
  BY <1>2, <1>3, <1>4
<1>8. pluginDirs' \in [Plugins -> [version: Nat, content: Contents \union {"gone"}]]
  <2>1. Gone \in [version: Nat, content: Contents \union {"gone"}]
    BY DEF Gone
  <2>2. w.plugin \in Plugins =>
            Dir(pluginSources[w.plugin], "whole") \in
                [version: Nat, content: Contents \union {"gone"}]
    BY <1>4 DEF Dir, Contents
  <2>. QED
    BY <1>2, <1>3, <1>4, <2>1, <2>2
<1>9. PluginTypes'
  BY <1>1, <1>4, <1>6, <1>7, <1>8 DEF PluginTypes
<1>10. ASSUME NEW q \in Plugins
       PROVE  /\ pluginRecords'[q] <= pluginSources'[q]
              /\ pluginDirs'[q] # Gone => pluginRecords'[q] <= pluginDirs'[q].version
              /\ pluginDirs'[q].version <= pluginSources'[q]
  <2>1. /\ Covers(q, pluginRecords[q]) /\ pluginDirs[q].version <= pluginSources[q]
        /\ pluginSources[q] \in Nat /\ pluginRecords[q] \in Nat /\ Gone.version = 0
    BY <1>4 DEF PluginInv, RecordsFit, Gone
  <2>2. CASE w = Copy(q)
    <3>1. /\ pluginDirs'[q].version = pluginSources[q] /\ pluginRecords'[q] = pluginRecords[q]
      BY <1>3, <1>5, <2>2 DEF Copy
    <3>. QED
      BY <1>1, <2>1, <3>1 DEF Covers
  <2>3. CASE w # Copy(q)
    <3>1. Covers(q, pluginRecords'[q])
      BY <1>2, <1>3, <2>1
    <3>2. pluginDirs'[q] = pluginDirs[q] \/ pluginDirs'[q] = Gone
      BY <1>5, <2>3
    <3>. QED
      BY <1>1, <2>1, <3>1, <3>2 DEF Covers
  <2>. QED
    BY <2>2, <2>3
<1>11. RecordsFit'
  BY <1>10 DEF RecordsFit, Covers
<1>. QED
  BY <1>6, <1>9, <1>11

\* One write of a removal and a copy.
LEMMA CopyingWrites ==
    ASSUME PluginInv, PluginWrite, NEW q \in Plugins, Copying(q)
    PROVE  /\ pluginRecords' = pluginRecords
           /\ \A x \in Plugins \ {q} : pluginDirs'[x] = pluginDirs[x]
           /\ \/ /\ pluginTodo' = NoTodo
                 /\ Loads(pluginDirs'[q]) /\ pluginDirs'[q].version = pluginSources[q]
              \/ pluginTodo' = <<Copy(q)>>
<1>1. /\ Copy(q).write = "copy" /\ Copy(q).plugin = q
      /\ Remove(q).write = "remove" /\ Remove(q).plugin = q
  BY DEF Copy, Remove
<1>2. DOMAIN pluginDirs = Plugins
  BY DEF PluginInv, PluginTypes
<1>3. CASE pluginTodo = <<Copy(q)>>
  <2>1. Head(pluginTodo) = Copy(q) /\ Tail(pluginTodo) = <<>>
    BY <1>3, TailFacts
  <2>2. /\ pluginRecords' = pluginRecords /\ pluginTodo' = <<>>
        /\ pluginDirs' = [pluginDirs EXCEPT ![q] = Dir(pluginSources[q], "whole")]
    BY <1>1, <2>1 DEF PluginWrite
  <2>. QED
    BY <1>2, <2>2 DEF NoTodo, Loads, Dir
<1>4. CASE pluginTodo = <<Remove(q), Copy(q)>>
  <2>1. Head(pluginTodo) = Remove(q) /\ Tail(pluginTodo) = <<Copy(q)>>
    BY <1>4, TailFacts
  <2>2. /\ pluginRecords' = pluginRecords /\ pluginTodo' = <<Copy(q)>>
        /\ pluginDirs' = [pluginDirs EXCEPT ![q] = Gone]
    BY <1>1, <2>1 DEF PluginWrite
  <2>. QED
    BY <1>2, <2>2
<1>. QED
  BY <1>3, <1>4 DEF Copying

LEMMA StoreWrites ==
    ASSUME PluginWrite, NEW r, pluginTodo = <<Store(r)>>
    PROVE  pluginTodo' = NoTodo /\ pluginRecords' = r /\ pluginDirs' = pluginDirs
<1>1. Head(pluginTodo) = Store(r) /\ Tail(pluginTodo) = <<>>
  BY TailFacts
<1>2. Store(r).write = "records" /\ Store(r).records = r
  BY DEF Store
<1>. QED
  BY <1>1, <1>2 DEF PluginWrite, NoTodo

LEMMA NotDone ==
    ASSUME NEW q
    PROVE  <<Copy(q)>> # NoTodo /\ <<Remove(q), Copy(q)>> # NoTodo /\ <<Store(q)>> # NoTodo
  BY DEF NoTodo

LEMMA SyncWriteStep ==
    ASSUME PluginInv, PluginWrite
    PROVE  SyncOK'
<1> SUFFICES ASSUME pluginOp.does = "sync" PROVE SyncOK'
  BY DEF SyncOK, PluginWrite
<1> DEFINE left == pluginOp.left
           records == pluginOp.records
<1>1. /\ pluginOp \in [does: {"sync"}, then: Thens, left: SUBSET Bundled,
                       records: [Plugins -> Nat], changed: BOOLEAN]
      /\ pluginTodo = NoTodo \/ \E q \in Bundled \ left : Copying(q)
      /\ \A q \in Bundled \ left : records[q] = pluginSources[q] /\ (Synced(q) \/ Copying(q))
      /\ \A q \in Plugins : q \notin Bundled \/ q \in left => records[q] = pluginRecords[q]
      /\ ~pluginOp.changed => records = pluginRecords
  BY DEF PluginInv, SyncOK
<1>2. pluginTodo # NoTodo /\ pluginOp' = pluginOp /\ pluginSources' = pluginSources
  BY DEF PluginWrite
<1>3. PICK q \in Bundled \ left : Copying(q)
  BY <1>1, <1>2
<1>4. q \in Plugins
  BY DEF Plugins
<1>5. /\ pluginRecords' = pluginRecords
      /\ \A x \in Plugins \ {q} : pluginDirs'[x] = pluginDirs[x]
      /\ \/ /\ pluginTodo' = NoTodo
            /\ Loads(pluginDirs'[q]) /\ pluginDirs'[q].version = pluginSources[q]
         \/ pluginTodo' = <<Copy(q)>>
  BY <1>3, <1>4, CopyingWrites
<1>6. pluginTodo' = NoTodo \/ pluginTodo' \in {<<Copy(q)>>, <<Remove(q), Copy(q)>>}
  BY <1>5
<1>7. ASSUME NEW x \in Bundled \ left
      PROVE  \/ Loads(pluginDirs'[x]) /\ pluginDirs'[x].version = pluginSources'[x]
             \/ pluginTodo' \in {<<Copy(x)>>, <<Remove(x), Copy(x)>>}
  <2>1. CASE x = q
    BY <1>2, <1>5, <2>1
  <2>2. CASE x # q
    <3>1. ~Copying(x)
      <4>1. Copy(x) # Copy(q)
        BY <2>2 DEF Copy
      <4>. QED
        BY <1>3, <4>1 DEF Copying
    <3>2. Synced(x)
      BY <1>1, <3>1
    <3>3. x \in Plugins \ {q}
      BY <2>2 DEF Plugins
    <3>. QED
      BY <1>2, <1>5, <3>2, <3>3 DEF Synced
  <2>. QED
    BY <2>1, <2>2
<1>. QED
  BY <1>1, <1>2, <1>5, <1>6, <1>7 DEF SyncOK, Synced, Copying

LEMMA StoreWriteStep ==
    ASSUME PluginInv, PluginWrite
    PROVE  StoreOK'
<1> SUFFICES ASSUME pluginOp.does \in {"store", "discover"} PROVE StoreOK'
  BY DEF StoreOK, PluginWrite
<1>1. pluginTodo # NoTodo /\ pluginOp' = pluginOp /\ pluginSources' = pluginSources
  BY DEF PluginWrite
<1>2. PICK r \in [Plugins -> Nat] :
          pluginTodo = <<Store(r)>> /\ \A q \in Bundled : r[q] = pluginSources[q]
  BY <1>1 DEF PluginInv, StoreOK
<1>3. pluginTodo' = NoTodo /\ pluginRecords' = r /\ pluginDirs' = pluginDirs
  BY <1>2, StoreWrites
<1>. QED
  BY <1>1, <1>2, <1>3 DEF PluginInv, StoreOK, Synced

LEMMA InstallWriteStep ==
    ASSUME PluginInv, PluginWrite
    PROVE  InstallOK'
<1> SUFFICES ASSUME pluginOp.does = "install" PROVE InstallOK'
  BY DEF InstallOK, PluginWrite
<1> DEFINE q == pluginOp.plugin
<1>1. pluginTodo # NoTodo /\ pluginOp' = pluginOp /\ pluginSources' = pluginSources
  BY DEF PluginWrite
<1>2. pluginOp \in [does: {"install"}, plugin: Plugins] /\ Copying(q) /\ q \in Plugins
  BY <1>1 DEF PluginInv, InstallOK
<1>3. \/ /\ pluginTodo' = NoTodo
         /\ Loads(pluginDirs'[q]) /\ pluginDirs'[q].version = pluginSources[q]
      \/ pluginTodo' = <<Copy(q)>>
  BY <1>2, CopyingWrites
<1>4. <<Copy(q)>> # NoTodo
  BY NotDone
<1>. QED
  BY <1>1, <1>2, <1>3, <1>4 DEF InstallOK, Synced, Copying

LEMMA PluginWriteStep ==
    ASSUME PluginInv, PluginWrite
    PROVE  PluginInv'
  BY WriteKeeps, SyncWriteStep, StoreWriteStep, InstallWriteStep DEF PluginInv

\* A step that writes nothing, with what it leaves to write.
LEMMA NothingWritten ==
    ASSUME PluginInv, UNCHANGED <<pluginDirs, pluginRecords, pluginSources>>,
           NEW todo \in Seq(Write), pluginTodo' = todo, Fits(todo),
           pluginOp' = NoOp => todo = NoTodo
    PROVE  PluginTypes' /\ RecordsFit' /\ Fits(pluginTodo)'
<1>1. PluginTypes'
  BY DEF PluginInv, PluginTypes
<1>2. RecordsFit'
  BY DEF PluginInv, RecordsFit, Covers
<1>3. Fits(pluginTodo)'
  BY DEF Fits, Covers
<1>. QED
  BY <1>1, <1>2, <1>3

\* Of these operations nothing is to be said but what their writes are.
LEMMA OtherOps ==
    ASSUME NEW op, pluginOp' = op, op.does \notin {"sync", "store", "discover", "install"}
    PROVE  SyncOK' /\ StoreOK' /\ InstallOK'
  BY DEF SyncOK, StoreOK, InstallOK

LEMMA SyncBegins ==
    ASSUME PluginInv, NEW then \in Thens, Sync(then)
    PROVE  PluginInv'
<1> DEFINE op == [does |-> "sync", then |-> then, left |-> Bundled,
                  records |-> pluginRecords, changed |-> FALSE]
<1>1. /\ pluginOp' = op /\ pluginTodo' = <<>>
      /\ UNCHANGED <<pluginDirs, pluginRecords, pluginSources>>
  BY DEF Sync, Begin, disk, NoTodo
<1>2. /\ op.does = "sync" /\ op.left = Bundled /\ op.records = pluginRecords
      /\ op \in [does: {"sync"}, then: Thens, left: SUBSET Bundled,
                 records: [Plugins -> Nat], changed: BOOLEAN]
  BY DEF PluginInv, PluginTypes
<1> HIDE DEF op
<1>3. <<>> \in Seq(Write) /\ Fits(<<>>)
  BY DEF Fits
<1>4. PluginTypes' /\ RecordsFit' /\ Fits(pluginTodo)'
  BY <1>1, <1>3, NothingWritten DEF NoTodo
<1>5. SyncOK'
  BY <1>1, <1>2 DEF SyncOK, NoTodo
<1>6. StoreOK' /\ InstallOK'
  BY <1>1, <1>2 DEF StoreOK, InstallOK
<1>. QED
  BY <1>4, <1>5, <1>6 DEF PluginInv

\* The two forms in which a removal and a copy begin.
LEMMA RemoveAndCopy ==
    ASSUME PluginInv, NEW p \in Plugins, NEW todo, todo = RemoveIfThere(p) \o <<Copy(p)>>
    PROVE  /\ todo \in {<<Copy(p)>>, <<Remove(p), Copy(p)>>}
           /\ todo \in Seq(Write) /\ Fits(todo)
<1>1. CASE pluginDirs[p] = Gone
  <2>1. todo = <<Copy(p)>>
    BY <1>1, TailFacts DEF RemoveIfThere
  <2>2. Fits(<<Copy(p)>>)
    BY DEF Fits, Copy
  <2>3. <<Copy(p)>> \in Seq(Write)
    BY DEF Write, Copy
  <2>. QED
    BY <2>1, <2>2, <2>3
<1>2. CASE pluginDirs[p] # Gone
  <2>1. todo = <<Remove(p), Copy(p)>>
    BY <1>2, TailFacts DEF RemoveIfThere
  <2>2. Fits(<<Remove(p), Copy(p)>>)
    BY <1>2 DEF Fits, Copy, Remove
  <2>3. Remove(p) \in Write /\ Copy(p) \in Write
    BY DEF Write, Copy, Remove
  <2>4. <<Remove(p), Copy(p)>> \in Seq(Write)
    BY <2>3
  <2>. QED
    BY <2>1, <2>2, <2>4
<1>. QED
  BY <1>1, <1>2

LEMMA SyncPluginStep ==
    ASSUME PluginInv, NEW p \in Bundled, SyncPlugin(p)
    PROVE  PluginInv'
<1> DEFINE left == pluginOp.left
           records == pluginOp.records
           rest == left \ {p}
<1>1. /\ pluginOp.does = "sync" /\ pluginTodo = NoTodo /\ p \in left /\ p \in Plugins
      /\ UNCHANGED <<pluginDirs, pluginRecords, pluginSources>>
  BY DEF SyncPlugin, disk, Plugins
<1>2. /\ pluginOp \in [does: {"sync"}, then: Thens, left: SUBSET Bundled,
                       records: [Plugins -> Nat], changed: BOOLEAN]
      /\ \A q \in Bundled \ left : records[q] = pluginSources[q] /\ (Synced(q) \/ Copying(q))
      /\ \A q \in Plugins : q \notin Bundled \/ q \in left => records[q] = pluginRecords[q]
      /\ ~pluginOp.changed => records = pluginRecords
  BY <1>1 DEF PluginInv, SyncOK
<1>3. \A q \in Bundled \ left : Synced(q)
  BY <1>1, <1>2, NotDone DEF Copying
<1>4. /\ pluginSources[p] \in Nat /\ pluginRecords[p] \in Nat /\ pluginDirs[p].version \in Nat
      /\ Covers(p, pluginRecords[p]) /\ pluginDirs[p].version <= pluginSources[p]
  BY <1>1 DEF PluginInv, PluginTypes, RecordsFit
<1>5. CASE NeedsSync(p)
  <2> DEFINE todo == RemoveIfThere(p) \o <<Copy(p)>>
             newer == [records EXCEPT ![p] = pluginSources[p]]
             op == [pluginOp EXCEPT !.left = rest, !.changed = TRUE, !.records = newer]
  <2>1. pluginOp' = op /\ pluginTodo' = todo
    BY <1>5 DEF SyncPlugin
  <2>2. /\ todo \in {<<Copy(p)>>, <<Remove(p), Copy(p)>>}
        /\ todo \in Seq(Write) /\ Fits(todo)
    BY <1>1, RemoveAndCopy
  <2>3. /\ newer \in [Plugins -> Nat] /\ newer[p] = pluginSources[p]
        /\ \A q \in Plugins \ {p} : newer[q] = records[q]
    BY <1>1, <1>2, <1>4
  <2> HIDE DEF todo, newer
  <2>4. /\ op \in [does: {"sync"}, then: Thens, left: SUBSET Bundled,
                   records: [Plugins -> Nat], changed: BOOLEAN]
        /\ op.does = "sync" /\ op.left = rest /\ op.records = newer /\ op.changed = TRUE
    BY <1>2, <2>3
  <2> HIDE DEF op
  <2>5. op # NoOp
    BY <2>4 DEF NoOp
  <2>6. PluginTypes' /\ RecordsFit' /\ Fits(pluginTodo)'
    BY <1>1, <2>1, <2>2, <2>5, NothingWritten
  <2>7. ASSUME NEW q \in Bundled \ rest
        PROVE  /\ newer[q] = pluginSources'[q]
               /\ \/ Loads(pluginDirs'[q]) /\ pluginDirs'[q].version = pluginSources'[q]
                  \/ pluginTodo' \in {<<Copy(q)>>, <<Remove(q), Copy(q)>>}
    <3>1. CASE q = p
      BY <1>1, <2>1, <2>2, <2>3, <3>1
    <3>2. CASE q # p
      <4>1. q \in Bundled \ left /\ q \in Plugins \ {p}
        BY <3>2 DEF Plugins
      <4>. QED
        BY <1>1, <1>2, <1>3, <2>3, <4>1 DEF Synced
    <3>. QED
      BY <3>1, <3>2
  <2>8. \A q \in Plugins : q \notin Bundled \/ q \in rest => newer[q] = pluginRecords'[q]
    BY <1>1, <1>2, <2>3
  <2>9. p \in Bundled \ rest /\ pluginTodo' \in {<<Copy(p)>>, <<Remove(p), Copy(p)>>}
    BY <2>1, <2>2
  <2> HIDE DEF rest
  <2>10. SyncOK'
    BY <2>1, <2>4, <2>7, <2>8, <2>9 DEF SyncOK, Synced, Copying
  <2>11. StoreOK' /\ InstallOK'
    BY <2>1, <2>4 DEF StoreOK, InstallOK
  <2>. QED
    BY <2>6, <2>10, <2>11 DEF PluginInv
<1>6. CASE ~NeedsSync(p)
  <2> DEFINE op == [pluginOp EXCEPT !.left = rest]
  <2>1. pluginOp' = op /\ pluginTodo' = <<>>
    BY <1>6 DEF SyncPlugin, NoTodo
  <2>2. /\ op \in [does: {"sync"}, then: Thens, left: SUBSET Bundled,
                   records: [Plugins -> Nat], changed: BOOLEAN]
        /\ op.does = "sync" /\ op.left = rest /\ op.records = records
        /\ op.changed = pluginOp.changed
    BY <1>2
  <2> HIDE DEF op
  <2>3. <<>> \in Seq(Write) /\ Fits(<<>>) /\ op # NoOp
    BY <2>2 DEF Fits, NoOp
  <2>4. PluginTypes' /\ RecordsFit' /\ Fits(pluginTodo)'
    BY <1>1, <2>1, <2>3, NothingWritten
  <2>5. pluginRecords[p] = pluginSources[p] /\ Synced(p)
    <3>1. pluginRecords[p] = pluginSources[p] /\ pluginDirs[p] # Gone /\ Loads(pluginDirs[p])
      BY <1>6 DEF NeedsSync
    <3>2. pluginDirs[p].version = pluginSources[p]
      BY <1>4, <3>1 DEF Covers
    <3>. QED
      BY <3>1, <3>2 DEF Synced
  <2>6. ASSUME NEW q \in Bundled \ rest
        PROVE  /\ records[q] = pluginSources'[q]
               /\ Loads(pluginDirs'[q]) /\ pluginDirs'[q].version = pluginSources'[q]
    <3>1. CASE q = p
      BY <1>1, <1>2, <2>5, <3>1 DEF Synced
    <3>2. CASE q # p
      BY <1>1, <1>2, <1>3, <3>2 DEF Synced
    <3>. QED
      BY <3>1, <3>2
  <2>7. \A q \in Plugins : q \notin Bundled \/ q \in rest => records[q] = pluginRecords'[q]
    BY <1>1, <1>2
  <2> HIDE DEF rest
  <2>8. SyncOK'
    BY <1>1, <1>2, <2>1, <2>2, <2>6, <2>7 DEF SyncOK, Synced, NoTodo
  <2>9. StoreOK' /\ InstallOK'
    BY <2>1, <2>2 DEF StoreOK, InstallOK
  <2>. QED
    BY <2>4, <2>8, <2>9 DEF PluginInv
<1>. QED
  BY <1>5, <1>6

LEMMA EmptyFits == NoTodo \in Seq(Write) /\ Fits(NoTodo)
  BY DEF NoTodo, Fits

\* Records that may be stored at once.
LEMMA StoreFits ==
    ASSUME PluginInv, NEW r \in [Plugins -> Nat], \A q \in Plugins : Covers(q, r[q])
    PROVE  Fits(<<Store(r)>>) /\ <<Store(r)>> \in Seq(Write)
<1>1. Store(r).write = "records" /\ Store(r).records = r
  BY DEF Store
<1>2. Store(r) \in Write
  BY DEF Store, Write
<1>3. <<Store(r)>> \in Seq(Write)
  BY <1>2
<1>4. Fits(<<Store(r)>>)
  BY <1>1 DEF Fits
<1>. QED
  BY <1>3, <1>4

LEMMA SyncEndsStep ==
    ASSUME PluginInv, SyncEnds
    PROVE  PluginInv'
<1> DEFINE records == pluginOp.records
           op == [does |-> "store", then |-> pluginOp.then]
           todo == IF pluginOp.changed THEN <<Store(records)>> ELSE NoTodo
<1>1. /\ pluginOp.does = "sync" /\ pluginTodo = NoTodo /\ pluginOp.left = {}
      /\ UNCHANGED <<pluginDirs, pluginRecords, pluginSources>>
      /\ pluginOp' = op /\ pluginTodo' = todo
  BY DEF SyncEnds, disk
<1>2. /\ pluginOp.then \in Thens /\ records \in [Plugins -> Nat]
      /\ \A q \in Bundled : records[q] = pluginSources[q] /\ (Synced(q) \/ Copying(q))
      /\ \A q \in Plugins : q \notin Bundled => records[q] = pluginRecords[q]
      /\ ~pluginOp.changed => records = pluginRecords
  BY <1>1 DEF PluginInv, SyncOK
<1>3. \A q \in Bundled : Synced(q) /\ q \in Plugins
  BY <1>1, <1>2, NotDone DEF Copying, Plugins
<1>4. ASSUME NEW q \in Plugins PROVE Covers(q, records[q])
  <2>1. CASE q \in Bundled
    <3>1. pluginSources[q] \in Nat
      BY DEF PluginInv, PluginTypes
    <3>. QED
      BY <1>2, <1>3, <2>1, <3>1 DEF Covers, Synced
  <2>2. CASE q \notin Bundled
    BY <1>2, <2>2 DEF PluginInv, RecordsFit
  <2>. QED
    BY <2>1, <2>2
<1>5. Fits(<<Store(records)>>) /\ <<Store(records)>> \in Seq(Write)
  BY <1>2, <1>4, StoreFits
<1>6. todo \in Seq(Write) /\ Fits(todo)
  BY <1>5, EmptyFits
<1>7. op.does = "store" /\ op \in [does: {"store", "discover"}, then: Thens]
  BY <1>2
<1>8. op # NoOp
  BY DEF NoOp
<1>9. todo = <<Store(records)>> \/ (todo = NoTodo /\ records = pluginRecords)
  BY <1>2
<1>10. <<Store(records)>> # NoTodo
  BY NotDone
<1> HIDE DEF op, todo, records
<1>11. PluginTypes' /\ RecordsFit' /\ Fits(pluginTodo)'
  BY <1>1, <1>6, <1>8, NothingWritten
<1>12. SyncOK' /\ InstallOK'
  BY <1>1, <1>7 DEF SyncOK, InstallOK
<1>13. \A q \in Bundled : Loads(pluginDirs'[q]) /\ pluginDirs'[q].version = pluginSources'[q]
  BY <1>1, <1>3 DEF Synced
<1>14. \A q \in Bundled : records[q] = pluginSources'[q]
  BY <1>1, <1>2
<1>15. StoreOK'
  BY <1>1, <1>2, <1>7, <1>9, <1>10, <1>13, <1>14 DEF StoreOK, Synced
<1>. QED
  BY <1>11, <1>12, <1>15 DEF PluginInv

\* Discovery drops no record of a plugin that loads.
LEMMA DiscoverStep ==
    ASSUME PluginInv, NextStage, pluginOp.does = "store"
    PROVE  PluginInv'
<1> DEFINE op == [does |-> "discover", then |-> pluginOp.then]
           kept == [p \in Plugins |-> IF p \in StaleRecords THEN 0 ELSE pluginRecords[p]]
           todo == DiscoveryWrites
<1>1. /\ pluginTodo = NoTodo /\ pluginOp' = op /\ pluginTodo' = todo
      /\ UNCHANGED <<pluginDirs, pluginRecords, pluginSources>>
  BY DEF NextStage, disk
<1>2. /\ pluginOp.then \in Thens
      /\ \A q \in Bundled : Synced(q) /\ pluginRecords[q] = pluginSources[q] /\ q \in Plugins
  BY <1>1 DEF PluginInv, StoreOK, Plugins
<1>3. /\ kept \in [Plugins -> Nat] /\ pluginSources \in [Plugins -> Nat \ {0}]
  BY DEF PluginInv, PluginTypes
<1>4. \A q \in Bundled : kept[q] = pluginSources[q]
  BY <1>2 DEF StaleRecords, Synced, Loads
<1>5. ASSUME NEW q \in Plugins PROVE Covers(q, kept[q])
  <2>1. /\ Covers(q, pluginRecords[q]) /\ pluginSources[q] \in Nat
        /\ pluginDirs[q].version \in Nat
    BY DEF PluginInv, RecordsFit, PluginTypes
  <2>2. kept[q] = 0 \/ kept[q] = pluginRecords[q]
    OBVIOUS
  <2>. QED
    BY <2>1, <2>2 DEF Covers
<1> HIDE DEF kept
<1>6. todo = NoTodo \/ todo = <<Store(kept)>>
  BY DEF DiscoveryWrites, NoTodo, kept
<1>7. todo \in Seq(Write) /\ Fits(todo)
  <2>1. Fits(<<Store(kept)>>) /\ <<Store(kept)>> \in Seq(Write)
    BY <1>3, <1>5, StoreFits
  <2>. QED
    BY <1>6, <2>1, EmptyFits
<1>8. op.does = "discover" /\ op \in [does: {"store", "discover"}, then: Thens] /\ op # NoOp
  BY <1>2 DEF NoOp
<1> HIDE DEF op, todo
<1>9. PluginTypes' /\ RecordsFit' /\ Fits(pluginTodo)'
  BY <1>1, <1>7, <1>8, NothingWritten
<1>10. SyncOK' /\ InstallOK'
  BY <1>1, <1>8 DEF SyncOK, InstallOK
<1>11. \A q \in Bundled :
           /\ Loads(pluginDirs'[q]) /\ pluginDirs'[q].version = pluginSources'[q]
           /\ pluginRecords'[q] = pluginSources'[q] /\ kept[q] = pluginSources'[q]
  BY <1>1, <1>2, <1>4 DEF Synced
<1>12. StoreOK'
  BY <1>1, <1>3, <1>6, <1>8, <1>11 DEF StoreOK, Synced
<1>. QED
  BY <1>9, <1>10, <1>12 DEF PluginInv

\* A step after which only the writes that are left count.
LEMMA OtherBegins ==
    ASSUME PluginInv, UNCHANGED <<pluginDirs, pluginRecords, pluginSources>>,
           NEW todo \in Seq(Write), Fits(todo), pluginTodo' = todo,
           NEW op, pluginOp' = op, op.does \notin {"sync", "store", "discover", "install"},
           op = NoOp => todo = NoTodo
    PROVE  PluginInv'
  BY NothingWritten, OtherOps DEF PluginInv

LEMMA NextStageStep ==
    ASSUME PluginInv, NextStage
    PROVE  PluginInv'
<1>1. UNCHANGED <<pluginDirs, pluginRecords, pluginSources>>
  BY DEF NextStage, disk
<1>2. CASE pluginOp.does = "store"
  BY <1>2, DiscoverStep
<1>3. CASE pluginOp' = [does |-> "switch"] /\ pluginTodo' = pluginOp.then
           /\ pluginOp.does = "discover"
  <2> DEFINE op == [does |-> "switch"]
  <2>1. pluginOp.then \in Thens
    BY <1>3 DEF PluginInv, StoreOK
  <2>2. pluginOp.then \in Seq(Write) /\ Fits(pluginOp.then)
    <3>1. CASE pluginOp.then = NoTodo
      BY <3>1, EmptyFits
    <3>2. ASSUME NEW p \in Plugins, NEW to \in Switches, pluginOp.then = <<Switch(p, to)>>
          PROVE  pluginOp.then \in Seq(Write) /\ Fits(pluginOp.then)
      <4>1. Switch(p, to) \in Write /\ Switch(p, to).write = "switch"
        BY DEF Switch, Write
      <4>. QED
        BY <3>2, <4>1 DEF Fits
    <3>. QED
      BY <2>1, <3>1, <3>2 DEF Thens
  <2>3. op.does = "switch" /\ op # NoOp
    BY DEF NoOp
  <2>. QED
    BY <1>1, <1>3, <2>2, <2>3, OtherBegins
<1>4. CASE pluginOp' = NoOp /\ pluginTodo' = NoTodo
  <2>1. NoOp.does = "nothing"
    BY DEF NoOp
  <2>. QED
    BY <1>1, <1>4, <2>1, EmptyFits, OtherBegins
<1>5. CASE /\ pluginOp.does = "install" /\ pluginTodo = NoTodo
           /\ pluginOp' = [does |-> "record"]
           /\ pluginTodo' = <<Store(Recorded(pluginOp.plugin)), Switch(pluginOp.plugin, "on")>>
  <2> DEFINE p == pluginOp.plugin
             r == Recorded(p)
             todo == <<Store(r), Switch(p, "on")>>
             op == [does |-> "record"]
  <2>1. p \in Plugins /\ Synced(p)
    BY <1>5 DEF PluginInv, InstallOK
  <2>2. /\ pluginSources[p] \in Nat /\ pluginRecords \in [Plugins -> Nat]
    BY <2>1 DEF PluginInv, PluginTypes
  <2>3. r \in [Plugins -> Nat] /\ r[p] = pluginSources[p]
        /\ \A q \in Plugins \ {p} : r[q] = pluginRecords[q]
    BY <2>1, <2>2 DEF Recorded
  <2> HIDE DEF r
  <2>4. ASSUME NEW q \in Plugins PROVE Covers(q, r[q])
    <3>1. CASE q = p
      BY <2>1, <2>2, <2>3, <3>1 DEF Covers, Synced
    <3>2. CASE q # p
      BY <2>3, <3>2 DEF PluginInv, RecordsFit
    <3>. QED
      BY <3>1, <3>2
  <2>5. "on" \in Switches
    BY DEF Switches
  <2>6. Fits(todo)
    BY <2>1, <2>3, <2>4, <2>5, WritesFit
  <2>7. Store(r) \in Write /\ Switch(p, "on") \in Write
    BY <2>1, <2>3, <2>5, WritesType
  <2>8. todo \in Seq(Write)
    BY <2>7
  <2>9. op.does = "record" /\ op # NoOp
    BY DEF NoOp
  <2>10. pluginOp' = op /\ pluginTodo' = todo
    BY <1>5 DEF r
  <2> HIDE DEF todo, op
  <2>. QED
    BY <1>1, <2>6, <2>8, <2>9, <2>10, OtherBegins
<1>. QED
  BY <1>2, <1>3, <1>4, <1>5 DEF NextStage

LEMMA TupleType ==
    ASSUME NEW S, NEW a \in S, NEW b \in S, NEW c \in S
    PROVE  <<a, b>> \in Seq(S) /\ <<a, b, c>> \in Seq(S)
  OBVIOUS

LEMMA InstallBegins ==
    ASSUME PluginInv, NEW p \in Plugins, Install(p)
    PROVE  PluginInv'
<1> DEFINE op == [does |-> "install", plugin |-> p]
           todo == RemoveIfThere(p) \o <<Copy(p)>>
<1>1. /\ pluginOp' = op /\ pluginTodo' = todo
      /\ UNCHANGED <<pluginDirs, pluginRecords, pluginSources>>
  BY DEF Install, Begin, disk
<1>2. /\ todo \in {<<Copy(p)>>, <<Remove(p), Copy(p)>>}
      /\ todo \in Seq(Write) /\ Fits(todo)
  BY RemoveAndCopy
<1>3. /\ op.does = "install" /\ op.plugin = p /\ op # NoOp
      /\ op \in [does: {"install"}, plugin: Plugins]
  BY DEF NoOp
<1> HIDE DEF op, todo
<1>4. PluginTypes' /\ RecordsFit' /\ Fits(pluginTodo)'
  BY <1>1, <1>2, <1>3, NothingWritten
<1>5. SyncOK' /\ StoreOK'
  BY <1>1, <1>3 DEF SyncOK, StoreOK
<1>6. InstallOK'
  <2>1. pluginTodo' # NoTodo
    BY <1>1, <1>2, NotDone
  <2>. QED
    BY <1>1, <1>2, <1>3, <2>1 DEF InstallOK, Copying
<1>. QED
  BY <1>4, <1>5, <1>6 DEF PluginInv

LEMMA UninstallBegins ==
    ASSUME PluginInv, NEW p \in Plugins, Uninstall(p)
    PROVE  PluginInv'
<1> DEFINE op == [does |-> "uninstall"]
           r == [pluginRecords EXCEPT ![p] = 0]
           todo == RemoveIfThere(p) \o <<Store(r), Switch(p, "absent")>>
<1>1. /\ pluginOp' = op /\ pluginTodo' = todo
      /\ UNCHANGED <<pluginDirs, pluginRecords, pluginSources>>
  BY DEF Uninstall, Begin, disk
<1>2. r \in [Plugins -> Nat] /\ r[p] = 0 /\ \A q \in Plugins \ {p} : r[q] = pluginRecords[q]
  BY DEF PluginInv, PluginTypes
<1> HIDE DEF r
<1>3. ASSUME NEW q \in Plugins PROVE Covers(q, r[q])
  <2>1. /\ Covers(q, pluginRecords[q]) /\ pluginSources[q] \in Nat
        /\ pluginDirs[q].version \in Nat
    BY DEF PluginInv, RecordsFit, PluginTypes
  <2>. QED
    BY <1>2, <2>1 DEF Covers
<1>4. "absent" \in Switches
  BY DEF Switches
<1>5. Remove(p) \in Write /\ Store(r) \in Write /\ Switch(p, "absent") \in Write
  BY <1>2, <1>4, WritesType
<1> HIDE DEF todo
<1>6. todo \in Seq(Write) /\ Fits(todo)
  <2>1. CASE pluginDirs[p] = Gone
    <3>0. RemoveIfThere(p) = <<>>
      BY <2>1 DEF RemoveIfThere
    <3>1. todo = <<Store(r), Switch(p, "absent")>>
      BY <3>0, TailFacts DEF todo
    <3>3. <<Store(r), Switch(p, "absent")>> \in Seq(Write)
      BY <1>5, TupleType
    <3>2. Fits(<<Store(r), Switch(p, "absent")>>)
      BY <1>2, <1>3, <1>4, WritesFit
    <3>. QED
      BY <3>1, <3>2, <3>3
  <2>2. CASE pluginDirs[p] # Gone
    <3>0. RemoveIfThere(p) = <<Remove(p)>>
      BY <2>2 DEF RemoveIfThere
    <3>4. <<Remove(p)>> \o <<Store(r), Switch(p, "absent")>> = <<Remove(p), Store(r), Switch(p, "absent")>>
      BY ONLY ThreeWrites
    <3>1. todo = <<Remove(p), Store(r), Switch(p, "absent")>>
      BY <3>0, <3>4 DEF todo
    <3>3. <<Remove(p), Store(r), Switch(p, "absent")>> \in Seq(Write)
      BY <1>5, TupleType
    <3>2. Fits(<<Remove(p), Store(r), Switch(p, "absent")>>)
      BY <1>2, <1>3, <1>4, <2>2, WritesFit
    <3>. QED
      BY <3>1, <3>2, <3>3
  <2>. QED
    BY <2>1, <2>2
<1>7. op.does = "uninstall" /\ op # NoOp
  BY DEF NoOp
<1> HIDE DEF op
<1>. QED
  BY <1>1, <1>6, <1>7, OtherBegins

LEMMA UpdateBegins ==
    ASSUME PluginInv, NEW p \in Plugins, Update(p)
    PROVE  PluginInv'
<1> DEFINE op == [does |-> "update"]
           r == Recorded(p)
           todo == RemoveIfThere(p) \o <<Copy(p), Store(r)>>
<1>1. /\ pluginOp' = op /\ pluginTodo' = todo
      /\ UNCHANGED <<pluginDirs, pluginRecords, pluginSources>>
  BY DEF Update, Begin, disk
<1>2. /\ r \in [Plugins -> Nat] /\ r[p] = pluginSources[p] /\ pluginSources[p] \in Nat
      /\ \A q \in Plugins \ {p} : r[q] = pluginRecords[q]
  BY DEF PluginInv, PluginTypes, Recorded
<1> HIDE DEF r
<1>3. \A q \in Plugins \ {p} : Covers(q, r[q])
  BY <1>2 DEF PluginInv, RecordsFit
<1>4. r[p] <= pluginSources[p] /\ "on" \in Switches
  BY <1>2 DEF Switches
<1>5. Remove(p) \in Write /\ Copy(p) \in Write /\ Store(r) \in Write
  BY <1>2, <1>4, WritesType
<1> HIDE DEF todo
<1>6. todo \in Seq(Write) /\ Fits(todo)
  <2>1. CASE pluginDirs[p] = Gone
    <3>0. RemoveIfThere(p) = <<>>
      BY <2>1 DEF RemoveIfThere
    <3>1. todo = <<Copy(p), Store(r)>>
      BY <3>0, TailFacts DEF todo
    <3>3. <<Copy(p), Store(r)>> \in Seq(Write)
      BY <1>5, TupleType
    <3>2. Fits(<<Copy(p), Store(r)>>)
      BY <1>2, <1>3, <1>4, WritesFit
    <3>. QED
      BY <3>1, <3>2, <3>3
  <2>2. CASE pluginDirs[p] # Gone
    <3>0. RemoveIfThere(p) = <<Remove(p)>>
      BY <2>2 DEF RemoveIfThere
    <3>4. <<Remove(p)>> \o <<Copy(p), Store(r)>> = <<Remove(p), Copy(p), Store(r)>>
      BY ONLY ThreeWrites
    <3>1. todo = <<Remove(p), Copy(p), Store(r)>>
      BY <3>0, <3>4 DEF todo
    <3>3. <<Remove(p), Copy(p), Store(r)>> \in Seq(Write)
      BY <1>5, TupleType
    <3>2. Fits(<<Remove(p), Copy(p), Store(r)>>)
      BY <1>2, <1>3, <1>4, <2>2, WritesFit
    <3>. QED
      BY <3>1, <3>2, <3>3
  <2>. QED
    BY <2>1, <2>2
<1>7. op.does = "update" /\ op # NoOp
  BY DEF NoOp
<1> HIDE DEF op
<1>. QED
  BY <1>1, <1>6, <1>7, OtherBegins

\* Between operations only the directories, the records and the versions count.
LEMMA AtRest ==
    ASSUME pluginOp' = NoOp, pluginTodo' = NoTodo,
           pluginSources' \in [Plugins -> Nat \ {0}],
           pluginDirs' \in [Plugins -> [version: Nat, content: Contents \union {"gone"}]],
           pluginRecords' \in [Plugins -> Nat],
           \A q \in Plugins :
               /\ pluginRecords'[q] <= pluginSources'[q]
               /\ pluginDirs'[q] # Gone => pluginRecords'[q] <= pluginDirs'[q].version
               /\ pluginDirs'[q].version <= pluginSources'[q]
    PROVE  PluginInv'
<1>1. PluginTypes' /\ Fits(pluginTodo)'
  BY EmptyFits DEF PluginTypes, NoTodo, Fits
<1>2. RecordsFit'
  BY DEF RecordsFit, Covers
<1>3. NoOp.does = "nothing"
  BY DEF NoOp
<1>4. SyncOK' /\ StoreOK' /\ InstallOK'
  BY <1>3, OtherOps
<1>. QED
  BY <1>1, <1>2, <1>4 DEF PluginInv

LEMMA FaultStep ==
    ASSUME PluginInv, PluginWriteFails \/ Crash
    PROVE  PluginInv'
<1> DEFINE w == Head(pluginTodo)
<1>1. /\ pluginTodo # NoTodo /\ HalfWritten(w) /\ pluginSources' = pluginSources
      /\ pluginOp' = NoOp /\ pluginTodo' = NoTodo
  BY DEF PluginWriteFails, Crash
<1>2. /\ w \in Write
      /\ w.write \in {"remove", "copy"} => w.plugin \in Plugins
      /\ w.write = "remove" => pluginDirs[w.plugin] # Gone
  BY <1>1, HeadFacts
<1> HIDE DEF w
<1>3. /\ pluginSources \in [Plugins -> Nat \ {0}] /\ pluginRecords \in [Plugins -> Nat]
      /\ pluginDirs \in [Plugins -> [version: Nat, content: Contents \union {"gone"}]]
  BY DEF PluginInv, PluginTypes
<1>4. ASSUME NEW q \in Plugins
      PROVE  /\ pluginRecords[q] <= pluginSources[q] /\ pluginSources[q] \in Nat
             /\ pluginDirs[q] # Gone => pluginRecords[q] <= pluginDirs[q].version
             /\ pluginDirs[q].version <= pluginSources[q] /\ pluginDirs[q].version \in Nat
  BY <1>3 DEF PluginInv, RecordsFit, Covers
<1>5. CASE pluginDirs' = pluginDirs /\ pluginRecords' = pluginRecords
  BY <1>1, <1>3, <1>4, <1>5, AtRest
<1>6. CASE pluginDirs' = pluginDirs /\ pluginRecords' = [p \in Plugins |-> 0]
  <2>1. pluginRecords' \in [Plugins -> Nat] /\ \A q \in Plugins : pluginRecords'[q] = 0
    BY <1>6
  <2>2. ASSUME NEW q \in Plugins
        PROVE  /\ pluginRecords'[q] <= pluginSources'[q]
               /\ pluginDirs'[q] # Gone => pluginRecords'[q] <= pluginDirs'[q].version
               /\ pluginDirs'[q].version <= pluginSources'[q]
    BY <1>1, <1>4, <1>6, <2>1
  <2>. QED
    BY <1>1, <1>3, <1>6, <2>1, <2>2, AtRest
<1>7. ASSUME w.write \in {"remove", "copy"}, pluginRecords' = pluginRecords,
             NEW content \in Contents,
             pluginDirs' = [pluginDirs EXCEPT ![w.plugin] =
                 Dir(IF w.write = "copy" THEN pluginSources[w.plugin] ELSE @.version, content)]
      PROVE  PluginInv'
  <2> DEFINE version == IF w.write = "copy" THEN pluginSources[w.plugin]
                        ELSE pluginDirs[w.plugin].version
             dir == Dir(version, content)
  <2>1. pluginDirs' = [pluginDirs EXCEPT ![w.plugin] = dir] /\ w.plugin \in Plugins
    BY <1>2, <1>3, <1>7
  <2>2. /\ version \in Nat /\ version <= pluginSources[w.plugin]
        /\ pluginRecords[w.plugin] <= version
    BY <1>2, <1>4, <1>7, <2>1
  <2> HIDE DEF version
  <2>3. dir \in [version: Nat, content: Contents \union {"gone"}] /\ dir.version = version
    BY <2>2 DEF Dir
  <2> HIDE DEF dir
  <2>4. /\ pluginDirs' \in [Plugins -> [version: Nat, content: Contents \union {"gone"}]]
        /\ \A q \in Plugins : pluginDirs'[q] = IF q = w.plugin THEN dir ELSE pluginDirs[q]
    BY <1>3, <2>1, <2>3
  <2>5. ASSUME NEW q \in Plugins
        PROVE  /\ pluginRecords'[q] <= pluginSources'[q]
               /\ pluginDirs'[q] # Gone => pluginRecords'[q] <= pluginDirs'[q].version
               /\ pluginDirs'[q].version <= pluginSources'[q]
    BY <1>1, <1>4, <1>7, <2>2, <2>3, <2>4
  <2>. QED
    BY <1>1, <1>3, <1>7, <2>4, <2>5, AtRest
<1>. QED
  BY <1>1, <1>5, <1>6, <1>7 DEF HalfWritten

LEMMA RefusedStep ==
    ASSUME PluginInv, SwitchRefused
    PROVE  PluginInv'
<1>1. /\ pluginOp' = NoOp /\ pluginTodo' = NoTodo /\ pluginSources' = pluginSources
      /\ pluginDirs' = pluginDirs /\ pluginRecords' = pluginRecords
  BY DEF SwitchRefused, disk
<1>2. /\ pluginSources \in [Plugins -> Nat \ {0}] /\ pluginRecords \in [Plugins -> Nat]
      /\ pluginDirs \in [Plugins -> [version: Nat, content: Contents \union {"gone"}]]
  BY DEF PluginInv, PluginTypes
<1>3. ASSUME NEW q \in Plugins
      PROVE  /\ pluginRecords[q] <= pluginSources[q]
             /\ pluginDirs[q] # Gone => pluginRecords[q] <= pluginDirs[q].version
             /\ pluginDirs[q].version <= pluginSources[q]
  BY DEF PluginInv, RecordsFit, Covers
<1>. QED
  BY <1>1, <1>2, <1>3, AtRest

LEMMA DamageStep ==
    ASSUME PluginInv, NEW p \in Plugins, Damage(p)
    PROVE  PluginInv'
<1>1. /\ pluginOp' = NoOp /\ pluginTodo' = NoTodo
      /\ pluginRecords' = pluginRecords /\ pluginSources' = pluginSources
      /\ pluginDirs[p] # Gone
  BY DEF Damage, PluginInv, PluginTypes
<1>3. /\ pluginSources \in [Plugins -> Nat \ {0}] /\ pluginRecords \in [Plugins -> Nat]
      /\ pluginDirs \in [Plugins -> [version: Nat, content: Contents \union {"gone"}]]
  BY DEF PluginInv, PluginTypes
<1>4. ASSUME NEW q \in Plugins
      PROVE  /\ pluginRecords[q] <= pluginSources[q] /\ pluginSources[q] \in Nat
             /\ pluginDirs[q] # Gone => pluginRecords[q] <= pluginDirs[q].version
             /\ pluginDirs[q].version <= pluginSources[q] /\ pluginDirs[q].version \in Nat
  BY <1>3 DEF PluginInv, RecordsFit, Covers
<1>5. /\ Gone \in [version: Nat, content: Contents \union {"gone"}] /\ Gone.version = 0
  BY DEF Gone
<1>6. PICK dir \in [version: Nat, content: Contents \union {"gone"}] :
          /\ pluginDirs' = [pluginDirs EXCEPT ![p] = dir]
          /\ dir = Gone \/ dir.version = pluginDirs[p].version
  <2>1. CASE pluginDirs' = [pluginDirs EXCEPT ![p] = Gone]
    BY <1>5, <2>1
  <2>2. ASSUME NEW content \in {"bare", "broken"},
               pluginDirs' = [pluginDirs EXCEPT ![p].content = content]
        PROVE  \E dir \in [version: Nat, content: Contents \union {"gone"}] :
                   /\ pluginDirs' = [pluginDirs EXCEPT ![p] = dir]
                   /\ dir = Gone \/ dir.version = pluginDirs[p].version
    <3> DEFINE dir == [pluginDirs[p] EXCEPT !.content = content]
    <3>1. content \in Contents \union {"gone"} /\ pluginDirs[p] \in
              [version: Nat, content: Contents \union {"gone"}]
      BY <1>3 DEF Contents
    <3>2. /\ dir \in [version: Nat, content: Contents \union {"gone"}]
          /\ dir.version = pluginDirs[p].version
      BY <3>1
    <3>3. pluginDirs' = [pluginDirs EXCEPT ![p] = dir]
      BY <2>2
    <3> HIDE DEF dir
    <3>. QED
      BY <3>2, <3>3
  <2>. QED
    BY <2>1, <2>2 DEF Damage
<1>7. /\ pluginDirs' \in [Plugins -> [version: Nat, content: Contents \union {"gone"}]]
      /\ \A q \in Plugins : pluginDirs'[q] = IF q = p THEN dir ELSE pluginDirs[q]
  BY <1>3, <1>6
<1>8. ASSUME NEW q \in Plugins
      PROVE  /\ pluginRecords'[q] <= pluginSources'[q]
             /\ pluginDirs'[q] # Gone => pluginRecords'[q] <= pluginDirs'[q].version
             /\ pluginDirs'[q].version <= pluginSources'[q]
  BY <1>1, <1>4, <1>5, <1>6, <1>7
<1>. QED
  BY <1>1, <1>3, <1>7, <1>8, AtRest

LEMMA NewVersionStep ==
    ASSUME PluginInv, NEW p \in Plugins, NewVersion(p)
    PROVE  PluginInv'
<1>1. /\ pluginOp' = NoOp /\ pluginTodo' = NoTodo
      /\ pluginRecords' = pluginRecords /\ pluginDirs' = pluginDirs
      /\ pluginSources' = [pluginSources EXCEPT ![p] = pluginSources[p] + 1]
  BY DEF NewVersion, PluginInv, PluginTypes, disk
<1>2. /\ pluginSources \in [Plugins -> Nat \ {0}] /\ pluginRecords \in [Plugins -> Nat]
      /\ pluginDirs \in [Plugins -> [version: Nat, content: Contents \union {"gone"}]]
  BY DEF PluginInv, PluginTypes
<1>3. /\ pluginSources' \in [Plugins -> Nat \ {0}]
      /\ \A q \in Plugins : pluginSources[q] <= pluginSources'[q]
  BY <1>1, <1>2
<1>4. ASSUME NEW q \in Plugins
      PROVE  /\ pluginRecords[q] <= pluginSources[q] /\ pluginSources[q] \in Nat
             /\ pluginDirs[q] # Gone => pluginRecords[q] <= pluginDirs[q].version
             /\ pluginDirs[q].version <= pluginSources[q] /\ pluginDirs[q].version \in Nat
             /\ pluginSources'[q] \in Nat /\ pluginRecords[q] \in Nat
  BY <1>2, <1>3 DEF PluginInv, RecordsFit, Covers
<1>5. ASSUME NEW q \in Plugins
      PROVE  /\ pluginRecords'[q] <= pluginSources'[q]
             /\ pluginDirs'[q] # Gone => pluginRecords'[q] <= pluginDirs'[q].version
             /\ pluginDirs'[q].version <= pluginSources'[q]
  BY <1>1, <1>3, <1>4
<1>. QED
  BY <1>1, <1>2, <1>3, <1>5, AtRest

LEMMA PluginInvStep == PluginInv /\ [PluginNext]_pluginVars => PluginInv'
<1> SUFFICES ASSUME PluginInv, [PluginNext]_pluginVars PROVE PluginInv'
  OBVIOUS
<1>1. CASE UNCHANGED pluginVars
  <2>1. /\ pluginDirs' = pluginDirs /\ pluginRecords' = pluginRecords
        /\ pluginSources' = pluginSources /\ pluginOp' = pluginOp /\ pluginTodo' = pluginTodo
    BY <1>1 DEF pluginVars
  <2>2. PluginTypes' /\ RecordsFit'
    BY <2>1 DEF PluginInv, PluginTypes, RecordsFit, Covers
  <2>3. Fits(pluginTodo)'
    BY <2>1 DEF PluginInv, Fits, Covers
  <2>4. SyncOK'
    BY <2>1 DEF PluginInv, SyncOK, Synced, Copying
  <2>5. StoreOK'
    BY <2>1 DEF PluginInv, StoreOK, Synced
  <2>6. InstallOK'
    BY <2>1 DEF PluginInv, InstallOK, Synced, Copying
  <2>. QED
    BY <2>2, <2>3, <2>4, <2>5, <2>6 DEF PluginInv
<1>2. CASE List
  <2>1. NoTodo \in Thens
    BY DEF Thens
  <2>. QED
    BY <1>2, <2>1, SyncBegins DEF List
<1>3. ASSUME NEW p \in Plugins, Enable(p) \/ Disable(p) PROVE PluginInv'
  <2>1. <<Switch(p, "on")>> \in Thens /\ <<Switch(p, "off")>> \in Thens
    BY DEF Thens, Switches
  <2>. QED
    BY <1>3, <2>1, SyncBegins DEF Enable, Disable
<1>4. CASE SyncEnds \/ PluginWrite \/ NextStage \/ PluginWriteFails \/ Crash
  BY <1>4, SyncEndsStep, PluginWriteStep, NextStageStep, FaultStep
<1>8. CASE NewManager
  BY <1>8 DEF NewManager, PluginInv, PluginTypes, RecordsFit, Covers, Fits, SyncOK, StoreOK,
              InstallOK, Synced, Copying
<1>9. CASE SwitchRefused
  BY <1>9, RefusedStep
<1>5. ASSUME NEW p \in Plugins, Uninstall(p) \/ Update(p) \/ Damage(p) \/ NewVersion(p)
      PROVE  PluginInv'
  BY <1>5, UninstallBegins, UpdateBegins, DamageStep, NewVersionStep
<1>6. ASSUME NEW p \in Bundled, SyncPlugin(p) PROVE PluginInv'
  BY <1>6, SyncPluginStep
<1>7. ASSUME NEW p \in External, Install(p) PROVE PluginInv'
  BY <1>7, InstallBegins DEF Plugins
<1>. QED
  BY <1>1, <1>2, <1>3, <1>4, <1>5, <1>6, <1>7, <1>8, <1>9 DEF PluginNext

(* Whatever failures, crashes and damages left before, for any plugins and *)
(* any number of versions and faults: once the sync of an operation is     *)
(* over every bundled plugin loads, in the version the program comes with, *)
(* and its record says so (plugins/src/lib.rs: sync_bundled_plugins).      *)
THEOREM SyncAlwaysRepairs == PluginSpec => []PluginSyncRepairs
<1>1. PluginInit => PluginInv
  <2> SUFFICES ASSUME PluginInit PROVE PluginInv
    OBVIOUS
  <2>1. Gone \in [version: Nat, content: Contents \union {"gone"}] /\ Gone.version = 0
    BY DEF Gone
  <2>2. PluginTypes
    BY <2>1, EmptyFits DEF PluginInit, PluginTypes
  <2>3. RecordsFit
    BY <2>1 DEF PluginInit, RecordsFit, Covers
  <2>4. Fits(pluginTodo)
    BY EmptyFits DEF PluginInit
  <2>5. SyncOK /\ StoreOK /\ InstallOK
    BY DEF PluginInit, NoOp, SyncOK, StoreOK, InstallOK
  <2>. QED
    BY <2>2, <2>3, <2>4, <2>5 DEF PluginInv
<1>2. PluginInv => PluginSyncRepairs
  BY DEF PluginInv, StoreOK, PluginSyncRepairs, Synced
<1>. QED
  BY <1>1, <1>2, PluginInvStep, PTL DEF PluginSpec

-----------------------------------------------------------------------------
(* The cron daemon.                                                        *)
(* One tick per minute, none for a minute to come, each with jobs that are *)
(* due, and one for the minute that was recorded.                          *)
TicksOK ==
    /\ \A k \in DOMAIN ticks : /\ ticks[k].at <= lastMinute
                               /\ ticks[k].left \subseteq DueJobs(ticks[k].at)
    /\ \A k, l \in DOMAIN ticks : ticks[k].at = ticks[l].at => k = l
    /\ lastMinute >= 0 => \E k \in DOMAIN ticks : ticks[k].at = lastMinute

(* A job of a tick has been started when it has ended or runs.             *)
StartedIn(j, k) == j \notin ticks[k].left \/ IsFirst(j, ticks[k].left)
Started(j, m) ==
    /\ j \in DueJobs(m)
    /\ \E k \in DOMAIN ticks : ticks[k].at = m /\ StartedIn(j, k)

FiredOK ==
    \A j \in 1 .. Jobs, m \in Minutes :
        fired[j][m] = IF Started(j, m) THEN 1 ELSE 0

(* Every minute since the interval was set, up to the last poll, has a tick. *)
PolledOK ==
    Polling =>
        /\ since <= lastPoll /\ lastPoll <= time
        /\ \A m \in Minutes : Minute(since) < m /\ m <= Minute(lastPoll) =>
              \E k \in DOMAIN ticks : ticks[k].at = m

Inv == TypeOK /\ TicksOK /\ FiredOK /\ PolledOK
-----------------------------------------------------------------------------
LEMMA MinuteFacts ==
    /\ \A t \in Nat : Minute(t) \in Nat
    /\ \A s, t \in Nat : s <= t => Minute(s) <= Minute(t)
    /\ \A s, t \in Nat : t - s <= 2 => Minute(t) <= Minute(s) + 1
BY DEF Minute

LEMMA MinuteRange ==
    \A t \in 0 .. MaxTime : t \in Nat /\ Minute(t) \in Nat /\ Minute(t) \in Minutes
<1> SUFFICES ASSUME NEW t \in 0 .. MaxTime
             PROVE  t \in Nat /\ Minute(t) \in Nat /\ Minute(t) \in Minutes
    OBVIOUS
<1>1. MaxTime \in Nat /\ t \in Nat /\ t <= MaxTime
  BY CronAssumption
<1>2. Minute(t) \in Nat /\ Minute(MaxTime) \in Nat /\ Minute(t) <= Minute(MaxTime)
  BY <1>1, MinuteFacts
<1> QED BY <1>1, <1>2 DEF Minutes

LEMMA Initially == Init => Inv
<1> SUFFICES ASSUME Init PROVE Inv
    OBVIOUS
<1>1. /\ ticks = <<>> /\ lastMinute = -1 /\ since = -1 /\ lastPoll = time
      /\ time \in 0 .. MaxTime
      /\ fired = [j \in 1 .. Jobs |-> [m \in Minutes |-> 0]]
  BY CronAssumption DEF Init
<1>2. TypeOK
  <2>1. fired \in [1 .. Jobs -> [Minutes -> Nat]]
    BY <1>1
  <2>2. lastMinute \in -1 .. Minute(time) /\ lastPoll \in 0 .. time
    BY <1>1, MinuteFacts
  <2> QED BY <1>1, <2>1, <2>2 DEF TypeOK, Polling
<1>3. TicksOK /\ FiredOK /\ PolledOK
  BY <1>1 DEF TicksOK, FiredOK, PolledOK, Started, Polling
<1> QED BY <1>2, <1>3 DEF Inv

(* A tick of a new minute starts the first of its jobs.                    *)
LEMMA NewTickStep ==
    ASSUME Inv, NewTick, Minute(time) # lastMinute,
           time' = time, lastMinute' = Minute(time)
    PROVE  /\ ticks' \in Seq(TickState) /\ fired' \in [1 .. Jobs -> [Minutes -> Nat]]
           /\ TicksOK' /\ FiredOK'
           /\ \A k \in DOMAIN ticks : k \in DOMAIN ticks' /\ ticks'[k] = ticks[k]
<1> DEFINE now == Minute(time)
           tick == [at |-> now, left |-> DueJobs(now)]
<1>1. /\ now \in Minutes /\ now \in Nat /\ lastMinute < now
      /\ ticks \in Seq(TickState) /\ fired \in [1 .. Jobs -> [Minutes -> Nat]]
  <2>1. time \in 0 .. MaxTime /\ lastMinute \in -1 .. now /\ lastMinute # now
    BY DEF Inv, TypeOK
  <2>2. now \in Minutes /\ now \in Nat
    BY <2>1, MinuteRange
  <2> QED BY <2>1, <2>2 DEF Inv, TypeOK
<1>2. tick \in TickState /\ tick.at = now /\ tick.left = DueJobs(now)
  BY <1>1 DEF TickState, DueJobs
<1>3. ticks' = Append(ticks, tick)
  BY DEF NewTick
<1> HIDE DEF tick
<1>4. /\ ticks' \in Seq(TickState) /\ Len(ticks') = Len(ticks) + 1
      /\ DOMAIN ticks = 1 .. Len(ticks) /\ DOMAIN ticks' = 1 .. Len(ticks) + 1
      /\ ticks'[Len(ticks) + 1] = tick
      /\ \A k \in 1 .. Len(ticks) : ticks'[k] = ticks[k]
      /\ Len(ticks) \in Nat
  BY <1>1, <1>2, <1>3
<1>5. \A k \in DOMAIN ticks : k \in DOMAIN ticks' /\ ticks'[k] = ticks[k]
  BY <1>4
<1>6. fired' = [j \in 1 .. Jobs |->
                   [fired[j] EXCEPT ![now] = IF IsFirst(j, DueJobs(now)) THEN @ + 1 ELSE @]]
  BY DEF NewTick, Fire
<1> HIDE DEF now
<1>7. fired' \in [1 .. Jobs -> [Minutes -> Nat]]
  BY <1>1, <1>6
<1>8. \A k \in DOMAIN ticks : ticks[k].at \in Nat /\ ticks[k].at < now
  <2>1. \A k \in DOMAIN ticks : ticks[k].at \in Nat
    <3>1. \A k \in DOMAIN ticks : ticks[k] \in TickState
      BY <1>1, <1>4
    <3> QED BY <3>1 DEF TickState, Minutes
  <2>2. lastMinute \in Int
    BY MinuteFacts, MinuteRange DEF Inv, TypeOK
  <2> QED BY <1>1, <2>1, <2>2 DEF Inv, TicksOK
<1>9. TicksOK'
  <2>1. ASSUME NEW k \in DOMAIN ticks'
        PROVE  ticks'[k].at <= now /\ ticks'[k].left \subseteq DueJobs(ticks'[k].at)
    <3>1. CASE k = Len(ticks) + 1
      BY <3>1, <1>1, <1>2, <1>4
    <3>2. CASE k \in DOMAIN ticks
      BY <3>2, <1>1, <1>4, <1>8 DEF Inv, TicksOK
    <3> QED BY <3>1, <3>2, <1>4
  <2>2. ASSUME NEW k \in DOMAIN ticks', NEW l \in DOMAIN ticks',
               ticks'[k].at = ticks'[l].at
        PROVE  k = l
    BY <2>2, <1>1, <1>2, <1>4, <1>8 DEF Inv, TicksOK
  <2>3. lastMinute' = now
    BY DEF now
  <2>4. \A m : DueJobs(m)' = DueJobs(m)
    BY DEF DueJobs
  <2> QED BY <2>1, <2>2, <2>3, <2>4, <1>2, <1>4 DEF TicksOK, DueJobs
<1>10. ASSUME NEW j \in 1 .. Jobs, NEW m \in Minutes
       PROVE  fired'[j][m] = IF Started(j, m)' THEN 1 ELSE 0
  <2>1. CASE m = now
    <3>1. ~Started(j, m)
      BY <2>1, <1>8 DEF Started
    <3>2. Started(j, m)' <=> IsFirst(j, DueJobs(now))
      BY <2>1, <1>2, <1>4, <1>8 DEF Started, StartedIn, IsFirst, DueJobs
    <3>3. fired[j][m] = 0
      BY <3>1 DEF Inv, FiredOK
    <3>4. fired'[j][m] = IF IsFirst(j, DueJobs(now)) THEN 1 ELSE 0
      BY <1>1, <1>6, <2>1, <3>3
    <3> QED BY <3>2, <3>4
  <2>2. CASE m # now
    <3>1. Started(j, m)' <=> Started(j, m)
      BY <2>2, <1>2, <1>4, <1>5 DEF Started, StartedIn, IsFirst, DueJobs
    <3>2. fired'[j][m] = fired[j][m]
      BY <1>1, <1>6, <2>2
    <3> QED BY <3>1, <3>2 DEF Inv, FiredOK
  <2> QED BY <2>1, <2>2
<1> QED BY <1>4, <1>5, <1>7, <1>9, <1>10 DEF FiredOK, Minutes

(* Polled minutes keep their tick while no poll comes.                     *)
LEMMA PolledKept ==
    ASSUME Inv, lastPoll' = lastPoll, since' = since, time' \in Nat, time <= time',
           \A k \in DOMAIN ticks : k \in DOMAIN ticks' /\ ticks'[k].at = ticks[k].at
    PROVE  PolledOK'
<1>1. time \in Nat /\ since \in Int /\ lastPoll \in Nat
  BY CronAssumption DEF Inv, TypeOK
<1>2. Polling' => /\ since' <= lastPoll' /\ lastPoll' <= time'
  BY <1>1 DEF Inv, PolledOK, Polling
<1>3. ASSUME Polling', NEW m \in Minutes, Minute(since)' < m, m <= Minute(lastPoll)'
      PROVE  \E k \in DOMAIN ticks' : ticks'[k].at = m
  <2>1. \E k \in DOMAIN ticks : ticks[k].at = m
    BY <1>3 DEF Inv, PolledOK, Polling, Minute
  <2> QED BY <2>1
<1> QED BY <1>2, <1>3 DEF PolledOK, Minutes, Minute

(* A tick in a minute that had one changes nothing; in another it is new.  *)
LEMMA TickStep ==
    ASSUME Inv, Tick, time' = time
    PROVE  /\ ticks' \in Seq(TickState) /\ fired' \in [1 .. Jobs -> [Minutes -> Nat]]
           /\ lastMinute' \in -1 .. Minute(time)
           /\ TicksOK' /\ FiredOK'
           /\ \A k \in DOMAIN ticks : k \in DOMAIN ticks' /\ ticks'[k] = ticks[k]
           /\ \E k \in DOMAIN ticks' : ticks'[k].at = Minute(time)
<1>1. Minute(time) \in Nat
  BY MinuteRange DEF Inv, TypeOK
<1>2. CASE Minute(time) = lastMinute
  <2>1. UNCHANGED <<lastMinute, ticks, fired>>
    BY <1>2 DEF Tick
  <2>2. TicksOK' /\ FiredOK'
    BY <2>1 DEF Inv, TicksOK, FiredOK, Started, StartedIn, IsFirst, DueJobs, Minutes,
                Minute
  <2>3. \E k \in DOMAIN ticks : ticks[k].at = lastMinute
    BY <1>1, <1>2 DEF Inv, TicksOK
  <2> QED BY <1>2, <2>1, <2>2, <2>3 DEF Inv, TypeOK
<1>3. CASE Minute(time) # lastMinute
  <2>1. NewTick /\ lastMinute' = Minute(time)
    BY <1>3 DEF Tick
  <2>2. TicksOK' /\ lastMinute' \in Nat
    BY <1>1, <1>3, <2>1, NewTickStep
  <2>3. \E k \in DOMAIN ticks' : ticks'[k].at = Minute(time)
    BY <2>1, <2>2 DEF TicksOK
  <2>4. lastMinute' \in -1 .. Minute(time)
    BY <1>1, <2>1
  <2> QED BY <1>3, <2>1, <2>3, <2>4, NewTickStep
<1> QED BY <1>2, <1>3

LEMMA FirstTickStep == ASSUME Inv, FirstTick PROVE Inv'
<1>1. Tick /\ time' = time /\ since' = since /\ lastPoll' = lastPoll
  BY DEF FirstTick
<1>2. time \in Nat
  BY MinuteRange DEF Inv, TypeOK
<1>3. TypeOK'
  <2>1. /\ time' \in 0 .. MaxTime /\ since' \in -1 .. time' /\ lastPoll' \in 0 .. time'
        /\ Polling' => time' - lastPoll' <= 2
    BY <1>1 DEF Inv, TypeOK, Polling
  <2>2. Minute(time)' = Minute(time)
    BY <1>1 DEF Minute
  <2> QED BY <1>1, <2>1, <2>2, TickStep DEF TypeOK, TickState, Minutes, Minute
<1>4. PolledOK'
  BY <1>1, <1>2, TickStep, PolledKept
<1> QED BY <1>1, <1>3, <1>4, TickStep DEF Inv

LEMMA PollStep == ASSUME Inv, Poll PROVE Inv'
<1>1. Tick /\ time' = time /\ since' = since /\ lastPoll' = time /\ Polling
  BY DEF Poll
<1>2. /\ time \in 0 .. MaxTime /\ time \in Nat /\ lastPoll \in Nat /\ since \in Nat
      /\ time - lastPoll <= 2 /\ since <= lastPoll /\ lastPoll <= time
  BY <1>1, MinuteRange DEF Inv, TypeOK, PolledOK, Polling
<1>3. TypeOK'
  <2>1. /\ time' \in 0 .. MaxTime /\ since' \in -1 .. time' /\ lastPoll' \in 0 .. time'
        /\ Polling' => time' - lastPoll' <= 2
    BY <1>1, <1>2
  <2>2. Minute(time)' = Minute(time)
    BY <1>1 DEF Minute
  <2> QED BY <1>1, <2>1, <2>2, TickStep DEF TypeOK, TickState, Minutes, Minute
<1>4. ASSUME NEW m \in Minutes, Minute(since) < m, m <= Minute(time)
      PROVE  \E k \in DOMAIN ticks' : ticks'[k].at = m
  <2>1. /\ Minute(time) \in Nat /\ Minute(lastPoll) \in Nat
        /\ Minute(time) <= Minute(lastPoll) + 1 /\ m \in Int
    BY <1>2, MinuteFacts DEF Minutes
  <2>2. CASE m <= Minute(lastPoll)
    <3>1. \E k \in DOMAIN ticks : ticks[k].at = m
      BY <1>1, <1>4, <2>2 DEF Inv, PolledOK
    <3> QED BY <1>1, <3>1, TickStep
  <2>3. CASE m = Minute(time)
    BY <1>1, <2>3, TickStep
  <2> QED BY <1>4, <2>1, <2>2, <2>3
<1>5. PolledOK'
  <2>1. Minute(lastPoll)' = Minute(time) /\ Minute(since)' = Minute(since)
    BY <1>1 DEF Minute
  <2>2. since' <= lastPoll' /\ lastPoll' <= time'
    BY <1>1, <1>2
  <2> QED BY <1>4, <2>1, <2>2 DEF PolledOK, Minutes, Minute
<1> QED BY <1>1, <1>3, <1>5, TickStep DEF Inv

LEMMA SetIntervalStep == ASSUME Inv, SetInterval PROVE Inv'
<1>1. /\ since' = time /\ lastPoll' = time
      /\ UNCHANGED <<time, lastMinute, ticks, fired>>
  BY DEF SetInterval
<1>2. time \in 0 .. MaxTime /\ time \in Nat /\ Minute(time) \in Nat
  BY MinuteRange DEF Inv, TypeOK
<1>3. TypeOK'
  BY <1>1, <1>2 DEF Inv, TypeOK, TickState, Minutes, Minute
<1>4. TicksOK' /\ FiredOK'
  BY <1>1 DEF Inv, TicksOK, FiredOK, Started, StartedIn, IsFirst, DueJobs, Minutes,
              Minute
<1>5. PolledOK'
  <2>1. Minute(since)' = Minute(time) /\ Minute(lastPoll)' = Minute(time)
    BY <1>1 DEF Minute
  <2>2. \A m \in Minutes : ~(Minute(time) < m /\ m <= Minute(time))
    BY <1>2 DEF Minutes
  <2> QED BY <1>1, <1>2, <2>1, <2>2 DEF PolledOK, Minutes, Minute
<1> QED BY <1>3, <1>4, <1>5 DEF Inv

LEMMA AdvanceStep == ASSUME Inv, Advance PROVE Inv'
<1>1. /\ time' = time + 1 /\ time < MaxTime
      /\ UNCHANGED <<since, lastPoll, lastMinute, ticks, fired>>
      /\ Polling => time - lastPoll < 2
  BY DEF Advance
<1>2. /\ time \in 0 .. MaxTime /\ time \in Nat /\ MaxTime \in Nat
      /\ lastMinute \in -1 .. Minute(time) /\ lastPoll \in 0 .. time
      /\ since \in -1 .. time
  BY CronAssumption, MinuteRange DEF Inv, TypeOK
<1>3. TypeOK'
  <2>1. /\ Minute(time) \in Nat /\ Minute(time + 1) \in Nat
        /\ Minute(time) <= Minute(time + 1)
    BY <1>2, MinuteFacts
  <2>2. lastMinute' \in -1 .. Minute(time)'
    BY <1>1, <1>2, <2>1 DEF Minute
  <2>3. /\ time' \in 0 .. MaxTime /\ since' \in -1 .. time' /\ lastPoll' \in 0 .. time'
        /\ Polling' => time' - lastPoll' <= 2
    BY <1>1, <1>2 DEF Polling
  <2> QED BY <1>1, <2>2, <2>3 DEF Inv, TypeOK, TickState, Minutes, Minute
<1>4. TicksOK' /\ FiredOK'
  BY <1>1 DEF Inv, TicksOK, FiredOK, Started, StartedIn, IsFirst, DueJobs, Minutes,
              Minute
<1>5. PolledOK'
  BY <1>1, <1>2, PolledKept
<1> QED BY <1>3, <1>4, <1>5 DEF Inv

(* The end of a job starts the next one of its tick and no other.          *)
LEMMA JobEndsStep ==
    ASSUME Inv, NEW k \in DOMAIN ticks, JobEnds(k) PROVE Inv'
<1> PICK e \in 1 .. Jobs :
        /\ IsFirst(e, ticks[k].left)
        /\ ticks' = [ticks EXCEPT ![k].left = ticks[k].left \ {e}]
        /\ Fire(ticks[k].left \ {e}, ticks[k].at)
        /\ UNCHANGED <<time, since, lastPoll, lastMinute>>
    BY DEF JobEnds
<1> DEFINE left == ticks[k].left \ {e}
           now == ticks[k].at
           tick == [ticks[k] EXCEPT !.left = left]
<1>1. /\ ticks \in Seq(TickState) /\ fired \in [1 .. Jobs -> [Minutes -> Nat]]
      /\ ticks[k] \in TickState
  BY DEF Inv, TypeOK
<1>2. /\ tick \in TickState /\ tick.at = now /\ tick.left = left
      /\ now \in Minutes /\ left \subseteq 1 .. Jobs
  BY <1>1 DEF TickState
<1> HIDE DEF tick
<1>3. ticks' = [ticks EXCEPT ![k] = tick]
  BY DEF tick
<1>4. /\ ticks' \in Seq(TickState) /\ DOMAIN ticks' = DOMAIN ticks
      /\ ticks'[k] = tick
      /\ \A l \in DOMAIN ticks \ {k} : ticks'[l] = ticks[l]
      /\ \A l \in DOMAIN ticks : ticks'[l].at = ticks[l].at
  <2>1. ticks' \in Seq(TickState) /\ DOMAIN ticks' = DOMAIN ticks
    <3>1. Len(ticks) \in Nat /\ ticks \in [1 .. Len(ticks) -> TickState]
      BY <1>1
    <3>2. tick \in TickState
      BY <1>2
    <3>3. ticks' \in [1 .. Len(ticks) -> TickState]
      BY <1>3, <3>1, <3>2
    <3> QED BY <3>1, <3>3
  <2>2. ticks'[k] = tick /\ \A l \in DOMAIN ticks \ {k} : ticks'[l] = ticks[l]
    BY <1>1, <1>3
  <2>3. \A l \in DOMAIN ticks : ticks'[l].at = ticks[l].at
    BY <1>2, <2>2
  <2> QED BY <2>1, <2>2, <2>3
<1>5. fired' = [j \in 1 .. Jobs |->
                   [fired[j] EXCEPT ![now] = IF IsFirst(j, left) THEN @ + 1 ELSE @]]
  BY DEF Fire
<1>6. e \in ticks[k].left /\ \A i \in ticks[k].left : e <= i
  BY DEF IsFirst
<1>7. ticks[k].left \subseteq DueJobs(now)
  BY DEF Inv, TicksOK
<1> HIDE DEF left, now
<1>8. fired' \in [1 .. Jobs -> [Minutes -> Nat]]
  BY <1>1, <1>2, <1>5
<1>9. TypeOK'
  BY <1>4, <1>8 DEF Inv, TypeOK, TickState, Minutes, Minute, Polling
<1>10. TicksOK'
  <2>1. ASSUME NEW l \in DOMAIN ticks'
        PROVE  ticks'[l].left \subseteq ticks[l].left
    BY <1>2, <1>4 DEF left
  <2>2. \A l \in DOMAIN ticks' : ticks'[l].left \subseteq DueJobs(ticks'[l].at)
    BY <1>4, <2>1 DEF Inv, TicksOK
  <2> QED BY <1>4, <2>2 DEF Inv, TicksOK, DueJobs
<1>11. ASSUME NEW j \in 1 .. Jobs, NEW m \in Minutes
       PROVE  fired'[j][m] = IF Started(j, m)' THEN 1 ELSE 0
  <2>1. CASE m = now
    <3>1. Started(j, m) <=> j \in DueJobs(now) /\ StartedIn(j, k)
      BY <2>1 DEF Inv, TicksOK, Started, now
    <3>2. Started(j, m)' <=> j \in DueJobs(now) /\ (j \notin left \/ IsFirst(j, left))
      BY <1>2, <1>4, <2>1 DEF Inv, TicksOK, Started, StartedIn, IsFirst, DueJobs, now
    <3>3. IsFirst(j, left) => ~Started(j, m)
      BY <1>6, <3>1 DEF IsFirst, StartedIn, left
    <3>4. ~IsFirst(j, left) => (Started(j, m)' <=> Started(j, m))
      BY <1>6, <3>1, <3>2 DEF IsFirst, StartedIn, left
    <3>5. IsFirst(j, left) => Started(j, m)'
      BY <1>7, <3>2 DEF IsFirst, left
    <3>6. fired'[j][m] = IF IsFirst(j, left) THEN fired[j][m] + 1 ELSE fired[j][m]
      BY <1>1, <1>2, <1>5, <2>1
    <3>7. fired[j][m] = IF Started(j, m) THEN 1 ELSE 0
      BY DEF Inv, FiredOK
    <3> QED BY <3>3, <3>4, <3>5, <3>6, <3>7
  <2>2. CASE m # now
    <3>1. Started(j, m)' <=> Started(j, m)
      BY <1>2, <1>4, <2>2 DEF Started, StartedIn, IsFirst, DueJobs, now
    <3>2. fired'[j][m] = fired[j][m]
      BY <1>1, <1>2, <1>5, <2>2
    <3> QED BY <3>1, <3>2 DEF Inv, FiredOK
  <2> QED BY <2>1, <2>2
<1>12. FiredOK'
  BY <1>11 DEF FiredOK, Minutes, Minute
<1>13. PolledOK'
  <2>1. time \in Nat
    BY MinuteRange DEF Inv, TypeOK
  <2> QED BY <1>4, <2>1, PolledKept
<1> QED BY <1>9, <1>10, <1>12, <1>13 DEF Inv
-----------------------------------------------------------------------------
(* The invariant holds in every state of the daemon.                       *)
THEOREM Invariance == Spec => []Inv
<1>1. ASSUME Inv, [Next]_vars PROVE Inv'
  <2>1. CASE FirstTick
    BY <1>1, <2>1, FirstTickStep
  <2>2. CASE SetInterval
    BY <1>1, <2>2, SetIntervalStep
  <2>3. CASE Poll
    BY <1>1, <2>3, PollStep
  <2>4. CASE Advance
    BY <1>1, <2>4, AdvanceStep
  <2>5. CASE \E k \in DOMAIN ticks : JobEnds(k)
    BY <1>1, <2>5, JobEndsStep
  <2>6. CASE UNCHANGED vars
    BY <1>1, <2>6 DEF vars, Inv, TypeOK, TicksOK, FiredOK, PolledOK, Started,
                      StartedIn, IsFirst, DueJobs, Polling, TickState, Minutes, Minute
  <2> QED BY <1>1, <2>1, <2>2, <2>3, <2>4, <2>5, <2>6 DEF Next
<1> QED BY <1>1, Initially, PTL DEF Spec

\* Every variable of the daemon stays in its range.
THEOREM TypeCorrect == Spec => []TypeOK
<1>1. Inv => TypeOK
  BY DEF Inv
<1> QED BY <1>1, Invariance, PTL

\* However ticks overlap, runCronDaemon starts a job at most once for a minute,
\* and only for a minute at which the job is due.
THEOREM FiresOnce == Spec => []OncePerMinute
<1>1. Inv => OncePerMinute
  BY DEF Inv, FiredOK, Started, DueJobs, OncePerMinute
<1> QED BY <1>1, Invariance, PTL

\* Once the interval of runCronDaemon is set, every minute that goes by has its
\* due jobs started or in line, however late each poll is within the interval.
THEOREM NoneMissed == Spec => []PollingMissesNone
<1>1. ASSUME Inv PROVE PollingMissesNone
  <2> SUFFICES ASSUME NEW m \in Minutes, Polling, Minute(since) < m, m < Minute(time),
                      NEW j \in 1 .. Jobs, m \in Schedule[j]
               PROVE  fired[j][m] > 0 \/ InTick(j, m)
    BY DEF PollingMissesNone, Handled
  <2>1. time \in Nat /\ lastPoll \in Nat /\ time - lastPoll <= 2
    BY <1>1, MinuteRange DEF Inv, TypeOK
  <2>2. m <= Minute(lastPoll)
    BY <2>1, MinuteFacts DEF Minutes
  <2>3. PICK k \in DOMAIN ticks : ticks[k].at = m
    BY <1>1, <2>2 DEF Inv, PolledOK
  <2>4. CASE j \in ticks[k].left
    BY <2>3, <2>4 DEF InTick
  <2>5. CASE j \notin ticks[k].left
    <3>1. Started(j, m)
      BY <2>3, <2>5 DEF Started, StartedIn, DueJobs
    <3> QED BY <1>1, <3>1 DEF Inv, FiredOK
  <2> QED BY <2>4, <2>5
<1> QED BY <1>1, Invariance, PTL

-----------------------------------------------------------------------------
(* The control plane runs each of its components as it is specified.       *)
LEMMA ComponentsAsSpecified ==
    ControlSpec => Spec /\ PlanSpec /\ LaneSpec /\ PluginSpec /\ CacheSpec /\ ProcSpec
<1>1. ControlInit => Init /\ PlanInit /\ LaneInit /\ PluginInit /\ CacheInit /\ ProcInit
  BY DEF ControlInit
<1>2. [ControlNext]_controlVars =>
          /\ [Next]_vars /\ [PlanNext]_planVars /\ [LaneNext]_laneVars
          /\ [PluginNext]_pluginVars /\ [CacheNext]_cacheVars /\ [ProcNext]_procVars
  BY DEF ControlNext, controlVars
<1>. QED
  BY <1>1, <1>2, PTL
     DEF ControlSpec, Spec, PlanSpec, LaneSpec, PluginSpec, CacheSpec, ProcSpec

(* What is proved of each component holds of all of them together, however *)
(* the daemon (cron-daemon.ts), the tools (tools/src/lib.rs), the plugin   *)
(* manager (plugins/src/lib.rs) and the cache (prompt_cache.rs) take turns. *)
THEOREM ControlPlaneSound ==
    ControlSpec =>
        /\ [](OncePerMinute /\ PollingMissesNone)
        /\ [](PlanModeGivesBack /\ CronsOffWithReason /\ ManifestAgreesWithReport)
        /\ [](PluginSyncRepairs /\ PluginMemoryFollowsSettings /\ ExitedIsWhole)
        /\ UnexpectedIsRecent
<1>. QED
  BY ComponentsAsSpecified, FiresOnce, NoneMissed, PlanModeAlwaysGivesBack,
     CronsAlwaysOffWithReason, ManifestAlwaysAgrees, SyncAlwaysRepairs,
     PluginMemoryAlwaysFollows, ExitedAlwaysWhole, UnexpectedIsAlwaysRecent, PTL
=============================================================================
