--------------------------- MODULE WorkspaceProofs ---------------------------
(***************************************************************************)
(* What holds of the parts of a workspace for every value of the           *)
(* constants: of a worker after any sequence of scrapes and calls, of the  *)
(* sessions of the Solarcido port after any interleaving of processes that *)
(* may die at any point, of the skills however installs overlap, fail and  *)
(* are cut short, and of a chain of providers whatever they answer.        *)
(***************************************************************************)
EXTENDS Workspace, WellFoundedInduction, SequenceTheorems, TLAPS

(* The parts lean on each other: a prompt in flight is one that was sent,  *)
(* a replay is of a prompt that is not in flight, so no scrape can confirm *)
(* a run, or move a worker to rest, behind their back.                     *)
Inv ==
    /\ TypeOK
    /\ BlockedExplained
    /\ NothingInFlightAtRest
    /\ ReplayIsLast
    /\ RunsForAPrompt

LEMMA ObserveStep ==
    ASSUME Inv, NEW screen \in Screens, Observe(screen) PROVE Inv'
<1> USE DEF TypeOK, BlockedExplained, NothingInFlightAtRest, ReplayIsLast,
            RunsForAPrompt, Statuses, Gates, Failures, settings, prompting
<1>1. old' \in BOOLEAN
  BY DEF Observe, Ages
<1>2. CASE ObserveTool(screen)
  BY <1>1, <1>2 DEF ObserveTool, Inv
<1>3. CASE ObserveTrust(screen)
  BY <1>1, <1>3 DEF ObserveTrust, AtTrustGate, Inv
<1>4. CASE ObserveAstray(screen)
  BY <1>1, <1>4 DEF ObserveAstray, Misdelivered, Resolved, PastGates, AtTrustGate,
                    Screens, Inv
<1>5. CASE ObserveCues(screen)
  BY <1>1, <1>5 DEF ObserveCues, Misdelivered, Resolved, PastGates, AtTrustGate,
                    Screens, Inv
<1> QED BY <1>2, <1>3, <1>4, <1>5 DEF Observe

LEMMA TimeoutStep ==
    ASSUME Inv, NEW t \in BOOLEAN, NEW m \in BOOLEAN, ObserveStartupTimeout(t, m)
    PROVE  Inv'
<1>1. Classify(t, m) \in Classifications
  BY DEF Classify, Classifications, Gates
<1> QED
  BY <1>1 DEF ObserveStartupTimeout, Ages, Inv, TypeOK, BlockedExplained,
              NothingInFlightAtRest, ReplayIsLast, RunsForAPrompt, Statuses,
              Gates, Failures, settings

LEMMA RestartStep == ASSUME Inv, Restart PROVE Inv'
<1>1. /\ status' = "spawning" /\ replayPrompt' = None /\ lastPrompt' = None
      /\ promptInFlight' = FALSE /\ promptDeliveryAttempts' = 0
  BY DEF Restart
<1>2. BlockedExplained' /\ NothingInFlightAtRest' /\ ReplayIsLast' /\ RunsForAPrompt'
  BY <1>1 DEF BlockedExplained, NothingInFlightAtRest, ReplayIsLast, RunsForAPrompt, Gates
<1>3. /\ status' \in Statuses /\ promptDeliveryAttempts' \in 0 .. MaxAttempts
      /\ lastPrompt' \in Prompts \cup {None} /\ replayPrompt' \in Prompts \cup {None}
  BY <1>1, WorkerAssumption DEF Statuses
<1>4. /\ lastError' \in Failures /\ events' \subseteq Gates
      /\ trustAutoResolve' \in BOOLEAN /\ autoRecover' \in BOOLEAN
      /\ classification' \in Classifications
  BY DEF Restart, Inv, TypeOK, Failures, settings
<1>5. trustGateCleared' \in BOOLEAN /\ promptInFlight' \in BOOLEAN /\ old' \in BOOLEAN
  BY DEF Restart, Ages
<1> QED BY <1>2, <1>3, <1>4, <1>5 DEF Inv, TypeOK

(* The invariant of every behaviour of a worker.                           *)
THEOREM Invariance == Spec => []Inv
<1> DEFINE start == /\ status = "spawning" /\ lastError = "none"
                    /\ lastPrompt = None /\ replayPrompt = None
                    /\ promptDeliveryAttempts = 0 /\ promptInFlight = FALSE
<1>0. start => /\ BlockedExplained /\ NothingInFlightAtRest
               /\ ReplayIsLast /\ RunsForAPrompt
               /\ lastPrompt \in Prompts \cup {None} /\ lastError \in Failures
               /\ replayPrompt \in Prompts \cup {None} /\ status \in Statuses
               /\ promptDeliveryAttempts \in 0 .. MaxAttempts
  BY WorkerAssumption DEF BlockedExplained, NothingInFlightAtRest, ReplayIsLast,
     RunsForAPrompt, Statuses, Gates, Failures
<1>1. Init => Inv
  BY <1>0 DEF Init, Inv, TypeOK, Classifications
<1>2. ASSUME Inv, [Next]_vars PROVE Inv'
  <2> USE <1>2 DEF Inv, TypeOK, BlockedExplained, NothingInFlightAtRest,
                   ReplayIsLast, RunsForAPrompt, Statuses, Gates, Failures,
                   Ages, settings, prompting
  <2>1. ASSUME NEW screen \in Screens, Observe(screen) PROVE Inv'
    BY <2>1, ObserveStep
  <2>2. CASE ResolveTrust
    BY <2>2 DEF ResolveTrust
  <2>3. ASSUME NEW prompt \in Prompts \cup {None}, SendPrompt(prompt) PROVE Inv'
    BY <2>3, WorkerAssumption DEF SendPrompt
  <2>4. CASE Restart
    BY <2>4, RestartStep
  <2>5. CASE Terminate
    BY <2>5 DEF Terminate
  <2>6. ASSUME NEW providerFails \in BOOLEAN, ObserveCompletion(providerFails)
        PROVE  Inv'
    BY <2>6 DEF ObserveCompletion
  <2>7. ASSUME NEW t \in BOOLEAN, NEW m \in BOOLEAN, ObserveStartupTimeout(t, m)
        PROVE  Inv'
    BY <2>7, TimeoutStep
  <2>8. CASE UNCHANGED vars
    BY <2>8 DEF vars
  <2> QED BY <2>1, <2>2, <2>3, <2>4, <2>5, <2>6, <2>7, <2>8 DEF Next
<1> QED BY <1>1, <1>2, PTL DEF Spec

(* No sequence of calls takes a variable out of its range.                 *)
THEOREM TypeCorrect == Spec => []TypeOK
<1>1. Inv => TypeOK
  BY DEF Inv
<1> QED BY <1>1, Invariance, PTL

(* A blocked worker always says why.                                       *)
THEOREM BlockedSaysWhy == Spec => []BlockedExplained
<1>1. Inv => BlockedExplained
  BY DEF Inv
<1> QED BY <1>1, Invariance, PTL

(* A worker at rest has no prompt in flight.                               *)
THEOREM RestIsQuiet == Spec => []NothingInFlightAtRest
<1>1. Inv => NothingInFlightAtRest
  BY DEF Inv
<1> QED BY <1>1, Invariance, PTL

(* The armed replay is the last prompt, and it is not under way.           *)
THEOREM ReplaysTheLast == Spec => []ReplayIsLast
<1>1. Inv => ReplayIsLast
  BY DEF Inv
<1> QED BY <1>1, Invariance, PTL

(* Nothing runs without a prompt sent since the last restart.              *)
THEOREM RunsAreAsked == Spec => []RunsForAPrompt
<1>1. Inv => RunsForAPrompt
  BY DEF Inv
<1> QED BY <1>1, Invariance, PTL

-----------------------------------------------------------------------------
Role(m, k) == IF k \in 1 .. Len(m) THEN m[k].role ELSE "none"

Record == [role: {"user", "assistant", "tool", "metadata", "torn"}, calls: Nat, turn: Nat]

(* A transcript in the middle of a turn, `left` results short of the calls *)
(* of its last answer.                                                     *)
MidTurn(m, left) ==
    /\ m \in Seq(Record) /\ Len(m) > 0 /\ left \in Nat
    /\ Role(m, 1) = "user"
    /\ \A i \in 1 .. Len(m) :
          /\ m[i].role = "user" => i = Len(m) \/ Role(m, i + 1) = "assistant"
          /\ m[i].role = "assistant" =>
                /\ \A k \in 1 .. m[i].calls : i + k <= Len(m) => Role(m, i + k) = "tool"
                /\ \/ i + m[i].calls = Len(m) + left /\ m[i].calls > 0
                   \/ /\ i + m[i].calls < Len(m)
                      /\ Role(m, i + m[i].calls + 1) =
                            IF m[i].calls = 0 THEN "user" ELSE "assistant"
    /\ left > 0 => m[Len(m)].role # "user"

LEMMA RecordsOf ==
    ASSUME NEW m \in Seq(Record)
    PROVE  Len(m) \in Nat /\ \A i \in 1 .. Len(m) : m[i] \in Record /\ m[i].calls \in Nat
<1>1. Len(m) \in Nat /\ \A i \in 1 .. Len(m) : m[i] \in Record
  BY LenProperties, ElementOfSeq
<1>2. \A r \in Record : r.calls \in Nat
  BY DEF Record
<1>. QED
  BY <1>1, <1>2

LEMMA AppendRole ==
    ASSUME NEW m \in Seq(Record), NEW line \in Record
    PROVE  /\ Append(m, line) \in Seq(Record) /\ Len(Append(m, line)) = Len(m) + 1
           /\ Append(m, line)[Len(m) + 1] = line
           /\ \A i \in 1 .. Len(m) : Append(m, line)[i] = m[i]
           /\ \A k \in Nat : k # Len(m) + 1 => Role(Append(m, line), k) = Role(m, k)
           /\ Role(Append(m, line), Len(m) + 1) = line.role
<1>1. /\ Append(m, line) \in Seq(Record) /\ Len(Append(m, line)) = Len(m) + 1
      /\ Append(m, line)[Len(m) + 1] = line
      /\ \A i \in 1 .. Len(m) : Append(m, line)[i] = m[i]
  BY AppendProperties
<1>2. Len(m) \in Nat
  BY LenProperties
<1>. QED
  BY <1>1, <1>2 DEF Role

LEMMA WholeRole ==
    ASSUME NEW m \in Seq(Record)
    PROVE  WholeTurns(m) <=>
             \A i \in 1 .. Len(m) :
                /\ i = 1 => Role(m, i) = "user"
                /\ Role(m, i) = "user" => Role(m, i + 1) = "assistant"
                /\ Role(m, i) = "assistant" =>
                      /\ \A k \in 1 .. m[i].calls : Role(m, i + k) = "tool"
                      /\ Role(m, i + m[i].calls + 1) \in
                            IF m[i].calls = 0 THEN {"none", "user"} ELSE {"assistant"}
BY DEF WholeTurns, Role

\* A prompt begins a turn.
LEMMA PromptMidTurn ==
    ASSUME NEW m \in Seq(Record), WholeTurns(m), NEW line \in Record, line.role = "user"
    PROVE  MidTurn(Append(m, line), 0)
<1> DEFINE a == Append(m, line)
<1>1. Len(m) \in Nat /\ \A i \in 1 .. Len(m) : m[i].calls \in Nat
  BY RecordsOf
<1>2. /\ a \in Seq(Record) /\ Len(a) = Len(m) + 1 /\ a[Len(m) + 1] = line
      /\ \A i \in 1 .. Len(m) : a[i] = m[i]
      /\ \A k \in Nat : k # Len(m) + 1 => Role(a, k) = Role(m, k)
      /\ Role(a, Len(m) + 1) = "user"
  BY AppendRole
<1> HIDE DEF a
<1>3. Role(a, 1) = "user"
  BY <1>1, <1>2, WholeRole
<1>4. ASSUME NEW i \in 1 .. Len(m), m[i].role = "user"
      PROVE  Role(a, i + 1) = "assistant"
  <2>1. Role(m, i) = "user" /\ Role(m, i + 1) = "assistant"
    BY <1>4, WholeRole DEF Role
  <2>2. i + 1 # Len(m) + 1
    BY <1>1, <2>1 DEF Role
  <2>. QED
    BY <1>1, <1>2, <2>1, <2>2
<1>5. ASSUME NEW i \in 1 .. Len(m), m[i].role = "assistant"
      PROVE  /\ \A k \in 1 .. m[i].calls : Role(a, i + k) = "tool"
             /\ i + m[i].calls < Len(a)
             /\ Role(a, i + m[i].calls + 1) = IF m[i].calls = 0 THEN "user" ELSE "assistant"
  <2>1. /\ \A k \in 1 .. m[i].calls : Role(m, i + k) = "tool"
        /\ Role(m, i + m[i].calls + 1) \in
              IF m[i].calls = 0 THEN {"none", "user"} ELSE {"assistant"}
        /\ m[i].calls \in Nat
    BY <1>1, <1>5, WholeRole DEF Role
  <2>2. ASSUME NEW k \in 1 .. m[i].calls
        PROVE  i + k \in 1 .. Len(m) /\ Role(a, i + k) = "tool"
    <3>1. k \in Nat /\ i + k \in Nat /\ Role(m, i + k) = "tool"
      BY <1>1, <2>1
    <3>2. i + k \in 1 .. Len(m)
      BY <3>1 DEF Role
    <3>. QED
      BY <1>1, <1>2, <3>1, <3>2
  <2>3. CASE m[i].calls = 0
    <3>1. Role(m, i + 1) \in {"none", "user"} /\ i + m[i].calls + 1 = i + 1
      BY <1>1, <2>1, <2>3
    <3>2. CASE i = Len(m)
      BY <1>1, <1>2, <2>2, <2>3, <3>1, <3>2
    <3>3. CASE i < Len(m)
      <4>1. Role(m, i + 1) = m[i + 1].role /\ i + 1 # Len(m) + 1 /\ i + 1 \in 1 .. Len(m)
        BY <1>1, <3>3 DEF Role
      <4>2. m[i + 1] \in Record /\ "none" \notin {"user", "assistant", "tool", "metadata", "torn"}
        BY <4>1, RecordsOf
      <4>3. Role(m, i + 1) = "user"
        BY <3>1, <4>1, <4>2 DEF Record
      <4>. QED
        BY <1>1, <1>2, <2>2, <2>3, <3>1, <3>3, <4>1, <4>3
    <3>. QED
      BY <1>1, <3>2, <3>3
  <2>4. CASE m[i].calls > 0
    <3>1. i + m[i].calls + 1 \in 1 .. Len(m)
      BY <2>1, <2>4 DEF Role
    <3>. QED
      BY <1>1, <1>2, <2>1, <2>2, <2>4, <3>1
  <2>. QED
    BY <2>1, <2>3, <2>4
<1>6. \A i \in 1 .. Len(a) : i \in 1 .. Len(m) \/ i = Len(m) + 1
  BY <1>1, <1>2
<1>. QED
  BY <1>1, <1>2, <1>3, <1>4, <1>5, <1>6 DEF MidTurn, a

\* The answer of the model, with calls or as the end of the turn.
LEMMA AnswerMidTurn ==
    ASSUME NEW m, MidTurn(m, 0), NEW line \in Record, line.role = "assistant"
    PROVE  IF line.calls = 0 THEN WholeTurns(Append(m, line))
           ELSE MidTurn(Append(m, line), line.calls)
<1> DEFINE a == Append(m, line)
<1>0. m \in Seq(Record) /\ line.calls \in Nat
  BY DEF MidTurn, Record
<1>1. Len(m) \in Nat \ {0} /\ \A i \in 1 .. Len(m) : m[i].calls \in Nat
  BY <1>0, RecordsOf DEF MidTurn
<1>2. /\ a \in Seq(Record) /\ Len(a) = Len(m) + 1 /\ a[Len(m) + 1] = line
      /\ \A i \in 1 .. Len(m) : a[i] = m[i]
      /\ \A k \in Nat : k # Len(m) + 1 => Role(a, k) = Role(m, k)
      /\ Role(a, Len(m) + 1) = "assistant"
  BY <1>0, AppendRole
<1> HIDE DEF a
<1>3. Role(a, 1) = "user"
  BY <1>1, <1>2 DEF MidTurn
<1>4. ASSUME NEW i \in 1 .. Len(m), m[i].role = "user"
      PROVE  Role(a, i + 1) = "assistant"
  <2>1. i = Len(m) \/ (i < Len(m) /\ Role(m, i + 1) = "assistant")
    BY <1>1, <1>4 DEF MidTurn
  <2>2. CASE i = Len(m)
    BY <1>2, <2>2
  <2>3. CASE i < Len(m) /\ Role(m, i + 1) = "assistant"
    <3>1. i + 1 \in Nat /\ i + 1 # Len(m) + 1
      BY <1>1, <2>3
    <3>. QED
      BY <1>2, <2>3, <3>1
  <2>. QED
    BY <2>1, <2>2, <2>3
<1>5. ASSUME NEW i \in 1 .. Len(m), m[i].role = "assistant"
      PROVE  /\ \A k \in 1 .. m[i].calls : Role(a, i + k) = "tool"
             /\ i + m[i].calls < Len(a)
             /\ Role(a, i + m[i].calls + 1) = IF m[i].calls = 0 THEN "user" ELSE "assistant"
  <2>1. /\ \A k \in 1 .. m[i].calls : i + k <= Len(m) => Role(m, i + k) = "tool"
        /\ \/ i + m[i].calls = Len(m) /\ m[i].calls > 0
           \/ /\ i + m[i].calls < Len(m)
              /\ Role(m, i + m[i].calls + 1) =
                    IF m[i].calls = 0 THEN "user" ELSE "assistant"
        /\ m[i].calls \in Nat
    BY <1>1, <1>5 DEF MidTurn
  <2>2. ASSUME NEW k \in 1 .. m[i].calls PROVE Role(a, i + k) = "tool"
    <3>1. i + k \in Nat /\ i + k <= Len(m) /\ i + k # Len(m) + 1
      BY <1>1, <2>1
    <3>2. Role(m, i + k) = "tool"
      BY <2>1, <3>1
    <3>. QED
      BY <1>2, <3>1, <3>2
  <2>3. CASE i + m[i].calls = Len(m) /\ m[i].calls > 0
    <3>1. i + m[i].calls + 1 = Len(m) + 1 /\ i + m[i].calls < Len(a) /\ m[i].calls # 0
      BY <1>1, <1>2, <2>1, <2>3
    <3>. QED
      BY <1>2, <2>2, <3>1
  <2>4. CASE /\ i + m[i].calls < Len(m)
             /\ Role(m, i + m[i].calls + 1) = IF m[i].calls = 0 THEN "user" ELSE "assistant"
    <3>1. /\ i + m[i].calls + 1 \in Nat /\ i + m[i].calls + 1 # Len(m) + 1
          /\ i + m[i].calls < Len(a)
      BY <1>1, <1>2, <2>1, <2>4
    <3>. QED
      BY <1>2, <2>2, <2>4, <3>1
  <2>. QED
    BY <2>1, <2>3, <2>4
<1>6. \A i \in 1 .. Len(a) : i \in 1 .. Len(m) \/ i = Len(m) + 1
  BY <1>1, <1>2
<1>7. CASE line.calls = 0
  <2>1. \A i \in 1 .. Len(m) : Role(a, i) = m[i].role /\ a[i].calls = m[i].calls
    BY <1>1, <1>2 DEF Role
  <2>2. Role(a, Len(m) + 2) = "none"
    BY <1>1, <1>2 DEF Role
  <2>3. ASSUME NEW i \in 1 .. Len(m)
        PROVE  /\ i = 1 => Role(a, i) = "user"
               /\ Role(a, i) = "user" => Role(a, i + 1) = "assistant"
               /\ Role(a, i) = "assistant" =>
                     /\ \A k \in 1 .. a[i].calls : Role(a, i + k) = "tool"
                     /\ Role(a, i + a[i].calls + 1) \in
                           IF a[i].calls = 0 THEN {"none", "user"} ELSE {"assistant"}
    <3>1. Role(a, i) = m[i].role /\ a[i].calls = m[i].calls
      BY <2>1
    <3>2. i = 1 => Role(a, i) = "user"
      BY <1>3
    <3>3. Role(a, i) = "user" => Role(a, i + 1) = "assistant"
      BY <1>4, <3>1
    <3>4. CASE m[i].role # "assistant"
      BY <3>1, <3>2, <3>3, <3>4
    <3>5. CASE m[i].role = "assistant"
      <4>1. /\ \A k \in 1 .. m[i].calls : Role(a, i + k) = "tool"
            /\ Role(a, i + m[i].calls + 1) = IF m[i].calls = 0 THEN "user" ELSE "assistant"
        BY <1>5, <3>5
      <4>2. Role(a, i + m[i].calls + 1) \in
               IF m[i].calls = 0 THEN {"none", "user"} ELSE {"assistant"}
        BY <4>1
      <4>. QED
        BY <3>1, <3>2, <3>3, <4>1, <4>2
    <3>. QED
      BY <3>4, <3>5
  <2>4. /\ Len(m) + 1 # 1 /\ Role(a, Len(m) + 1) = "assistant"
        /\ \A k \in 1 .. a[Len(m) + 1].calls : Role(a, Len(m) + 1 + k) = "tool"
        /\ a[Len(m) + 1].calls = 0 /\ Role(a, Len(m) + 1 + 0 + 1) = "none"
    BY <1>1, <1>2, <1>7, <2>2
  <2>5. WholeTurns(a)
    BY <1>2, <1>6, <2>3, <2>4, WholeRole
  <2>. QED
    BY <1>7, <2>5 DEF a
<1>8. CASE line.calls > 0
  <2>1. MidTurn(a, line.calls)
    BY <1>0, <1>1, <1>2, <1>3, <1>4, <1>5, <1>6, <1>8 DEF MidTurn
  <2>. QED
    BY <1>8, <2>1 DEF a
<1>. QED
  BY <1>0, <1>7, <1>8

\* The result of the next call.
LEMMA ResultMidTurn ==
    ASSUME NEW m, NEW left \in Nat \ {0}, MidTurn(m, left),
           NEW line \in Record, line.role = "tool"
    PROVE  MidTurn(Append(m, line), left - 1)
<1> DEFINE a == Append(m, line)
<1>0. m \in Seq(Record)
  BY DEF MidTurn
<1>1. Len(m) \in Nat \ {0} /\ \A i \in 1 .. Len(m) : m[i].calls \in Nat
  BY <1>0, RecordsOf DEF MidTurn
<1>2. /\ a \in Seq(Record) /\ Len(a) = Len(m) + 1 /\ a[Len(m) + 1] = line
      /\ \A i \in 1 .. Len(m) : a[i] = m[i]
      /\ \A k \in Nat : k # Len(m) + 1 => Role(a, k) = Role(m, k)
      /\ Role(a, Len(m) + 1) = "tool"
  BY <1>0, AppendRole
<1> HIDE DEF a
<1>3. Role(a, 1) = "user"
  BY <1>1, <1>2 DEF MidTurn
<1>4. ASSUME NEW i \in 1 .. Len(m), m[i].role = "user"
      PROVE  Role(a, i + 1) = "assistant"
  <2>1. i # Len(m) /\ Role(m, i + 1) = "assistant"
    BY <1>1, <1>4 DEF MidTurn
  <2>. QED
    BY <1>1, <1>2, <2>1
<1>5. ASSUME NEW i \in 1 .. Len(m), m[i].role = "assistant"
      PROVE  /\ \A k \in 1 .. m[i].calls : i + k <= Len(a) => Role(a, i + k) = "tool"
             /\ \/ i + m[i].calls = Len(a) + (left - 1) /\ m[i].calls > 0
                \/ /\ i + m[i].calls < Len(a)
                   /\ Role(a, i + m[i].calls + 1) =
                         IF m[i].calls = 0 THEN "user" ELSE "assistant"
  <2>1. /\ \A k \in 1 .. m[i].calls : i + k <= Len(m) => Role(m, i + k) = "tool"
        /\ \/ i + m[i].calls = Len(m) + left /\ m[i].calls > 0
           \/ /\ i + m[i].calls < Len(m)
              /\ Role(m, i + m[i].calls + 1) =
                    IF m[i].calls = 0 THEN "user" ELSE "assistant"
        /\ m[i].calls \in Nat
    BY <1>1, <1>5 DEF MidTurn
  <2>2. ASSUME NEW k \in 1 .. m[i].calls, i + k <= Len(a)
        PROVE  Role(a, i + k) = "tool"
    <3>1. k \in Nat /\ i + k \in Nat
      BY <1>1, <2>1
    <3>2. CASE i + k <= Len(m)
      <4>1. i + k # Len(m) + 1
        BY <1>1, <3>1, <3>2
      <4>2. Role(m, i + k) = "tool"
        BY <2>1, <3>2
      <4>. QED
        BY <1>2, <3>1, <4>1, <4>2
    <3>3. CASE i + k = Len(m) + 1
      BY <1>2, <3>3
    <3>4. i + k <= Len(m) \/ i + k = Len(m) + 1
      <4>1. Len(a) = Len(m) + 1
        BY <1>2
      <4>. QED
        BY <1>1, <2>2, <3>1, <4>1
    <3>. QED
      BY <3>2, <3>3, <3>4
  <2>. QED
    BY <1>1, <1>2, <2>1, <2>2
<1>6. \A i \in 1 .. Len(a) : i \in 1 .. Len(m) \/ i = Len(m) + 1
  BY <1>1, <1>2
<1>7. MidTurn(a, left - 1)
  BY <1>1, <1>2, <1>3, <1>4, <1>5, <1>6 DEF MidTurn
<1>. QED
  BY <1>7 DEF a

SolarPhases == {"off", "idle", "asking", "acting", "saving", "writing", "pointing"}

Process ==
    [phase: SolarPhases, repl: BOOLEAN, id: Nat, messages: Seq(Record), left: Nat,
     iterations: Nat, written: Nat, seen: Nat, clean: BOOLEAN, alone: BOOLEAN]

File == [lines: Seq(Record), settled: BOOLEAN, kept: Seq(Record), openings: Nat,
         saved: BOOLEAN]

\* What is true of a process, whatever the files hold.
ProcessOK(proc) ==
    /\ proc.phase # "off" => proc.id \in 1 .. SolarIds
    /\ proc.phase \in {"asking", "acting"} => proc.messages # <<>>
    /\ proc.phase = "acting" => proc.left > 0
    /\ proc.clean =>
          /\ proc.phase \in {"idle", "saving", "writing", "pointing"} => WholeTurns(proc.messages)
          /\ proc.phase = "asking" => MidTurn(proc.messages, 0)
          /\ proc.phase = "acting" => MidTurn(proc.messages, proc.left)

FileOK(file) ==
    file.settled => file.lines # <<>> /\ WholeTurns(Tail(file.lines))

SolarInv ==
    /\ solarClock \in 1 .. SolarIds
    /\ solarBegun \in Nat
    /\ solarLatest \in 0 .. SolarIds
    /\ solarProcs \in [SolarProcs -> Process]
    /\ solarFiles \in [1 .. SolarIds -> File]
    /\ \A p \in SolarProcs : ProcessOK(solarProcs[p])
    /\ \A id \in 1 .. SolarIds : FileOK(solarFiles[id])
    /\ \A p \in SolarProcs :
          solarProcs[p].phase \in {"writing", "pointing"} =>
              solarFiles[solarProcs[p].id].openings > 0
    /\ \A p \in SolarProcs :
          solarProcs[p].phase = "pointing" => solarFiles[solarProcs[p].id].saved
    /\ solarLatest # 0 => solarFiles[solarLatest].saved

\* A step of one process that leaves the files alone.
LEMMA ProcessMoves ==
    ASSUME SolarInv, NEW p \in SolarProcs, NEW q \in Process, ProcessOK(q),
           solarProcs' = [solarProcs EXCEPT ![p] = q],
           q.phase \in {"writing", "pointing"} => solarFiles[q.id].openings > 0,
           q.phase = "pointing" => solarFiles[q.id].saved,
           UNCHANGED <<solarClock, solarFiles, solarLatest>>, solarBegun' \in Nat
    PROVE  SolarInv'
<1>1. solarProcs' \in [SolarProcs -> Process]
  BY DEF SolarInv
<1>2. \A r \in SolarProcs : solarProcs'[r] = IF r = p THEN q ELSE solarProcs[r]
  BY DEF SolarInv
<1>3. \A r \in SolarProcs : ProcessOK(solarProcs'[r])
  BY <1>2 DEF SolarInv
<1>4. \A r \in SolarProcs :
          /\ solarProcs'[r].phase \in {"writing", "pointing"} =>
                solarFiles[solarProcs'[r].id].openings > 0
          /\ solarProcs'[r].phase = "pointing" => solarFiles[solarProcs'[r].id].saved
  BY <1>2 DEF SolarInv
<1>5. (\A r \in SolarProcs : ProcessOK(solarProcs[r]))'
  BY <1>3
<1>6. (\A id \in 1 .. SolarIds : FileOK(solarFiles[id]))'
  BY DEF SolarInv
<1>. QED
  BY <1>1, <1>4, <1>5, <1>6 DEF SolarInv

\* A step of one process on its own file.
LEMMA ProcessWrites ==
    ASSUME SolarInv, NEW p \in SolarProcs, NEW q \in Process, ProcessOK(q),
           solarProcs' = [solarProcs EXCEPT ![p] = q],
           q.phase # "off" => q.id = solarProcs[p].id,
           NEW f \in File, FileOK(f), f.openings > 0,
           solarProcs[p].id \in 1 .. SolarIds,
           solarFiles[solarProcs[p].id].saved => f.saved,
           q.phase = "pointing" => f.saved,
           solarFiles' = [solarFiles EXCEPT ![solarProcs[p].id] = f],
           UNCHANGED <<solarClock, solarLatest>>, solarBegun' \in Nat
    PROVE  SolarInv'
<1>1. solarProcs' \in [SolarProcs -> Process] /\ solarFiles' \in [1 .. SolarIds -> File]
  BY DEF SolarInv
<1>2. \A r \in SolarProcs : solarProcs'[r] = IF r = p THEN q ELSE solarProcs[r]
  BY DEF SolarInv
<1>3. \A id \in 1 .. SolarIds :
          solarFiles'[id] = IF id = solarProcs[p].id THEN f ELSE solarFiles[id]
  BY DEF SolarInv
<1>4. \A r \in SolarProcs : ProcessOK(solarProcs'[r])
  BY <1>2 DEF SolarInv
<1>5. \A id \in 1 .. SolarIds : FileOK(solarFiles'[id])
  BY <1>3 DEF SolarInv
<1>6. ASSUME NEW r \in SolarProcs, solarProcs'[r].phase \in {"writing", "pointing"}
      PROVE  /\ solarFiles'[solarProcs'[r].id].openings > 0
             /\ solarProcs'[r].phase = "pointing" => solarFiles'[solarProcs'[r].id].saved
  <2>1. solarProcs'[r].id \in 1 .. SolarIds
    BY <1>4, <1>6 DEF ProcessOK
  <2>2. CASE r = p
    BY <1>2, <1>3, <1>6, <2>1, <2>2
  <2>3. CASE r # p
    <3>1. /\ solarFiles[solarProcs[r].id].openings > 0 /\ solarProcs'[r] = solarProcs[r]
          /\ solarProcs[r].phase = "pointing" => solarFiles[solarProcs[r].id].saved
      BY <1>2, <1>6, <2>3 DEF SolarInv
    <3>. QED
      BY <1>3, <2>1, <3>1
  <2>. QED
    BY <2>2, <2>3
<1>7. solarLatest' # 0 => solarFiles'[solarLatest'].saved
  BY <1>3 DEF SolarInv
<1>8. /\ solarClock' \in 1 .. SolarIds /\ solarLatest' \in 0 .. SolarIds
  BY DEF SolarInv
<1>9. /\ (\A r \in SolarProcs : ProcessOK(solarProcs[r]))'
      /\ (\A id \in 1 .. SolarIds : FileOK(solarFiles[id]))'
  BY <1>4, <1>5
<1>. QED
  BY <1>1, <1>6, <1>7, <1>8, <1>9 DEF SolarInv

LEMMA NobodyOK == NoProcess \in Process /\ ProcessOK(NoProcess)
  BY DEF NoProcess, Process, ProcessOK, SolarPhases

LEMMA MetadataFirst ==
    ASSUME NEW m \in Seq(Record)
    PROVE  /\ <<Metadata>> \o m \in Seq(Record) /\ Len(<<Metadata>> \o m) = Len(m) + 1
           /\ Tail(<<Metadata>> \o m) = m
<1> DEFINE s == <<Metadata>> \o m
<1>1. Metadata \in Record
  BY DEF Metadata, Line, Record
<1>2. <<Metadata>> \in Seq(Record) /\ Len(<<Metadata>>) = 1 /\ Len(m) \in Nat
  BY <1>1, LenProperties
<1>3. /\ s \in Seq(Record) /\ Len(s) = Len(m) + 1
      /\ \A i \in 1 .. Len(m) + 1 : s[i] = IF i <= 1 THEN <<Metadata>>[i] ELSE m[i - 1]
  BY <1>2, ConcatProperties
<1> HIDE DEF s
<1>4. s # <<>>
  BY <1>2, <1>3
<1>5. /\ Tail(s) \in Seq(Record) /\ Len(Tail(s)) = Len(m)
      /\ \A i \in 1 .. Len(m) : Tail(s)[i] = s[i + 1]
  BY <1>2, <1>3, <1>4, HeadTailProperties
<1>6. \A i \in 1 .. Len(m) : Tail(s)[i] = m[i]
  BY <1>2, <1>3, <1>5
<1>7. Tail(s) = m
  BY <1>5, <1>6, SeqEqual
<1>. QED
  BY <1>3, <1>7 DEF s

LEMMA FieldsOf ==
    ASSUME SolarInv, NEW p \in SolarProcs
    PROVE  LET proc == solarProcs[p]
           IN  /\ proc \in Process /\ ProcessOK(proc)
               /\ proc.messages \in Seq(Record) /\ proc.phase \in SolarPhases
               /\ proc.repl \in BOOLEAN /\ proc.clean \in BOOLEAN /\ proc.alone \in BOOLEAN
               /\ proc.id \in Nat /\ proc.left \in Nat /\ proc.iterations \in Nat
               /\ proc.written \in Nat /\ proc.seen \in Nat
               /\ proc.phase # "off" => proc.id \in 1 .. SolarIds
BY DEF SolarInv, Process, ProcessOK

LEMMA FileFields ==
    ASSUME SolarInv, NEW id \in 1 .. SolarIds
    PROVE  LET file == solarFiles[id]
           IN  /\ file \in File /\ FileOK(file)
               /\ file.lines \in Seq(Record) /\ file.kept \in Seq(Record)
               /\ file.settled \in BOOLEAN /\ file.openings \in Nat
BY DEF SolarInv, File

LEMMA StartStep ==
    ASSUME SolarInv, NEW p \in SolarProcs, NEW repl \in BOOLEAN, SolarStart(p, repl)
    PROVE  SolarInv'
<1> DEFINE q == [NoProcess EXCEPT !.phase = "idle", !.repl = repl, !.id = solarClock]
<1>1. solarClock \in 1 .. SolarIds /\ solarClock \in Nat
  BY SolarAssumption DEF SolarInv
<1>2. q \in Process
  BY <1>1, NobodyOK DEF Process, SolarPhases
<1>3. q.phase = "idle" /\ q.id = solarClock /\ q.messages = <<>>
  BY DEF NoProcess
<1> HIDE DEF q
<1>4. WholeTurns(<<>>)
  BY DEF WholeTurns
<1>5. ProcessOK(q)
  BY <1>1, <1>3, <1>4 DEF ProcessOK
<1>6. /\ solarProcs' = [solarProcs EXCEPT ![p] = q]
      /\ UNCHANGED <<solarClock, solarFiles, solarLatest>> /\ solarBegun' \in Nat
  BY DEF SolarStart, SolarInv, q
<1>. QED
  BY <1>2, <1>3, <1>5, <1>6, ProcessMoves

LEMMA ResumeStep ==
    ASSUME SolarInv, NEW p \in SolarProcs, NEW repl \in BOOLEAN, NEW id \in 1 .. SolarIds,
           SolarResume(p, repl, id)
    PROVE  SolarInv'
<1> DEFINE left == Tail(solarFiles[id].lines)
           q == [NoProcess EXCEPT !.phase = "idle", !.repl = repl, !.id = id,
                                  !.messages = left,
                                  !.seen = solarFiles[id].openings,
                                  !.clean = solarFiles[id].settled]
<1>1. /\ solarFiles[id].lines \in Seq(Record) /\ solarFiles[id].settled \in BOOLEAN
      /\ solarFiles[id].openings \in Nat /\ FileOK(solarFiles[id])
      /\ solarFiles[id].lines # <<>>
  BY FileFields DEF SolarResume, Loadable
<1>2. left \in Seq(Record) /\ (solarFiles[id].settled => WholeTurns(left)) /\ id \in Nat
  BY <1>1, HeadTailProperties, SolarAssumption DEF FileOK
<1> HIDE DEF left
<1>3. q \in Process
  BY <1>1, <1>2, NobodyOK DEF Process, SolarPhases
<1>4. /\ q.phase = "idle" /\ q.id = id /\ q.messages = left
      /\ q.clean = solarFiles[id].settled
  BY DEF NoProcess
<1>5. solarProcs' = [solarProcs EXCEPT ![p] = q]
  BY DEF SolarResume, left
<1> HIDE DEF q
<1>6. ProcessOK(q)
  BY <1>1, <1>2, <1>4 DEF ProcessOK
<1>7. UNCHANGED <<solarClock, solarFiles, solarLatest>> /\ solarBegun' \in Nat
  BY DEF SolarResume, SolarInv
<1>. QED
  BY <1>3, <1>4, <1>5, <1>6, <1>7, ProcessMoves

LEMMA PromptStep ==
    ASSUME SolarInv, NEW p \in SolarProcs, SolarPrompt(p)
    PROVE  SolarInv'
<1> DEFINE line == Line("user", 0, solarBegun')
           said == Append(solarProcs[p].messages, line)
           q == [solarProcs[p] EXCEPT !.messages = said, !.phase = "asking", !.iterations = 0]
<1>1. solarBegun' \in Nat /\ solarProcs[p].phase = "idle"
  BY DEF SolarPrompt, SolarInv
<1>2. line \in Record /\ line.role = "user"
  BY <1>1 DEF Line, Record
<1>3. solarProcs' = [solarProcs EXCEPT ![p] = q]
  BY FieldsOf DEF SolarPrompt, Spoken, Process
<1> HIDE DEF line
<1>4. said \in Seq(Record) /\ said # <<>>
  BY <1>2, FieldsOf, AppendProperties
<1>5. solarProcs[p].clean => MidTurn(said, 0)
  BY <1>1, <1>2, FieldsOf, PromptMidTurn DEF ProcessOK
<1> HIDE DEF said
<1>6. q \in Process
  BY <1>4, FieldsOf DEF Process, SolarPhases
<1>7. /\ q.phase = "asking" /\ q.messages = said /\ q.id = solarProcs[p].id
      /\ q.clean = solarProcs[p].clean
  BY FieldsOf DEF Process
<1> HIDE DEF q
<1>8. ProcessOK(q)
  BY <1>1, <1>4, <1>5, <1>7, FieldsOf DEF ProcessOK
<1>. QED
  BY <1>1, <1>3, <1>6, <1>7, <1>8, ProcessMoves DEF SolarPrompt

LEMMA TurnType ==
    ASSUME SolarInv, NEW p \in SolarProcs, solarProcs[p].phase \in {"asking", "acting"}
    PROVE  TurnOf(solarProcs[p]) \in Nat
<1> DEFINE m == solarProcs[p].messages
<1>1. m \in Seq(Record) /\ m # <<>>
  BY FieldsOf DEF ProcessOK
<1>2. Len(m) \in 1 .. Len(m)
  BY <1>1, EmptySeq, LenProperties
<1>3. m[Len(m)] \in Record
  BY <1>1, <1>2, ElementOfSeq
<1>. QED
  BY <1>3 DEF TurnOf, Last, Record

LEMMA AnswerStep ==
    ASSUME SolarInv, NEW p \in SolarProcs, NEW calls \in 0 .. SolarCalls,
           SolarAnswer(p, calls)
    PROVE  SolarInv'
<1> DEFINE line == Line("assistant", calls, TurnOf(solarProcs[p]))
           said == Append(solarProcs[p].messages, line)
           next == IF calls = 0 THEN "saving" ELSE "acting"
           more == solarProcs[p].iterations + 1
           q == [solarProcs[p] EXCEPT !.messages = said, !.phase = next, !.left = calls,
                                      !.iterations = more]
<1>1. /\ solarProcs[p].phase = "asking" /\ calls \in Nat /\ more \in Nat
      /\ TurnOf(solarProcs[p]) \in Nat
  BY FieldsOf, TurnType, SolarAssumption DEF SolarAnswer
<1>2. line \in Record /\ line.role = "assistant" /\ line.calls = calls
  BY <1>1 DEF Line, Record
<1>3. solarProcs' = [solarProcs EXCEPT ![p] = q]
  BY FieldsOf DEF SolarAnswer, Spoken, Process
<1> HIDE DEF line, more
<1>4. said \in Seq(Record) /\ said # <<>>
  BY <1>2, FieldsOf, AppendProperties
<1>5. solarProcs[p].clean =>
          IF calls = 0 THEN WholeTurns(said) ELSE MidTurn(said, calls)
  BY <1>1, <1>2, FieldsOf, AnswerMidTurn DEF ProcessOK
<1> HIDE DEF said
<1>6. q \in Process
  BY <1>1, <1>4, FieldsOf DEF Process, SolarPhases
<1>7. /\ q.phase = next /\ q.messages = said /\ q.id = solarProcs[p].id
      /\ q.left = calls /\ q.clean = solarProcs[p].clean
  BY FieldsOf DEF Process
<1> HIDE DEF q
<1>8. ProcessOK(q)
  BY <1>1, <1>4, <1>5, <1>7, FieldsOf DEF ProcessOK
<1>9. q.phase \notin {"writing", "pointing"}
  BY <1>7
<1>10. UNCHANGED <<solarClock, solarFiles, solarLatest>> /\ solarBegun' \in Nat
  BY DEF SolarAnswer, SolarInv
<1>. QED
  BY <1>3, <1>6, <1>8, <1>9, <1>10, ProcessMoves

LEMMA ExecuteStep ==
    ASSUME SolarInv, NEW p \in SolarProcs, SolarExecute(p)
    PROVE  SolarInv'
<1> DEFINE line == Line("tool", 0, TurnOf(solarProcs[p]))
           said == Append(solarProcs[p].messages, line)
           next == IF solarProcs[p].left = 1 THEN "asking" ELSE "acting"
           less == solarProcs[p].left - 1
           q == [solarProcs[p] EXCEPT !.messages = said, !.phase = next, !.left = less]
<1>1. /\ solarProcs[p].phase = "acting" /\ solarProcs[p].left \in Nat \ {0} /\ less \in Nat
      /\ TurnOf(solarProcs[p]) \in Nat
  BY FieldsOf, TurnType DEF SolarExecute, ProcessOK
<1>2. line \in Record /\ line.role = "tool"
  BY <1>1 DEF Line, Record
<1>3. solarProcs' = [solarProcs EXCEPT ![p] = q]
  BY FieldsOf DEF SolarExecute, Spoken, Process
<1> HIDE DEF line
<1>4. said \in Seq(Record) /\ said # <<>>
  BY <1>2, FieldsOf, AppendProperties
<1>5. solarProcs[p].clean => MidTurn(said, less)
  BY <1>1, <1>2, FieldsOf, ResultMidTurn DEF ProcessOK
<1>6. \/ less = 0 /\ next = "asking"
      \/ less > 0 /\ next = "acting"
  BY <1>1
<1> HIDE DEF said, less, next
<1>7. q \in Process
  <2>1. next \in SolarPhases
    BY <1>6 DEF SolarPhases
  <2>. QED
    BY <1>1, <1>4, <2>1, FieldsOf DEF Process
<1>8. /\ q.phase = next /\ q.messages = said /\ q.id = solarProcs[p].id
      /\ q.left = less /\ q.clean = solarProcs[p].clean
  BY FieldsOf DEF Process
<1> HIDE DEF q
<1>9. ProcessOK(q)
  BY <1>1, <1>4, <1>5, <1>6, <1>8, FieldsOf DEF ProcessOK
<1>10. UNCHANGED <<solarClock, solarFiles, solarLatest>> /\ solarBegun' \in Nat
  BY DEF SolarExecute, SolarInv
<1>11. q.phase \notin {"writing", "pointing"}
  BY <1>6, <1>8
<1>. QED
  BY <1>3, <1>7, <1>8, <1>9, <1>10, <1>11, ProcessMoves

LEMMA OpenStep ==
    ASSUME SolarInv, NEW p \in SolarProcs, SolarOpen(p)
    PROVE  SolarInv'
<1> DEFINE id == solarProcs[p].id
           count == solarFiles[id].openings + 1
           sole == /\ solarProcs[p].clean /\ solarProcs[p].seen = solarFiles[id].openings
                   /\ solarFiles[id].settled \/ solarFiles[id].openings = 0
           f == [solarFiles[id] EXCEPT !.lines = <<>>, !.settled = FALSE, !.openings = count]
           q == [solarProcs[p] EXCEPT !.phase = "writing", !.written = 0, !.seen = count,
                                      !.alone = sole]
<1>1. id \in 1 .. SolarIds /\ solarProcs[p].phase = "saving"
  BY FieldsOf DEF SolarOpen
<1>2. solarFiles[id] \in File /\ count \in Nat \ {0} /\ sole \in BOOLEAN /\ <<>> \in Seq(Record)
  BY <1>1, FileFields
<1>3. /\ solarProcs' = [solarProcs EXCEPT ![p] = q]
      /\ solarFiles' = [solarFiles EXCEPT ![id] = f]
  BY <1>1, <1>2, FieldsOf DEF SolarOpen, Process, File
<1> HIDE DEF id, count, sole
<1>4. /\ f \in File /\ f.settled = FALSE /\ f.openings = count
      /\ f.saved = solarFiles[id].saved
  BY <1>2 DEF File
<1>5. q \in Process
  BY <1>2, FieldsOf DEF Process, SolarPhases
<1>6. /\ q.phase = "writing" /\ q.messages = solarProcs[p].messages
      /\ q.id = solarProcs[p].id /\ q.clean = solarProcs[p].clean
  BY FieldsOf DEF Process
<1> HIDE DEF f, q
<1>7. ProcessOK(q) /\ FileOK(f)
  BY <1>1, <1>4, <1>6, FieldsOf DEF ProcessOK, FileOK
<1>8. UNCHANGED <<solarClock, solarLatest>> /\ solarBegun' \in Nat
  BY DEF SolarOpen, SolarInv
<1>9. f.openings > 0 /\ (solarFiles[id].saved => f.saved)
  BY <1>2, <1>4
<1>. QED
  BY <1>1, <1>3, <1>4, <1>5, <1>6, <1>7, <1>8, <1>9, ProcessWrites DEF id

LEMMA WriteStep ==
    ASSUME SolarInv, NEW p \in SolarProcs, SolarWrite(p)
    PROVE  SolarInv'
<1> DEFINE id == solarProcs[p].id
           at == solarProcs[p].written + 1
           records == <<Metadata>> \o solarProcs[p].messages
           undisturbed == /\ solarFiles[id].openings = solarProcs[p].seen
                          /\ Len(solarFiles[id].lines) = solarProcs[p].written
           more == Append(solarFiles[id].lines, IF undisturbed THEN records[at] ELSE TornLine)
           f == [solarFiles[id] EXCEPT !.settled = FALSE, !.lines = more]
           q == [solarProcs[p] EXCEPT !.written = at]
<1>1. /\ id \in 1 .. SolarIds /\ solarProcs[p].phase = "writing" /\ at \in Nat \ {0}
      /\ solarProcs[p].written < Len(records)
  BY FieldsOf DEF SolarWrite
<1>2. /\ solarFiles[id] \in File /\ solarFiles[id].lines \in Seq(Record)
      /\ solarFiles[id].openings > 0
  BY <1>1, FileFields DEF SolarInv
<1>3. records \in Seq(Record) /\ TornLine \in Record
  BY FieldsOf, MetadataFirst DEF TornLine, Line, Record
<1>4. /\ solarProcs' = [solarProcs EXCEPT ![p] = q]
      /\ solarFiles' = [solarFiles EXCEPT ![id] = f]
  BY <1>1, <1>2, FieldsOf DEF SolarWrite, Process, File
<1>5. at \in 1 .. Len(records)
  BY <1>1, <1>3, FieldsOf, LenProperties
<1> HIDE DEF records
<1>6. records[at] \in Record
  BY <1>3, <1>5, ElementOfSeq
<1> HIDE DEF undisturbed
<1>7. more \in Seq(Record)
  BY <1>2, <1>3, <1>6, AppendProperties
<1> HIDE DEF id, at, more
<1>8. /\ f \in File /\ f.settled = FALSE /\ f.openings = solarFiles[id].openings
      /\ f.saved = solarFiles[id].saved
  BY <1>2, <1>7 DEF File
<1>9. q \in Process
  BY <1>1, FieldsOf DEF Process
<1>10. /\ q.phase = "writing" /\ q.messages = solarProcs[p].messages
       /\ q.id = solarProcs[p].id /\ q.clean = solarProcs[p].clean
  BY <1>1, FieldsOf DEF Process
<1> HIDE DEF f, q
<1>11. ProcessOK(q) /\ FileOK(f)
  BY <1>1, <1>8, <1>10, FieldsOf DEF ProcessOK, FileOK
<1>12. UNCHANGED <<solarClock, solarLatest>> /\ solarBegun' \in Nat
  BY DEF SolarWrite, SolarInv
<1>13. f.openings > 0 /\ (solarFiles[id].saved => f.saved)
  BY <1>2, <1>8
<1>. QED
  BY <1>1, <1>4, <1>8, <1>9, <1>10, <1>11, <1>12, <1>13, ProcessWrites DEF id

LEMMA WrittenStep ==
    ASSUME SolarInv, NEW p \in SolarProcs, SolarWritten(p)
    PROVE  SolarInv'
<1> DEFINE id == solarProcs[p].id
           records == <<Metadata>> \o solarProcs[p].messages
           sound == /\ solarProcs[p].clean /\ solarFiles[id].openings = solarProcs[p].seen
                    /\ solarFiles[id].lines = records
           keep == IF sound THEN solarProcs[p].messages ELSE solarFiles[id].kept
           f == [solarFiles[id] EXCEPT !.settled = sound, !.saved = TRUE, !.kept = keep]
           q == [solarProcs[p] EXCEPT !.phase = "pointing"]
<1>1. id \in 1 .. SolarIds /\ solarProcs[p].phase = "writing"
  BY FieldsOf DEF SolarWritten
<1>2. /\ solarFiles[id] \in File /\ solarFiles[id].openings > 0
      /\ sound \in BOOLEAN /\ keep \in Seq(Record)
  BY <1>1, FieldsOf, FileFields DEF SolarInv
<1>3. /\ solarProcs' = [solarProcs EXCEPT ![p] = q]
      /\ solarFiles' = [solarFiles EXCEPT ![id] = f]
  BY <1>1, <1>2, FieldsOf DEF SolarWritten, Process, File
<1>4. sound => /\ solarFiles[id].lines # <<>>
               /\ WholeTurns(Tail(solarFiles[id].lines))
  <2>1. ASSUME sound PROVE Tail(solarFiles[id].lines) = solarProcs[p].messages
    BY <2>1, FieldsOf, MetadataFirst
  <2>2. ASSUME sound PROVE solarFiles[id].lines # <<>>
    <3>1. Len(solarFiles[id].lines) = Len(solarProcs[p].messages) + 1
      BY <2>2, FieldsOf, MetadataFirst
    <3>. QED
      BY <3>1, FieldsOf, LenProperties
  <2>3. ASSUME sound PROVE WholeTurns(solarProcs[p].messages)
    BY <1>1, <2>3, FieldsOf DEF ProcessOK
  <2>. QED
    BY <2>1, <2>2, <2>3
<1> HIDE DEF id, records, sound, keep
<1>5. /\ f \in File /\ f.settled = sound /\ f.lines = solarFiles[id].lines
      /\ f.openings = solarFiles[id].openings /\ f.saved
  BY <1>2 DEF File
<1>6. q \in Process
  BY FieldsOf DEF Process, SolarPhases
<1>7. /\ q.phase = "pointing" /\ q.messages = solarProcs[p].messages
      /\ q.id = solarProcs[p].id /\ q.clean = solarProcs[p].clean
  BY FieldsOf DEF Process
<1> HIDE DEF f, q
<1>8. ProcessOK(q) /\ FileOK(f)
  BY <1>1, <1>4, <1>5, <1>7, FieldsOf DEF ProcessOK, FileOK
<1>9. UNCHANGED <<solarClock, solarLatest>> /\ solarBegun' \in Nat
  BY DEF SolarWritten, SolarInv
<1>10. f.openings > 0
  BY <1>2, <1>5
<1>. QED
  BY <1>1, <1>3, <1>5, <1>6, <1>7, <1>8, <1>9, <1>10, ProcessWrites DEF id

LEMMA PointStep ==
    ASSUME SolarInv, NEW p \in SolarProcs, SolarPoint(p)
    PROVE  SolarInv'
<1> DEFINE proc == solarProcs[p]
           idle == [proc EXCEPT !.phase = "idle"]
           q == IF proc.repl THEN idle ELSE NoProcess
<1>1. /\ proc.phase = "pointing" /\ proc.id \in 1 .. SolarIds
      /\ solarFiles[proc.id].openings > 0 /\ solarFiles[proc.id].saved
  BY FieldsOf DEF SolarPoint, SolarInv
<1>2. /\ solarProcs' = [solarProcs EXCEPT ![p] = q] /\ solarLatest' = proc.id
      /\ UNCHANGED <<solarClock, solarBegun, solarFiles>>
  BY DEF SolarPoint
<1>3. idle \in Process
  BY FieldsOf DEF Process, SolarPhases
<1>4. /\ idle.phase = "idle" /\ idle.messages = proc.messages
      /\ idle.id = proc.id /\ idle.clean = proc.clean
  BY FieldsOf DEF Process
<1> HIDE DEF idle
<1>5. ProcessOK(idle)
  BY <1>1, <1>4, FieldsOf DEF ProcessOK
<1>6. q \in Process /\ ProcessOK(q) /\ q.phase \notin {"writing", "pointing"}
  BY <1>3, <1>4, <1>5, NobodyOK DEF NoProcess
<1> HIDE DEF proc, q
<1>7. solarProcs' \in [SolarProcs -> Process]
  BY <1>2, <1>6 DEF SolarInv
<1>8. \A r \in SolarProcs : solarProcs'[r] = IF r = p THEN q ELSE solarProcs[r]
  BY <1>2 DEF SolarInv
<1>9. \A r \in SolarProcs : ProcessOK(solarProcs'[r])
  BY <1>6, <1>8 DEF SolarInv
<1>10. \A r \in SolarProcs :
           /\ solarProcs'[r].phase \in {"writing", "pointing"} =>
                 solarFiles[solarProcs'[r].id].openings > 0
           /\ solarProcs'[r].phase = "pointing" => solarFiles[solarProcs'[r].id].saved
  BY <1>6, <1>8 DEF SolarInv
<1>11. (\A r \in SolarProcs : ProcessOK(solarProcs[r]))'
  BY <1>9
<1>12. (\A id \in 1 .. SolarIds : FileOK(solarFiles[id]))'
  BY <1>2 DEF SolarInv
<1>13. solarLatest' \in 0 .. SolarIds
  BY <1>1, <1>2, SolarAssumption
<1>. QED
  BY <1>1, <1>2, <1>7, <1>10, <1>11, <1>12, <1>13 DEF SolarInv

LEMMA StopStep ==
    ASSUME SolarInv, NEW p \in SolarProcs, SolarStop(p)
    PROVE  SolarInv'
<1>1. /\ solarProcs[p].phase # "off" /\ solarProcs' = [solarProcs EXCEPT ![p] = NoProcess]
      /\ UNCHANGED <<solarClock, solarBegun>> /\ solarBegun' \in Nat
      /\ solarProcs[p].id \in 1 .. SolarIds
  BY FieldsOf DEF SolarStop, SolarInv
<1>2. NoProcess.phase = "off"
  BY DEF NoProcess
<1>3. CASE UNCHANGED <<solarFiles, solarLatest>>
  BY <1>1, <1>2, <1>3, NobodyOK, ProcessMoves
<1>4. CASE /\ solarProcs[p].phase = "writing"
           /\ solarFiles' = [solarFiles EXCEPT ![solarProcs[p].id] =
                  [solarFiles[solarProcs[p].id] EXCEPT
                      !.settled = FALSE,
                      !.lines = Append(solarFiles[solarProcs[p].id].lines, TornLine)]]
           /\ UNCHANGED solarLatest
  <2> DEFINE id == solarProcs[p].id
             torn == Append(solarFiles[id].lines, TornLine)
             f == [solarFiles[id] EXCEPT !.settled = FALSE, !.lines = torn]
  <2>1. /\ solarFiles[id] \in File /\ solarFiles[id].openings > 0
        /\ solarFiles[id].lines \in Seq(Record) /\ TornLine \in Record
    BY <1>1, <1>4, FileFields DEF SolarInv, TornLine, Line, Record
  <2>2. torn \in Seq(Record)
    BY <2>1, AppendProperties
  <2>3. solarFiles' = [solarFiles EXCEPT ![id] = f]
    BY <1>4
  <2> HIDE DEF id, torn
  <2>4. /\ f \in File /\ f.settled = FALSE /\ f.openings = solarFiles[id].openings
        /\ f.saved = solarFiles[id].saved
    BY <2>1, <2>2 DEF File
  <2> HIDE DEF f
  <2>5. FileOK(f) /\ f.openings > 0 /\ (solarFiles[id].saved => f.saved)
    BY <2>1, <2>4 DEF FileOK
  <2>. QED
    BY <1>1, <1>2, <1>4, <2>3, <2>4, <2>5, NobodyOK, ProcessWrites DEF id
<1>5. CASE solarLatest' = 0 /\ UNCHANGED solarFiles
  <2>1. solarProcs' \in [SolarProcs -> Process]
    BY <1>1, NobodyOK DEF SolarInv
  <2>2. \A r \in SolarProcs : solarProcs'[r] = IF r = p THEN NoProcess ELSE solarProcs[r]
    BY <1>1 DEF SolarInv
  <2>3. \A r \in SolarProcs : ProcessOK(solarProcs'[r])
    BY <2>2, NobodyOK DEF SolarInv
  <2>4. \A r \in SolarProcs :
            /\ solarProcs'[r].phase \in {"writing", "pointing"} =>
                  solarFiles[solarProcs'[r].id].openings > 0
            /\ solarProcs'[r].phase = "pointing" => solarFiles[solarProcs'[r].id].saved
    BY <1>2, <2>2 DEF SolarInv
  <2>5. (\A r \in SolarProcs : ProcessOK(solarProcs[r]))'
    BY <2>3
  <2>6. (\A id \in 1 .. SolarIds : FileOK(solarFiles[id]))'
    BY <1>5 DEF SolarInv
  <2>7. solarLatest' \in 0 .. SolarIds
    BY <1>5, SolarAssumption
  <2>. QED
    BY <1>1, <1>5, <2>1, <2>4, <2>5, <2>6, <2>7 DEF SolarInv
<1>. QED
  BY <1>3, <1>4, <1>5 DEF SolarStop

LEMMA FailStep ==
    ASSUME SolarInv, NEW p \in SolarProcs, SolarFail(p)
    PROVE  SolarInv'
<1>1. NoProcess.phase = "off"
  BY DEF NoProcess
<1>2. /\ solarProcs' = [solarProcs EXCEPT ![p] = NoProcess] /\ solarBegun' \in Nat
      /\ UNCHANGED <<solarClock, solarFiles, solarLatest>>
  BY DEF SolarFail, SolarInv
<1>. QED
  BY <1>1, <1>2, NobodyOK, ProcessMoves

LEMMA SolarStep == SolarInv /\ [SolarNext]_solarVars => SolarInv'
<1> SUFFICES ASSUME SolarInv, [SolarNext]_solarVars PROVE SolarInv'
  OBVIOUS
<1>1. CASE SolarTick
  <2>1. solarClock' \in 1 .. SolarIds
    BY <1>1, SolarAssumption DEF SolarTick, SolarInv
  <2>. QED
    BY <1>1, <2>1 DEF SolarTick, SolarInv
<1>2. ASSUME NEW p \in SolarProcs, NEW repl \in BOOLEAN, SolarStart(p, repl) PROVE SolarInv'
  BY <1>2, StartStep
<1>3. ASSUME NEW p \in SolarProcs, NEW repl \in BOOLEAN, NEW id \in 1 .. SolarIds,
             SolarResume(p, repl, id)
      PROVE SolarInv'
  BY <1>3, ResumeStep
<1>4. ASSUME NEW p \in SolarProcs, NEW calls \in 0 .. SolarCalls, SolarAnswer(p, calls)
      PROVE SolarInv'
  BY <1>4, AnswerStep
<1>5. ASSUME NEW p \in SolarProcs,
             \/ SolarPrompt(p) \/ SolarExecute(p) \/ SolarFail(p)
             \/ SolarOpen(p) \/ SolarWrite(p) \/ SolarWritten(p) \/ SolarPoint(p)
             \/ SolarStop(p)
      PROVE SolarInv'
  BY <1>5, PromptStep, ExecuteStep, FailStep, OpenStep, WriteStep, WrittenStep, PointStep,
     StopStep
<1>6. CASE UNCHANGED solarVars
  BY <1>6 DEF solarVars, SolarInv
<1>. QED
  BY <1>1, <1>2, <1>3, <1>4, <1>5, <1>6 DEF SolarNext

LEMMA SolarStarts == SolarInit => SolarInv
<1>1. NoFile \in File /\ FileOK(NoFile)
  BY DEF NoFile, File, FileOK
<1>2. NoProcess \in Process /\ ProcessOK(NoProcess) /\ NoProcess.phase = "off"
  BY NobodyOK DEF NoProcess
<1>. QED
  BY <1>1, <1>2, SolarAssumption DEF SolarInit, SolarInv

(* What --resume finds, for any number of processes that start, resume,    *)
(* fail and die in any order: whole turns, whenever no crash and no second *)
(* writer cut the file (load_snapshot, save_snapshot).                     *)
THEOREM ResumesWhole == SolarSpec => []ResumableIsWhole
<1>1. SolarInv => ResumableIsWhole
  BY DEF SolarInv, FileOK, ResumableIsWhole
<1>. QED
  BY <1>1, SolarStarts, SolarStep, PTL DEF SolarSpec

(* What a save finds.                                                      *)
Extends(first, second) == Len(first) <= Len(second) /\ \A i \in 1 .. Len(first) : first[i] = second[i]

\* What was kept is what a settled file holds.
FileKeeps(file) ==
    /\ file.openings = 0 => ~file.settled /\ file.kept = <<>>
    /\ file.settled => Tail(file.lines) = file.kept

\* A process that nobody has interfered with goes on from what was kept.
Current(proc, file) == proc.seen = file.openings
ProcessExtends(proc, file) ==
    /\ proc.seen <= file.openings
    /\ proc.phase # "writing" /\ proc.clean /\ Current(proc, file) /\ file.settled =>
           Extends(file.kept, proc.messages)
    /\ proc.phase = "writing" /\ Current(proc, file) =>
           /\ ~file.settled
           /\ proc.alone => Extends(file.kept, proc.messages)

\* Of the processes that know a file as it is, none that is clean is there
\* beside the one that writes it.
OneWriter(proc, other, file) ==
    /\ proc.phase = "writing" /\ Current(proc, file)
    /\ other.phase # "off" /\ Current(other, file)
    => ~other.clean

SaveInv ==
    /\ \A id \in 1 .. SolarIds : FileKeeps(solarFiles[id])
    /\ \A p \in SolarProcs :
          solarProcs[p].phase # "off" =>
              ProcessExtends(solarProcs[p], solarFiles[solarProcs[p].id])
    /\ \A p, r \in SolarProcs :
          p # r /\ solarProcs[p].id = solarProcs[r].id =>
              OneWriter(solarProcs[p], solarProcs[r], solarFiles[solarProcs[p].id])

\* A step of one process that leaves the files alone and does not write.
LEMMA SaveMoves ==
    ASSUME SolarInv, SaveInv, NEW p \in SolarProcs, NEW q \in Process,
           solarProcs' = [solarProcs EXCEPT ![p] = q], UNCHANGED solarFiles,
           q.phase # "writing",
           q.phase # "off" =>
               /\ ProcessExtends(q, solarFiles[q.id])
               /\ \A r \in SolarProcs : r # p /\ solarProcs[r].id = q.id =>
                      OneWriter(solarProcs[r], q, solarFiles[q.id])
    PROVE  SaveInv'
<1>1. \A r \in SolarProcs : solarProcs'[r] = IF r = p THEN q ELSE solarProcs[r]
  BY DEF SolarInv
<1>2. \A id \in 1 .. SolarIds : FileKeeps(solarFiles'[id])
  BY DEF SaveInv
<1>3. \A r \in SolarProcs : solarProcs'[r].phase # "off" =>
          ProcessExtends(solarProcs'[r], solarFiles'[solarProcs'[r].id])
  BY <1>1 DEF SaveInv
<1>4. ASSUME NEW a \in SolarProcs, NEW b \in SolarProcs, a # b,
             solarProcs'[a].id = solarProcs'[b].id
      PROVE  OneWriter(solarProcs'[a], solarProcs'[b], solarFiles'[solarProcs'[a].id])
  <2>1. CASE a = p
    BY <1>1, <2>1 DEF OneWriter
  <2>2. CASE b = p
    <3>1. solarProcs'[a] = solarProcs[a] /\ solarProcs'[b] = q
      BY <1>1, <1>4, <2>2
    <3>2. CASE q.phase = "off"
      BY <3>1, <3>2 DEF OneWriter
    <3>3. CASE q.phase # "off"
      BY <1>4, <2>2, <3>1, <3>3
    <3>. QED
      BY <3>2, <3>3
  <2>3. CASE a # p /\ b # p
    BY <1>1, <1>4, <2>3 DEF SaveInv
  <2>. QED
    BY <2>1, <2>2, <2>3
<1>5. (\A id \in 1 .. SolarIds : FileKeeps(solarFiles[id]))'
  BY <1>2
<1>6. (\A r \in SolarProcs : solarProcs[r].phase # "off" =>
          ProcessExtends(solarProcs[r], solarFiles[solarProcs[r].id]))'
  BY <1>3
<1>7. (\A a, b \in SolarProcs : a # b /\ solarProcs[a].id = solarProcs[b].id =>
          OneWriter(solarProcs[a], solarProcs[b], solarFiles[solarProcs[a].id]))'
  BY <1>4
<1>. QED
  BY <1>5, <1>6, <1>7 DEF SaveInv

\* What a file may be like for the process that changed it and for the others.
Suits(p, q, id, f) ==
    /\ FileKeeps(f)
    /\ q.phase # "off" => q.id = id /\ ProcessExtends(q, f)
    /\ \A r \in SolarProcs : r # p /\ solarProcs[r].id = id =>
           /\ solarProcs[r].phase # "off" => ProcessExtends(solarProcs[r], f)
           /\ q.phase # "off" => OneWriter(q, solarProcs[r], f) /\ OneWriter(solarProcs[r], q, f)
    /\ \A a, b \in SolarProcs :
           a # b /\ a # p /\ b # p /\ solarProcs[a].id = id /\ solarProcs[b].id = id =>
               OneWriter(solarProcs[a], solarProcs[b], f)

\* A step of one process on its own file.
LEMMA SaveWrites ==
    ASSUME SolarInv, SaveInv, NEW p \in SolarProcs, NEW q \in Process,
           NEW id \in 1 .. SolarIds, id = solarProcs[p].id,
           solarProcs' = [solarProcs EXCEPT ![p] = q],
           NEW f \in File, solarFiles' = [solarFiles EXCEPT ![id] = f],
           Suits(p, q, id, f)
    PROVE  SaveInv'
<1>1. \A r \in SolarProcs : solarProcs'[r] = IF r = p THEN q ELSE solarProcs[r]
  BY DEF SolarInv
<1>2. solarFiles'[id] = f /\ \A x : x # id => solarFiles'[x] = solarFiles[x]
  BY DEF SolarInv
<1>0. /\ FileKeeps(f)
      /\ q.phase # "off" => q.id = id /\ ProcessExtends(q, f)
      /\ \A r \in SolarProcs : r # p /\ solarProcs[r].id = id =>
             /\ solarProcs[r].phase # "off" => ProcessExtends(solarProcs[r], f)
             /\ q.phase # "off" =>
                    OneWriter(q, solarProcs[r], f) /\ OneWriter(solarProcs[r], q, f)
      /\ \A a, b \in SolarProcs :
             a # b /\ a # p /\ b # p /\ solarProcs[a].id = id /\ solarProcs[b].id = id =>
                 OneWriter(solarProcs[a], solarProcs[b], f)
  BY DEF Suits
<1>3. ASSUME NEW x \in 1 .. SolarIds PROVE FileKeeps(solarFiles'[x])
  BY <1>0, <1>2 DEF SaveInv
<1>4. ASSUME NEW r \in SolarProcs, solarProcs'[r].phase # "off"
      PROVE  ProcessExtends(solarProcs'[r], solarFiles'[solarProcs'[r].id])
  <2>1. CASE r = p
    BY <1>0, <1>1, <1>2, <1>4, <2>1
  <2>2. CASE r # p
    <3>1. solarProcs'[r] = solarProcs[r]
      BY <1>1, <2>2
    <3>2. CASE solarProcs[r].id = id
      BY <1>0, <1>2, <1>4, <2>2, <3>1, <3>2
    <3>3. CASE solarProcs[r].id # id
      BY <1>2, <1>4, <3>1, <3>3 DEF SaveInv
    <3>. QED
      BY <3>2, <3>3
  <2>. QED
    BY <2>1, <2>2
<1>5. ASSUME NEW a \in SolarProcs, NEW b \in SolarProcs, a # b,
             solarProcs'[a].id = solarProcs'[b].id
      PROVE  OneWriter(solarProcs'[a], solarProcs'[b], solarFiles'[solarProcs'[a].id])
  <2>1. CASE a = p
    <3>1. solarProcs'[a] = q /\ solarProcs'[b] = solarProcs[b]
      BY <1>1, <1>5, <2>1
    <3>2. CASE q.phase = "off"
      BY <3>1, <3>2 DEF OneWriter
    <3>3. CASE q.phase # "off"
      BY <1>0, <1>2, <1>5, <2>1, <3>1, <3>3
    <3>. QED
      BY <3>2, <3>3
  <2>2. CASE b = p
    <3>1. solarProcs'[b] = q /\ solarProcs'[a] = solarProcs[a]
      BY <1>1, <1>5, <2>2
    <3>2. CASE q.phase = "off"
      BY <3>1, <3>2 DEF OneWriter
    <3>3. CASE q.phase # "off"
      BY <1>0, <1>2, <1>5, <2>2, <3>1, <3>3
    <3>. QED
      BY <3>2, <3>3
  <2>3. CASE a # p /\ b # p
    <3>1. solarProcs'[a] = solarProcs[a] /\ solarProcs'[b] = solarProcs[b]
      BY <1>1, <2>3
    <3>2. CASE solarProcs[a].id = id
      BY <1>0, <1>2, <1>5, <2>3, <3>1, <3>2
    <3>3. CASE solarProcs[a].id # id
      BY <1>2, <1>5, <3>1, <3>3 DEF SaveInv
    <3>. QED
      BY <3>2, <3>3
  <2>. QED
    BY <2>1, <2>2, <2>3
<1>6. (\A x \in 1 .. SolarIds : FileKeeps(solarFiles[x]))'
  BY <1>3
<1>7. (\A r \in SolarProcs : solarProcs[r].phase # "off" =>
          ProcessExtends(solarProcs[r], solarFiles[solarProcs[r].id]))'
  BY <1>4
<1>8. (\A a, b \in SolarProcs : a # b /\ solarProcs[a].id = solarProcs[b].id =>
          OneWriter(solarProcs[a], solarProcs[b], solarFiles[solarProcs[a].id]))'
  BY <1>5
<1>. QED
  BY <1>6, <1>7, <1>8 DEF SaveInv

LEMMA ExtendsFacts ==
    ASSUME NEW first \in Seq(Record), NEW second \in Seq(Record), NEW line \in Record
    PROVE  /\ Extends(second, second) /\ Extends(<<>>, second)
           /\ Extends(first, second) => Extends(first, Append(second, line)) /\ IsPrefix(first, second)
<1>1. Len(first) \in Nat /\ Len(second) \in Nat
  BY LenProperties
<1>2. Extends(second, second) /\ Extends(<<>>, second)
  BY <1>1 DEF Extends
<1>3. ASSUME Extends(first, second) PROVE Extends(first, Append(second, line))
  <2> DEFINE longer == Append(second, line)
  <2>1. Len(longer) = Len(second) + 1 /\ \A i \in 1 .. Len(second) : longer[i] = second[i]
    BY AppendProperties
  <2> HIDE DEF longer
  <2>2. \A i \in 1 .. Len(first) : i \in 1 .. Len(second)
    BY <1>1, <1>3 DEF Extends
  <2>3. Extends(first, longer)
    BY <1>1, <1>3, <2>1, <2>2 DEF Extends
  <2>. QED
    BY <2>3 DEF longer
<1>4. ASSUME Extends(first, second) PROVE IsPrefix(first, second)
  <2>1. SubSeq(first, 1, Len(first)) = [i \in 1 .. Len(first) |-> first[i]]
    BY <1>1
  <2>2. SubSeq(second, 1, Len(first)) = [i \in 1 .. Len(first) |-> second[i]]
    BY <1>1
  <2>3. \A i \in 1 .. Len(first) : first[i] = second[i]
    BY <1>4 DEF Extends
  <2>4. SubSeq(first, 1, Len(first)) = SubSeq(second, 1, Len(first))
    BY <2>1, <2>2, <2>3
  <2>. QED
    BY <1>4, <2>4 DEF IsPrefix, Extends
<1>. QED
  BY <1>2, <1>3, <1>4

\* A process says one thing more: it knows of its file what it knew.
LEMMA SaySaves ==
    ASSUME SolarInv, SaveInv, NEW p \in SolarProcs, NEW q \in Process,
           solarProcs[p].phase \notin {"off", "writing"}, NEW line \in Record,
           solarProcs' = [solarProcs EXCEPT ![p] = q], UNCHANGED solarFiles,
           q.phase \notin {"off", "writing"}, q.id = solarProcs[p].id,
           q.seen = solarProcs[p].seen, q.clean = solarProcs[p].clean,
           \/ q.messages = solarProcs[p].messages
           \/ q.messages = Append(solarProcs[p].messages, line)
    PROVE  SaveInv'
<1> DEFINE file == solarFiles[solarProcs[p].id]
<1>1. /\ file.kept \in Seq(Record) /\ solarProcs[p].messages \in Seq(Record)
      /\ q.messages \in Seq(Record)
  BY FieldsOf, FileFields DEF Process
<1>2. ProcessExtends(solarProcs[p], file)
  BY DEF SaveInv
<1>3. Extends(file.kept, solarProcs[p].messages) => Extends(file.kept, q.messages)
  BY <1>1, ExtendsFacts
<1> HIDE DEF file
<1>4. ProcessExtends(q, file)
  BY <1>2, <1>3 DEF ProcessExtends, Current
<1>5. \A r \in SolarProcs : r # p /\ solarProcs[r].id = q.id => OneWriter(solarProcs[r], q, file)
  BY DEF SaveInv, OneWriter, Current, file
<1>. QED
  BY <1>4, <1>5, SaveMoves DEF file

LEMMA GoneSaves ==
    ASSUME SolarInv, SaveInv, NEW p \in SolarProcs,
           solarProcs' = [solarProcs EXCEPT ![p] = NoProcess], UNCHANGED solarFiles
    PROVE  SaveInv'
BY NobodyOK, SaveMoves DEF NoProcess

LEMMA StartSaves ==
    ASSUME SolarInv, SaveInv, NEW p \in SolarProcs, NEW repl \in BOOLEAN, SolarStart(p, repl)
    PROVE  SaveInv'
<1> DEFINE q == [NoProcess EXCEPT !.phase = "idle", !.repl = repl, !.id = solarClock]
           file == solarFiles[solarClock]
<1>1. solarClock \in 1 .. SolarIds /\ solarClock \in Nat
  BY SolarAssumption DEF SolarInv
<1>2. /\ q \in Process /\ q.phase = "idle" /\ q.id = solarClock /\ q.seen = 0
  BY <1>1, NobodyOK DEF NoProcess, Process, SolarPhases
<1>3. solarProcs' = [solarProcs EXCEPT ![p] = q] /\ UNCHANGED solarFiles
  BY DEF SolarStart
<1>4. file.openings \in Nat /\ FileKeeps(file)
  BY <1>1, FileFields DEF SaveInv
<1>5. \A r \in SolarProcs : solarProcs[r].phase = "writing" /\ solarProcs[r].id = solarClock =>
          file.openings > 0
  BY DEF SolarInv
<1> HIDE DEF q, file
<1>6. ProcessExtends(q, file)
  BY <1>2, <1>4 DEF ProcessExtends, Current, FileKeeps
<1>7. \A r \in SolarProcs : solarProcs[r].id = solarClock => OneWriter(solarProcs[r], q, file)
  BY <1>2, <1>4, <1>5 DEF OneWriter, Current
<1>. QED
  BY <1>2, <1>3, <1>6, <1>7, SaveMoves DEF file

LEMMA ResumeSaves ==
    ASSUME SolarInv, SaveInv, NEW p \in SolarProcs, NEW repl \in BOOLEAN,
           NEW id \in 1 .. SolarIds, SolarResume(p, repl, id)
    PROVE  SaveInv'
<1> DEFINE file == solarFiles[id]
           left == Tail(file.lines)
           q == [NoProcess EXCEPT !.phase = "idle", !.repl = repl, !.id = id, !.messages = left,
                                  !.seen = file.openings, !.clean = file.settled]
<1>1. /\ file.lines \in Seq(Record) /\ file.kept \in Seq(Record)
      /\ file.settled \in BOOLEAN /\ file.openings \in Nat
      /\ FileKeeps(file) /\ file.lines # <<>>
  BY FileFields DEF SolarResume, Loadable, SaveInv
<1>2. left \in Seq(Record) /\ id \in Nat /\ (file.settled => left = file.kept)
  BY <1>1, HeadTailProperties, SolarAssumption DEF FileKeeps
<1>3. solarProcs' = [solarProcs EXCEPT ![p] = q] /\ UNCHANGED solarFiles
  BY DEF SolarResume
<1>4. \A r \in SolarProcs :
          solarProcs[r].phase = "writing" /\ solarProcs[r].id = id /\ Current(solarProcs[r], file)
          => ~file.settled
  BY DEF SaveInv, ProcessExtends
<1> HIDE DEF left, file
<1>5. q \in Process
  BY <1>1, <1>2, NobodyOK DEF Process, SolarPhases
<1>6. /\ q.phase = "idle" /\ q.id = id /\ q.messages = left /\ q.seen = file.openings
      /\ q.clean = file.settled
  BY DEF NoProcess
<1> HIDE DEF q
<1>7. Extends(file.kept, file.kept)
  BY <1>1 DEF Extends
<1>8. ProcessExtends(q, file)
  BY <1>1, <1>2, <1>6, <1>7 DEF ProcessExtends
<1>9. \A r \in SolarProcs : solarProcs[r].id = id => OneWriter(solarProcs[r], q, file)
  BY <1>4, <1>6 DEF OneWriter
<1>. QED
  BY <1>3, <1>5, <1>6, <1>8, <1>9, SaveMoves DEF file

\* The file is truncated: nobody else knows it as it is.
LEMMA OpenSaves ==
    ASSUME SolarInv, SaveInv, NEW p \in SolarProcs, SolarOpen(p)
    PROVE  SaveInv'
<1> DEFINE id == solarProcs[p].id
           file == solarFiles[id]
           count == file.openings + 1
           sole == /\ solarProcs[p].clean /\ solarProcs[p].seen = file.openings
                   /\ file.settled \/ file.openings = 0
           f == [file EXCEPT !.lines = <<>>, !.settled = FALSE, !.openings = count]
           q == [solarProcs[p] EXCEPT !.phase = "writing", !.written = 0, !.seen = count,
                                      !.alone = sole]
<1>1. id \in 1 .. SolarIds /\ solarProcs[p].phase = "saving"
  BY FieldsOf DEF SolarOpen
<1>2. /\ file \in File /\ count \in Nat \ {0} /\ sole \in BOOLEAN /\ <<>> \in Seq(Record)
      /\ file.openings \in Nat /\ file.kept \in Seq(Record)
  BY <1>1, FileFields
<1>3. /\ solarProcs' = [solarProcs EXCEPT ![p] = q]
      /\ solarFiles' = [solarFiles EXCEPT ![id] = f]
  BY <1>1, <1>2, FieldsOf DEF SolarOpen, Process, File
<1>4. /\ FileKeeps(file) /\ ProcessExtends(solarProcs[p], file)
  BY <1>1 DEF SaveInv
<1>5. sole => Extends(file.kept, solarProcs[p].messages)
  <2>1. Extends(<<>>, solarProcs[p].messages)
    BY FieldsOf, ExtendsFacts DEF Extends
  <2>. QED
    BY <1>1, <1>4, <2>1 DEF ProcessExtends, Current, FileKeeps
<1>6. \A r \in SolarProcs : solarProcs[r].phase # "off" /\ solarProcs[r].id = id =>
          solarProcs[r].seen <= file.openings /\ solarProcs[r].seen \in Nat
  BY FieldsOf DEF SaveInv, ProcessExtends
<1> HIDE DEF sole, file
<1>7. /\ f \in File /\ f.settled = FALSE /\ f.openings = count /\ f.kept = file.kept
  BY <1>2 DEF File
<1>8. q \in Process
  BY <1>2, FieldsOf DEF Process, SolarPhases
<1>9. /\ q.phase = "writing" /\ q.messages = solarProcs[p].messages
      /\ q.id = id /\ q.seen = count /\ q.alone = sole
  BY FieldsOf DEF Process
<1>10. \A n \in Nat : n <= file.openings => n # count /\ n <= count
  BY <1>2
<1>11. count # 0 /\ count <= count
  BY <1>2
<1> HIDE DEF f, q, id, count
<1>12. FileKeeps(f) /\ ProcessExtends(q, f)
  BY <1>5, <1>7, <1>9, <1>11 DEF FileKeeps, ProcessExtends
<1>13. ASSUME NEW r \in SolarProcs, solarProcs[r].id = id, solarProcs[r].phase # "off"
       PROVE  ~Current(solarProcs[r], f) /\ ProcessExtends(solarProcs[r], f)
  <2>1. solarProcs[r].seen # count /\ solarProcs[r].seen <= count
    BY <1>6, <1>10, <1>13
  <2>. QED
    BY <1>7, <2>1 DEF Current, ProcessExtends
<1>14. ASSUME NEW r \in SolarProcs, solarProcs[r].id = id
       PROVE  /\ solarProcs[r].phase # "off" => ProcessExtends(solarProcs[r], f)
              /\ OneWriter(q, solarProcs[r], f) /\ OneWriter(solarProcs[r], q, f)
  BY <1>13, <1>14 DEF OneWriter
<1>15. \A a, b \in SolarProcs : solarProcs[a].id = id /\ solarProcs[b].id = id =>
           OneWriter(solarProcs[a], solarProcs[b], f)
  BY <1>13 DEF OneWriter
<1>16. Suits(p, q, id, f)
  BY <1>9, <1>12, <1>14, <1>15 DEF Suits
<1>17. id = solarProcs[p].id
  BY DEF id
<1>. QED
  BY <1>1, <1>3, <1>7, <1>8, <1>16, <1>17, SaveWrites

\* A line is written, a whole one or not, by a process that goes on or dies.
LEMMA LineSaves ==
    ASSUME SolarInv, SaveInv, NEW p \in SolarProcs, NEW q \in Process,
           NEW id \in 1 .. SolarIds, id = solarProcs[p].id, solarProcs[p].phase = "writing",
           solarProcs' = [solarProcs EXCEPT ![p] = q],
           NEW f \in File, solarFiles' = [solarFiles EXCEPT ![id] = f],
           f.settled = FALSE, f.openings = solarFiles[id].openings, f.kept = solarFiles[id].kept,
           \/ q.phase = "off"
           \/ /\ q.phase = "writing" /\ q.id = id /\ q.seen = solarProcs[p].seen
              /\ q.alone = solarProcs[p].alone /\ q.clean = solarProcs[p].clean
              /\ q.messages = solarProcs[p].messages
    PROVE  SaveInv'
<1> DEFINE file == solarFiles[id]
<1>1. file.openings > 0 /\ file.openings \in Nat
  BY FileFields DEF SolarInv
<1>2. FileKeeps(f)
  BY <1>1 DEF FileKeeps
<1>3. ASSUME NEW r \in SolarProcs, solarProcs[r].id = id, solarProcs[r].phase # "off"
      PROVE  ProcessExtends(solarProcs[r], f)
  <2>1. ProcessExtends(solarProcs[r], file)
    BY <1>3 DEF SaveInv
  <2>. QED
    BY <2>1 DEF ProcessExtends, Current
<1>4. q.phase # "off" => ProcessExtends(q, f)
  <2>1. ProcessExtends(solarProcs[p], f)
    BY <1>3
  <2>. QED
    BY <2>1 DEF ProcessExtends, Current
<1>5. ASSUME NEW a \in SolarProcs, NEW b \in SolarProcs, a # b,
             solarProcs[a].id = id, solarProcs[b].id = id
      PROVE  OneWriter(solarProcs[a], solarProcs[b], f)
  <2>1. OneWriter(solarProcs[a], solarProcs[b], file)
    BY <1>5 DEF SaveInv
  <2>. QED
    BY <2>1 DEF OneWriter, Current
<1>6. ASSUME NEW r \in SolarProcs, r # p, solarProcs[r].id = id, q.phase # "off"
      PROVE  OneWriter(q, solarProcs[r], f) /\ OneWriter(solarProcs[r], q, f)
  <2>1. OneWriter(solarProcs[p], solarProcs[r], f) /\ OneWriter(solarProcs[r], solarProcs[p], f)
    BY <1>5, <1>6
  <2>. QED
    BY <1>6, <2>1 DEF OneWriter, Current
<1> HIDE DEF file
<1>7. Suits(p, q, id, f)
  BY <1>2, <1>3, <1>4, <1>5, <1>6 DEF Suits
<1>. QED
  BY <1>7, SaveWrites

LEMMA WriteSaves ==
    ASSUME SolarInv, SaveInv, NEW p \in SolarProcs, SolarWrite(p)
    PROVE  SaveInv'
<1> DEFINE id == solarProcs[p].id
           at == solarProcs[p].written + 1
           records == <<Metadata>> \o solarProcs[p].messages
           undisturbed == /\ solarFiles[id].openings = solarProcs[p].seen
                          /\ Len(solarFiles[id].lines) = solarProcs[p].written
           more == Append(solarFiles[id].lines, IF undisturbed THEN records[at] ELSE TornLine)
           f == [solarFiles[id] EXCEPT !.settled = FALSE, !.lines = more]
           q == [solarProcs[p] EXCEPT !.written = at]
<1>1. /\ id \in 1 .. SolarIds /\ solarProcs[p].phase = "writing" /\ at \in Nat \ {0}
      /\ solarProcs[p].written < Len(records)
  BY FieldsOf DEF SolarWrite
<1>2. /\ solarFiles[id] \in File /\ solarFiles[id].lines \in Seq(Record)
  BY <1>1, FileFields
<1>3. records \in Seq(Record) /\ TornLine \in Record
  BY FieldsOf, MetadataFirst DEF TornLine, Line, Record
<1>4. /\ solarProcs' = [solarProcs EXCEPT ![p] = q]
      /\ solarFiles' = [solarFiles EXCEPT ![id] = f]
  BY <1>1, <1>2, FieldsOf DEF SolarWrite, Process, File
<1>5. at \in 1 .. Len(records)
  BY <1>1, <1>3, FieldsOf, LenProperties
<1> HIDE DEF records
<1>6. records[at] \in Record
  BY <1>3, <1>5, ElementOfSeq
<1> HIDE DEF undisturbed
<1>7. more \in Seq(Record)
  BY <1>2, <1>3, <1>6, AppendProperties
<1> HIDE DEF at, more
<1>8. /\ f \in File /\ f.settled = FALSE /\ f.openings = solarFiles[id].openings
      /\ f.kept = solarFiles[id].kept
  BY <1>2, <1>7 DEF File
<1>9. /\ q \in Process /\ q.phase = "writing" /\ q.id = id /\ q.seen = solarProcs[p].seen
      /\ q.alone = solarProcs[p].alone /\ q.clean = solarProcs[p].clean
      /\ q.messages = solarProcs[p].messages
  BY <1>1, FieldsOf DEF Process
<1>10. id = solarProcs[p].id
  OBVIOUS
<1> HIDE DEF f, q, id
<1>. QED
  BY <1>1, <1>4, <1>8, <1>9, <1>10, LineSaves

LEMMA WrittenSaves ==
    ASSUME SolarInv, SaveInv, NEW p \in SolarProcs, SolarWritten(p)
    PROVE  SaveInv'
<1> DEFINE id == solarProcs[p].id
           file == solarFiles[id]
           messages == solarProcs[p].messages
           sound == /\ solarProcs[p].clean /\ file.openings = solarProcs[p].seen
                    /\ file.lines = <<Metadata>> \o messages
           keep == IF sound THEN messages ELSE file.kept
           f == [file EXCEPT !.settled = sound, !.saved = TRUE, !.kept = keep]
           q == [solarProcs[p] EXCEPT !.phase = "pointing"]
<1>1. id \in 1 .. SolarIds /\ solarProcs[p].phase = "writing" /\ messages \in Seq(Record)
  BY FieldsOf DEF SolarWritten
<1>2. /\ file \in File /\ file.openings > 0 /\ file.openings \in Nat
      /\ sound \in BOOLEAN /\ keep \in Seq(Record)
  BY <1>1, FieldsOf, FileFields DEF SolarInv
<1>3. /\ solarProcs' = [solarProcs EXCEPT ![p] = q]
      /\ solarFiles' = [solarFiles EXCEPT ![id] = f]
  BY <1>1, <1>2, FieldsOf DEF SolarWritten, Process, File
<1>4. /\ sound => Tail(file.lines) = messages /\ keep = messages
      /\ sound => solarProcs[p].clean /\ Current(solarProcs[p], file)
      /\ ~sound => keep = file.kept
  BY <1>1, MetadataFirst DEF Current
<1>5. Extends(messages, messages)
  BY <1>1, ExtendsFacts DEF Extends
<1>6. \A r \in SolarProcs : solarProcs[r].phase # "off" /\ solarProcs[r].id = id =>
          ProcessExtends(solarProcs[r], file)
  BY DEF SaveInv
<1>7. \A a, b \in SolarProcs : a # b /\ solarProcs[a].id = id /\ solarProcs[b].id = id =>
          OneWriter(solarProcs[a], solarProcs[b], file)
  BY DEF SaveInv
<1>8. FileKeeps(file)
  BY <1>1 DEF SaveInv
<1> HIDE DEF sound, keep, file, messages
<1>9. /\ f \in File /\ f.settled = sound /\ f.lines = file.lines
      /\ f.openings = file.openings /\ f.kept = keep
  BY <1>2 DEF File
<1>10. /\ q \in Process /\ q.phase = "pointing" /\ q.messages = messages /\ q.id = id
       /\ q.clean = solarProcs[p].clean /\ q.seen = solarProcs[p].seen
  BY FieldsOf DEF Process, SolarPhases, messages
<1>11. id = solarProcs[p].id
  OBVIOUS
<1> HIDE DEF f, q, id
<1>12. FileKeeps(f)
  BY <1>2, <1>4, <1>9 DEF FileKeeps
<1>13. ProcessExtends(q, f)
  <2>1. q.seen <= f.openings
    BY <1>1, <1>6, <1>9, <1>10, <1>11 DEF ProcessExtends
  <2>2. f.settled => Extends(f.kept, q.messages)
    BY <1>4, <1>5, <1>9, <1>10
  <2>. QED
    BY <1>10, <2>1, <2>2 DEF ProcessExtends
\* Beside a save that settles the file nobody clean knows it as it is.
<1>14. ASSUME NEW r \in SolarProcs, r # p, solarProcs[r].id = id, solarProcs[r].phase # "off"
       PROVE  ProcessExtends(solarProcs[r], f)
  <2>1. ProcessExtends(solarProcs[r], file)
    BY <1>6, <1>14
  <2>2. CASE ~sound
    BY <1>4, <1>9, <2>1, <2>2 DEF ProcessExtends, Current
  <2>3. CASE sound
    <3>1. solarProcs[p].clean /\ Current(solarProcs[p], file)
      BY <1>4, <2>3
    <3>2. /\ OneWriter(solarProcs[p], solarProcs[r], file)
          /\ OneWriter(solarProcs[r], solarProcs[p], file)
      BY <1>7, <1>11, <1>14
    <3>3. Current(solarProcs[r], file) => ~solarProcs[r].clean /\ solarProcs[r].phase # "writing"
      BY <1>1, <1>14, <3>1, <3>2 DEF OneWriter
    <3>4. Current(solarProcs[r], f) <=> Current(solarProcs[r], file)
      BY <1>9 DEF Current
    <3>. QED
      BY <1>9, <2>1, <3>3, <3>4 DEF ProcessExtends
  <2>. QED
    BY <2>2, <2>3
<1>15. ASSUME NEW r \in SolarProcs, r # p, solarProcs[r].id = id
       PROVE  OneWriter(q, solarProcs[r], f) /\ OneWriter(solarProcs[r], q, f)
  <2>1. OneWriter(solarProcs[r], solarProcs[p], file)
    BY <1>7, <1>11, <1>15
  <2>. QED
    BY <1>1, <1>9, <1>10, <2>1 DEF OneWriter, Current
<1>16. ASSUME NEW a \in SolarProcs, NEW b \in SolarProcs, a # b,
              solarProcs[a].id = id, solarProcs[b].id = id
       PROVE  OneWriter(solarProcs[a], solarProcs[b], f)
  <2>1. OneWriter(solarProcs[a], solarProcs[b], file)
    BY <1>7, <1>16
  <2>. QED
    BY <1>9, <2>1 DEF OneWriter, Current
<1>17. Suits(p, q, id, f)
  BY <1>10, <1>12, <1>13, <1>14, <1>15, <1>16 DEF Suits
<1>. QED
  BY <1>1, <1>3, <1>9, <1>10, <1>11, <1>17, SaveWrites

LEMMA PointSaves ==
    ASSUME SolarInv, SaveInv, NEW p \in SolarProcs, SolarPoint(p)
    PROVE  SaveInv'
<1>1. solarProcs[p].phase = "pointing" /\ UNCHANGED solarFiles
  BY DEF SolarPoint
<1>2. CASE solarProcs[p].repl
  <2> DEFINE q == [solarProcs[p] EXCEPT !.phase = "idle"]
  <2>1. solarProcs' = [solarProcs EXCEPT ![p] = q]
    BY <1>2 DEF SolarPoint
  <2>2. /\ q \in Process /\ q.phase = "idle" /\ q.messages = solarProcs[p].messages
        /\ q.id = solarProcs[p].id /\ q.clean = solarProcs[p].clean
        /\ q.seen = solarProcs[p].seen
    BY FieldsOf DEF Process, SolarPhases
  <2>3. TornLine \in Record
    BY DEF TornLine, Line, Record
  <2> HIDE DEF q
  <2>. QED
    BY <1>1, <2>1, <2>2, <2>3, SaySaves
<1>3. CASE ~solarProcs[p].repl
  <2>1. solarProcs' = [solarProcs EXCEPT ![p] = NoProcess]
    BY <1>3, FieldsOf DEF SolarPoint
  <2>. QED
    BY <1>1, <2>1, GoneSaves
<1>. QED
  BY <1>2, <1>3

LEMMA StopSaves ==
    ASSUME SolarInv, SaveInv, NEW p \in SolarProcs, SolarStop(p)
    PROVE  SaveInv'
<1>1. /\ solarProcs' = [solarProcs EXCEPT ![p] = NoProcess]
      /\ solarProcs[p].phase # "off" /\ solarProcs[p].id \in 1 .. SolarIds
  BY FieldsOf DEF SolarStop
<1>2. CASE UNCHANGED solarFiles
  BY <1>1, <1>2, GoneSaves
<1>3. CASE /\ solarProcs[p].phase = "writing"
           /\ solarFiles' = [solarFiles EXCEPT ![solarProcs[p].id] =
                  [solarFiles[solarProcs[p].id] EXCEPT
                      !.settled = FALSE,
                      !.lines = Append(solarFiles[solarProcs[p].id].lines, TornLine)]]
  <2> DEFINE id == solarProcs[p].id
             torn == Append(solarFiles[id].lines, TornLine)
             f == [solarFiles[id] EXCEPT !.settled = FALSE, !.lines = torn]
  <2>1. /\ solarFiles[id] \in File
        /\ solarFiles[id].lines \in Seq(Record) /\ TornLine \in Record
    BY <1>1, FileFields DEF TornLine, Line, Record
  <2>2. torn \in Seq(Record)
    BY <2>1, AppendProperties
  <2>3. solarFiles' = [solarFiles EXCEPT ![id] = f]
    BY <1>3
  <2> HIDE DEF torn
  <2>4. /\ f \in File /\ f.settled = FALSE /\ f.openings = solarFiles[id].openings
        /\ f.kept = solarFiles[id].kept
    BY <2>1, <2>2 DEF File
  <2>5. NoProcess \in Process /\ NoProcess.phase = "off"
    BY NobodyOK DEF NoProcess
  <2>6. /\ id = solarProcs[p].id /\ id \in 1 .. SolarIds /\ solarProcs[p].phase = "writing"
        /\ solarProcs' = [solarProcs EXCEPT ![p] = NoProcess]
    BY <1>1, <1>3
  <2> HIDE DEF f, id
  <2>. QED
    BY ONLY SolarInv, SaveInv, p \in SolarProcs, <2>3, <2>4, <2>5, <2>6, LineSaves
<1>. QED
  BY <1>2, <1>3 DEF SolarStop

\* What a prompt, an answer and a result have in common.
Speaks(p, line, phase, left, iterations) ==
    solarProcs' = [solarProcs EXCEPT ![p] =
        [solarProcs[p] EXCEPT
            !.messages = Append(solarProcs[p].messages, line),
            !.phase = phase, !.left = left, !.iterations = iterations]]

LEMMA SpeakSaves ==
    ASSUME SolarInv, SaveInv, NEW p \in SolarProcs, NEW line \in Record,
           NEW phase \in SolarPhases \ {"off", "writing"},
           NEW left \in Nat, NEW iterations \in Nat,
           solarProcs[p].phase \notin {"off", "writing"},
           Speaks(p, line, phase, left, iterations), solarFiles' = solarFiles
    PROVE  SaveInv'
<1> DEFINE said == Append(solarProcs[p].messages, line)
           q == [solarProcs[p] EXCEPT !.messages = said,
                     !.phase = phase, !.left = left, !.iterations = iterations]
<1>1. solarProcs[p] \in Process /\ solarProcs[p].messages \in Seq(Record)
  BY FieldsOf
<1>2. said \in Seq(Record)
  BY <1>1, AppendProperties
<1>3. solarProcs' = [solarProcs EXCEPT ![p] = q]
  BY DEF Speaks
<1>4. said = Append(solarProcs[p].messages, line)
  OBVIOUS
<1> HIDE DEF said
<1>5. /\ q \in Process /\ q.phase = phase /\ q.messages = said
      /\ q.id = solarProcs[p].id /\ q.clean = solarProcs[p].clean
      /\ q.seen = solarProcs[p].seen
  BY <1>1, <1>2 DEF Process
<1> HIDE DEF q
<1>6. q.phase \notin {"off", "writing"}
  BY <1>5
<1>7. q.messages = Append(solarProcs[p].messages, line)
  BY <1>4, <1>5
<1>. QED
  BY <1>3, <1>5, <1>6, <1>7, SaySaves

LEMMA PromptSaves ==
    ASSUME SolarInv, SaveInv, NEW p \in SolarProcs, SolarPrompt(p)
    PROVE  SaveInv'
<1> DEFINE line == Line("user", 0, solarBegun')
<1>1. /\ solarProcs[p] \in Process /\ solarProcs[p].left \in Nat
      /\ solarProcs[p].phase = "idle" /\ solarFiles' = solarFiles
  BY FieldsOf DEF SolarPrompt
<1>2. solarBegun \in Nat /\ solarBegun' = solarBegun + 1
  BY DEF SolarPrompt, SolarInv
<1>3. line \in Record
  BY <1>2 DEF Line, Record
<1> HIDE DEF line
<1>4. Speaks(p, line, "asking", solarProcs[p].left, 0)
  BY <1>1 DEF SolarPrompt, Spoken, Process, Speaks, line
<1>5. "asking" \in SolarPhases \ {"off", "writing"} /\ 0 \in Nat
  BY DEF SolarPhases
<1>6. solarProcs[p].phase \notin {"off", "writing"}
  BY <1>1
<1>. QED
  BY <1>1, <1>3, <1>4, <1>5, <1>6, SpeakSaves

LEMMA ExecuteSaves ==
    ASSUME SolarInv, SaveInv, NEW p \in SolarProcs, SolarExecute(p)
    PROVE  SaveInv'
<1> DEFINE line == Line("tool", 0, TurnOf(solarProcs[p]))
           phase == IF solarProcs[p].left = 1 THEN "asking" ELSE "acting"
           left == solarProcs[p].left - 1
<1>1. /\ solarProcs[p] \in Process /\ solarProcs[p].iterations \in Nat
      /\ solarProcs[p].phase = "acting" /\ solarFiles' = solarFiles
  BY FieldsOf DEF SolarExecute
<1>2. left \in Nat
  BY <1>1, FieldsOf DEF ProcessOK
<1>3. line \in Record
  BY <1>1, TurnType DEF Line, Record
<1> HIDE DEF line
<1>4. Speaks(p, line, phase, left, solarProcs[p].iterations)
  BY <1>1 DEF SolarExecute, Spoken, Process, Speaks, line
<1>5. phase \in SolarPhases \ {"off", "writing"}
  BY DEF SolarPhases
<1>6. solarProcs[p].phase \notin {"off", "writing"}
  BY <1>1
<1> HIDE DEF phase, left
<1>. QED
  BY <1>1, <1>2, <1>3, <1>4, <1>5, <1>6, SpeakSaves

LEMMA AnswerSaves ==
    ASSUME SolarInv, SaveInv, NEW p \in SolarProcs, NEW calls \in 0 .. SolarCalls,
           SolarAnswer(p, calls)
    PROVE  SaveInv'
<1> DEFINE line == Line("assistant", calls, TurnOf(solarProcs[p]))
           phase == IF calls = 0 THEN "saving" ELSE "acting"
           more == solarProcs[p].iterations + 1
<1>1. /\ solarProcs[p] \in Process /\ solarProcs[p].iterations \in Nat
      /\ solarProcs[p].phase = "asking" /\ solarFiles' = solarFiles
  BY FieldsOf DEF SolarAnswer
<1>2. more \in Nat
  BY <1>1
<1>7. calls \in Nat
  BY SolarAssumption
<1>3. line \in Record
  BY <1>1, <1>7, TurnType DEF Line, Record
<1> HIDE DEF line
<1>4. Speaks(p, line, phase, calls, more)
  BY <1>1 DEF SolarAnswer, Spoken, Process, Speaks, line
<1>5. phase \in SolarPhases \ {"off", "writing"}
  BY DEF SolarPhases
<1>6. solarProcs[p].phase \notin {"off", "writing"}
  BY <1>1
<1> HIDE DEF phase, more
<1>. QED
  BY <1>1, <1>2, <1>3, <1>4, <1>5, <1>6, <1>7, SpeakSaves

LEMMA SaveStep ==
    SolarInv /\ SaveInv /\ [SolarNext]_solarVars => SaveInv'
<1> SUFFICES ASSUME SolarInv, SaveInv, [SolarNext]_solarVars PROVE SaveInv'
  OBVIOUS
<1>1. CASE SolarTick \/ UNCHANGED solarVars
  <2>1. solarProcs' = solarProcs /\ solarFiles' = solarFiles
    BY <1>1 DEF SolarTick, solarVars
  <2>. QED
    BY <2>1 DEF SaveInv
<1>2. ASSUME NEW p \in SolarProcs, NEW repl \in BOOLEAN, SolarStart(p, repl) PROVE SaveInv'
  BY <1>2, StartSaves
<1>3. ASSUME NEW p \in SolarProcs, NEW repl \in BOOLEAN, NEW id \in 1 .. SolarIds,
             SolarResume(p, repl, id)
      PROVE SaveInv'
  BY <1>3, ResumeSaves
<1>4. ASSUME NEW p \in SolarProcs, SolarFail(p) PROVE SaveInv'
  BY <1>4, GoneSaves DEF SolarFail
<1>5. ASSUME NEW p \in SolarProcs, SolarPrompt(p) \/ SolarExecute(p) PROVE SaveInv'
  BY <1>5, PromptSaves, ExecuteSaves
<1>7. ASSUME NEW p \in SolarProcs, NEW calls \in 0 .. SolarCalls, SolarAnswer(p, calls)
      PROVE  SaveInv'
  BY <1>7, AnswerSaves
<1>6. ASSUME NEW p \in SolarProcs,
             \/ SolarOpen(p) \/ SolarWrite(p) \/ SolarWritten(p) \/ SolarPoint(p)
             \/ SolarStop(p)
      PROVE SaveInv'
  BY <1>6, OpenSaves, WriteSaves, WrittenSaves, PointSaves, StopSaves
<1>. QED
  BY <1>1, <1>2, <1>3, <1>4, <1>5, <1>6, <1>7 DEF SolarNext

\* A save ends with its own process finding every record written.
LEMMA OnlyWritten ==
    ASSUME SolarInv, [SolarNext]_solarVars, NEW p \in SolarProcs,
           solarProcs[p].phase = "writing", solarProcs'[p].phase = "pointing"
    PROVE  SolarWritten(p)
<1>1. DOMAIN solarProcs = SolarProcs /\ solarProcs[p] \in Process
  BY DEF SolarInv
<1>2. ~ UNCHANGED solarProcs
  OBVIOUS
<1>3. ~ SolarTick /\ ~ UNCHANGED solarVars
  BY <1>2 DEF SolarTick, solarVars
<1>4. ASSUME NEW r \in SolarProcs, NEW value, solarProcs' = [solarProcs EXCEPT ![r] = value]
      PROVE  r = p /\ value.phase = "pointing"
  BY <1>1, <1>4
<1>5. ASSUME NEW r \in SolarProcs, NEW repl \in BOOLEAN, SolarStart(r, repl) PROVE FALSE
  BY <1>4, <1>5 DEF SolarStart
<1>6. ASSUME NEW r \in SolarProcs, NEW repl \in BOOLEAN, NEW id \in 1 .. SolarIds,
             SolarResume(r, repl, id)
      PROVE  FALSE
  BY <1>4, <1>6 DEF SolarResume
<1>7. ASSUME NEW r \in SolarProcs, NEW calls \in 0 .. SolarCalls, SolarAnswer(r, calls)
      PROVE  FALSE
  <2>1. r = p
    BY <1>4, <1>7 DEF SolarAnswer
  <2>. QED
    BY <1>7, <2>1 DEF SolarAnswer
<1>8. ASSUME NEW r \in SolarProcs, SolarPrompt(r) PROVE FALSE
  <2>1. r = p
    BY <1>4, <1>8 DEF SolarPrompt
  <2>. QED
    BY <1>8, <2>1 DEF SolarPrompt
<1>9. ASSUME NEW r \in SolarProcs, SolarExecute(r) PROVE FALSE
  <2>1. r = p
    BY <1>4, <1>9 DEF SolarExecute
  <2>. QED
    BY <1>9, <2>1 DEF SolarExecute
<1>10. ASSUME NEW r \in SolarProcs, SolarFail(r) \/ SolarStop(r) PROVE FALSE
  <2>1. solarProcs' = [solarProcs EXCEPT ![r] = NoProcess]
    BY <1>10 DEF SolarFail, SolarStop
  <2>2. NoProcess.phase = "pointing"
    BY <1>4, <2>1
  <2>. QED
    BY <2>2 DEF NoProcess
<1>11. ASSUME NEW r \in SolarProcs, SolarOpen(r) PROVE FALSE
  <2>1. r = p
    BY <1>4, <1>11 DEF SolarOpen
  <2>. QED
    BY <1>11, <2>1 DEF SolarOpen
<1>12. ASSUME NEW r \in SolarProcs, SolarWrite(r) PROVE FALSE
  <2>1. solarProcs'[p].phase = solarProcs[p].phase
    BY <1>1, <1>12 DEF SolarWrite, Process
  <2>. QED
    BY <2>1
<1>13. ASSUME NEW r \in SolarProcs, SolarPoint(r) PROVE FALSE
  <2>1. r = p
    BY <1>4, <1>13 DEF SolarPoint
  <2>. QED
    BY <1>13, <2>1 DEF SolarPoint
<1>14. ASSUME NEW r \in SolarProcs, SolarWritten(r) PROVE r = p
  BY <1>1, <1>14 DEF SolarWritten
<1>15. SolarNext
  BY <1>3
<1>. QED
  BY <1>3, <1>5, <1>6, <1>7, <1>8, <1>9, <1>10, <1>11, <1>12, <1>13, <1>14, <1>15 DEF SolarNext

\* What the end of a save leaves, if nobody else has interfered with it.
LEMMA WrittenExtends ==
    ASSUME SolarInv, SaveInv, NEW p \in SolarProcs, SolarWritten(p), solarProcs[p].alone,
           solarFiles[solarProcs[p].id].openings = solarProcs[p].seen,
           solarFiles'[solarProcs[p].id].settled
    PROVE  IsPrefix(solarFiles[solarProcs[p].id].kept, solarFiles'[solarProcs[p].id].kept)
<1> DEFINE id == solarProcs[p].id
           file == solarFiles[id]
           messages == solarProcs[p].messages
<1>1. id \in 1 .. SolarIds /\ solarProcs[p].phase = "writing" /\ messages \in Seq(Record)
  BY FieldsOf DEF SolarWritten
<1>2. file \in File /\ file.kept \in Seq(Record) /\ id \in DOMAIN solarFiles
  BY <1>1, FileFields DEF SolarInv
<1>3. solarFiles'[id].kept = messages
  BY <1>2 DEF SolarWritten, File
<1>4. Extends(file.kept, messages)
  BY <1>1 DEF SaveInv, ProcessExtends, Current
<1>5. TornLine \in Record
  BY DEF TornLine, Line, Record
<1> HIDE DEF messages
<1>6. IsPrefix(file.kept, messages)
  BY <1>1, <1>2, <1>4, <1>5, ExtendsFacts
<1>. QED
  BY <1>3, <1>6

(* A save loses no turn that an undisturbed save before it has kept,       *)
(* however many processes work on however many sessions, for any number of *)
(* turns (save_snapshot, with_session in runtime/src/session.rs).          *)
THEOREM SavesAlwaysExtend == SolarSpec => SavesExtend
<1>0. SolarInit => SolarInv
  BY SolarStarts
<1>1. SolarInit => SaveInv
  <2>1. NoFile.openings = 0 /\ NoFile.settled = FALSE /\ NoFile.kept = <<>>
    BY DEF NoFile
  <2>2. NoProcess.phase = "off"
    BY DEF NoProcess
  <2>3. ASSUME SolarInit PROVE \A id \in 1 .. SolarIds : FileKeeps(solarFiles[id])
    BY <2>1, <2>3 DEF SolarInit, FileKeeps
  <2>4. ASSUME SolarInit PROVE \A p \in SolarProcs : solarProcs[p].phase = "off"
    BY <2>2, <2>4 DEF SolarInit
  <2>. QED
    BY <2>3, <2>4 DEF SaveInv, OneWriter
<1>2. ASSUME SolarInv, SaveInv, [SolarNext]_solarVars, NEW p \in SolarProcs,
             solarProcs[p].phase = "writing", solarProcs'[p].phase = "pointing",
             solarProcs[p].alone,
             solarFiles[solarProcs[p].id].openings = solarProcs[p].seen,
             solarFiles'[solarProcs[p].id].settled
      PROVE  IsPrefix(solarFiles[solarProcs[p].id].kept, solarFiles'[solarProcs[p].id].kept)
  <2>1. SolarWritten(p)
    BY <1>2, OnlyWritten
  <2>. QED
    BY <1>2, <2>1, WrittenExtends
<1>3. SolarInv /\ SaveInv /\ [SolarNext]_solarVars =>
          [\A p \in SolarProcs :
              /\ solarProcs[p].phase = "writing"
              /\ solarProcs'[p].phase = "pointing"
              /\ solarProcs[p].alone
              /\ solarFiles[solarProcs[p].id].openings = solarProcs[p].seen
              /\ solarFiles'[solarProcs[p].id].settled
              => IsPrefix(solarFiles[solarProcs[p].id].kept,
                          solarFiles'[solarProcs[p].id].kept)]_solarVars
  BY <1>2
<1>. QED
  BY <1>0, <1>1, <1>3, SolarStep, SaveStep, PTL DEF SolarSpec, SavesExtend

-----------------------------------------------------------------------------
Event == [from: 1 .. ChainModels, whole: BOOLEAN, kind: {"content", "stop"}]

EventKinds == {Sent("content"), Sent("stop")}

ChainInv ==
    /\ chain \in Chains
    /\ chainEvents \in Seq(Event)
    /\ chainWhole \in BOOLEAN
    /\ chainPhase \in {"idle", "sending", "pausing", "reading", "answered", "failed"}
    /\ chainPhase # "idle" => chainAt \in 1 .. Len(chain)
    /\ chainPhase \in {"sending", "pausing"} => chainEvents = <<>>
    /\ chainPhase = "reading" => /\ chainWhole => chainEvents = <<>>
                                 /\ ToSet(chainEvents) \subseteq EventKinds
    /\ chainPhase \in {"sending", "pausing", "reading"} =>
           chainFailures = [k \in 1 .. chainAt - 1 |-> "passing"]
    /\ ChainOutcome

LEMMA ChainTypes ==
    ASSUME chain \in Chains
    PROVE  /\ Len(chain) \in Nat \ {0} /\ \A k \in 1 .. Len(chain) : chain[k] \in 1 .. ChainModels
<1>1. PICK n \in 1 .. ChainModels : chain \in [1 .. n -> 1 .. ChainModels]
  BY DEF Chains
<1>2. n \in Nat /\ n >= 1
  BY <1>1, ChainAssumption
<1>3. DOMAIN chain = 1 .. n /\ chain \in Seq(1 .. ChainModels)
  BY <1>1, <1>2, SeqDef
<1>4. Len(chain) = n
  BY <1>2, <1>3, LenProperties
<1>. QED
  BY <1>1, <1>2, <1>4

LEMMA AppendedSet ==
    ASSUME NEW S, NEW s \in Seq(S), NEW e \in S
    PROVE  ToSet(Append(s, e)) = ToSet(s) \cup {e}
<1>1. Append(s, e) \in Seq(S) /\ Len(Append(s, e)) = Len(s) + 1
  BY AppendProperties
<1>2. DOMAIN s = 1 .. Len(s) /\ DOMAIN Append(s, e) = 1 .. Len(s) + 1 /\ Len(s) \in Nat
  BY <1>1, LenProperties
<1>3. \A i \in 1 .. Len(s) : Append(s, e)[i] = s[i]
  BY AppendProperties
<1>4. Append(s, e)[Len(s) + 1] = e
  BY AppendProperties
<1>. QED
  BY <1>2, <1>3, <1>4 DEF ToSet

\* A failure is added to those of the providers before it.
LEMMA AppendedFailure ==
    ASSUME NEW n \in Nat, NEW f, NEW s, s = [k \in 1 .. n |-> "passing"]
    PROVE  /\ Len(Append(s, f)) = n + 1 /\ Append(s, f)[n + 1] = f
           /\ f = "passing" => Append(s, f) = [k \in 1 .. n + 1 |-> "passing"]
<1>1. s \in Seq({"passing"}) /\ Len(s) = n
  OBVIOUS
<1>2. s \in Seq({"passing", f})
  BY <1>1
<1>3. /\ Append(s, f) \in Seq({"passing", f}) /\ Len(Append(s, f)) = n + 1
      /\ \A i \in 1 .. n : Append(s, f)[i] = s[i]
      /\ Append(s, f)[n + 1] = f
  BY <1>1, <1>2, AppendProperties
<1>4. ASSUME f = "passing"
      PROVE  Append(s, f) = [k \in 1 .. n + 1 |-> "passing"]
  <2>1. DOMAIN Append(s, f) = 1 .. n + 1 /\ Append(s, f) = [k \in 1 .. n + 1 |-> Append(s, f)[k]]
    BY <1>3, LenProperties
  <2>2. \A k \in 1 .. n + 1 : Append(s, f)[k] = "passing"
    BY <1>3, <1>4
  <2>. QED
    BY <2>1, <2>2
<1>. QED
  BY <1>3, <1>4

LEMMA SentType ==
    ASSUME ChainInv, chainPhase # "idle", NEW kind \in {"content", "stop"}
    PROVE  Sent(kind) \in Event
<1>1. chain[chainAt] \in 1 .. ChainModels
  BY ChainTypes DEF ChainInv
<1>. QED
  BY <1>1 DEF Sent, Event, ChainInv

LEMMA FallBackStep ==
    ASSUME ChainInv, chainPhase \in {"sending", "reading"},
           NEW f \in {"passing", "lasting"}, ChainFallBack(f)
    PROVE  ChainInv'
<1>1. /\ chainFailures = [k \in 1 .. chainAt - 1 |-> "passing"]
      /\ chainAt \in 1 .. Len(chain) /\ Len(chain) \in Nat \ {0} /\ chainAt - 1 \in Nat
      /\ chainFailures' = Append(chainFailures, f)
  BY ChainTypes DEF ChainInv, ChainFallBack
<1>2. /\ Len(chainFailures') = chainAt /\ chainFailures'[chainAt] = f
      /\ f = "passing" => chainFailures' = [k \in 1 .. chainAt |-> "passing"]
  <2>1. (chainAt - 1) + 1 = chainAt
    BY <1>1
  <2>. QED
    BY <1>1, <2>1, AppendedFailure
<1>3. CASE f = "passing" /\ chainAt < Len(chain)
  <2>1. /\ chainAt' = chainAt + 1 /\ chainPhase' = "sending" /\ chainWhole' = FALSE
        /\ chainEvents' = <<>> /\ chain' = chain
    BY <1>3 DEF ChainFallBack
  <2>2. chainAt' \in 1 .. Len(chain) /\ chainAt' - 1 = chainAt
    BY <1>1, <1>3, <2>1
  <2>3. chainEvents' \in Seq(Event) /\ chain' \in Chains
    BY <2>1 DEF ChainInv
  <2>4. chainFailures' = [k \in 1 .. chainAt' - 1 |-> "passing"]
    BY <1>2, <1>3, <2>2
  <2>5. ChainOutcome' /\ chainAt' \in 1 .. Len(chain') /\ chainWhole' \in BOOLEAN
    BY <2>1, <2>2 DEF ChainOutcome
  <2>. QED
    BY <2>1, <2>3, <2>4, <2>5 DEF ChainInv
<1>4. CASE ~(f = "passing" /\ chainAt < Len(chain))
  <2>1. /\ chainPhase' = "failed" /\ chain' = chain
        /\ UNCHANGED <<chainAt, chainWhole, chainEvents>>
    BY <1>4 DEF ChainFallBack
  <2>2. f = "lasting" \/ Len(chainFailures') = Len(chain)
    BY <1>1, <1>2, <1>4
  <2>3. Last(chainFailures') = f
    BY <1>2 DEF Last
  <2>4. ChainOutcome'
    BY <2>1, <2>2, <2>3 DEF ChainOutcome
  <2>. QED
    BY <1>1, <2>1, <2>4 DEF ChainInv
<1>. QED
  BY <1>3, <1>4

LEMMA ChainStep == ChainInv /\ [ChainNext]_chainVars => ChainInv'
<1> SUFFICES ASSUME ChainInv, [ChainNext]_chainVars PROVE ChainInv'
  OBVIOUS
<1>0. Len(chain) \in Nat \ {0} /\ chain \in Chains
  BY ChainTypes DEF ChainInv
<1>1. CASE ChainCall
  <2>1. [k \in 1 .. 1 - 1 |-> "passing"] = <<>>
    OBVIOUS
  <2>2. /\ chainAt' = 1 /\ chainPhase' = "sending" /\ chainWhole' = FALSE
        /\ chainEvents' = <<>> /\ chainFailures' = <<>> /\ chain' = chain
    BY <1>1 DEF ChainCall
  <2>3. /\ chain' \in Chains /\ chainAt' \in 1 .. Len(chain') /\ chainEvents' \in Seq(Event)
        /\ chainFailures' = [k \in 1 .. chainAt' - 1 |-> "passing"]
    BY <1>0, <2>1, <2>2
  <2>4. ChainOutcome'
    BY <2>2 DEF ChainOutcome
  <2>. QED
    BY <2>2, <2>3, <2>4 DEF ChainInv
<1>2. CASE ChainSend
  <2>1. CASE \/ chainPhase' = "reading"
             \/ chainPhase' = "pausing"
    <3>1. UNCHANGED <<chain, chainAt, chainWhole, chainEvents, chainFailures>> /\ chainPhase = "sending"
      BY <1>2, <2>1 DEF ChainSend, ChainFallBack
    <3>2. ToSet(<<>>) = {}
      BY DEF ToSet
    <3>. QED
      BY <2>1, <3>1, <3>2 DEF ChainInv, ChainOutcome
  <2>2. CASE ~(chainPhase' \in {"reading", "pausing"})
    <3>1. chainPhase = "sending" /\ (ChainFallBack("passing") \/ ChainFallBack("lasting"))
      BY <1>2, <2>2 DEF ChainSend
    <3>. QED
      BY <3>1, FallBackStep
  <2>. QED
    BY <2>1, <2>2
<1>3. CASE ChainPause
  BY <1>3 DEF ChainPause, ChainInv, ChainOutcome
<1>4. CASE ChainRead
  <2>1. PICK kind \in {"content", "stop"} : chainEvents' = Append(chainEvents, Sent(kind))
    BY <1>4 DEF ChainRead
  <2>2. /\ chainPhase = "reading" /\ ~chainWhole
        /\ UNCHANGED <<chain, chainAt, chainPhase, chainWhole, chainFailures>>
    BY <1>4 DEF ChainRead
  <2>3. Sent(kind) \in Event /\ chainEvents \in Seq(Event)
    BY <1>0, <2>2, SentType DEF ChainInv
  <2>4. chainEvents' \in Seq(Event) /\ ToSet(chainEvents') = ToSet(chainEvents) \cup {Sent(kind)}
    BY <2>1, <2>3, AppendedSet, AppendProperties
  <2>5. EventKinds' = EventKinds
    BY <2>2 DEF EventKinds, Sent
  <2>6. ToSet(chainEvents') \subseteq EventKinds'
    BY <2>2, <2>4, <2>5 DEF ChainInv, EventKinds
  <2>. QED
    BY <1>0, <2>2, <2>4, <2>6 DEF ChainInv, ChainOutcome
<1>5. CASE ChainBreak
  BY <1>5, FallBackStep DEF ChainBreak
<1>6. CASE ChainStreamEnd
  <2>1. /\ chainPhase = "reading" /\ ~chainWhole
        /\ UNCHANGED <<chain, chainAt, chainFailures>>
    BY <1>6 DEF ChainStreamEnd
  <2>2. CASE chainEvents = <<>>
    BY <1>6, <2>1, <2>2 DEF ChainStreamEnd, ChainInv, ChainOutcome
  <2>3. CASE chainEvents # <<>>
    <3>1. /\ chainPhase' = "answered" /\ UNCHANGED chainWhole
          /\ \/ chainEvents' = chainEvents /\ Sent("stop") \in ToSet(chainEvents)
             \/ chainEvents' = Append(chainEvents, Sent("stop"))
      BY <1>6, <2>3 DEF ChainStreamEnd
    <3>2. Sent("stop") \in Event /\ chainEvents \in Seq(Event)
      BY <1>0, <2>1, SentType DEF ChainInv
    <3> DEFINE longer == Append(chainEvents, Sent("stop"))
    <3>3. longer \in Seq(Event) /\ ToSet(longer) = ToSet(chainEvents) \cup {Sent("stop")}
      BY <3>2, AppendedSet, AppendProperties
    <3>4. chainEvents' = longer \/ (chainEvents' = chainEvents /\ Sent("stop") \in ToSet(chainEvents))
      BY <3>1
    <3> HIDE DEF longer
    <3>5. /\ chainEvents' \in Seq(Event) /\ Sent("stop") \in ToSet(chainEvents')
          /\ ToSet(chainEvents') \subseteq ToSet(chainEvents) \cup {Sent("stop")}
      BY <3>2, <3>3, <3>4
    <3>6. Sent("stop")' = Sent("stop") /\ Sent("content")' = Sent("content")
      BY <2>1, <3>1 DEF Sent
    <3>7. ToSet(chainEvents') \subseteq EventKinds
      BY <2>1, <3>5 DEF ChainInv, EventKinds
    <3>8. ChainOutcome'
      BY <2>1, <3>1, <3>5, <3>6, <3>7 DEF ChainOutcome, ChainInv, EventKinds
    <3>. QED
      BY <1>0, <2>1, <3>1, <3>5, <3>8 DEF ChainInv
  <2>. QED
    BY <2>2, <2>3
<1>7. CASE ChainMessage
  <2>1. /\ chainPhase = "reading" /\ chainWhole /\ chainPhase' = "answered"
        /\ UNCHANGED <<chain, chainAt, chainWhole, chainFailures>>
    BY <1>7 DEF ChainMessage
  <2>2. PICK n \in 0 .. ChainBlocks :
            chainEvents' = [k \in 1 .. n |-> Sent("content")] \o <<Sent("stop")>>
    BY <1>7 DEF ChainMessage
  <2> DEFINE texts == [k \in 1 .. n |-> Sent("content")]
  <2>3. Sent("content") \in Event /\ Sent("stop") \in Event
    BY <2>1, SentType
  <2>4. n \in Nat
    BY <2>2, ChainAssumption
  <2>5. texts \in Seq(Event) /\ Len(texts) = n /\ \A k \in 1 .. n : texts[k] = Sent("content")
    BY <2>3, <2>4
  <2>6. /\ <<Sent("stop")>> \in Seq(Event) /\ Len(<<Sent("stop")>>) = 1
        /\ <<Sent("stop")>>[1] = Sent("stop")
    BY <2>3
  <2> HIDE DEF texts
  <2>7. /\ chainEvents' \in Seq(Event) /\ Len(chainEvents') = n + 1
        /\ \A k \in 1 .. n : chainEvents'[k] = Sent("content")
        /\ chainEvents'[n + 1] = Sent("stop")
    <3>1. chainEvents' = texts \o <<Sent("stop")>>
      BY <2>2 DEF texts
    <3>2. /\ chainEvents' \in Seq(Event) /\ Len(chainEvents') = n + 1
          /\ \A k \in 1 .. n + 1 : chainEvents'[k] = IF k <= n THEN texts[k]
                                                     ELSE <<Sent("stop")>>[k - n]
      BY <2>5, <2>6, <3>1, ConcatProperties
    <3>. QED
      BY <2>4, <2>5, <2>6, <3>2
  <2>8. DOMAIN chainEvents' = 1 .. n + 1
    BY <2>7, LenProperties
  <2>9. /\ Sent("stop") \in ToSet(chainEvents')
        /\ ToSet(chainEvents') \subseteq {Sent("content"), Sent("stop")}
    BY <2>4, <2>7, <2>8 DEF ToSet
  <2>10. Sent("stop")' = Sent("stop") /\ Sent("content")' = Sent("content")
    BY <2>1 DEF Sent
  <2>11. ChainOutcome'
    BY <2>1, <2>9, <2>10 DEF ChainOutcome, ChainInv
  <2>. QED
    BY <1>0, <2>1, <2>7, <2>11 DEF ChainInv
<1>8. CASE UNCHANGED chainVars
  BY <1>8 DEF chainVars, ChainInv, ChainOutcome, EventKinds, Sent
<1>. QED
  BY <1>1, <1>2, <1>3, <1>4, <1>5, <1>6, <1>7, <1>8 DEF ChainNext

(* Whatever providers do: an answer has a stop among its events and is of  *)
(* one attempt of one provider, and no call is given up before each        *)
(* provider was asked unless one failed for good                           *)
(* (ProviderRuntimeClient.stream).                                         *)
THEOREM ChainEndsSoundly == ChainSpec => []ChainOutcome
<1>1. ChainInit => ChainInv
  <2>1. <<>> \in Seq(Event)
    OBVIOUS
  <2>. QED
    BY <2>1 DEF ChainInit, ChainInv, ChainOutcome
<1>2. ChainInv => ChainOutcome
  BY DEF ChainInv
<1>. QED
  BY <1>1, <1>2, ChainStep, PTL DEF ChainSpec

-----------------------------------------------------------------------------
(* Skills.                                                                 *)
SkillRecord ==
    [form: SkillForms, name: SkillNames, prompt: PromptStates, front: SkillNames \cup {NoName},
     promptBy: SkillInstallers \cup {"user", "none"},
     restBy: SkillInstallers \cup {"user", "none"}]
SkillPhases == {"idle", "checked", "copying", "failing", "done", "failed", "left", "dead"}
SkillJob ==
    [phase: SkillPhases, source: SkillSources \cup {NoName}, name: SkillNames \cup {NoName},
     todo: SUBSET {"prompt", "rest"}, alone: BOOLEAN]

SkillTypes ==
    /\ skillTree \in [SkillDirs -> Seq(SkillRecord)]
    /\ skillJobs \in [SkillInstallers -> SkillJob]
    /\ \A i \in SkillInstallers : skillJobs[i].phase # "idle" =>
           skillJobs[i].source \in SkillSources /\ skillJobs[i].name \in SkillNames

SkillAt(k) == skillTree[SkillHome][k]
InHome == 1 .. Len(skillTree[SkillHome])

\* No two directories share a name.
NamesApart ==
    \A k, l \in InHome :
        /\ SkillAt(k).form = "dir" /\ SkillAt(l).form = "dir"
        /\ SkillAt(k).name = SkillAt(l).name
        => k = l

\* The files of an install lie in its directory, and not before it is made or
\* after it was removed.
Owns(i, entry) == i = entry.promptBy \/ i = entry.restBy
FilesInPlace ==
    \A k \in InHome, i \in SkillInstallers :
        Owns(i, SkillAt(k)) =>
            /\ SkillAt(k).form = "dir" /\ SkillAt(k).name = skillJobs[i].name
            /\ skillJobs[i].phase \in {"copying", "failing", "done", "left", "dead"}

\* Beside an install that is alone no other of its name is under way, then and later.
Holding(job) == UnderWay(job) \/ job.phase = "done"
AloneIsAlone ==
    \A i, j \in SkillInstallers :
        i # j /\ skillJobs[i].alone /\ Holding(skillJobs[i]) /\ UnderWay(skillJobs[j])
            => skillJobs[i].name # skillJobs[j].name

\* What an install that is alone has copied so far is there.
CopiedBy(i, entry) ==
    LET job == skillJobs[i]
    IN  /\ entry.form = "dir" /\ entry.name = job.name
        /\ "prompt" \notin job.todo => entry.promptBy = i /\ entry.prompt = "text"
        /\ job.source.form = "dir" /\ "rest" \notin job.todo => entry.restBy = i
CopiesKept ==
    \A i \in SkillInstallers :
        /\ skillJobs[i].phase = "done" => skillJobs[i].todo = {}
        /\ skillJobs[i].alone /\ skillJobs[i].phase \in {"copying", "done"} =>
               \E k \in InHome : CopiedBy(i, SkillAt(k))

SkillInv == SkillTypes /\ NamesApart /\ FilesInPlace /\ AloneIsAlone /\ CopiesKept

LEMMA HomeFacts ==
    ASSUME SkillTypes
    PROVE  /\ Len(skillTree[SkillHome]) \in Nat
           /\ skillTree[SkillHome] \in Seq(SkillRecord)
           /\ \A k \in InHome : SkillAt(k) \in SkillRecord
<1>1. skillTree[SkillHome] \in Seq(SkillRecord)
  BY SkillAssumption DEF SkillTypes
<1>. QED
  BY <1>1, LenProperties, ElementOfSeq DEF InHome, SkillAt

\* Jobs change and the directory does not.
LEMMA JobStep ==
    ASSUME SkillInv, NEW i \in SkillInstallers, NEW phase \in SkillPhases,
           skillJobs' = [skillJobs EXCEPT ![i].phase = phase], UNCHANGED skillTree,
           UnderWay(skillJobs[i]),
           \/ phase \in {"failing", "dead"} 
           \/ phase = "done" /\ skillJobs[i].phase = "copying" /\ skillJobs[i].todo = {},
           phase = "failing" => skillJobs[i].phase = "copying"
    PROVE  SkillInv'
<1>1. /\ skillJobs \in [SkillInstallers -> SkillJob] /\ skillJobs[i] \in SkillJob
      /\ skillJobs[i].phase # "idle"
  BY DEF SkillInv, SkillTypes, UnderWay
<1>2. skillJobs' \in [SkillInstallers -> SkillJob]
  BY <1>1 DEF SkillJob
<1>3. /\ skillJobs'[i].phase = phase
      /\ skillJobs'[i].name = skillJobs[i].name /\ skillJobs'[i].source = skillJobs[i].source
      /\ skillJobs'[i].todo = skillJobs[i].todo /\ skillJobs'[i].alone = skillJobs[i].alone
  BY <1>1 DEF SkillJob
<1>4. \A j \in SkillInstallers : j # i => skillJobs'[j] = skillJobs[j]
  BY <1>1
<1>5. SkillTypes'
  BY <1>1, <1>2, <1>3, <1>4 DEF SkillInv, SkillTypes
<1>6. NamesApart'
  BY DEF SkillInv, NamesApart, InHome, SkillAt
<1>7. FilesInPlace'
  <2>1. SUFFICES ASSUME NEW k \in InHome, NEW j \in SkillInstallers, Owns(j, SkillAt(k))
                 PROVE  /\ SkillAt(k).form = "dir" /\ SkillAt(k).name = skillJobs'[j].name
                        /\ skillJobs'[j].phase \in {"copying", "failing", "done", "left", "dead"}
    BY DEF FilesInPlace, InHome, SkillAt, Owns
  <2>2. /\ SkillAt(k).form = "dir" /\ SkillAt(k).name = skillJobs[j].name
        /\ skillJobs[j].phase \in {"copying", "failing", "done", "left", "dead"}
    BY <2>1 DEF SkillInv, FilesInPlace
  <2>. QED
    BY <1>3, <1>4, <2>2
<1>8. AloneIsAlone'
  <2>1. SUFFICES ASSUME NEW a \in SkillInstallers, NEW j \in SkillInstallers, a # j,
                        skillJobs'[a].alone, Holding(skillJobs'[a]), UnderWay(skillJobs'[j])
                 PROVE  skillJobs'[a].name # skillJobs'[j].name
    BY DEF AloneIsAlone, Holding, UnderWay
  <2>2. UnderWay(skillJobs[j]) /\ Holding(skillJobs[a]) /\ skillJobs[a].alone
    BY <1>3, <1>4, <2>1 DEF UnderWay, Holding
  <2>3. skillJobs[a].name # skillJobs[j].name
    BY <2>1, <2>2 DEF SkillInv, AloneIsAlone
  <2>. QED
    BY <1>3, <1>4, <2>3
<1>9. CopiesKept'
  <2>1. ASSUME NEW j \in SkillInstallers
        PROVE  /\ skillJobs'[j].phase = "done" => skillJobs'[j].todo = {}
               /\ skillJobs'[j].alone /\ skillJobs'[j].phase \in {"copying", "done"} =>
                      skillJobs[j].alone /\ skillJobs[j].phase \in {"copying", "done"}
               /\ skillJobs'[j].todo = skillJobs[j].todo
               /\ skillJobs'[j].name = skillJobs[j].name
               /\ skillJobs'[j].source = skillJobs[j].source
    BY <1>3, <1>4 DEF SkillInv, CopiesKept
  <2>. QED
    BY <2>1 DEF SkillInv, CopiesKept, CopiedBy, InHome, SkillAt
<1>. QED
  BY <1>5, <1>6, <1>7, <1>8, <1>9 DEF SkillInv

\* An install starts where nothing of its name is, so none that is done loses.
LEMMA StartInstallStep ==
    ASSUME SkillInv, NEW i \in SkillInstallers, NEW source \in SkillSources,
           InstallStart(i, source)
    PROVE  SkillInv'
<1> DEFINE name == InstallName(source)
           rivals == {j \in SkillInstallers \ {i} :
                          UnderWay(skillJobs[j]) /\ skillJobs[j].name = name}
           new == [phase |-> "checked", source |-> source, name |-> name,
                   todo |-> {}, alone |-> rivals = {}]
<1>1. /\ skillJobs[i].phase = "idle" /\ name # NoName /\ Installed(name) = {}
      /\ skillJobs' = [j \in SkillInstallers |->
             IF j = i THEN new ELSE [skillJobs[j] EXCEPT !.alone = @ /\ j \notin rivals]]
      /\ skillTree' = skillTree
  BY DEF InstallStart
<1>2. \A j \in SkillInstallers : skillJobs[j] \in SkillJob
  BY DEF SkillInv, SkillTypes
<1>3. name \in SkillNames
  BY <1>1, SkillAssumption DEF InstallName
<1>4. skillJobs'[i] = new
  BY <1>1
<1>5. \A j \in SkillInstallers : j # i =>
          skillJobs'[j] = [skillJobs[j] EXCEPT !.alone = @ /\ j \notin rivals]
  BY <1>1
<1>6. new \in SkillJob /\ new.phase = "checked" /\ new.source = source /\ new.name = name
      /\ (new.alone => rivals = {})
  BY <1>3 DEF SkillJob, SkillPhases
<1>7. ASSUME NEW j \in SkillInstallers, j # i
      PROVE  /\ skillJobs'[j] \in SkillJob /\ skillJobs'[j].phase = skillJobs[j].phase
             /\ skillJobs'[j].source = skillJobs[j].source
             /\ skillJobs'[j].name = skillJobs[j].name
             /\ skillJobs'[j].todo = skillJobs[j].todo
             /\ skillJobs'[j].alone => skillJobs[j].alone /\ j \notin rivals
  <2> DEFINE job == skillJobs[j]
             alone == job.alone /\ j \notin rivals
  <2>1. job \in SkillJob /\ skillJobs'[j] = [job EXCEPT !.alone = alone]
    BY <1>2, <1>5, <1>7
  <2>2. alone \in BOOLEAN
    OBVIOUS
  <2>3. alone => job.alone /\ j \notin rivals
    OBVIOUS
  <2> HIDE DEF job, alone, rivals
  <2>4. /\ skillJobs'[j] \in SkillJob /\ skillJobs'[j].phase = job.phase
        /\ skillJobs'[j].source = job.source /\ skillJobs'[j].name = job.name
        /\ skillJobs'[j].todo = job.todo /\ skillJobs'[j].alone = alone
    BY <2>1, <2>2 DEF SkillJob
  <2>. QED
    BY <2>3, <2>4 DEF job
<1>8. \A j \in SkillInstallers \ {i} :
          UnderWay(skillJobs[j]) /\ skillJobs[j].name = name => j \in rivals
  OBVIOUS
<1> HIDE DEF new, rivals, name
<1>9. SkillTypes'
  <2>1. skillJobs' \in [SkillInstallers -> SkillJob]
    <3>1. skillJobs' = [j \in SkillInstallers |-> skillJobs'[j]]
      BY <1>1
    <3>2. \A j \in SkillInstallers : skillJobs'[j] \in SkillJob
      BY <1>4, <1>6, <1>7
    <3>. QED
      BY <3>1, <3>2
  <2>2. \A j \in SkillInstallers : skillJobs'[j].phase # "idle" =>
           skillJobs'[j].source \in SkillSources /\ skillJobs'[j].name \in SkillNames
    BY <1>3, <1>4, <1>6, <1>7 DEF SkillInv, SkillTypes
  <2>3. skillTree' \in [SkillDirs -> Seq(SkillRecord)]
    BY <1>1 DEF SkillInv, SkillTypes
  <2>. QED
    BY <2>1, <2>2, <2>3 DEF SkillTypes
<1>10. NamesApart'
  BY <1>1 DEF SkillInv, NamesApart, InHome, SkillAt
<1>11. FilesInPlace'
  <2>1. SUFFICES ASSUME NEW k \in InHome, NEW j \in SkillInstallers, Owns(j, SkillAt(k))
                 PROVE  /\ SkillAt(k).form = "dir" /\ SkillAt(k).name = skillJobs'[j].name
                        /\ skillJobs'[j].phase \in {"copying", "failing", "done", "left", "dead"}
    BY <1>1 DEF FilesInPlace, InHome, SkillAt, Owns
  <2>2. /\ SkillAt(k).form = "dir" /\ SkillAt(k).name = skillJobs[j].name
        /\ skillJobs[j].phase \in {"copying", "failing", "done", "left", "dead"}
    BY <2>1 DEF SkillInv, FilesInPlace
  <2>3. j # i
    BY <1>1, <2>2
  <2>. QED
    BY <1>7, <2>2, <2>3
<1>12. ASSUME NEW j \in SkillInstallers, j # i, skillJobs'[j].alone,
              skillJobs'[j].phase \in {"copying", "done"}
       PROVE  \E k \in InHome : CopiedBy(j, SkillAt(k))
  BY <1>7, <1>12 DEF SkillInv, CopiesKept
<1>13. AloneIsAlone'
  <2>1. SUFFICES ASSUME NEW a \in SkillInstallers, NEW j \in SkillInstallers, a # j,
                        skillJobs'[a].alone, Holding(skillJobs'[a]), UnderWay(skillJobs'[j])
                 PROVE  skillJobs'[a].name # skillJobs'[j].name
    BY DEF AloneIsAlone, Holding, UnderWay
  <2>2. CASE a = i
    <3>1. rivals = {}
      BY <1>4, <1>6, <2>1, <2>2
    <3>2. UnderWay(skillJobs[j]) /\ skillJobs'[j].name = skillJobs[j].name
      BY <1>7, <2>1, <2>2 DEF UnderWay
    <3>3. skillJobs[j].name # name
      BY <1>8, <2>1, <2>2, <3>1, <3>2
    <3>. QED
      BY <1>4, <1>6, <2>2, <3>2, <3>3
  <2>3. CASE j = i
    <3>1. /\ skillJobs[a].alone /\ a \notin rivals /\ Holding(skillJobs[a])
          /\ skillJobs'[a].name = skillJobs[a].name
          /\ skillJobs'[a].phase = skillJobs[a].phase
      BY <1>7, <2>1, <2>3 DEF Holding, UnderWay
    <3>2. CASE UnderWay(skillJobs[a])
      <4>1. skillJobs[a].name # name
        BY <1>8, <2>1, <2>3, <3>1, <3>2
      <4>. QED
        BY <1>4, <1>6, <2>3, <3>1, <4>1
    <3>3. CASE skillJobs[a].phase = "done"
      <4>1. PICK k \in InHome : CopiedBy(a, SkillAt(k))
        BY <1>12, <2>1, <2>3, <3>1, <3>3
      <4>2. k \in Installed(skillJobs[a].name)
        BY <4>1 DEF CopiedBy, Installed, InHome, SkillAt
      <4>3. skillJobs[a].name # name
        BY <1>1, <4>2
      <4>. QED
        BY <1>4, <1>6, <2>3, <3>1, <4>3
    <3>. QED
      BY <3>1, <3>2, <3>3 DEF Holding
  <2>4. CASE a # i /\ j # i
    <3>1. /\ skillJobs[a].alone /\ Holding(skillJobs[a]) /\ UnderWay(skillJobs[j])
          /\ skillJobs'[a].name = skillJobs[a].name /\ skillJobs'[j].name = skillJobs[j].name
      BY <1>7, <2>1, <2>4 DEF Holding, UnderWay
    <3>. QED
      BY <2>1, <3>1 DEF SkillInv, AloneIsAlone
  <2>. QED
    BY <2>2, <2>3, <2>4
<1>14. CopiesKept'
  <2>1. ASSUME NEW j \in SkillInstallers PROVE skillJobs'[j].phase = "done" => skillJobs'[j].todo = {}
    BY <1>4, <1>6, <1>7 DEF SkillInv, CopiesKept
  <2>2. ASSUME NEW j \in SkillInstallers, skillJobs'[j].alone,
               skillJobs'[j].phase \in {"copying", "done"}
        PROVE  (\E k \in InHome : CopiedBy(j, SkillAt(k)))'
    <3>1. j # i
      BY <1>4, <1>6, <2>2
    <3>2. PICK k \in InHome : CopiedBy(j, SkillAt(k))
      BY <1>12, <2>2, <3>1
    <3>3. CopiedBy(j, SkillAt(k))' /\ k \in InHome'
      BY <1>1, <1>7, <3>1, <3>2 DEF CopiedBy, SkillAt, InHome
    <3>. QED
      BY <3>3
  <2>. QED
    BY <2>1, <2>2 DEF CopiesKept
<1>. QED
  BY <1>9, <1>10, <1>11, <1>13, <1>14 DEF SkillInv

LEMMA ToggleStep ==
    ASSUME SkillInv, SkillToggle PROVE SkillInv'
<1>0. PICK dir \in SkillDirs \ {SkillHome} : \E i \in 1 .. Len(skillTree[dir]) :
          /\ skillTree[dir][i].prompt # "none"
          /\ skillTree' = [skillTree EXCEPT ![dir][i].prompt =
                 IF @ = "text" THEN "broken" ELSE "text"]
  BY Zenon DEF SkillToggle
<1>1. PICK i \in 1 .. Len(skillTree[dir]) :
          skillTree' = [skillTree EXCEPT ![dir][i].prompt =
                            IF @ = "text" THEN "broken" ELSE "text"]
  BY <1>0, Zenon
<1>2. skillJobs' = skillJobs /\ skillTree \in [SkillDirs -> Seq(SkillRecord)]
  BY DEF SkillToggle, SkillInv, SkillTypes
<1> DEFINE entries == skillTree[dir]
           entry == [entries[i] EXCEPT !.prompt = IF @ = "text" THEN "broken" ELSE "text"]
<1>3. entries \in Seq(SkillRecord) /\ entries[i] \in SkillRecord
  BY <1>1, <1>2, ElementOfSeq
<1>4. entry \in SkillRecord
  BY <1>3 DEF SkillRecord, PromptStates
<1>5. skillTree' = [skillTree EXCEPT ![dir] = [entries EXCEPT ![i] = entry]]
  BY <1>1
<1> HIDE DEF entries, entry
<1>6. [entries EXCEPT ![i] = entry] \in Seq(SkillRecord)
  BY <1>1, <1>3, <1>4, ExceptSeq DEF entries
<1> DEFINE new == [entries EXCEPT ![i] = entry]
<1>7. skillTree' = [skillTree EXCEPT ![dir] = new] /\ new \in Seq(SkillRecord)
  BY <1>5, <1>6
<1> HIDE DEF new
<1>8. skillTree' \in [SkillDirs -> Seq(SkillRecord)]
  BY <1>2, <1>7
<1>9. skillTree'[SkillHome] = skillTree[SkillHome]
  BY <1>1, <1>2, <1>7, SkillAssumption
<1>10. SkillTypes'
  BY <1>2, <1>8 DEF SkillInv, SkillTypes
<1>11. InHome' = InHome /\ \A k : SkillAt(k)' = SkillAt(k)
  BY <1>9 DEF InHome, SkillAt
<1>12. NamesApart' /\ FilesInPlace' /\ AloneIsAlone' /\ CopiesKept'
  <2>1. NamesApart' /\ FilesInPlace'
    BY <1>2, <1>11 DEF SkillInv, NamesApart, FilesInPlace, Owns
  <2>2. AloneIsAlone'
    BY <1>2 DEF SkillInv, AloneIsAlone, Holding, UnderWay
  <2>3. CopiesKept'
    BY <1>2, <1>11 DEF SkillInv, CopiesKept, CopiedBy
  <2>. QED
    BY <2>1, <2>2, <2>3
<1>. QED
  BY <1>10, <1>12 DEF SkillInv

LEMMA HomeChanged ==
    ASSUME SkillTypes, NEW new \in Seq(SkillRecord),
           skillTree' = [skillTree EXCEPT ![SkillHome] = new]
    PROVE  skillTree' \in [SkillDirs -> Seq(SkillRecord)] /\ skillTree'[SkillHome] = new
BY SkillAssumption DEF SkillTypes

LEMMA JobChanged ==
    ASSUME SkillTypes, NEW i \in SkillInstallers, NEW new \in SkillJob,
           skillJobs[i].phase # "idle", new.phase # "idle",
           new.source = skillJobs[i].source, new.name = skillJobs[i].name,
           skillTree' \in [SkillDirs -> Seq(SkillRecord)],
           skillJobs' = [skillJobs EXCEPT ![i] = new]
    PROVE  /\ SkillTypes' /\ skillJobs'[i] = new
           /\ \A j \in SkillInstallers : j # i => skillJobs'[j] = skillJobs[j]
BY DEF SkillTypes

\* The directory is new, or made by an install of the same name.
LEMMA MakeDirStep ==
    ASSUME SkillInv, NEW i \in SkillInstallers, InstallMakeDir(i) PROVE SkillInv'
<1> DEFINE job == skillJobs[i]
           home == skillTree[SkillHome]
           todo == IF job.source.form = "dir" THEN {"prompt", "rest"} ELSE {"prompt"}
           new == [job EXCEPT !.phase = "copying", !.todo = todo]
           entry == NewDir(job.name)
<1>1. /\ job.phase = "checked" /\ job \in SkillJob
      /\ job.source \in SkillSources /\ job.name \in SkillNames
  BY DEF InstallMakeDir, SkillInv, SkillTypes
<1>2. skillJobs' = [skillJobs EXCEPT ![i] = new]
  BY DEF InstallMakeDir
<1>3. new \in SkillJob /\ new.phase = "copying" /\ new.todo = todo
      /\ new.source = job.source /\ new.name = job.name /\ new.alone = job.alone
  BY <1>1 DEF SkillJob, SkillPhases
<1>4. home \in Seq(SkillRecord) /\ Len(home) \in Nat
  BY HomeFacts DEF SkillInv
<1>5. /\ entry \in SkillRecord /\ entry.form = "dir" /\ entry.name = job.name
      /\ entry.promptBy = "none" /\ entry.restBy = "none"
  BY <1>1 DEF NewDir, SkillRecord, SkillForms, PromptStates
<1>6. /\ Installed(job.name) # {} => skillTree' = skillTree
      /\ Installed(job.name) = {} =>
             skillTree' = [skillTree EXCEPT ![SkillHome] = Append(home, entry)]
  BY DEF InstallMakeDir
<1> DEFINE kept == skillTree'[SkillHome]
<1>7. /\ skillTree' \in [SkillDirs -> Seq(SkillRecord)] /\ Len(kept) \in Nat
      /\ \A k \in 1 .. Len(home) : k \in 1 .. Len(kept) /\ kept[k] = home[k]
      /\ \A k \in 1 .. Len(kept) :
             \/ k \in 1 .. Len(home)
             \/ k = Len(home) + 1 /\ kept[k] = entry /\ Installed(job.name) = {}
      /\ \E k \in 1 .. Len(kept) : kept[k].form = "dir" /\ kept[k].name = job.name
  <2>1. CASE Installed(job.name) # {}
    <3>1. skillTree' = skillTree /\ kept = home
      BY <1>6, <2>1
    <3>2. skillTree' \in [SkillDirs -> Seq(SkillRecord)]
      BY <3>1 DEF SkillInv, SkillTypes
    <3>3. \E k \in 1 .. Len(home) : home[k].form = "dir" /\ home[k].name = job.name
      BY <2>1 DEF Installed
    <3> HIDE DEF home, kept, entry, new
    <3>4. /\ Len(kept) \in Nat
          /\ \A k \in 1 .. Len(home) : k \in 1 .. Len(kept) /\ kept[k] = home[k]
          /\ \A k \in 1 .. Len(kept) : k \in 1 .. Len(home)
          /\ \E k \in 1 .. Len(kept) : kept[k].form = "dir" /\ kept[k].name = job.name
      BY <1>4, <3>1, <3>3
    <3>5. \A k \in 1 .. Len(kept) :
             \/ k \in 1 .. Len(home)
             \/ k = Len(home) + 1 /\ kept[k] = entry /\ Installed(job.name) = {}
      BY <3>4
    <3> HIDE DEF job
    <3>. QED
      BY ONLY <3>2, <3>4, <3>5
  <2>2. CASE Installed(job.name) = {}
    <3> DEFINE longer == Append(home, entry)
    <3> HIDE DEF home, entry
    <3>1. /\ longer \in Seq(SkillRecord) /\ Len(longer) = Len(home) + 1
          /\ longer[Len(home) + 1] = entry
          /\ \A k \in 1 .. Len(home) : longer[k] = home[k]
      BY <1>4, <1>5, AppendProperties
    <3>2. skillTree' = [skillTree EXCEPT ![SkillHome] = longer]
      BY <1>6, <2>2
    <3> HIDE DEF longer
    <3>3. skillTree' \in [SkillDirs -> Seq(SkillRecord)] /\ kept = longer
      BY <3>1, <3>2, HomeChanged DEF SkillInv
    <3> HIDE DEF kept
    <3>4. \A k \in 1 .. Len(home) : k \in 1 .. Len(kept) /\ kept[k] = home[k]
      BY <1>4, <3>1, <3>3
    <3>5. \A k \in 1 .. Len(kept) :
             \/ k \in 1 .. Len(home)
             \/ k = Len(home) + 1 /\ kept[k] = entry /\ Installed(job.name) = {}
      <4>1. \A k \in 1 .. Len(home) + 1 : k \in 1 .. Len(home) \/ k = Len(home) + 1
        BY <1>4
      <4>2. Len(kept) = Len(home) + 1 /\ kept[Len(home) + 1] = entry
        BY <3>1, <3>3
      <4>3. \A k \in 1 .. Len(kept) : k \in 1 .. Len(home) \/ k = Len(home) + 1
        BY <4>1, <4>2
      <4>. QED
        BY <2>2, <4>2, <4>3
    <3>6. /\ Len(home) + 1 \in 1 .. Len(kept) /\ kept[Len(home) + 1].form = "dir"
          /\ kept[Len(home) + 1].name = job.name /\ Len(kept) \in Nat
      BY <1>4, <1>5, <3>1, <3>3
    <3>7. \E k \in 1 .. Len(kept) : kept[k].form = "dir" /\ kept[k].name = job.name
      BY <3>6
    <3> HIDE DEF job
    <3>. QED
      BY ONLY <3>3, <3>4, <3>5, <3>6, <3>7
  <2>. QED
    BY <2>1, <2>2
<1>8. job.phase # "idle" /\ new.phase # "idle"
  BY <1>1, <1>3
<1>9. /\ SkillTypes' /\ skillJobs'[i] = new
      /\ \A j \in SkillInstallers : j # i => skillJobs'[j] = skillJobs[j]
  <2> HIDE DEF new
  <2>. QED
    BY <1>2, <1>3, <1>7, <1>8, JobChanged DEF SkillInv
<1> HIDE DEF new
<1>10. \A j \in SkillInstallers : skillJobs'[j].name = skillJobs[j].name
           /\ skillJobs'[j].source = skillJobs[j].source
           /\ skillJobs'[j].alone = skillJobs[j].alone
  BY <1>3, <1>9
<1> HIDE DEF entry
<1>11. /\ InHome' = 1 .. Len(kept) /\ InHome = 1 .. Len(home)
       /\ \A k : SkillAt(k)' = kept[k] /\ SkillAt(k) = home[k]
  BY DEF InHome, SkillAt
<1> HIDE DEF home, kept
<1>12. NamesApart'
  <2>1. SUFFICES ASSUME NEW k \in 1 .. Len(kept), NEW l \in 1 .. Len(kept),
                        kept[k].form = "dir", kept[l].form = "dir",
                        kept[k].name = kept[l].name
                 PROVE  k = l
    BY <1>11 DEF NamesApart
  <2>2. ASSUME NEW x \in 1 .. Len(home), home[x].form = "dir", home[x].name = job.name
        PROVE  Installed(job.name) # {}
    BY <2>2 DEF Installed, home
  <2>3. CASE k \in 1 .. Len(home) /\ l \in 1 .. Len(home)
    BY <1>7, <1>11, <2>1, <2>3 DEF SkillInv, NamesApart
  <2>4. CASE k \notin 1 .. Len(home) /\ l \in 1 .. Len(home)
    <3>1. kept[k].name = job.name /\ Installed(job.name) = {}
      BY <1>5, <1>7, <2>4
    <3>2. home[l].form = "dir" /\ home[l].name = job.name
      BY <1>7, <2>1, <2>4, <3>1
    <3>. QED
      BY <2>2, <2>4, <3>1, <3>2
  <2>5. CASE l \notin 1 .. Len(home) /\ k \in 1 .. Len(home)
    <3>1. kept[l].name = job.name /\ Installed(job.name) = {}
      BY <1>5, <1>7, <2>5
    <3>2. home[k].form = "dir" /\ home[k].name = job.name
      BY <1>7, <2>1, <2>5, <3>1
    <3>. QED
      BY <2>2, <2>5, <3>1, <3>2
  <2>6. CASE k \notin 1 .. Len(home) /\ l \notin 1 .. Len(home)
    BY <1>7, <2>6
  <2>. QED
    BY <2>3, <2>4, <2>5, <2>6
<1>13. FilesInPlace'
  <2>1. SUFFICES ASSUME NEW k \in 1 .. Len(kept), NEW j \in SkillInstallers, Owns(j, kept[k])
                 PROVE  /\ kept[k].form = "dir" /\ kept[k].name = skillJobs'[j].name
                        /\ skillJobs'[j].phase \in {"copying", "failing", "done", "left", "dead"}
    BY <1>11 DEF FilesInPlace, Owns
  <2>2. k \in 1 .. Len(home)
    <3>1. j # "none"
      BY SkillAssumption
    <3>. QED
      BY <1>5, <1>7, <2>1, <3>1 DEF Owns
  <2>3. /\ kept[k].form = "dir" /\ kept[k].name = skillJobs[j].name
        /\ skillJobs[j].phase \in {"copying", "failing", "done", "left", "dead"}
    BY <1>7, <1>11, <2>1, <2>2 DEF SkillInv, FilesInPlace
  <2>. QED
    BY <1>3, <1>9, <1>10, <2>3
<1>14. AloneIsAlone'
  <2>1. \A j \in SkillInstallers :
            /\ UnderWay(skillJobs'[j]) => UnderWay(skillJobs[j])
            /\ Holding(skillJobs'[j]) => Holding(skillJobs[j])
    BY <1>1, <1>9 DEF UnderWay, Holding
  <2>. QED
    BY <1>10, <2>1 DEF SkillInv, AloneIsAlone, Holding, UnderWay
<1>15. CopiesKept'
  <2>1. ASSUME NEW j \in SkillInstallers PROVE skillJobs'[j].phase = "done" => skillJobs'[j].todo = {}
    BY <1>3, <1>9 DEF SkillInv, CopiesKept
  <2>2. ASSUME NEW j \in SkillInstallers, skillJobs'[j].alone,
               skillJobs'[j].phase \in {"copying", "done"}
        PROVE  (\E k \in InHome : CopiedBy(j, SkillAt(k)))'
    <3>1. CASE j = i
      <4>1. PICK k \in 1 .. Len(kept) : kept[k].form = "dir" /\ kept[k].name = job.name
        BY <1>7
      <4>2. CopiedBy(j, SkillAt(k))'
        BY <1>3, <1>9, <1>11, <3>1, <4>1 DEF CopiedBy
      <4>. QED
        BY <1>11, <4>2
    <3>2. CASE j # i
      <4>1. PICK k \in InHome : CopiedBy(j, SkillAt(k))
        BY <1>9, <2>2, <3>2 DEF SkillInv, CopiesKept
      <4>2. CopiedBy(j, SkillAt(k))' /\ k \in InHome'
        BY <1>7, <1>9, <1>11, <3>2, <4>1 DEF CopiedBy
      <4>. QED
        BY <4>2
    <3>. QED
      BY <3>1, <3>2
  <2>. QED
    BY <2>1, <2>2 DEF CopiesKept
<1>. QED
  BY <1>9, <1>12, <1>13, <1>14, <1>15 DEF SkillInv

\* No copy of another install is overwritten, unless the two overlap.
LEMMA CopyStep ==
    ASSUME SkillInv, NEW i \in SkillInstallers, NEW file \in {"prompt", "rest"},
           InstallCopy(i, file)
    PROVE  SkillInv'
<1> DEFINE job == skillJobs[i]
           home == skillTree[SkillHome]
           todo == job.todo \ {file}
           new == [job EXCEPT !.todo = todo]
           withRest(k) == [home[k] EXCEPT !.restBy = i]
           withPrompt(k) == [home[k] EXCEPT !.promptBy = i, !.prompt = "text",
                                            !.front = job.source.front]
           kept == [k \in 1 .. Len(home) |->
                       IF k \notin Installed(job.name) THEN home[k]
                       ELSE IF file = "rest" THEN withRest(k) ELSE withPrompt(k)]
<1>1. /\ job.phase = "copying" /\ job \in SkillJob /\ file \in job.todo
      /\ job.source \in SkillSources /\ job.name \in SkillNames
  BY DEF InstallCopy, SkillInv, SkillTypes
<1>2. /\ skillJobs' = [skillJobs EXCEPT ![i] = new]
      /\ skillTree' = [skillTree EXCEPT ![SkillHome] = kept]
  BY DEF InstallCopy
<1>3. new \in SkillJob /\ new.phase = "copying" /\ new.todo = todo
      /\ new.source = job.source /\ new.name = job.name /\ new.alone = job.alone
  BY <1>1 DEF SkillJob
<1>4. home \in Seq(SkillRecord) /\ Len(home) \in Nat
      /\ \A k \in 1 .. Len(home) : home[k] \in SkillRecord
  BY HomeFacts DEF SkillInv, InHome, SkillAt
<1>5. job.source.front \in SkillNames \cup {NoName}
  BY <1>1, SkillAssumption
<1>6. \A k \in 1 .. Len(home) :
          /\ withRest(k) \in SkillRecord /\ withRest(k).form = home[k].form
          /\ withRest(k).name = home[k].name /\ withRest(k).prompt = home[k].prompt
          /\ withRest(k).promptBy = home[k].promptBy /\ withRest(k).restBy = i
  BY <1>4 DEF SkillRecord
<1>7. \A k \in 1 .. Len(home) :
          /\ withPrompt(k) \in SkillRecord /\ withPrompt(k).form = home[k].form
          /\ withPrompt(k).name = home[k].name /\ withPrompt(k).prompt = "text"
          /\ withPrompt(k).promptBy = i /\ withPrompt(k).restBy = home[k].restBy
  BY <1>4, <1>5 DEF SkillRecord, PromptStates
<1>8. \A k \in 1 .. Len(home) :
          kept[k] = IF k \notin Installed(job.name) THEN home[k]
                    ELSE IF file = "rest" THEN withRest(k) ELSE withPrompt(k)
  OBVIOUS
<1>9. DOMAIN kept = 1 .. Len(home)
  OBVIOUS
<1>10. \A k \in 1 .. Len(home) :
           k \in Installed(job.name) <=> home[k].form = "dir" /\ home[k].name = job.name
  BY DEF Installed
<1> HIDE DEF withRest, withPrompt
<1>11. \A k \in 1 .. Len(home) : kept[k] \in SkillRecord
  BY <1>4, <1>6, <1>7, <1>8
<1>12. kept \in Seq(SkillRecord) /\ Len(kept) = Len(home)
  <2>1. kept = [k \in 1 .. Len(home) |-> kept[k]]
    BY <1>9
  <2> HIDE DEF kept, home
  <2>2. kept \in [1 .. Len(home) -> SkillRecord]
    BY <1>11, <2>1
  <2>3. kept \in Seq(SkillRecord)
    BY <1>4, <2>2, SeqDef
  <2>. QED
    BY <1>4, <1>9, <2>3, LenProperties
<1> HIDE DEF kept
<1>13. skillTree' \in [SkillDirs -> Seq(SkillRecord)] /\ skillTree'[SkillHome] = kept
  BY <1>2, <1>12, HomeChanged DEF SkillInv
<1>14. job.phase # "idle" /\ new.phase # "idle"
  BY <1>1, <1>3
<1> HIDE DEF new
<1>15. /\ SkillTypes' /\ skillJobs'[i] = new
       /\ \A j \in SkillInstallers : j # i => skillJobs'[j] = skillJobs[j]
  BY <1>2, <1>3, <1>13, <1>14, JobChanged DEF SkillInv
<1>16. \A j \in SkillInstallers :
           /\ skillJobs'[j].name = skillJobs[j].name
           /\ skillJobs'[j].source = skillJobs[j].source
           /\ skillJobs'[j].alone = skillJobs[j].alone
           /\ skillJobs'[j].phase = skillJobs[j].phase
  BY <1>1, <1>3, <1>15
<1>17. /\ InHome' = 1 .. Len(home) /\ InHome = 1 .. Len(home)
       /\ \A k : SkillAt(k)' = kept[k] /\ SkillAt(k) = home[k]
  BY <1>12, <1>13 DEF InHome, SkillAt
<1>18. \A k \in 1 .. Len(home) : kept[k].form = home[k].form /\ kept[k].name = home[k].name
  BY <1>6, <1>7, <1>8
<1>19. \A k \in 1 .. Len(home) : k \notin Installed(job.name) => kept[k] = home[k]
  BY <1>8
<1>20. ASSUME NEW k \in 1 .. Len(home), NEW j, Owns(j, kept[k])
       PROVE  Owns(j, home[k]) \/ (j = i /\ k \in Installed(job.name))
  <2>1. CASE k \notin Installed(job.name)
    BY <1>19, <1>20, <2>1
  <2>2. CASE k \in Installed(job.name) /\ file = "rest"
    <3>1. kept[k].promptBy = home[k].promptBy /\ kept[k].restBy = i
      BY <1>6, <1>8, <2>2
    <3>. QED
      BY <1>20, <2>2, <3>1 DEF Owns
  <2>3. CASE k \in Installed(job.name) /\ file = "prompt"
    <3>1. kept[k].promptBy = i /\ kept[k].restBy = home[k].restBy
      BY <1>7, <1>8, <2>3
    <3>. QED
      BY <1>20, <2>3, <3>1 DEF Owns
  <2>. QED
    BY <2>1, <2>2, <2>3
<1> HIDE DEF home
<1>21. NamesApart'
  BY <1>17, <1>18 DEF SkillInv, NamesApart
<1>22. FilesInPlace'
  <2>1. SUFFICES ASSUME NEW k \in 1 .. Len(home), NEW j \in SkillInstallers, Owns(j, kept[k])
                 PROVE  /\ kept[k].form = "dir" /\ kept[k].name = skillJobs'[j].name
                        /\ skillJobs'[j].phase \in {"copying", "failing", "done", "left", "dead"}
    BY <1>17 DEF FilesInPlace, Owns
  <2>2. CASE Owns(j, home[k])
    <3>1. /\ home[k].form = "dir" /\ home[k].name = skillJobs[j].name
          /\ skillJobs[j].phase \in {"copying", "failing", "done", "left", "dead"}
      BY <1>17, <2>2 DEF SkillInv, FilesInPlace
    <3>. QED
      BY <1>16, <1>18, <3>1
  <2>3. CASE j = i /\ k \in Installed(job.name)
    BY <1>1, <1>10, <1>16, <1>18, <2>3
  <2>. QED
    BY <1>20, <2>1, <2>2, <2>3
<1>23. AloneIsAlone'
  BY <1>16 DEF SkillInv, AloneIsAlone, Holding, UnderWay
<1>24. CopiesKept'
  <2>1. ASSUME NEW j \in SkillInstallers PROVE skillJobs'[j].phase = "done" => skillJobs'[j].todo = {}
    BY <1>1, <1>3, <1>15 DEF SkillInv, CopiesKept
  <2>2. ASSUME NEW j \in SkillInstallers, skillJobs'[j].alone,
               skillJobs'[j].phase \in {"copying", "done"}
        PROVE  (\E k \in InHome : CopiedBy(j, SkillAt(k)))'
    <3>1. PICK k \in 1 .. Len(home) : CopiedBy(j, home[k])
      BY <1>16, <1>17, <2>2 DEF SkillInv, CopiesKept
    <3>2. CASE j = i
      <4>1. /\ k \in Installed(job.name)
            /\ kept[k].form = "dir" /\ kept[k].name = job.name
            /\ "prompt" \notin job.todo => home[k].promptBy = i /\ home[k].prompt = "text"
            /\ job.source.form = "dir" /\ "rest" \notin job.todo => home[k].restBy = i
        BY <1>10, <1>18, <3>1, <3>2 DEF CopiedBy
      <4>2. "prompt" \notin todo => kept[k].promptBy = i /\ kept[k].prompt = "text"
        <5>1. CASE file = "prompt"
          BY <1>7, <1>8, <4>1, <5>1
        <5>2. CASE file = "rest"
          BY <1>6, <1>8, <4>1, <5>2
        <5>. QED
          BY <5>1, <5>2
      <4>3. job.source.form = "dir" /\ "rest" \notin todo => kept[k].restBy = i
        <5>1. CASE file = "prompt"
          BY <1>7, <1>8, <4>1, <5>1
        <5>2. CASE file = "rest"
          BY <1>6, <1>8, <4>1, <5>2
        <5>. QED
          BY <5>1, <5>2
      <4>4. CopiedBy(j, SkillAt(k))'
        BY <1>3, <1>15, <1>17, <3>2, <4>1, <4>2, <4>3 DEF CopiedBy
      <4>. QED
        BY <1>17, <4>4
    <3>3. CASE j # i
      <4>1. skillJobs[j].name # job.name
        BY <1>1, <1>16, <2>2, <3>3 DEF SkillInv, AloneIsAlone, Holding, UnderWay
      <4>2. kept[k] = home[k]
        BY <1>10, <1>19, <3>1, <4>1 DEF CopiedBy
      <4>3. CopiedBy(j, SkillAt(k))'
        BY <1>15, <1>17, <3>1, <3>3, <4>2 DEF CopiedBy
      <4>. QED
        BY <1>17, <4>3
    <3>. QED
      BY <3>2, <3>3
  <2>. QED
    BY <2>1, <2>2 DEF CopiesKept
<1>. QED
  BY <1>15, <1>21, <1>22, <1>23, <1>24 DEF SkillInv

\* An entry with other files.
WithFiles(entry, prompt, front, promptBy, restBy) ==
    [entry EXCEPT !.prompt = prompt, !.front = front, !.promptBy = promptBy, !.restBy = restBy]

LEMMA WithFilesFacts ==
    ASSUME NEW entry \in SkillRecord, NEW prompt \in PromptStates,
           NEW front \in SkillNames \cup {NoName},
           NEW promptBy \in SkillInstallers \cup {"user", "none"},
           NEW restBy \in SkillInstallers \cup {"user", "none"}
    PROVE  /\ WithFiles(entry, prompt, front, promptBy, restBy) \in SkillRecord
           /\ WithFiles(entry, prompt, front, promptBy, restBy).form = entry.form
           /\ WithFiles(entry, prompt, front, promptBy, restBy).name = entry.name
           /\ WithFiles(entry, prompt, front, promptBy, restBy).promptBy = promptBy
           /\ WithFiles(entry, prompt, front, promptBy, restBy).restBy = restBy
BY DEF SkillRecord, WithFiles

LEMMA WithoutFacts ==
    ASSUME NEW entry \in SkillRecord, NEW gone
    PROVE  LET less == Without(entry, gone)
           IN  /\ less \in SkillRecord /\ less.form = entry.form /\ less.name = entry.name
               /\ less.promptBy \in {entry.promptBy, "none"}
               /\ less.restBy \in {entry.restBy, "none"}
<1> DEFINE prompt == IF "prompt" \in gone THEN "none" ELSE entry.prompt
           front == IF "prompt" \in gone THEN NoName ELSE entry.front
           promptBy == IF "prompt" \in gone THEN "none" ELSE entry.promptBy
           restBy == IF "rest" \in gone THEN "none" ELSE entry.restBy
<1>1. /\ entry.prompt \in PromptStates /\ entry.front \in SkillNames \cup {NoName}
      /\ entry.promptBy \in SkillInstallers \cup {"user", "none"}
      /\ entry.restBy \in SkillInstallers \cup {"user", "none"}
  BY DEF SkillRecord
<1>2. /\ prompt \in PromptStates /\ front \in SkillNames \cup {NoName}
      /\ promptBy \in SkillInstallers \cup {"user", "none"}
      /\ restBy \in SkillInstallers \cup {"user", "none"}
      /\ promptBy \in {entry.promptBy, "none"} /\ restBy \in {entry.restBy, "none"}
  BY <1>1 DEF PromptStates
<1> DEFINE less == WithFiles(entry, prompt, front, promptBy, restBy)
<1>3. Without(entry, gone) = less
  BY DEF Without, WithFiles
<1> HIDE DEF prompt, front, promptBy, restBy
<1>4. /\ less \in SkillRecord /\ less.form = entry.form /\ less.name = entry.name
      /\ less.promptBy = promptBy /\ less.restBy = restBy
  BY <1>2, WithFilesFacts
<1> HIDE DEF less
<1>. QED
  BY <1>2, <1>3, <1>4

\* A removal that fails takes files away from no install but those that overlap.
LEMMA RemoveFailsStep ==
    ASSUME SkillInv, NEW i \in SkillInstallers, InstallRemoveFails(i) PROVE SkillInv'
<1> DEFINE job == skillJobs[i]
           home == skillTree[SkillHome]
           new == [job EXCEPT !.phase = "left"]
<1>1. /\ job.phase = "failing" /\ job \in SkillJob
      /\ job.source \in SkillSources /\ job.name \in SkillNames
  BY DEF InstallRemoveFails, SkillInv, SkillTypes
<1>2. PICK gone \in SUBSET {"prompt", "rest"} :
          skillTree' = [skillTree EXCEPT ![SkillHome] = [k \in 1 .. Len(home) |->
              IF k \in Installed(job.name) THEN Without(home[k], gone) ELSE home[k]]]
  BY DEF InstallRemoveFails
<1> DEFINE kept == [k \in 1 .. Len(home) |->
              IF k \in Installed(job.name) THEN Without(home[k], gone) ELSE home[k]]
<1>3. new \in SkillJob /\ new.phase = "left" /\ new.todo = job.todo
      /\ new.source = job.source /\ new.name = job.name /\ new.alone = job.alone
  BY <1>1 DEF SkillJob, SkillPhases
<1>4. home \in Seq(SkillRecord) /\ Len(home) \in Nat
      /\ \A k \in 1 .. Len(home) : home[k] \in SkillRecord
  BY HomeFacts DEF SkillInv, InHome, SkillAt
<1>5. DOMAIN kept = 1 .. Len(home)
  OBVIOUS
<1>6. \A k \in 1 .. Len(home) :
          kept[k] = IF k \in Installed(job.name) THEN Without(home[k], gone) ELSE home[k]
  OBVIOUS
<1>7. \A k \in 1 .. Len(home) :
          k \in Installed(job.name) <=> home[k].form = "dir" /\ home[k].name = job.name
  BY DEF Installed
<1>8. skillTree' = [skillTree EXCEPT ![SkillHome] = kept]
      /\ skillJobs' = [skillJobs EXCEPT ![i] = new]
  BY <1>2 DEF InstallRemoveFails
<1> HIDE DEF kept, home
<1>9. ASSUME NEW k \in 1 .. Len(home)
      PROVE  /\ kept[k] \in SkillRecord
             /\ kept[k].form = home[k].form /\ kept[k].name = home[k].name
             /\ kept[k].promptBy \in {home[k].promptBy, "none"}
             /\ kept[k].restBy \in {home[k].restBy, "none"}
  <2>1. CASE k \in Installed(job.name)
    <3>1. kept[k] = Without(home[k], gone) /\ home[k] \in SkillRecord
      BY <1>4, <1>6, <2>1
    <3>. QED
      BY <3>1, WithoutFacts
  <2>2. CASE k \notin Installed(job.name)
    BY <1>4, <1>6, <2>2
  <2>. QED
    BY <2>1, <2>2
<1>10. \A k \in 1 .. Len(home) : k \notin Installed(job.name) => kept[k] = home[k]
  BY <1>6
<1>11. kept \in Seq(SkillRecord) /\ Len(kept) = Len(home)
  <2>1. kept = [k \in 1 .. Len(home) |-> kept[k]]
    BY <1>5 DEF kept
  <2>2. kept \in [1 .. Len(home) -> SkillRecord]
    BY <1>9, <2>1
  <2>3. kept \in Seq(SkillRecord)
    BY <1>4, <2>2, SeqDef
  <2>. QED
    BY <1>4, <1>5, <2>3, LenProperties
<1>12. skillTree' \in [SkillDirs -> Seq(SkillRecord)] /\ skillTree'[SkillHome] = kept
  BY <1>8, <1>11, HomeChanged DEF SkillInv
<1>13. job.phase # "idle" /\ new.phase # "idle"
  BY <1>1, <1>3
<1> HIDE DEF new
<1>14. /\ SkillTypes' /\ skillJobs'[i] = new
       /\ \A j \in SkillInstallers : j # i => skillJobs'[j] = skillJobs[j]
  BY <1>1, <1>3, <1>8, <1>12, <1>13, JobChanged DEF SkillInv
<1>15. \A j \in SkillInstallers :
           /\ skillJobs'[j].name = skillJobs[j].name
           /\ skillJobs'[j].source = skillJobs[j].source
           /\ skillJobs'[j].alone = skillJobs[j].alone
           /\ skillJobs'[j].todo = skillJobs[j].todo
  BY <1>3, <1>14
<1>16. /\ InHome' = 1 .. Len(home) /\ InHome = 1 .. Len(home)
       /\ \A k : SkillAt(k)' = kept[k] /\ SkillAt(k) = home[k]
  BY <1>11, <1>12 DEF InHome, SkillAt, home
<1>17. NamesApart'
  BY <1>9, <1>16 DEF SkillInv, NamesApart
<1>18. FilesInPlace'
  <2>1. SUFFICES ASSUME NEW k \in 1 .. Len(home), NEW j \in SkillInstallers, Owns(j, kept[k])
                 PROVE  /\ kept[k].form = "dir" /\ kept[k].name = skillJobs'[j].name
                        /\ skillJobs'[j].phase \in {"copying", "failing", "done", "left", "dead"}
    BY <1>16 DEF FilesInPlace, Owns
  <2>2. Owns(j, home[k])
    BY <1>9, <2>1, SkillAssumption DEF Owns
  <2>3. /\ home[k].form = "dir" /\ home[k].name = skillJobs[j].name
        /\ skillJobs[j].phase \in {"copying", "failing", "done", "left", "dead"}
    BY <1>16, <2>2 DEF SkillInv, FilesInPlace
  <2>. QED
    BY <1>3, <1>9, <1>14, <1>15, <2>3
<1>19. AloneIsAlone'
  <2>1. \A j \in SkillInstallers :
            /\ UnderWay(skillJobs'[j]) => UnderWay(skillJobs[j])
            /\ Holding(skillJobs'[j]) => Holding(skillJobs[j])
    BY <1>1, <1>3, <1>14 DEF UnderWay, Holding
  <2>. QED
    BY <1>15, <2>1 DEF SkillInv, AloneIsAlone, Holding, UnderWay
<1>20. CopiesKept'
  <2>1. ASSUME NEW j \in SkillInstallers PROVE skillJobs'[j].phase = "done" => skillJobs'[j].todo = {}
    BY <1>1, <1>3, <1>14 DEF SkillInv, CopiesKept
  <2>2. ASSUME NEW j \in SkillInstallers, skillJobs'[j].alone,
               skillJobs'[j].phase \in {"copying", "done"}
        PROVE  (\E k \in InHome : CopiedBy(j, SkillAt(k)))'
    <3>1. j # i /\ skillJobs'[j] = skillJobs[j]
      BY <1>3, <1>14, <2>2
    <3>2. PICK k \in 1 .. Len(home) : CopiedBy(j, home[k])
      BY <1>16, <2>2, <3>1 DEF SkillInv, CopiesKept
    <3>3. skillJobs[j].name # job.name
      BY <1>1, <2>2, <3>1 DEF SkillInv, AloneIsAlone, Holding, UnderWay
    <3>4. kept[k] = home[k]
      BY <1>7, <1>10, <3>2, <3>3 DEF CopiedBy
    <3>5. CopiedBy(j, SkillAt(k))'
      BY <1>16, <3>1, <3>2, <3>4 DEF CopiedBy
    <3>. QED
      BY <1>16, <3>5
  <2>. QED
    BY <2>1, <2>2 DEF CopiesKept
<1>. QED
  BY <1>14, <1>17, <1>18, <1>19, <1>20 DEF SkillInv

\* What is left of a sequence without one of its elements.
LEMMA RemoveAtFacts ==
    ASSUME NEW S, NEW s \in Seq(S), NEW at \in 1 .. Len(s)
    PROVE  /\ RemoveAt(s, at) \in Seq(S) /\ Len(RemoveAt(s, at)) = Len(s) - 1
           /\ \A k \in 1 .. at - 1 : RemoveAt(s, at)[k] = s[k]
           /\ \A k \in at .. Len(s) - 1 : RemoveAt(s, at)[k] = s[k + 1]
<1> DEFINE left == SubSeq(s, 1, at - 1)
           right == SubSeq(s, at + 1, Len(s))
<1>1. Len(s) \in Nat /\ at \in Nat /\ 1 <= at /\ at <= Len(s)
  BY LenProperties
<1>2. left \in Seq(S) /\ Len(left) = at - 1 /\ \A k \in 1 .. at - 1 : left[k] = s[k]
  <2>1. \A k \in 1 .. at - 1 : k \in 1 .. Len(s)
    BY <1>1
  <2>2. \A k \in 1 .. at - 1 : s[k] \in S
    BY <2>1, ElementOfSeq
  <2>. QED
    BY <1>1, <2>1, <2>2, SubSeqProperties
<1>3. right \in Seq(S) /\ Len(right) = Len(s) - at /\ \A k \in 1 .. Len(s) - at : right[k] = s[at + k]
  <2>1. \A k \in at + 1 .. Len(s) : s[k] \in S
    BY <1>1, ElementOfSeq
  <2>2. /\ right \in Seq(S) /\ Len(right) = IF at + 1 <= Len(s) THEN Len(s) - (at + 1) + 1 ELSE 0
        /\ \A k \in 1 .. Len(s) - (at + 1) + 1 : right[k] = s[at + 1 + k - 1]
    BY <1>1, <2>1, SubSeqProperties
  <2> HIDE DEF right
  <2>3. Len(s) - (at + 1) + 1 = Len(s) - at
    BY <1>1
  <2>4. Len(right) = Len(s) - at
    BY <1>1, <2>2
  <2>5. ASSUME NEW k \in 1 .. Len(s) - at PROVE right[k] = s[at + k]
    <3>1. at + 1 + k - 1 = at + k
      BY <1>1
    <3>. QED
      BY <2>2, <2>3, <3>1
  <2>. QED
    BY <2>2, <2>4, <2>5
<1>4. RemoveAt(s, at) = left \o right
  BY DEF RemoveAt
<1> HIDE DEF left, right
<1> DEFINE both == left \o right
<1>5. /\ both \in Seq(S) /\ Len(both) = Len(left) + Len(right)
      /\ \A k \in 1 .. Len(left) + Len(right) :
             both[k] = IF k <= Len(left) THEN left[k] ELSE right[k - Len(left)]
  BY <1>2, <1>3, ConcatProperties
<1> HIDE DEF both
<1>6. Len(left) + Len(right) = Len(s) - 1 /\ Len(both) = Len(s) - 1
  BY <1>1, <1>2, <1>3, <1>5
<1>7. \A k \in 1 .. Len(s) - 1 : both[k] = IF k <= at - 1 THEN left[k] ELSE right[k - (at - 1)]
  BY <1>2, <1>5, <1>6
<1>8. \A k \in 1 .. at - 1 : both[k] = s[k]
  BY <1>1, <1>2, <1>7
<1>9. ASSUME NEW k \in at .. Len(s) - 1 PROVE both[k] = s[k + 1]
  <2>1. k \in 1 .. Len(s) - 1 /\ ~(k <= at - 1) /\ k - (at - 1) \in 1 .. Len(s) - at
        /\ at + (k - (at - 1)) = k + 1
    BY <1>1
  <2>2. both[k] = right[k - (at - 1)]
    BY <1>7, <2>1
  <2>. QED
    BY <1>3, <2>1, <2>2
<1>. QED
  BY <1>4, <1>5, <1>6, <1>8, <1>9 DEF both

\* What an install that failed removes is its own, unless the two overlap.
LEMMA RemoveStep ==
    ASSUME SkillInv, NEW i \in SkillInstallers, InstallRemove(i) PROVE SkillInv'
<1> DEFINE job == skillJobs[i]
           home == skillTree[SkillHome]
           new == [job EXCEPT !.phase = "failed"]
           kept == skillTree'[SkillHome]
           There(k) == k \in 1 .. Len(home) /\ home[k].form = "dir" /\ home[k].name = job.name
<1>1. /\ job.phase = "failing" /\ job \in SkillJob
      /\ job.source \in SkillSources /\ job.name \in SkillNames
  BY DEF InstallRemove, SkillInv, SkillTypes
<1>2. skillJobs' = [skillJobs EXCEPT ![i] = new]
  BY DEF InstallRemove
<1>3. new \in SkillJob /\ new.phase = "failed" /\ new.todo = job.todo
      /\ new.source = job.source /\ new.name = job.name /\ new.alone = job.alone
  BY <1>1 DEF SkillJob, SkillPhases
<1>4. home \in Seq(SkillRecord) /\ Len(home) \in Nat
  BY HomeFacts DEF SkillInv
<1>5. \A k : k \in Installed(job.name) <=> There(k)
  BY DEF Installed
<1>6. \A k, l : There(k) /\ There(l) => k = l
  BY DEF SkillInv, NamesApart, InHome, SkillAt
\* Every entry that is left was there, under another name; all such are left.
<1>7. /\ skillTree' \in [SkillDirs -> Seq(SkillRecord)] /\ Len(kept) \in Nat
      /\ \E was \in [1 .. Len(kept) -> 1 .. Len(home)] :
             /\ \A k \in 1 .. Len(kept) : kept[k] = home[was[k]] /\ ~There(was[k])
             /\ \A k, l \in 1 .. Len(kept) : was[k] = was[l] => k = l
             /\ \A l \in 1 .. Len(home) : ~There(l) => \E k \in 1 .. Len(kept) : was[k] = l
  <2>1. CASE Installed(job.name) = {} /\ skillTree' = skillTree
    <3>1. kept = home /\ skillTree' \in [SkillDirs -> Seq(SkillRecord)]
      BY <2>1 DEF SkillInv, SkillTypes
    <3> DEFINE was == [k \in 1 .. Len(home) |-> k]
    <3>2. \A k : ~There(k)
      BY <1>5, <2>1
    <3> HIDE DEF home, kept, There
    <3>3. /\ was \in [1 .. Len(kept) -> 1 .. Len(home)]
          /\ \A k \in 1 .. Len(kept) : was[k] = k
      BY <3>1
    <3> HIDE DEF was
    <3>4. \A k \in 1 .. Len(kept) : kept[k] = home[was[k]] /\ ~There(was[k])
      BY <3>1, <3>2, <3>3
    <3>5. \A k, l \in 1 .. Len(kept) : was[k] = was[l] => k = l
      BY <3>3
    <3>6. \A l \in 1 .. Len(home) : ~There(l) => \E k \in 1 .. Len(kept) : was[k] = l
      BY <3>1, <3>3
    <3>. QED
      BY <1>4, <3>1, <3>3, <3>4, <3>5, <3>6
  <2>2. ASSUME NEW at \in Installed(job.name),
               skillTree' = [skillTree EXCEPT ![SkillHome] = RemoveAt(home, at)]
        PROVE  /\ skillTree' \in [SkillDirs -> Seq(SkillRecord)] /\ Len(kept) \in Nat
               /\ \E was \in [1 .. Len(kept) -> 1 .. Len(home)] :
                     /\ \A k \in 1 .. Len(kept) : kept[k] = home[was[k]] /\ ~There(was[k])
                     /\ \A k, l \in 1 .. Len(kept) : was[k] = was[l] => k = l
                     /\ \A l \in 1 .. Len(home) : ~There(l) =>
                            \E k \in 1 .. Len(kept) : was[k] = l
    <3> DEFINE less == RemoveAt(home, at)
    <3>1. There(at) /\ at \in 1 .. Len(home)
      BY <1>5
    <3> HIDE DEF home, There
    <3>2. /\ less \in Seq(SkillRecord) /\ Len(less) = Len(home) - 1
          /\ \A k \in 1 .. at - 1 : less[k] = home[k]
          /\ \A k \in at .. Len(home) - 1 : less[k] = home[k + 1]
      BY <1>4, <3>1, RemoveAtFacts
    <3>3. skillTree' = [skillTree EXCEPT ![SkillHome] = less]
      BY <2>2
    <3> HIDE DEF less
    <3>4. skillTree' \in [SkillDirs -> Seq(SkillRecord)] /\ kept = less
      BY <3>2, <3>3, HomeChanged DEF SkillInv
    <3> HIDE DEF kept
    <3>5. Len(kept) = Len(home) - 1 /\ Len(kept) \in Nat
      BY <1>4, <3>1, <3>2, <3>4
    <3> DEFINE was == [k \in 1 .. Len(kept) |-> IF k < at THEN k ELSE k + 1]
    <3>6. /\ was \in [1 .. Len(kept) -> 1 .. Len(home)]
          /\ \A k \in 1 .. Len(kept) : was[k] = IF k < at THEN k ELSE k + 1
      BY <1>4, <3>1, <3>5
    <3> HIDE DEF was
    <3>7. ASSUME NEW k \in 1 .. Len(kept) PROVE kept[k] = home[was[k]] /\ ~There(was[k])
      <4>1. was[k] # at
        BY <1>4, <3>1, <3>6
      <4>2. CASE k < at
        BY <1>4, <1>6, <3>1, <3>2, <3>4, <3>6, <4>1, <4>2
      <4>3. CASE ~(k < at)
        <5>1. k \in at .. Len(home) - 1
          BY <1>4, <3>1, <3>5, <4>3
        <5>. QED
          BY <1>6, <3>1, <3>2, <3>4, <3>6, <4>1, <4>3, <5>1
      <4>. QED
        BY <4>2, <4>3
    <3>8. \A k, l \in 1 .. Len(kept) : was[k] = was[l] => k = l
      BY <1>4, <3>1, <3>5, <3>6
    <3>9. ASSUME NEW l \in 1 .. Len(home), ~There(l) PROVE \E k \in 1 .. Len(kept) : was[k] = l
      <4>1. l # at
        BY <3>1, <3>9
      <4>2. CASE l < at
        <5>1. l \in 1 .. Len(kept) /\ was[l] = l
          BY <1>4, <3>1, <3>5, <3>6, <4>2
        <5>. QED
          BY <5>1
      <4>3. CASE at < l
        <5>1. l - 1 \in 1 .. Len(kept) /\ was[l - 1] = l
          BY <1>4, <3>1, <3>5, <3>6, <4>3
        <5>. QED
          BY <5>1
      <4>. QED
        BY <1>4, <3>1, <4>1, <4>2, <4>3
    <3>. QED
      BY <3>4, <3>5, <3>6, <3>7, <3>8, <3>9
  <2>3. \/ Installed(job.name) = {} /\ skillTree' = skillTree
        \/ \E at \in Installed(job.name) :
               skillTree' = [skillTree EXCEPT ![SkillHome] = RemoveAt(home, at)]
    BY DEF InstallRemove
  <2> HIDE DEF job, home, kept, There
  <2>. QED
    BY <2>1, <2>2, <2>3
<1>8. job.phase # "idle" /\ new.phase # "idle"
  BY <1>1, <1>3
<1> HIDE DEF new
<1>9. /\ SkillTypes' /\ skillJobs'[i] = new
      /\ \A j \in SkillInstallers : j # i => skillJobs'[j] = skillJobs[j]
  BY <1>2, <1>3, <1>7, <1>8, JobChanged DEF SkillInv
<1>10. \A j \in SkillInstallers :
           /\ skillJobs'[j].name = skillJobs[j].name
           /\ skillJobs'[j].source = skillJobs[j].source
           /\ skillJobs'[j].alone = skillJobs[j].alone
  BY <1>3, <1>9
<1>11. /\ InHome' = 1 .. Len(kept) /\ InHome = 1 .. Len(home)
       /\ \A k : SkillAt(k)' = kept[k] /\ SkillAt(k) = home[k]
  BY DEF InHome, SkillAt
<1>12. PICK was \in [1 .. Len(kept) -> 1 .. Len(home)] :
           /\ \A k \in 1 .. Len(kept) : kept[k] = home[was[k]] /\ ~There(was[k])
           /\ \A k, l \in 1 .. Len(kept) : was[k] = was[l] => k = l
           /\ \A l \in 1 .. Len(home) : ~There(l) => \E k \in 1 .. Len(kept) : was[k] = l
  BY <1>7
<1> HIDE DEF home, kept
<1>13. NamesApart'
  <2>1. SUFFICES ASSUME NEW k \in 1 .. Len(kept), NEW l \in 1 .. Len(kept),
                        kept[k].form = "dir", kept[l].form = "dir",
                        kept[k].name = kept[l].name
                 PROVE  k = l
    BY <1>11 DEF NamesApart
  <2>2. /\ was[k] \in 1 .. Len(home) /\ kept[k] = home[was[k]]
        /\ was[l] \in 1 .. Len(home) /\ kept[l] = home[was[l]]
    BY <1>12
  <2>3. \A x, y \in 1 .. Len(home) :
            home[x].form = "dir" /\ home[y].form = "dir" /\ home[x].name = home[y].name => x = y
    BY <1>11 DEF SkillInv, NamesApart
  <2>4. was[k] = was[l]
    BY <2>1, <2>2, <2>3
  <2>. QED
    BY <1>12, <2>4
<1>14. FilesInPlace'
  <2>1. SUFFICES ASSUME NEW k \in 1 .. Len(kept), NEW j \in SkillInstallers, Owns(j, kept[k])
                 PROVE  /\ kept[k].form = "dir" /\ kept[k].name = skillJobs'[j].name
                        /\ skillJobs'[j].phase \in {"copying", "failing", "done", "left", "dead"}
    BY <1>11 DEF FilesInPlace, Owns
  <2>2. kept[k] = home[was[k]] /\ was[k] \in 1 .. Len(home) /\ ~There(was[k])
    BY <1>12
  <2>3. /\ kept[k].form = "dir" /\ kept[k].name = skillJobs[j].name
        /\ skillJobs[j].phase \in {"copying", "failing", "done", "left", "dead"}
    BY <1>11, <2>1, <2>2 DEF SkillInv, FilesInPlace
  <2>4. j # i
    BY <2>2, <2>3
  <2>. QED
    BY <1>9, <2>3, <2>4
<1>15. AloneIsAlone'
  <2>1. \A j \in SkillInstallers :
            /\ UnderWay(skillJobs'[j]) => UnderWay(skillJobs[j])
            /\ Holding(skillJobs'[j]) => Holding(skillJobs[j])
    BY <1>1, <1>3, <1>9 DEF UnderWay, Holding
  <2>. QED
    BY <1>10, <2>1 DEF SkillInv, AloneIsAlone, Holding, UnderWay
<1>16. CopiesKept'
  <2>1. ASSUME NEW j \in SkillInstallers PROVE skillJobs'[j].phase = "done" => skillJobs'[j].todo = {}
    BY <1>3, <1>9 DEF SkillInv, CopiesKept
  <2>2. ASSUME NEW j \in SkillInstallers, skillJobs'[j].alone,
               skillJobs'[j].phase \in {"copying", "done"}
        PROVE  (\E k \in InHome : CopiedBy(j, SkillAt(k)))'
    <3>1. j # i
      BY <1>3, <1>9, <2>2
    <3>2. PICK l \in 1 .. Len(home) : CopiedBy(j, home[l])
      BY <1>9, <1>11, <2>2, <3>1 DEF SkillInv, CopiesKept
    <3>3. skillJobs[j].name # job.name
      BY <1>1, <1>9, <2>2, <3>1 DEF SkillInv, AloneIsAlone, Holding, UnderWay
    <3>4. ~There(l)
      BY <3>2, <3>3 DEF CopiedBy
    <3>5. PICK k \in 1 .. Len(kept) : was[k] = l
      BY <1>12, <3>4
    <3>6. CopiedBy(j, SkillAt(k))'
      BY <1>9, <1>11, <1>12, <3>1, <3>2, <3>5 DEF CopiedBy
    <3>. QED
      BY <1>11, <3>6
  <2>. QED
    BY <2>1, <2>2 DEF CopiesKept
<1>. QED
  BY <1>9, <1>13, <1>14, <1>15, <1>16 DEF SkillInv

\* What the user put into the directory is no install's.
LEMMA SkillInitHolds == SkillInit => SkillInv
<1> SUFFICES ASSUME SkillInit PROVE SkillInv
  OBVIOUS
<1> DEFINE start == [phase |-> "idle", source |-> NoName, name |-> NoName, todo |-> {}, alone |-> TRUE]
           home == skillTree[SkillHome]
           trees == {<<>>} \cup {<<entry>> : entry \in SkillEntries}
<1>1. skillJobs = [i \in SkillInstallers |-> start]
  BY DEF SkillInit
<1>2. start \in SkillJob /\ start.phase = "idle"
  BY DEF SkillJob, SkillPhases
<1>3. \A entry \in SkillEntries :
          entry \in SkillRecord /\ entry.promptBy = "user" /\ entry.restBy = "user"
  BY SkillAssumption DEF SkillRecord
<1>4. ASSUME NEW tree \in trees
      PROVE  /\ tree \in Seq(SkillRecord) /\ Len(tree) \in {0, 1}
             /\ \A k \in 1 .. Len(tree) : k = 1 /\ tree[k] \in SkillEntries
  <2>1. CASE tree = <<>>
    BY <2>1
  <2>2. ASSUME NEW entry \in SkillEntries, tree = <<entry>>
        PROVE  /\ tree \in Seq(SkillRecord) /\ Len(tree) = 1
               /\ \A k \in 1 .. 1 : k = 1 /\ tree[k] \in SkillEntries
    BY <1>3, <2>2
  <2>. QED
    BY <2>1, <2>2
<1>5. skillTree \in [SkillDirs -> trees] /\ home \in trees
  BY SkillAssumption DEF SkillInit
<1> HIDE DEF start, trees
<1>6. SkillTypes
  <2>1. \A dir \in SkillDirs : skillTree[dir] \in Seq(SkillRecord)
    BY <1>4, <1>5
  <2>2. skillTree \in [SkillDirs -> Seq(SkillRecord)]
    BY <1>5, <2>1
  <2>. QED
    BY <1>1, <1>2, <2>2 DEF SkillTypes
<1>7. InHome = 1 .. Len(home) /\ \A k : SkillAt(k) = home[k]
  BY DEF InHome, SkillAt
<1> HIDE DEF home
<1>8. NamesApart
  BY <1>4, <1>5, <1>7 DEF NamesApart
<1>9. FilesInPlace
  <2>1. "user" \notin SkillInstallers
    BY SkillAssumption
  <2>2. \A k \in 1 .. Len(home) : home[k].promptBy = "user" /\ home[k].restBy = "user"
    BY <1>3, <1>4, <1>5
  <2>. QED
    BY <1>7, <2>1, <2>2 DEF FilesInPlace, Owns
<1>10. AloneIsAlone /\ CopiesKept
  BY <1>1, <1>2 DEF AloneIsAlone, CopiesKept, UnderWay
<1>. QED
  BY <1>6, <1>8, <1>9, <1>10 DEF SkillInv

LEMMA SkillStepKeeps == SkillInv /\ [SkillNext]_skillVars => SkillInv'
<1> SUFFICES ASSUME SkillInv, [SkillNext]_skillVars PROVE SkillInv'
  OBVIOUS
<1>1. CASE SkillToggle
  BY <1>1, ToggleStep
<1>2. ASSUME NEW i \in SkillInstallers, NEW source \in SkillSources, InstallStart(i, source)
      PROVE  SkillInv'
  BY <1>2, StartInstallStep
<1>3. ASSUME NEW i \in SkillInstallers, NEW file \in {"prompt", "rest"}, InstallCopy(i, file)
      PROVE  SkillInv'
  BY <1>3, CopyStep
<1>4. ASSUME NEW i \in SkillInstallers, InstallMakeDir(i) PROVE SkillInv'
  BY <1>4, MakeDirStep
<1>5. ASSUME NEW i \in SkillInstallers, InstallFail(i) PROVE SkillInv'
  <2>1. "failing" \in SkillPhases /\ UnderWay(skillJobs[i])
    BY <1>5 DEF InstallFail, SkillPhases, UnderWay
  <2>. QED
    BY <1>5, <2>1, JobStep DEF InstallFail
<1>6. ASSUME NEW i \in SkillInstallers, InstallRemove(i) PROVE SkillInv'
  BY <1>6, RemoveStep
<1>10. ASSUME NEW i \in SkillInstallers, InstallRemoveFails(i) PROVE SkillInv'
  BY <1>10, RemoveFailsStep
<1>7. ASSUME NEW i \in SkillInstallers, InstallReport(i) PROVE SkillInv'
  <2>1. "done" \in SkillPhases /\ UnderWay(skillJobs[i])
    BY <1>7 DEF InstallReport, SkillPhases, UnderWay
  <2>. QED
    BY <1>7, <2>1, JobStep DEF InstallReport
<1>8. ASSUME NEW i \in SkillInstallers, InstallCrash(i) PROVE SkillInv'
  <2>1. "dead" \in SkillPhases
    BY DEF SkillPhases
  <2>. QED
    BY <1>8, <2>1, JobStep DEF InstallCrash
<1>9. CASE UNCHANGED skillVars
  <2>1. skillTree' = skillTree /\ skillJobs' = skillJobs
    BY <1>9 DEF skillVars
  <2>2. SkillTypes' /\ NamesApart' /\ FilesInPlace'
    BY <2>1 DEF SkillInv, SkillTypes, NamesApart, FilesInPlace, InHome, SkillAt, Owns
  <2>3. AloneIsAlone'
    BY <2>1 DEF SkillInv, AloneIsAlone, Holding, UnderWay
  <2>4. CopiesKept'
    BY <2>1 DEF SkillInv, CopiesKept, CopiedBy, InHome, SkillAt
  <2>. QED
    BY <2>2, <2>3, <2>4 DEF SkillInv
<1>. QED
  BY <1>1, <1>2, <1>3, <1>4, <1>5, <1>6, <1>7, <1>8, <1>9, <1>10 DEF SkillNext

(* The invariant of installs holds at every step of any number of them      *)
(* (commands/src/lib.rs: install_skill_into).                              *)
THEOREM SkillsSound == SkillSpec => []SkillInv
BY SkillInitHolds, SkillStepKeeps, PTL DEF SkillSpec

LEMMA LoneWhole == SkillInv => LoneInstallsWhole
<1> SUFFICES ASSUME SkillInv, NEW i \in SkillInstallers, skillJobs[i].alone
             PROVE  /\ skillJobs[i].phase = "done" =>
                           \E k \in Installed(skillJobs[i].name) :
                               /\ SkillAt(k).promptBy = i /\ SkillAt(k).prompt = "text"
                               /\ skillJobs[i].source.form = "dir" => SkillAt(k).restBy = i
                    /\ skillJobs[i].phase = "failed" =>
                           \A k \in InHome : i \notin {SkillAt(k).promptBy, SkillAt(k).restBy}
  BY DEF LoneInstallsWhole, SkillAt, InHome
<1>1. ASSUME skillJobs[i].phase = "done"
      PROVE  \E k \in Installed(skillJobs[i].name) :
                 /\ SkillAt(k).promptBy = i /\ SkillAt(k).prompt = "text"
                 /\ skillJobs[i].source.form = "dir" => SkillAt(k).restBy = i
  <2>1. PICK k \in InHome : CopiedBy(i, SkillAt(k))
    BY <1>1 DEF SkillInv, CopiesKept
  <2>2. skillJobs[i].todo = {}
    BY <1>1 DEF SkillInv, CopiesKept
  <2>3. k \in Installed(skillJobs[i].name)
    BY <2>1 DEF CopiedBy, Installed, InHome, SkillAt
  <2>. QED
    BY <2>1, <2>2, <2>3 DEF CopiedBy
<1>2. ASSUME skillJobs[i].phase = "failed", NEW k \in InHome
      PROVE  i \notin {SkillAt(k).promptBy, SkillAt(k).restBy}
  BY <1>2 DEF SkillInv, FilesInPlace, Owns
<1>. QED
  BY <1>1, <1>2

(* An install that none of the same name overlapped has its files once it  *)
(* is reported, and keeps them; one that failed leaves none, if the removal *)
(* of what it had copied succeeded (commands/src/lib.rs: install_skill_into). *)
THEOREM LoneInstallsAreWhole == SkillSpec => []LoneInstallsWhole
BY SkillsSound, LoneWhole, PTL

LEMMA NatLeast ==
    ASSUME NEW S \in SUBSET Nat, S # {}
    PROVE  \E s \in S : \A t \in S : s <= t
<1> DEFINE R == {ss \in Nat \X Nat : ss[1] < ss[2]}
<1>1. OpToRel(<, Nat) = R
  BY DEF OpToRel
<1>2. IsWellFoundedOn(R, Nat)
  BY <1>1, NatLessThanWellFounded, Zenon
<1> HIDE DEF R
<1>3. \E s \in S : \A t \in S : ~(<<t, s>> \in R)
  BY <1>2, WFMin
<1>4. ASSUME NEW s \in Nat, NEW t \in Nat, ~(<<t, s>> \in R)
      PROVE  s <= t
  <2>1. <<t, s>> \in Nat \X Nat
    BY <1>4
  <2>2. ~(<<t, s>>[1] < <<t, s>>[2])
    BY <1>4, <2>1 DEF R
  <2>3. QED
    BY <2>2
<1>5. QED
  BY <1>3, <1>4

\* A set of places in a sequence has a least one.
LEMMA LeastFacts ==
    ASSUME NEW n, NEW S \in SUBSET (1 .. n), S # {}
    PROVE  LET least == CHOOSE k \in S : \A j \in S : k <= j
           IN  least \in S /\ \A j \in S : least <= j
<1>1. S \in SUBSET Nat
  OBVIOUS
<1>2. \E k \in S : \A j \in S : k <= j
  BY <1>1, NatLeast
<1>. QED
  BY <1>2

\* The first directory that has the name is also the first without what cannot be
\* read, for every order of directories and all that lies in them.
LEMMA ListedFound == ListedIsRun
<1> SUFFICES ASSUME ListingWorks, NEW name \in SkillNames, ListedAs(name) # NoPlace
             PROVE  SkillRun(name) = ListedAs(name)
  BY DEF ListedIsRun
<1> DEFINE n == Len(ListedDirs)
           having == {k \in Existing(ListedDirs) : Named(ListedDirs[k], name) # {}}
           unreadable == {k \in Existing(ListedDirs) : ~Readable(ListedDirs[k])}
           first == CHOOSE k \in having : \A j \in having : k <= j
           hits == {k \in having : \A j \in having \cup unreadable : k <= j /\ k \notin unreadable}
<1>1. Existing(ListedDirs) \subseteq 1 .. n
  BY DEF Existing
<1>2. unreadable = {}
  BY DEF ListingWorks
<1>3. having # {}
  BY DEF ListedAs
<1>4. first \in having /\ \A j \in having : first <= j
  BY <1>1, <1>3, LeastFacts
<1>5. ListedAs(name) = First(ListedDirs[first], Named(ListedDirs[first], name))
  BY <1>3 DEF ListedAs
<1>6. \A k \in hits : k = first
  <2>1. SUFFICES ASSUME NEW k \in hits PROVE k = first
    OBVIOUS
  <2>2. k \in having /\ k <= first /\ first <= k
    BY <1>4
  <2>3. k \in Int /\ first \in Int
    BY <1>1, <1>4, <2>2
  <2> HIDE DEF first, having, hits
  <2>. QED
    BY <2>2, <2>3
<1>7. first \in hits
  BY <1>2, <1>4
<1>8. ResolvedByCommands(name) = LET k == CHOOSE k \in hits : TRUE
                                 IN  First(ListedDirs[k], Named(ListedDirs[k], name))
  <2>1. hits # {}
    BY <1>7
  <2>. QED
    BY <2>1, Zenon DEF ResolvedByCommands
<1> HIDE DEF having, hits, unreadable
<1>9. (CHOOSE k \in hits : TRUE) = first
  BY <1>6, <1>7
<1>10. ResolvedByCommands(name) = ListedAs(name)
  BY <1>5, <1>8, <1>9
<1> DEFINE dir == ListedDirs[first]
           places == Named(dir, name)
           at == CHOOSE i \in places : \A j \in places : i <= j
<1>11. first \in Existing(ListedDirs) /\ places # {}
  BY <1>4 DEF having
<1>12. at \in places
  <2>1. places \in SUBSET (1 .. Len(skillTree[dir]))
    BY DEF Named
  <2> HIDE DEF places
  <2>. QED
    BY <1>11, <2>1, LeastFacts
<1>13. ListedAs(name) = Place(dir, at)
  BY <1>5 DEF First
<1>14. skillTree[dir][at].prompt = "text"
  <2>1. Readable(dir)
    BY <1>11 DEF ListingWorks
  <2>2. at \in 1 .. Len(skillTree[dir]) /\ Counts(dir, skillTree[dir][at])
    BY <1>12 DEF Named
  <2> HIDE DEF dir, at
  <2>. QED
    BY <2>1, <2>2 DEF Readable
<1> HIDE DEF dir, at
<1>15. EntryAt(ListedAs(name)).prompt = "text"
  BY <1>13, <1>14 DEF EntryAt, Place
<1>. QED
  BY <1>10, <1>15 DEF SkillRun

(* What the listing shows is what the Skill tool runs, in every state      *)
(* (commands/src/lib.rs: resolve_skill_path).                              *)
THEOREM ListedIsAlwaysRun == SkillSpec => []ListedIsRun
BY ListedFound, PTL
-----------------------------------------------------------------------------
(* A workspace runs each of its parts as that part is specified.           *)
LEMMA PartsAsSpecified == WorkspaceSpec => Spec /\ SolarSpec /\ SkillSpec /\ ChainSpec
<1>1. WorkspaceInit => Init /\ SolarInit /\ SkillInit /\ ChainInit
  BY DEF WorkspaceInit
<1>2. [WorkspaceNext]_workspaceVars =>
          [Next]_vars /\ [SolarNext]_solarVars /\ [SkillNext]_skillVars /\ [ChainNext]_chainVars
  BY DEF WorkspaceNext, workspaceVars
<1>. QED
  BY <1>1, <1>2, PTL DEF WorkspaceSpec, Spec, SolarSpec, SkillSpec, ChainSpec

(* The results hold of the workspace: a replay is of the last prompt       *)
(* (worker_boot.rs), what --resume finds is whole (session.rs), what is    *)
(* listed is run and what is installed is whole (commands/src/lib.rs), a   *)
(* call of a chain ends soundly (tools/src/lib.rs), and a save loses no    *)
(* turn (session.rs).                                                      *)
THEOREM WorkspaceSound ==
    WorkspaceSpec =>
        /\ [](ReplayIsLast /\ ResumableIsWhole /\ ListedIsRun /\ LoneInstallsWhole /\ ChainOutcome)
        /\ SavesExtend
<1>. QED
  BY PartsAsSpecified, ReplaysTheLast, ResumesWhole, SavesAlwaysExtend, ListedIsAlwaysRun,
     LoneInstallsAreWhole, ChainEndsSoundly, PTL
=============================================================================
