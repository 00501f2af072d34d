------------------------- MODULE ConversationProofs -------------------------
(* Theorems about Conversation, for every value of its constants.            *)
EXTENDS Conversation, WellFoundedInduction, SequenceTheorems, TLAPS

-----------------------------------------------------------------------------
(* What compaction does to a transcript, for every limit.                    *)
LEMMA NatMin ==
    ASSUME NEW S \in SUBSET Nat, S # {}
    PROVE  \E s \in S : \A t \in S : s <= t
<1> DEFINE R == {ss \in Nat \X Nat : ss[1] < ss[2]}
<1>1. OpToRel(<, Nat) = R
  BY DEF OpToRel
<1>2. IsWellFoundedOn(R, Nat)
  BY <1>1, NatLessThanWellFounded, Zenon
<1> HIDE DEF R
<1>3. \E s \in S : \A t \in S : ~(<<t, s>> \in R)
  BY <1>2, WFMin
<1>4. ASSUME NEW s \in Nat, NEW t \in Nat, ~(<<t, s>> \in R)
      PROVE  s <= t
  <2>1. <<t, s>> \in Nat \X Nat
    BY <1>4
  <2>2. ~(<<t, s>>[1] < <<t, s>>[2])
    BY <1>4, <2>1 DEF R
  <2>3. QED
    BY <2>2
<1>5. QED
  BY <1>3, <1>4

LEMMA RecentStartChosen ==
    ASSUME NEW msgs \in Seq(Message), NEW limit \in Nat
    PROVE  RecentStart(msgs, limit) \in RecentStarts(msgs, limit)
<1> DEFINE S == RecentStarts(msgs, limit)
<1>1. Len(msgs) + 1 \in S
  BY LenProperties DEF RecentStarts
<1>2. S \in SUBSET Nat
  BY DEF RecentStarts
<1>3. \E s \in S : \A t \in S : s <= t
  BY <1>1, <1>2, NatMin
<1>4. QED
  BY <1>3 DEF RecentStart

(* The shape of a compacted transcript: the head, one summary, and the       *)
(* messages from a certain non-tool message on.                              *)
LEMMA CompactedShape ==
    ASSUME NEW msgs \in Seq(Message), Len(msgs) >= 2,
           NEW limit \in Nat, NEW size \in Nat
    PROVE  LET C == Compacted(msgs, limit, size) IN
           /\ C \in Seq(Message) /\ Len(C) >= 3
           /\ C[1] = msgs[1] /\ C[2] = msgs[2] /\ C[3] = Text("user", 0, size)
           /\ \E s \in 1 .. Len(msgs) - 1 :
                /\ Len(C) = Len(msgs) - s + 2
                /\ s <= Len(msgs) - 2 => msgs[s + 2].role # "tool"
                /\ \A i \in 4 .. Len(C) : C[i] = msgs[i + s - 2]
<1> DEFINE C == Compacted(msgs, limit, size)
           T == AfterHead(msgs)
           s == RecentStart(T, limit)
           H == SubSeq(msgs, 1, 2)
           U == <<Text("user", 0, size)>>
           R == SafeRecent(T, limit)
<1>1. /\ T \in Seq(Message) /\ Len(T) = Len(msgs) - 2
      /\ \A i \in 1 .. Len(T) : T[i] = msgs[i + 2]
  <2>1. \A i \in 3 .. Len(msgs) : msgs[i] \in Message
    BY LenProperties
  <2>2. Len(msgs) \in Int
    BY LenProperties
  <2>3. /\ T \in Seq(Message)
        /\ Len(T) = (IF 3 <= Len(msgs) THEN Len(msgs) - 3 + 1 ELSE 0)
        /\ \A i \in 1 .. Len(msgs) - 3 + 1 : T[i] = msgs[3 + i - 1]
    BY <2>1, <2>2, SubSeqProperties DEF AfterHead
  <2> HIDE DEF T
  <2>4. T \in Seq(Message) /\ Len(T) = Len(msgs) - 2
    <3>1. PICK n \in Nat : n = Len(msgs)
      BY LenProperties
    <3>2. QED
      BY <2>3, <3>1
  <2>5. ASSUME NEW i \in 1 .. Len(T) PROVE T[i] = msgs[i + 2]
    <3>1. 3 + i - 1 = i + 2 /\ i \in 1 .. Len(msgs) - 3 + 1
      BY <2>2, <2>4
    <3>2. QED
      BY <2>3, <3>1
  <2>6. QED
    BY <2>4, <2>5
<1>2. /\ s \in 1 .. Len(T) + 1
      /\ s <= Len(T) => T[s].role # "tool"
  BY <1>1, RecentStartChosen DEF RecentStarts
<1>3. /\ R \in Seq(Message) /\ Len(R) = Len(T) - s + 1
      /\ \A i \in 1 .. Len(R) : R[i] = T[i + s - 1]
  <2>1. \A i \in s .. Len(T) : T[i] \in Message
    BY <1>1, <1>2, LenProperties
  <2> HIDE DEF T, s
  <2>2. s \in Int /\ Len(T) \in Int
    BY <1>1, <1>2, LenProperties
  <2>3. R = SubSeq(T, s, Len(T))
    BY DEF SafeRecent, s
  <2> HIDE DEF R
  <2>4. /\ R \in Seq(Message)
        /\ Len(R) = IF s <= Len(T) THEN Len(T) - s + 1 ELSE 0
        /\ \A i \in 1 .. Len(T) - s + 1 : R[i] = T[s + i - 1]
    BY <2>1, <2>2, <2>3, SubSeqProperties
  <2>5. Len(R) = Len(T) - s + 1
    BY <1>2, <2>2, <2>4
  <2>6. ASSUME NEW i \in 1 .. Len(R) PROVE R[i] = T[i + s - 1]
    <3>1. s + i - 1 = i + s - 1
      BY <2>2
    <3>2. QED
      BY <2>4, <2>5, <3>1
  <2>7. QED
    BY <2>4, <2>5, <2>6
<1>4. /\ H \in Seq(Message) /\ Len(H) = 2 /\ H[1] = msgs[1] /\ H[2] = msgs[2]
  <2>1. \A i \in 1 .. 2 : msgs[i] \in Message
    BY LenProperties
  <2>2. QED
    BY <2>1, SubSeqProperties
<1>5. U \in Seq(Message) /\ Len(U) = 1 /\ U[1] = Text("user", 0, size)
  BY DEF Text, Message, Roles
<1>6. C = H \o U \o R
  BY DEF Compacted, Recent
<1> HIDE DEF C, T, s, H, U, R
<1>7. /\ C \in Seq(Message) /\ Len(C) = 3 + Len(R)
      /\ \A i \in 1 .. 2 : C[i] = H[i]
      /\ C[3] = U[1]
      /\ \A i \in 4 .. Len(C) : C[i] = R[i - 3]
  <2>1. /\ H \o U \in Seq(Message) /\ Len(H \o U) = 3
        /\ \A i \in 1 .. 2 : (H \o U)[i] = H[i]
        /\ (H \o U)[3] = U[1]
    <3>1. /\ H \o U \in Seq(Message)
          /\ Len(H \o U) = Len(H) + Len(U)
          /\ \A i \in 1 .. Len(H) + Len(U) :
               (H \o U)[i] = IF i <= Len(H) THEN H[i] ELSE U[i - Len(H)]
      BY <1>4, <1>5, ConcatProperties
    <3>2. QED
      BY <1>4, <1>5, <3>1
  <2> DEFINE HU == H \o U
  <2>2. HU \in Seq(Message) /\ R \in Seq(Message) /\ C = HU \o R
    BY <1>3, <1>6, <2>1
  <2> HIDE DEF HU
  <2>3. /\ HU \o R \in Seq(Message) /\ Len(HU \o R) = Len(HU) + Len(R)
        /\ \A i \in 1 .. Len(HU) + Len(R) :
              (HU \o R)[i] = IF i <= Len(HU) THEN HU[i] ELSE R[i - Len(HU)]
    BY <2>2, ConcatProperties
  <2>4. /\ Len(HU) = 3 /\ \A i \in 1 .. 2 : HU[i] = H[i]
        /\ HU[3] = U[1]
    BY <2>1 DEF HU
  <2>5. Len(R) \in Nat
    BY <1>3, LenProperties
  <2>6. /\ C \in Seq(Message) /\ Len(C) = 3 + Len(R)
        /\ \A i \in 1 .. 3 + Len(R) : C[i] = IF i <= 3 THEN HU[i] ELSE R[i - 3]
    BY <2>2, <2>3, <2>4
  <2>7. \A i \in 1 .. 3 : C[i] = HU[i]
    BY <2>5, <2>6
  <2>8. \A i \in 4 .. Len(C) : C[i] = R[i - 3]
    BY <2>5, <2>6
  <2>. QED
    BY <2>4, <2>6, <2>7, <2>8
<1>8. \A i \in 4 .. Len(C) : C[i] = msgs[i + s - 2]
  <2> TAKE i \in 4 .. Len(C)
  <2>1. i - 3 \in 1 .. Len(R) /\ (i - 3) + s - 1 \in 1 .. Len(T)
    BY <1>2, <1>3, <1>7, <1>1, LenProperties
  <2>2. C[i] = T[(i - 3) + s - 1]
    BY <1>3, <1>7, <2>1
  <2>3. ((i - 3) + s - 1) + 2 = i + s - 2
    BY <1>1, <1>2, LenProperties
  <2>4. QED
    BY <1>1, <2>1, <2>2, <2>3
<1>9. s <= Len(msgs) - 2 => msgs[s + 2].role # "tool"
  BY <1>1, <1>2
<1>10. s \in 1 .. Len(msgs) - 1 /\ Len(C) = Len(msgs) - s + 2 /\ Len(C) >= 3
  BY <1>1, <1>2, <1>3, <1>7, LenProperties
<1>11. C[1] = msgs[1] /\ C[2] = msgs[2] /\ C[3] = Text("user", 0, size)
  BY <1>4, <1>5, <1>7
<1>12. QED
  BY <1>7, <1>8, <1>9, <1>10, <1>11 DEF C

(* Compaction leaves no tool result without its call, whatever the limit.    *)
LEMMA CompactedAnchored ==
    ASSUME NEW msgs \in Seq(Message), Len(msgs) >= 2, Anchored(msgs),
           msgs[1].role # "tool", msgs[2].role # "tool",
           NEW limit \in Nat, NEW size \in Nat
    PROVE  Anchored(Compacted(msgs, limit, size))
<1> DEFINE C == Compacted(msgs, limit, size)
<1>1. C \in Seq(Message) /\ Len(C) \in Nat /\ Len(msgs) \in Nat
  BY CompactedShape, LenProperties
<1>2. C[1] = msgs[1] /\ C[2] = msgs[2] /\ C[3].role = "user"
  <2>1. C[1] = msgs[1] /\ C[2] = msgs[2] /\ C[3] = Text("user", 0, size)
    BY CompactedShape
  <2>2. QED
    BY <2>1 DEF Text
<1>3. PICK s \in 1 .. Len(msgs) - 1 :
        /\ Len(C) = Len(msgs) - s + 2
        /\ s <= Len(msgs) - 2 => msgs[s + 2].role # "tool"
        /\ \A i \in 4 .. Len(C) : C[i] = msgs[i + s - 2]
  BY CompactedShape
<1> HIDE DEF C
<1>4. SUFFICES ASSUME NEW j \in 1 .. Len(C), C[j].role = "tool"
               PROVE  \E i \in 1 .. Len(C) : Calls(C, i, j)
  BY DEF Anchored, C
<1>5. j >= 4
  BY <1>1, <1>2, <1>4
<1>6. PICK p \in 1 .. Len(msgs) : p = j + s - 2
  BY <1>1, <1>3, <1>4, <1>5
<1>7. msgs[p].role = "tool" /\ C[j] = msgs[p]
  BY <1>1, <1>3, <1>4, <1>5, <1>6
<1>8. PICK i \in 1 .. Len(msgs) : Calls(msgs, i, p)
  BY <1>7 DEF Anchored
<1>9. i >= s + 2
  <2>1. s + 2 <= p /\ s <= Len(msgs) - 2
    BY <1>1, <1>5, <1>6
  <2>2. s + 2 # p
    BY <1>3, <1>7, <2>1
  <2>3. SUFFICES ASSUME i < s + 2 PROVE FALSE
    BY <1>1
  <2>4. s + 2 \in i + 1 .. p - 1
    BY <1>1, <2>1, <2>2, <2>3
  <2>5. QED
    BY <1>3, <1>8, <2>1, <2>4 DEF Calls
<1>10. PICK a \in 4 .. Len(C) : a = i - s + 2 /\ a < j
  BY <1>1, <1>3, <1>4, <1>6, <1>8, <1>9 DEF Calls
<1>11. C[a] = msgs[i]
  <2>1. a + s - 2 = i
    BY <1>1, <1>10
  <2>2. QED
    BY <1>3, <2>1
<1>12. ASSUME NEW k \in a + 1 .. j - 1 PROVE C[k].role = "tool"
  <2>0. /\ k \in Int /\ a + 1 <= k /\ k <= j - 1
        /\ a \in Int /\ j \in Int /\ i \in Int /\ s \in Int /\ p \in Int
        /\ 4 <= a /\ j <= Len(C)
    BY <1>1, <1>4, <1>10
  <2>1. k \in 4 .. Len(C) /\ k + s - 2 \in i + 1 .. p - 1
    BY <1>1, <1>6, <1>10, <2>0
  <2>2. QED
    BY <1>3, <1>8, <2>1 DEF Calls
<1>13. Calls(C, a, j)
  <2>1. msgs[i].role = "assistant" /\ msgs[p].of \in msgs[i].calls
    BY <1>8 DEF Calls
  <2>2. C[a].role = "assistant" /\ C[j].of \in C[a].calls
    BY <1>7, <1>11, <2>1
  <2>3. QED
    BY <1>10, <1>12, <2>2 DEF Calls
<1>14. QED
  BY <1>10, <1>13

(* Appending anything but a tool result keeps a transcript well formed.      *)
LEMMA AppendAnchored ==
    ASSUME NEW msgs \in Seq(Message), Anchored(msgs),
           NEW m \in Message, m.role # "tool"
    PROVE  Anchored(Append(msgs, m))
<1> DEFINE A == Append(msgs, m)
<1>1. PICK n \in Nat : n = Len(msgs)
  BY LenProperties
<1>2. /\ Len(A) = n + 1 /\ A[n + 1] = m
      /\ \A i \in 1 .. n : A[i] = msgs[i]
  BY <1>1, AppendProperties
<1> HIDE DEF A
<1>3. SUFFICES ASSUME NEW j \in 1 .. Len(A), A[j].role = "tool"
               PROVE  \E i \in 1 .. Len(A) : Calls(A, i, j)
  BY DEF Anchored, A
<1>4. j \in 1 .. n
  BY <1>2, <1>3
<1>5. PICK i \in 1 .. n : Calls(msgs, i, j)
  BY <1>1, <1>2, <1>3, <1>4 DEF Anchored
<1>6. Calls(A, i, j)
  BY <1>2, <1>4, <1>5 DEF Calls
<1>7. QED
  BY <1>2, <1>5, <1>6

(* So does the answer to a call of the latest assistant message.             *)
LEMMA AnswerAnchored ==
    ASSUME NEW msgs \in Seq(Message), Anchored(msgs),
           NEW m \in Message, NEW a \in 1 .. Len(msgs),
           msgs[a].role = "assistant", m.of \in msgs[a].calls,
           \A k \in a + 1 .. Len(msgs) : msgs[k].role = "tool"
    PROVE  Anchored(Append(msgs, m))
<1> DEFINE A == Append(msgs, m)
<1>1. PICK n \in Nat : n = Len(msgs)
  BY LenProperties
<1>2. /\ Len(A) = n + 1 /\ A[n + 1] = m
      /\ \A i \in 1 .. n : A[i] = msgs[i]
  BY <1>1, AppendProperties
<1> HIDE DEF A
<1>3. SUFFICES ASSUME NEW j \in 1 .. Len(A), A[j].role = "tool"
               PROVE  \E i \in 1 .. Len(A) : Calls(A, i, j)
  BY DEF Anchored, A
<1>4. CASE j \in 1 .. n
  <2>1. PICK i \in 1 .. n : Calls(msgs, i, j)
    BY <1>1, <1>2, <1>3, <1>4 DEF Anchored
  <2>2. A[i] = msgs[i] /\ A[j] = msgs[j]
    BY <1>2, <1>4
  <2>3. \A k \in i + 1 .. j - 1 : k \in 1 .. n /\ A[k] = msgs[k]
    BY <1>2, <1>4
  <2>4. Calls(A, i, j)
    BY <2>1, <2>2, <2>3 DEF Calls
  <2>5. QED
    BY <1>2, <2>1, <2>4
<1>5. CASE j = n + 1
  <2>1. Calls(A, a, j)
    BY <1>1, <1>2, <1>5 DEF Calls
  <2>2. QED
    BY <1>1, <1>2, <2>1
<1>6. QED
  BY <1>2, <1>4, <1>5
-----------------------------------------------------------------------------

(* The shape of a transcript a run works on: system prompt, a user message,  *)
(* and no tool result without its call.                                      *)
WellFormed(msgs) ==
    /\ msgs \in Seq(Message) /\ Len(msgs) >= 2
    /\ msgs[1].role = "system" /\ msgs[2].role = "user"
    /\ Anchored(msgs)

(* While calls are pending, the latest non-tool message is the assistant     *)
(* message that made them.                                                   *)
PendingOpen ==
    pc = "tools" =>
        /\ pending # <<>>
        /\ \E a \in 1 .. Len(messages) :
            /\ messages[a].role = "assistant"
            /\ \A p \in 1 .. Len(pending) : pending[p] \in messages[a].calls
            /\ \A k \in a + 1 .. Len(messages) : messages[k].role = "tool"

(* What is known of the run in progress.                                     *)
RunOK ==
    pc # "idle" =>
        /\ run \in Runs /\ turn \in 1 .. MaxTurns
        /\ WellFormed(messages)
        /\ ~resumed => messages[2].goal = run
        /\ store[run].status \notin Closed

(* What is known of the session files: completed ones are resumable, and     *)
(* those of runs to come do not exist.                                       *)
StoreOK ==
    \A r \in Runs :
        /\ store[r].status = "completed" =>
             /\ WellFormed(store[r].messages)
             /\ store[r].messages[Len(store[r].messages)].role = "tool"
        /\ r > run => store[r].status = "none"

(* The finish guard, from the edit to the completed session.                 *)
GuardOK ==
    /\ edited => done["files"] > 0
    /\ pc = "completing" =>
         /\ needsEdit => edited \/ summary = "guards"
         /\ messages[Len(messages)].role = "tool"
    /\ run > 0 /\ store[run].status = "completed" /\ needsEdit =>
         edited \/ summary = "guards"

Inv == TypeOK /\ PendingOpen /\ RunOK /\ StoreOK /\ GuardOK

-----------------------------------------------------------------------------
LEMMA TextType ==
    ASSUME NEW role \in Roles, NEW goal \in Nat, NEW size \in Nat
    PROVE  Text(role, goal, size) \in Message
  BY DEF Text, Message

LEMMA AssistantType ==
    ASSUME NEW calls \in SUBSET Nat, NEW size \in Nat
    PROVE  Assistant(calls, size) \in Message
  BY DEF Assistant, Message, Roles

LEMMA AnswerType ==
    ASSUME NEW id \in Nat, NEW size \in Nat
    PROVE  Answer(id, size) \in Message
  BY DEF Answer, Message, Roles

LEMMA AppendWellFormed ==
    ASSUME NEW msgs, WellFormed(msgs), NEW m \in Message, m.role # "tool"
    PROVE  /\ WellFormed(Append(msgs, m))
           /\ Append(msgs, m)[2] = msgs[2]
<1>1. PICK n \in Nat : n = Len(msgs)
  BY LenProperties DEF WellFormed
<1>2. /\ Append(msgs, m) \in Seq(Message)
      /\ Len(Append(msgs, m)) = n + 1
      /\ \A i \in 1 .. n : Append(msgs, m)[i] = msgs[i]
  BY <1>1, AppendProperties DEF WellFormed
<1>3. Anchored(Append(msgs, m))
  BY AppendAnchored DEF WellFormed
<1>4. QED
  BY <1>1, <1>2, <1>3 DEF WellFormed

LEMMA CompactedWellFormed ==
    ASSUME NEW msgs, WellFormed(msgs), NEW limit \in Nat, NEW size \in Nat
    PROVE  /\ WellFormed(Compacted(msgs, limit, size))
           /\ Compacted(msgs, limit, size)[2] = msgs[2]
<1> DEFINE C == Compacted(msgs, limit, size)
<1>1. /\ C \in Seq(Message) /\ Len(C) >= 3
      /\ C[1] = msgs[1] /\ C[2] = msgs[2]
  BY CompactedShape DEF WellFormed
<1>2. Anchored(C)
  BY CompactedAnchored DEF WellFormed
<1>3. PICK n \in Nat : n = Len(C)
  BY <1>1, LenProperties
<1> HIDE DEF C
<1>4. WellFormed(C) /\ C[2] = msgs[2]
  BY <1>1, <1>2, <1>3 DEF WellFormed
<1>5. QED
  BY <1>4 DEF C
-----------------------------------------------------------------------------
LEMMA InitInv == Init => Inv
<1> SUFFICES ASSUME Init PROVE Inv
  OBVIOUS
<1>1. TypeOK
  <2>1. Session("none", <<>>) \in [status: Statuses, messages: Seq(Message)]
    BY DEF Session, Statuses
  <2>2. done \in [Effects -> Nat] /\ store \in [Runs -> [status: Statuses, messages: Seq(Message)]]
    BY <2>1 DEF Init
  <2>3. /\ messages \in Seq(Message) /\ pending \in Seq(Nat)
    BY DEF Init
  <2>4. /\ run \in 0 .. MaxRuns /\ turn \in 0 .. MaxTurns
        /\ crashes \in 0 .. MaxCrashes /\ nextId \in Nat
    BY RunAssumption DEF Init
  <2>5. /\ env \in [sandbox: Sandboxes, policy: Approvals, tty: Terminals]
        /\ pc \in Pcs /\ lastSummaryTurn = Never /\ summary = "none"
        /\ needsEdit \in BOOLEAN /\ resumed \in BOOLEAN
        /\ edited \in BOOLEAN /\ planMode \in BOOLEAN
    BY DEF Init, Pcs
  <2>6. QED
    BY <2>2, <2>3, <2>4, <2>5 DEF TypeOK
<1>2. PendingOpen /\ RunOK /\ GuardOK
  BY DEF Init, PendingOpen, RunOK, GuardOK
<1>3. StoreOK
  BY DEF Init, StoreOK, Session, Runs
<1>4. QED
  BY <1>1, <1>2, <1>3 DEF Inv

(* A failed write leaves every other file alone, and this one closed by      *)
(* nobody.                                                                   *)
LEMMA NotWrittenStore ==
    ASSUME TypeOK, run' \in Runs, NotWritten
    PROVE  /\ store' \in [Runs -> [status: Statuses, messages: Seq(Message)]]
           /\ \A r \in Runs : r # run' => store'[r] = store[r]
           /\ store'[run'] = store[run'] \/ store'[run'].status = "torn"
<1>1. Session("torn", <<>>) \in [status: Statuses, messages: Seq(Message)]
  BY DEF Session, Statuses
<1>2. Session("torn", <<>>).status = "torn"
  BY DEF Session
<1>3. CASE store' = store
  BY <1>3 DEF TypeOK
<1>4. CASE store' = [store EXCEPT ![run'] = Session("torn", <<>>)]
  BY <1>1, <1>2, <1>4 DEF TypeOK
<1>5. QED
  BY <1>3, <1>4 DEF NotWritten

LEMMA WrittenStore ==
    ASSUME TypeOK, run' \in Runs, NEW status \in Statuses,
           NEW msgs \in Seq(Message), Written(Session(status, msgs))
    PROVE  /\ store' \in [Runs -> [status: Statuses, messages: Seq(Message)]]
           /\ \A r \in Runs : r # run' => store'[r] = store[r]
           /\ store'[run'].status = status /\ store'[run'].messages = msgs
<1>1. Session(status, msgs) \in [status: Statuses, messages: Seq(Message)]
  BY DEF Session
<1>2. Session(status, msgs).status = status /\ Session(status, msgs).messages = msgs
  BY DEF Session
<1>3. QED
  BY <1>1, <1>2 DEF Written, TypeOK

LEMMA StartInv ==
    ASSUME Inv, NEW from \in 0 .. MaxRuns, Start(from)
    PROVE  Inv'
<1> USE RunAssumption
<1>1. run' \in Runs /\ run' = run + 1 /\ run \in Nat /\ run < MaxRuns
  BY DEF Inv, TypeOK, Start, Runs
<1>2. /\ messages' \in Seq(Message) /\ WellFormed(messages')
      /\ ~resumed' => messages'[2].goal = run'
  <2> DEFINE g == Text("user", run', 1)
  <2>1. g \in Message /\ g.role = "user" /\ g.goal = run'
    <3>1. g \in Message
      BY <1>1, TextType DEF Roles
    <3>2. QED
      BY <3>1 DEF Text
  <2>2. messages' = Append(Seed(from), g)
    BY <1>1 DEF Start
  <2> HIDE DEF g
  <2>3. CASE from \in Resumable
    <3>1. Seed(from) = store[from].messages /\ WellFormed(Seed(from))
      BY <2>3 DEF Seed, Resumable, Inv, StoreOK
    <3>2. WellFormed(messages')
      BY <2>1, <2>2, <3>1, AppendWellFormed
    <3>3. resumed'
      BY <2>3 DEF Start
    <3>4. QED
      BY <3>2, <3>3 DEF WellFormed
  <2>4. CASE from \notin Resumable
    <3> DEFINE p == Text("system", 0, 1)
    <3>1. p \in Message /\ p.role = "system"
      <4>1. p \in Message
        BY TextType DEF Roles
      <4>2. QED
        BY <4>1 DEF Text
    <3>2. messages' = Append(<<p>>, g)
      BY <2>2, <2>4 DEF Seed
    <3> HIDE DEF p
    <3>3. /\ messages' \in Seq(Message) /\ Len(messages') = 2
          /\ messages'[1] = p /\ messages'[2] = g
      BY <2>1, <3>1, <3>2
    <3>4. Anchored(messages')
      BY <2>1, <3>1, <3>3 DEF Anchored
    <3>5. QED
      BY <2>1, <3>1, <3>3, <3>4 DEF WellFormed
  <2>5. QED
    BY <2>3, <2>4
<1>3. /\ store' \in [Runs -> [status: Statuses, messages: Seq(Message)]]
      /\ \A r \in Runs : r # run' => store'[r] = store[r]
      /\ store'[run'].status \in {"none", "running", "torn"}
  <2>1. store[run'].status = "none"
    BY <1>1 DEF Inv, StoreOK
  <2>2. CASE Written(Session("running", <<>>))
    <3>1. "running" \in Statuses /\ <<>> \in Seq(Message)
      BY DEF Statuses
    <3>2. QED
      BY <1>1, <2>2, <3>1, WrittenStore DEF Inv
  <2>3. CASE NotWritten
    BY <1>1, <2>1, <2>3, NotWrittenStore DEF Inv
  <2>4. QED
    BY <2>2, <2>3 DEF Start
<1>4. pc' \in {"compact", "idle"}
  BY DEF Start
<1>5. TypeOK'
  <2>1. /\ pending' \in Seq(Nat) /\ nextId' \in Nat
        /\ done' \in [Effects -> Nat]
    BY DEF Start, Inv, TypeOK
  <2>2. run' \in 0 .. MaxRuns /\ turn' \in 0 .. MaxTurns /\ crashes' \in 0 .. MaxCrashes
    BY <1>1 DEF Start, Inv, TypeOK
  <2>3. /\ env' \in [sandbox: Sandboxes, policy: Approvals, tty: Terminals]
        /\ pc' \in Pcs /\ lastSummaryTurn' = Never /\ summary' = "none"
    BY <1>4 DEF Start, Pcs
  <2>4. /\ needsEdit' \in BOOLEAN /\ resumed' \in BOOLEAN
        /\ edited' \in BOOLEAN /\ planMode' \in BOOLEAN
    <3>1. resumed' \in BOOLEAN
      <4>1. resumed' = (from \in Resumable)
        BY DEF Start
      <4>2. (from \in Resumable) \in BOOLEAN
        OBVIOUS
      <4>3. QED
        BY <4>1, <4>2, Zenon
    <3>2. QED
      BY <3>1 DEF Start
  <2>5. QED
    BY <1>2, <1>3, <2>1, <2>2, <2>3, <2>4 DEF TypeOK
<1>6. PendingOpen'
  BY <1>4 DEF PendingOpen
<1>7. RunOK'
  <2>1. turn' \in 1 .. MaxTurns
    BY DEF Start
  <2>2. QED
    BY <1>1, <1>2, <1>3, <2>1 DEF RunOK, Closed
<1>8. StoreOK'
  <2> SUFFICES ASSUME NEW r \in Runs
               PROVE  /\ store'[r].status = "completed" =>
                           /\ WellFormed(store'[r].messages)
                           /\ store'[r].messages[Len(store'[r].messages)].role = "tool"
                      /\ r > run' => store'[r].status = "none"
    BY DEF StoreOK
  <2>1. CASE r = run'
    BY <1>1, <1>3, <2>1
  <2>2. CASE r # run'
    <3>1. r > run' => r > run
      BY <1>1 DEF Runs
    <3>2. QED
      BY <1>3, <2>2, <3>1 DEF Inv, StoreOK
  <2>3. QED
    BY <2>1, <2>2
<1>9. GuardOK'
  BY <1>1, <1>3, <1>4 DEF GuardOK, Start
<1>10. QED
  BY <1>5, <1>6, <1>7, <1>8, <1>9 DEF Inv

-----------------------------------------------------------------------------
(* Steps inside a run that write no session file: what is left to show is    *)
(* that the transcript, the calls pending and the guard stay right.          *)
LEMMA InnerStep ==
    ASSUME Inv, pc # "idle", UNCHANGED <<options, store, crashes>>,
           pc' \in Pcs, pc' # "idle",
           WellFormed(messages'), messages'[2] = messages[2],
           turn' \in 1 .. MaxTurns, pending' \in Seq(Nat), nextId' \in Nat,
           edited' \in BOOLEAN, planMode' \in BOOLEAN,
           lastSummaryTurn' \in {Never} \cup (1 .. MaxTurns),
           done' \in [Effects -> Nat],
           summary' \in {"none", "own", "guards"},
           PendingOpen',
           edited' => done'["files"] > 0, edited => edited',
           pc' = "completing" =>
             /\ needsEdit => edited' \/ summary' = "guards"
             /\ messages'[Len(messages')].role = "tool"
    PROVE  Inv'
<1>1. /\ run' = run /\ env' = env /\ needsEdit' = needsEdit
      /\ resumed' = resumed /\ store' = store /\ crashes' = crashes
  BY DEF options
<1>2. TypeOK'
  <2>1. messages' \in Seq(Message) /\ turn' \in 0 .. MaxTurns
    BY DEF WellFormed
  <2>2. QED
    BY <1>1, <2>1 DEF Inv, TypeOK
<1>3. RunOK'
  BY <1>1 DEF Inv, RunOK
<1>4. StoreOK'
  BY <1>1 DEF Inv, StoreOK
<1>5. GuardOK'
  BY <1>1 DEF Inv, GuardOK, RunOK, Closed
<1>6. QED
  BY <1>2, <1>3, <1>4, <1>5 DEF Inv

LEMMA CompactToWellFormed ==
    ASSUME Inv, pc # "idle", pc' # "tools", NEW budget \in Nat, CompactTo(budget)
    PROVE  /\ WellFormed(messages') /\ messages'[2] = messages[2]
           /\ lastSummaryTurn' \in {Never} \cup (1 .. MaxTurns)
<1>1. WellFormed(messages) /\ turn \in 1 .. MaxTurns
  BY DEF Inv, RunOK
<1>2. /\ lastSummaryTurn \in {Never} \cup (1 .. MaxTurns)
  BY DEF Inv, TypeOK
<1>3. CASE UNCHANGED <<messages, lastSummaryTurn>>
  BY <1>1, <1>2, <1>3
<1>4. CASE messages' = Compacted(messages, RecentLimit, 1) /\ Summarise
  <2>1. WellFormed(messages') /\ messages'[2] = messages[2]
    BY <1>1, <1>4, CompactedWellFormed, TokenAssumption
  <2>2. lastSummaryTurn' \in {turn, lastSummaryTurn}
    BY <1>4 DEF Summarise
  <2>3. QED
    BY <1>1, <1>2, <2>1, <2>2
<1>5. QED
  BY <1>3, <1>4 DEF CompactTo

LEMMA CompactInv == ASSUME Inv, Compact PROVE Inv'
<1>1. pc = "compact" /\ pc' = "request"
  BY DEF Compact
<1>2. /\ WellFormed(messages') /\ messages'[2] = messages[2]
      /\ lastSummaryTurn' \in {Never} \cup (1 .. MaxTurns)
  BY <1>1, CompactToWellFormed, TokenAssumption DEF Compact
<1>3. /\ UNCHANGED <<options, store, crashes>>
      /\ UNCHANGED <<turn, pending, edited, planMode, summary, done, nextId>>
  BY DEF Compact
<1>4. PendingOpen'
  BY <1>1 DEF PendingOpen
<1>5. QED
  BY <1>1, <1>2, <1>3, <1>4, InnerStep DEF Inv, TypeOK, RunOK, GuardOK, Pcs

LEMMA ShedInv == ASSUME Inv, Shed PROVE Inv'
<1>1. pc = "shed" /\ pc' \in {"retry", "failing"}
  BY DEF Shed
<1>2. /\ WellFormed(messages') /\ messages'[2] = messages[2]
      /\ lastSummaryTurn' \in {Never} \cup (1 .. MaxTurns)
  BY <1>1, CompactToWellFormed DEF Shed
<1>3. /\ UNCHANGED <<options, store, crashes>>
      /\ UNCHANGED <<turn, pending, edited, planMode, summary, done, nextId>>
  BY DEF Shed
<1>4. PendingOpen'
  BY <1>1 DEF PendingOpen
<1>5. QED
  BY <1>1, <1>2, <1>3, <1>4, InnerStep DEF Inv, TypeOK, RunOK, GuardOK, Pcs

LEMMA NextTurnPc ==
    ASSUME turn \in 1 .. MaxTurns, NextTurn, RunAssumption
    PROVE  turn' \in 1 .. MaxTurns /\ pc' \in {"compact", "failing"}
  BY DEF NextTurn, RunAssumption

LEMMA AnswerWithTextInv == ASSUME Inv, AnswerWithText PROVE Inv'
<1>1. PICK size \in Sizes :
        messages' = Append(Append(messages, Assistant({}, size)), Text("user", 0, 1))
  BY DEF AnswerWithText
<1>2. pc # "idle" /\ WellFormed(messages) /\ turn \in 1 .. MaxTurns
  BY DEF Inv, RunOK, AnswerWithText
<1>3. /\ Assistant({}, size) \in Message /\ Assistant({}, size).role # "tool"
      /\ Text("user", 0, 1) \in Message /\ Text("user", 0, 1).role # "tool"
  <2>1. Assistant({}, size) \in Message /\ Text("user", 0, 1) \in Message
    BY AssistantType, TextType, TokenAssumption DEF Roles
  <2>2. QED
    BY <2>1 DEF Assistant, Text
<1>4. WellFormed(messages') /\ messages'[2] = messages[2]
  BY <1>1, <1>2, <1>3, AppendWellFormed
<1>5. turn' \in 1 .. MaxTurns /\ pc' \in {"compact", "failing"}
  BY <1>2, NextTurnPc, RunAssumption DEF AnswerWithText
<1>6. /\ UNCHANGED <<options, store, crashes>>
      /\ UNCHANGED <<pending, edited, planMode, lastSummaryTurn, summary, done, nextId>>
  BY DEF AnswerWithText
<1>7. PendingOpen'
  BY <1>5 DEF PendingOpen
<1>8. QED
  BY <1>2, <1>4, <1>5, <1>6, <1>7, InnerStep DEF Inv, TypeOK, GuardOK, Pcs

LEMMA AnswerWithCallsInv == ASSUME Inv, AnswerWithCalls PROVE Inv'
<1>1. PICK n \in 1 .. MaxCalls, size \in Sizes :
        /\ messages' = Append(messages, Assistant(nextId .. nextId + n - 1, size))
        /\ pending' = [i \in 1 .. n |-> nextId + i - 1]
        /\ nextId' = nextId + n
  BY DEF AnswerWithCalls
<1> DEFINE m == Assistant(nextId .. nextId + n - 1, size)
<1>2. /\ pc # "idle" /\ WellFormed(messages) /\ turn \in 1 .. MaxTurns
      /\ nextId \in Nat /\ n \in Nat /\ n >= 1
  BY RunAssumption DEF Inv, RunOK, AnswerWithCalls, TypeOK
<1>3. /\ m \in Message /\ m.role = "assistant"
      /\ m.calls = nextId .. nextId + n - 1
  <2>1. m \in Message
    BY <1>2, AssistantType, TokenAssumption
  <2>2. QED
    BY <2>1 DEF Assistant
<1> HIDE DEF m
<1>4. WellFormed(messages') /\ messages'[2] = messages[2]
  BY <1>1, <1>2, <1>3, AppendWellFormed DEF m
<1>5. /\ pending' \in Seq(Nat) /\ Len(pending') = n /\ nextId' \in Nat
      /\ \A p \in 1 .. n : pending'[p] = nextId + p - 1
  BY <1>1, <1>2
<1>6. PendingOpen'
  <2>1. PICK k \in Nat : k = Len(messages)
    BY <1>2, LenProperties DEF WellFormed
  <2>2. Len(messages') = k + 1 /\ messages'[k + 1] = m
    BY <1>1, <1>2, <1>3, <2>1, AppendProperties DEF WellFormed, m
  <2>3. \A p \in 1 .. Len(pending') : pending'[p] \in messages'[k + 1].calls
    BY <1>2, <1>3, <1>5, <2>2
  <2>4. pending' # <<>>
    BY <1>2, <1>5
  <2>5. QED
    BY <1>3, <2>1, <2>2, <2>3, <2>4 DEF PendingOpen
<1>7. /\ UNCHANGED <<options, store, crashes>> /\ pc' = "tools"
      /\ UNCHANGED <<turn, edited, planMode, lastSummaryTurn, summary, done>>
  BY DEF AnswerWithCalls
<1>8. QED
  BY <1>2, <1>4, <1>5, <1>6, <1>7, InnerStep DEF Inv, TypeOK, GuardOK, Pcs

LEMMA RequestEndsInv ==
    ASSUME Inv, RequestFails \/ Overflows \/ Hang PROVE Inv'
<1>1. /\ UNCHANGED <<options, loop, store, crashes>>
      /\ pc # "idle" /\ pc' \in {"failing", "shed", "hung"}
  BY DEF RequestFails, Overflows, Hang, AwaitsTheWorld
<1>2. /\ WellFormed(messages') /\ messages'[2] = messages[2]
      /\ turn' \in 1 .. MaxTurns
  BY <1>1 DEF Inv, RunOK, loop
<1>3. PendingOpen'
  BY <1>1 DEF PendingOpen
<1>4. UNCHANGED <<pending, nextId, edited, planMode, lastSummaryTurn, summary, done>>
  BY <1>1 DEF loop
<1>5. QED
  BY <1>1, <1>2, <1>3, <1>4, InnerStep DEF Inv, TypeOK, GuardOK, Pcs

-----------------------------------------------------------------------------
(* What a tool call can return: an edit that counts changed a file.          *)
LEMMA ToolResultFacts ==
    ASSUME Inv, NEW kind, NEW result \in ToolResults(kind)
    PROVE  /\ result.plan \in BOOLEAN
           /\ result.effect \in Effects \cup {"none"}
           /\ SuccessfulModification(kind, result.ok) => result.effect = "files"
<1>1. planMode \in BOOLEAN
  BY DEF Inv, TypeOK
<1>2. CASE result = Rejected(planMode)
  BY <1>1, <1>2 DEF Rejected, Result, SuccessfulModification
<1>3. CASE result \in Succeeds(kind, env, planMode)
  <2>1. CASE kind = "write_file"
    BY <1>1, <1>3, <2>1 DEF Succeeds, Result, Effects
  <2>2. CASE kind # "write_file"
    <3>1. PICK ok \in BOOLEAN, finish \in BOOLEAN, plan \in BOOLEAN,
               effect \in Effects \cup {"none"} :
            result = Result(ok, finish, plan, effect)
      <4>1. CASE kind = "run_command"
        BY <1>1, <1>3, <4>1 DEF Succeeds, CommandRuns, Effects
      <4>2. CASE kind = "exit_plan_mode"
        BY <1>1, <1>3, <4>2 DEF Succeeds, ExitsPlanMode, Effects
      <4>3. CASE kind \in {"read_file", "ask_user_question"}
        BY <1>1, <1>3, <4>3 DEF Succeeds, Effects
      <4>4. CASE kind = "mcp"
        BY <1>1, <1>3, <4>4 DEF Succeeds, Effects
      <4>5. CASE kind = "todo_write"
        BY <1>1, <1>3, <4>5 DEF Succeeds, Effects
      <4>6. CASE kind \in {"enter_plan_mode", "finish"}
        BY <1>1, <1>3, <4>6 DEF Succeeds, Effects
      <4>7. CASE kind \notin {"run_command", "exit_plan_mode", "read_file",
                   "ask_user_question", "mcp", "todo_write",
                   "enter_plan_mode", "finish"}
        BY <1>3, <2>2, <4>7 DEF Succeeds
      <4>8. QED
        BY <4>1, <4>2, <4>3, <4>4, <4>5, <4>6, <4>7
    <3>2. QED
      BY <2>2, <3>1 DEF SuccessfulModification, Result
  <2>3. QED
    BY <2>1, <2>2
<1>4. QED
  BY <1>2, <1>3 DEF ToolResults, HookDenies, Execute

LEMMA CallToolInv ==
    ASSUME Inv, NEW kind \in CallKinds, CallTool(kind) PROVE Inv'
<1>1. PICK result \in ToolResults(kind), size \in Sizes :
         /\ messages' = Append(messages, Answer(pending[1], size))
         /\ planMode' = result.plan
         /\ done' = Count(result.effect)
         /\ edited' = (edited \/ SuccessfulModification(kind, result.ok))
         /\ AfterCall(result)
  BY DEF CallTool
<1> DEFINE m == Answer(pending[1], size)
<1>2. /\ pc = "tools" /\ WellFormed(messages) /\ turn \in 1 .. MaxTurns
      /\ pending \in Seq(Nat) /\ pending # <<>>
  BY DEF Inv, RunOK, TypeOK, PendingOpen, CallTool
<1>3. PICK n \in Nat : n = Len(messages)
  BY <1>2, LenProperties DEF WellFormed
<1>4. PICK q \in Nat : q = Len(pending) /\ q >= 1
  BY <1>2
<1>5. PICK a \in 1 .. n :
        /\ messages[a].role = "assistant"
        /\ \A p \in 1 .. Len(pending) : pending[p] \in messages[a].calls
        /\ \A k \in a + 1 .. n : messages[k].role = "tool"
  BY <1>2, <1>3 DEF Inv, PendingOpen
<1>6. m \in Message /\ m.role = "tool" /\ m.of = pending[1]
  <2>1. pending[1] \in Nat
    BY <1>2, <1>4
  <2>2. m \in Message
    BY <2>1, AnswerType, TokenAssumption
  <2>3. QED
    BY <2>2 DEF Answer
<1> HIDE DEF m
<1>7. /\ messages' \in Seq(Message) /\ Len(messages') = n + 1
      /\ messages'[n + 1] = m
      /\ \A i \in 1 .. n : messages'[i] = messages[i]
  BY <1>1, <1>2, <1>3, <1>6, AppendProperties DEF WellFormed, m
<1>8. WellFormed(messages') /\ messages'[2] = messages[2]
  <2>0. messages \in Seq(Message) /\ Anchored(messages) /\ pending[1] \in messages[a].calls
    BY <1>2, <1>4, <1>5 DEF WellFormed
  <2>1. Anchored(messages')
    <3>1. messages' = Append(messages, m)
      BY <1>1 DEF m
    <3>. QED
      BY <1>3, <1>5, <1>6, <2>0, <3>1, AnswerAnchored
  <2>2. n >= 2 /\ messages[1].role = "system" /\ messages[2].role = "user"
    BY <1>2, <1>3 DEF WellFormed
  <2>3. messages'[1] = messages[1] /\ messages'[2] = messages[2]
    BY <1>7, <2>2
  <2>4. QED
    BY <1>7, <2>1, <2>2, <2>3 DEF WellFormed
<1>9. /\ pending' \in Seq(Nat)
      /\ \A p \in 1 .. Len(pending') : pending'[p] \in messages[a].calls
      /\ pc' = "tools" => pending' # <<>>
  <2>1. PICK T \in Seq(Nat) :
          /\ T = Tail(pending) /\ Len(T) = q - 1
          /\ \A p \in 1 .. q - 1 : T[p] = pending[p + 1]
    <3>1. /\ Tail(pending) \in Seq(Nat) /\ Len(Tail(pending)) = q - 1
          /\ \A p \in 1 .. q - 1 : Tail(pending)[p] = pending[p + 1]
      BY <1>2, <1>4
    <3>2. QED
      BY <3>1
  <2>2. pending' = T
    BY <1>1, <2>1 DEF AfterCall
  <2>3. pc' = "tools" => q > 1
    BY <1>1, <1>4 DEF AfterCall, NextTurn
  <2>4. ASSUME NEW p \in 1 .. q - 1
        PROVE  T[p] \in messages[a].calls
    <3>1. p + 1 \in 1 .. Len(pending)
      BY <1>4
    <3>2. QED
      BY <1>5, <2>1, <3>1
  <2>5. pc' = "tools" => T # <<>>
    <3>1. SUFFICES ASSUME q > 1 PROVE T # <<>>
      BY <2>3
    <3>2. T = <<>> <=> Len(T) = 0
      BY EmptySeq
    <3>3. Len(T) # 0
      BY <1>4, <2>1, <3>1
    <3>4. QED
      BY <3>2, <3>3, Zenon
  <2>6. QED
    BY <2>1, <2>2, <2>4, <2>5
<1>10. turn' \in 1 .. MaxTurns /\ pc' \in {"tools", "completing", "compact", "failing"}
  BY <1>1, <1>2, NextTurnPc, RunAssumption DEF AfterCall
<1>11. PendingOpen'
  <2>1. \A k \in a + 1 .. n + 1 : messages'[k].role = "tool"
    BY <1>5, <1>6, <1>7
  <2>2. a \in 1 .. Len(messages') /\ messages'[a] = messages[a]
    BY <1>7
  <2>3. QED
    BY <1>5, <1>7, <1>9, <2>1, <2>2 DEF PendingOpen
<1>12. /\ planMode' \in BOOLEAN /\ edited' \in BOOLEAN
       /\ edited => edited'
       /\ done' \in [Effects -> Nat]
       /\ edited' => done'["files"] > 0
  <2>1. /\ result.plan \in BOOLEAN /\ result.effect \in Effects \cup {"none"}
        /\ SuccessfulModification(kind, result.ok) => result.effect = "files"
    BY ToolResultFacts
  <2>2. edited \in BOOLEAN /\ done \in [Effects -> Nat] /\ (edited => done["files"] > 0)
    BY DEF Inv, TypeOK, GuardOK
  <2>3. edited' \in BOOLEAN /\ (edited => edited')
    BY <1>1, <2>2
  <2>4. /\ done' \in [Effects -> Nat]
        /\ done'["files"] >= done["files"]
        /\ result.effect = "files" => done'["files"] > 0
    BY <1>1, <2>1, <2>2 DEF Count, Effects
  <2>5. edited' => done'["files"] > 0
    BY <1>1, <2>1, <2>2, <2>4 DEF Effects
  <2>6. QED
    BY <1>1, <2>1, <2>3, <2>4, <2>5
<1>13. pc' = "completing" =>
         /\ needsEdit => edited' \/ summary' = "guards"
         /\ messages'[Len(messages')].role = "tool"
  <2>1. pc' = "completing" =>
          ~FinishBlocked(result) /\ summary' = FinishedWith(result)
    BY <1>1 DEF AfterCall, NextTurn
  <2>2. pc' = "completing" => (needsEdit => edited' \/ summary' = "guards")
    <3>1. edited => edited'
      BY <1>12
    <3>2. pc' = "completing" => (needsEdit => edited \/ summary' = "guards")
      BY <2>1, Zenon DEF FinishBlocked, FinishGuarded
    <3>3. QED
      BY <3>1, <3>2, Zenon
  <2>3. messages'[Len(messages')].role = "tool"
    BY <1>6, <1>7
  <2>4. QED
    BY <2>2, <2>3
<1>14. /\ UNCHANGED <<options, store, crashes>>
       /\ UNCHANGED <<lastSummaryTurn, nextId>>
  BY DEF CallTool
<1>15. summary' \in {"none", "own", "guards"}
  BY <1>1 DEF AfterCall, FinishedWith, Inv, TypeOK
<1>16. pc # "idle" /\ pc' # "idle" /\ pc' \in Pcs
  BY <1>2, <1>10 DEF Pcs
<1>17. /\ lastSummaryTurn' \in {Never} \cup (1 .. MaxTurns) /\ nextId' \in Nat
  BY <1>14 DEF Inv, TypeOK
<1>18. QED
  BY <1>8, <1>9, <1>10, <1>11, <1>12, <1>13, <1>14, <1>15, <1>16, <1>17, InnerStep, Zenon

-----------------------------------------------------------------------------
(* Steps that end a run, or try to: only the file of this run changes, and   *)
(* it says completed only if the run got there by an accepted finish.        *)
LEMMA EndStep ==
    ASSUME Inv, pc # "idle", pc' \in {"idle", "failing"},
           UNCHANGED <<options, loop>>, crashes' \in 0 .. MaxCrashes,
           store' \in [Runs -> [status: Statuses, messages: Seq(Message)]],
           \A r \in Runs : r # run => store'[r] = store[r],
           store'[run].status = "completed" =>
              /\ pc = "completing" /\ pc' = "idle"
              /\ store'[run].messages = messages,
           pc' = "failing" => store'[run].status \notin Closed
    PROVE  Inv'
<1>1. /\ run' = run /\ env' = env /\ needsEdit' = needsEdit
      /\ resumed' = resumed /\ messages' = messages /\ turn' = turn
      /\ pending' = pending /\ edited' = edited /\ planMode' = planMode
      /\ lastSummaryTurn' = lastSummaryTurn
      /\ summary' = summary /\ done' = done /\ nextId' = nextId
  BY DEF options, loop
<1>2. run \in Runs /\ WellFormed(messages)
  BY DEF Inv, RunOK
<1>3. TypeOK'
  <2>1. pc' \in Pcs
    BY DEF Pcs
  <2>2. QED
    BY <1>1, <2>1 DEF Inv, TypeOK
<1>4. PendingOpen'
  BY DEF PendingOpen
<1>5. RunOK'
  BY <1>1 DEF Inv, RunOK
<1>6. StoreOK'
  <2> SUFFICES ASSUME NEW r \in Runs
               PROVE  /\ store'[r].status = "completed" =>
                           /\ WellFormed(store'[r].messages)
                           /\ store'[r].messages[Len(store'[r].messages)].role = "tool"
                      /\ r > run => store'[r].status = "none"
    BY <1>1 DEF StoreOK
  <2>1. CASE r = run
    <3>1. store'[run].status = "completed" =>
            /\ WellFormed(store'[run].messages)
            /\ store'[run].messages[Len(store'[run].messages)].role = "tool"
      BY <1>2 DEF Inv, GuardOK
    <3>2. ~(run > run)
      BY <1>2 DEF Runs
    <3>3. QED
      BY <2>1, <3>1, <3>2
  <2>2. CASE r # run
    BY <2>2 DEF Inv, StoreOK
  <2>3. QED
    BY <2>1, <2>2
<1>7. GuardOK'
  BY <1>1 DEF Inv, GuardOK
<1>8. QED
  BY <1>3, <1>4, <1>5, <1>6, <1>7 DEF Inv

LEMMA CompleteInv == ASSUME Inv, Complete PROVE Inv'
<1>1. /\ pc = "completing" /\ run' = run /\ UNCHANGED <<options, loop>>
      /\ crashes' = crashes
  BY DEF Complete, options
<1>2. /\ TypeOK /\ run \in Runs /\ messages \in Seq(Message)
      /\ store[run].status \notin Closed
  BY <1>1 DEF Inv, RunOK, WellFormed
<1>3. CASE Written(Session("completed", messages)) /\ pc' = "idle"
  <2>1. "completed" \in Statuses
    BY DEF Statuses
  <2>2. /\ store' \in [Runs -> [status: Statuses, messages: Seq(Message)]]
        /\ \A r \in Runs : r # run => store'[r] = store[r]
        /\ store'[run].messages = messages
    BY <1>1, <1>2, <1>3, <2>1, WrittenStore
  <2>3. QED
    BY <1>1, <1>2, <1>3, <2>2, EndStep DEF TypeOK
<1>4. CASE NotWritten /\ pc' = "failing"
  <2>1. /\ store' \in [Runs -> [status: Statuses, messages: Seq(Message)]]
        /\ \A r \in Runs : r # run => store'[r] = store[r]
        /\ store'[run] = store[run] \/ store'[run].status = "torn"
    BY <1>1, <1>2, <1>4, NotWrittenStore
  <2>2. store'[run].status \notin Closed
    BY <1>2, <2>1 DEF Closed
  <2>3. QED
    BY <1>1, <1>2, <1>4, <2>1, <2>2, EndStep DEF TypeOK, Closed
<1>5. QED
  BY <1>3, <1>4 DEF Complete

LEMMA FailInv == ASSUME Inv, Fail PROVE Inv'
<1>1. /\ pc = "failing" /\ pc' = "idle" /\ run' = run
      /\ UNCHANGED <<options, loop>> /\ crashes' = crashes
  BY DEF Fail, options
<1>2. /\ TypeOK /\ run \in Runs /\ store[run].status \notin Closed
  BY <1>1 DEF Inv, RunOK
<1>3. /\ store' \in [Runs -> [status: Statuses, messages: Seq(Message)]]
      /\ \A r \in Runs : r # run => store'[r] = store[r]
      /\ store'[run].status # "completed"
  <2>1. CASE Written(Session("failed", <<>>))
    <3>1. "failed" \in Statuses /\ <<>> \in Seq(Message)
      BY DEF Statuses
    <3>2. QED
      BY <1>1, <1>2, <2>1, <3>1, WrittenStore
  <2>2. CASE NotWritten
    BY <1>1, <1>2, <2>2, NotWrittenStore DEF Closed
  <2>3. QED
    BY <2>1, <2>2 DEF Fail
<1>4. QED
  BY <1>1, <1>2, <1>3, EndStep DEF TypeOK

LEMMA CrashInv == ASSUME Inv, Crash PROVE Inv'
<1>1. /\ pc # "idle" /\ pc' = "idle" /\ UNCHANGED <<options, loop>>
  BY DEF Crash
<1>2. /\ TypeOK /\ run \in Runs /\ store[run].status \notin Closed
  BY <1>1 DEF Inv, RunOK
<1>3. crashes' \in 0 .. MaxCrashes
  BY <1>2, RunAssumption DEF Crash, TypeOK
<1>4. /\ store' \in [Runs -> [status: Statuses, messages: Seq(Message)]]
      /\ \A r \in Runs : r # run => store'[r] = store[r]
      /\ store'[run].status # "completed"
  <2>1. CASE store' = store
    BY <1>2, <2>1 DEF TypeOK, Closed
  <2>2. CASE store' = [store EXCEPT ![run] = Session("torn", <<>>)]
    BY <1>2, <2>2 DEF TypeOK, Session, Statuses
  <2>3. QED
    BY <2>1, <2>2 DEF Crash
<1>5. QED
  BY <1>1, <1>3, <1>4, EndStep

LEMMA StutterInv == ASSUME Inv, UNCHANGED vars PROVE Inv'
  BY DEF Inv, TypeOK, PendingOpen, RunOK, StoreOK, GuardOK, vars, options, loop

(* The inductive invariant holds throughout.                                 *)
THEOREM Invariance == Spec => []Inv
<1>1. Inv /\ [Next]_vars => Inv'
  <2> SUFFICES ASSUME Inv, [Next]_vars PROVE Inv'
    OBVIOUS
  <2>1. CASE \E from \in 0 .. MaxRuns : Start(from)
    BY <2>1, StartInv
  <2>2. CASE Step
    <3>1. CASE Compact
      BY <3>1, CompactInv
    <3>2. CASE AnswerWithText
      BY <3>2, AnswerWithTextInv
    <3>3. CASE AnswerWithCalls
      BY <3>3, AnswerWithCallsInv
    <3>4. CASE RequestFails \/ Overflows
      BY <3>4, RequestEndsInv
    <3>5. CASE Shed
      BY <3>5, ShedInv
    <3>6. CASE Complete
      BY <3>6, CompleteInv
    <3>7. CASE Fail
      BY <3>7, FailInv
    <3>8. CASE \E kind \in CallKinds : CallTool(kind)
      BY <3>8, CallToolInv
    <3>9. QED
      BY <2>2, <3>1, <3>2, <3>3, <3>4, <3>5, <3>6, <3>7, <3>8 DEF Step
  <2>3. CASE Hang
    BY <2>3, RequestEndsInv
  <2>4. CASE Crash
    BY <2>4, CrashInv
  <2>5. CASE UNCHANGED vars
    BY <2>5, StutterInv
  <2>6. QED
    BY <2>1, <2>2, <2>3, <2>4, <2>5 DEF Next
<1>2. QED
  BY InitInv, <1>1, PTL DEF Spec

-----------------------------------------------------------------------------
(* Every variable keeps its type.                                            *)
THEOREM TypeCorrect == Spec => []TypeOK
<1>1. Inv => TypeOK
  BY DEF Inv
<1>2. QED
  BY Invariance, <1>1, PTL

(* No request ever carries a tool result without its call: the promise of    *)
(* safeRecentMessages, for every limit, budget and number of calls.          *)
THEOREM NoOrphans == Spec => []NoOrphanToolResult
<1>1. Inv => NoOrphanToolResult
  BY DEF Inv, RunOK, WellFormed, NoOrphanToolResult, Requesting
<1>2. QED
  BY Invariance, <1>1, PTL

(* Compaction never loses the goal of a run that started afresh.             *)
THEOREM GoalStays == Spec => []GoalKept
<1>1. Inv => GoalKept
  <2> SUFFICES ASSUME Inv, Requesting, ~resumed
               PROVE  \E i \in 1 .. Len(messages) : messages[i].goal = run
    BY DEF GoalKept
  <2>1. WellFormed(messages) /\ messages[2].goal = run
    BY DEF Inv, RunOK, Requesting
  <2>2. PICK n \in Nat : n = Len(messages) /\ n >= 2
    BY <2>1, LenProperties DEF WellFormed
  <2>3. 2 \in 1 .. Len(messages)
    BY <2>2
  <2>4. QED
    BY <2>1, <2>3
<1>2. QED
  BY Invariance, <1>1, PTL

(* Whatever a completed session saved, and a later run is seeded with, starts *)
(* with the system prompt and holds no tool result without its call.  The    *)
(* calls a message made after its finish stay unanswered in it.              *)
THEOREM SavedAnchored == Spec => []SavedTranscriptAnchored
<1>1. Inv => SavedTranscriptAnchored
  BY DEF Inv, StoreOK, WellFormed, SavedTranscriptAnchored
<1>2. QED
  BY Invariance, <1>1, PTL

(* A run whose goal asks for a change completes only after one of its own    *)
(* calls changed a file, or with the guard's own message for a summary.      *)
THEOREM FinishIsHonest == Spec => []FinishHonest
<1>1. Inv => FinishHonest
  BY DEF Inv, GuardOK, FinishHonest
<1>2. QED
  BY Invariance, <1>1, PTL

(* A closed session is never written again, nor is the session of an earlier *)
(* run: only the file of the run in progress, still open, can change.        *)
THEOREM ClosedForGood == Spec => ClosedStaysClosed
<1> DEFINE Kept == \A r \in Runs :
              /\ store[r].status \in Closed => store'[r] = store[r]
              /\ r < run => store'[r] = store[r]
<1>1. ASSUME Inv, NEW w \in Runs, w >= run, store[w].status \notin Closed,
             \A r \in Runs : r # w => store'[r] = store[r]
      PROVE  Kept
  <2> SUFFICES ASSUME NEW r \in Runs, store[r].status \in Closed \/ r < run
               PROVE  store'[r] = store[r]
    OBVIOUS
  <2>1. r # w
    BY <1>1 DEF Inv, TypeOK, Runs
  <2>2. QED
    BY <1>1, <2>1
<1>2. Inv /\ [Next]_vars => [Kept]_vars
  <2> SUFFICES ASSUME Inv, Next PROVE Kept
    OBVIOUS
  <2>1. CASE store' = store
    BY <2>1
  <2>2. ASSUME NEW from \in 0 .. MaxRuns, Start(from) PROVE Kept
    <3>1. run' \in Runs /\ run' >= run /\ store[run'].status = "none"
      BY <2>2, RunAssumption DEF Inv, StoreOK, TypeOK, Runs, Start
    <3>2. \A r \in Runs : r # run' => store'[r] = store[r]
      <4>1. CASE Written(Session("running", <<>>))
        <5>1. "running" \in Statuses /\ <<>> \in Seq(Message)
          BY DEF Statuses
        <5>2. QED
          BY <3>1, <4>1, <5>1, WrittenStore DEF Inv
      <4>2. CASE NotWritten
        BY <3>1, <4>2, NotWrittenStore DEF Inv
      <4>3. QED
        BY <2>2, <4>1, <4>2 DEF Start
    <3>3. QED
      BY <1>1, <3>1, <3>2 DEF Closed
  <2>3. ASSUME Complete \/ Fail PROVE Kept
    <3>1. run' = run /\ run \in Runs /\ store[run].status \notin Closed
      BY <2>3 DEF Inv, RunOK, Complete, Fail
    <3>2. \A r \in Runs : r # run => store'[r] = store[r]
      <4>1. CASE NotWritten
        BY <3>1, <4>1, NotWrittenStore DEF Inv
      <4>2. CASE Written(Session("completed", messages)) \/ Written(Session("failed", <<>>))
        BY <3>1, <4>2 DEF Written, Inv, TypeOK
      <4>3. QED
        BY <2>3, <4>1, <4>2 DEF Complete, Fail
    <3>3. QED
      BY <1>1, <3>1, <3>2 DEF Inv, TypeOK, Runs
  <2>4. ASSUME Crash PROVE Kept
    <3>1. run \in Runs /\ store[run].status \notin Closed
      BY <2>4 DEF Inv, RunOK, Crash
    <3>2. \A r \in Runs : r # run => store'[r] = store[r]
      BY <2>4 DEF Crash, Inv, TypeOK
    <3>3. QED
      BY <1>1, <3>1, <3>2 DEF Inv, TypeOK, Runs
  <2>5. ASSUME Step, ~(Complete \/ Fail) PROVE store' = store
    BY <2>5 DEF Step, Compact, AnswerWithText, AnswerWithCalls, RequestFails,
                Overflows, Shed, CallTool
  <2>6. CASE Hang
    BY <2>1, <2>6 DEF Hang
  <2>7. QED
    BY <2>1, <2>2, <2>3, <2>4, <2>5, <2>6 DEF Next
<1>3. QED
  BY Invariance, <1>2, PTL DEF Spec, ClosedStaysClosed
=============================================================================
