------------------------- MODULE ClawSessionProofs -------------------------
(***************************************************************************)
(* Proofs about claw-rust sessions: what a compaction keeps of a           *)
(* transcript, and that no command, crash or cut write takes a file, the   *)
(* session in memory and the turn under way out of step.                   *)
(***************************************************************************)
EXTENDS ClawSession, WellFoundedInduction, SequenceTheorems, TLAPS

Roles == {"user", "assistant", "tool", "system"}
Message == [role: Roles, n: Nat]

\* Every result answers a call.
AllPaired(m) == \A i \in 1 .. Len(m) : Paired(m, i)
Transcript == {m \in Seq(Message) : AllPaired(m)}
-----------------------------------------------------------------------------
(* The boundary of a compaction.                                           *)

\* A set of numbers has a least one: the induction used below.
LEMMA NatLeast ==
    ASSUME NEW S \in SUBSET Nat, S # {}
    PROVE  \E s \in S : \A t \in S : s <= t
<1> DEFINE R == {ss \in Nat \X Nat : ss[1] < ss[2]}
<1>1. OpToRel(<, Nat) = R
  BY DEF OpToRel
<1>2. IsWellFoundedOn(R, Nat)
  BY <1>1, NatLessThanWellFounded, Zenon
<1> HIDE DEF R
<1>3. \E s \in S : \A t \in S : ~(<<t, s>> \in R)
  BY <1>2, WFMin
<1>4. ASSUME NEW s \in Nat, NEW t \in Nat, ~(<<t, s>> \in R)
      PROVE  s <= t
  <2>1. <<t, s>> \in Nat \X Nat
    BY <1>4
  <2>2. ~(<<t, s>>[1] < <<t, s>>[2])
    BY <1>4, <2>1 DEF R
  <2>3. QED
    BY <2>2
<1>5. QED
  BY <1>3, <1>4

Stops(m, k) == k <= PrefixLen(m) \/ m[k + 1].role # "tool"
Asks(m, k) == m[k].role = "assistant" /\ m[k].n > 0
Walk(m) == CHOOSE back : back = [k \in 0 .. Len(m) |->
    IF Stops(m, k) THEN k ELSE IF Asks(m, k) THEN k - 1 ELSE back[k - 1]]

\* Stops and Asks are the cases of Removed's recursion.
LEMMA RemovedWalks ==
    ASSUME NEW m PROVE Removed(m) = Walk(m)[Len(m) - Preserve]
BY DEF Removed, Walk, Stops, Asks

\* Where the walk back from k comes to a halt.
Halts(m, k) == Stops(m, k) \/ Asks(m, k)
LastHalt(m, k) ==
    CHOOSE j \in 0 .. k : Halts(m, j) /\ \A i \in j + 1 .. k : ~Halts(m, i)

LEMMA LastHaltExists ==
    ASSUME NEW m, NEW k \in Nat
    PROVE  /\ LastHalt(m, k) \in 0 .. k /\ Halts(m, LastHalt(m, k))
           /\ \A i \in LastHalt(m, k) + 1 .. k : ~Halts(m, i)
<1> DEFINE D == {d \in Nat : d <= k /\ Halts(m, k - d)}
<1>1. Halts(m, 0)
  BY DEF Halts, Stops, PrefixLen
<1>2. k \in D /\ D \in SUBSET Nat
  <2>1. k - k = 0
    OBVIOUS
  <2>. QED
    BY <1>1, <2>1
<1>3. PICK d \in D : \A e \in D : d <= e
  BY <1>2, NatLeast
<1>4. k - d \in 0 .. k /\ Halts(m, k - d)
  BY <1>3
<1>5. ASSUME NEW i \in k - d + 1 .. k PROVE ~Halts(m, i)
  <2>1. k - i \in Nat /\ k - i <= k /\ k - (k - i) = i /\ k - i < d
    BY <1>4, <1>3
  <2>2. k - i \notin D
    BY <1>3, <2>1
  <2>. QED
    BY <2>1, <2>2
<1> HIDE DEF D
<1>6. \E j \in 0 .. k : Halts(m, j) /\ \A i \in j + 1 .. k : ~Halts(m, i)
  BY <1>4, <1>5
<1>. QED
  BY <1>6 DEF LastHalt

LEMMA LastHaltUnique ==
    ASSUME NEW m, NEW k \in Nat, NEW j \in 0 .. k, Halts(m, j),
           \A i \in j + 1 .. k : ~Halts(m, i)
    PROVE  LastHalt(m, k) = j
<1> DEFINE l == LastHalt(m, k)
<1>1. /\ l \in 0 .. k /\ Halts(m, l) /\ \A i \in l + 1 .. k : ~Halts(m, i)
  BY LastHaltExists
<1> HIDE DEF l
<1>2. l <= j /\ j <= l
  BY <1>1
<1>. QED
  BY <1>1, <1>2 DEF l

\* The recursion of Removed has a solution, and Walk is one.
LEMMA WalkSteps ==
    ASSUME NEW m, Len(m) \in Nat
    PROVE  Walk(m) = [k \in 0 .. Len(m) |->
               IF Stops(m, k) THEN k ELSE IF Asks(m, k) THEN k - 1 ELSE Walk(m)[k - 1]]
<1> DEFINE At(k) == IF Stops(m, LastHalt(m, k)) THEN LastHalt(m, k) ELSE LastHalt(m, k) - 1
           w == [k \in 0 .. Len(m) |-> At(k)]
           v == [k \in 0 .. Len(m) |->
                   IF Stops(m, k) THEN k ELSE IF Asks(m, k) THEN k - 1 ELSE w[k - 1]]
<1>1. ASSUME NEW k \in 0 .. Len(m) PROVE w[k] = v[k]
  <2>1. CASE Halts(m, k)
    <3>1. LastHalt(m, k) = k
      BY <2>1, LastHaltUnique
    <3>2. w[k] = IF Stops(m, k) THEN k ELSE k - 1
      BY <3>1
    <3>3. v[k] = IF Stops(m, k) THEN k ELSE k - 1
      BY <2>1 DEF Halts
    <3>. QED
      BY <3>2, <3>3
  <2>2. CASE ~Halts(m, k)
    <3>1. k # 0 /\ k - 1 \in 0 .. Len(m) /\ k - 1 \in Nat
      BY <2>2 DEF Halts, Stops, PrefixLen
    <3>2. /\ LastHalt(m, k - 1) \in 0 .. k - 1 /\ Halts(m, LastHalt(m, k - 1))
          /\ \A i \in LastHalt(m, k - 1) + 1 .. k - 1 : ~Halts(m, i)
      BY <3>1, LastHaltExists
    <3>3. LastHalt(m, k) = LastHalt(m, k - 1)
      <4> DEFINE j == LastHalt(m, k - 1)
      <4>0. j \in 0 .. k - 1 /\ Halts(m, j) /\ \A i \in j + 1 .. k - 1 : ~Halts(m, i)
        BY <3>2
      <4> HIDE DEF j
      <4>1. \A i \in j + 1 .. k : i \in j + 1 .. k - 1 \/ i = k
        BY <3>1, <4>0
      <4>2. j \in 0 .. k /\ \A i \in j + 1 .. k : ~Halts(m, i)
        BY <2>2, <3>1, <4>0, <4>1
      <4>3. LastHalt(m, k) = j
        BY <4>0, <4>2, LastHaltUnique
      <4>. QED
        BY <4>3 DEF j
    <3>4. w[k] = w[k - 1] /\ v[k] = w[k - 1]
      BY <2>2, <3>1, <3>3 DEF Halts
    <3>. QED
      BY <3>4
  <2>. QED
    BY <2>1, <2>2
<1>2. w = v
  BY <1>1
<1> HIDE DEF At
<1>3. \E back : back = [k \in 0 .. Len(m) |->
          IF Stops(m, k) THEN k ELSE IF Asks(m, k) THEN k - 1 ELSE back[k - 1]]
  BY <1>2, Zenon
<1>. QED
  BY <1>3, Zenon DEF Walk

(* The boundary leaves the old summary and a message, and what it keeps    *)
(* does not begin with a result.                                           *)
LEMMA RemovedFacts ==
    ASSUME NEW m \in Seq(Message), AllPaired(m), ShouldCompact(m, TRUE)
    PROVE  /\ Removed(m) \in PrefixLen(m) .. Len(m) - 1
           /\ m[Removed(m) + 1].role # "tool"
<1> DEFINE p == PrefixLen(m)
           Good(j) == j \in p .. Len(m) - 1 /\ m[j + 1].role # "tool"
           Bad == {k \in Nat : p <= k /\ k < Len(m) /\ ~Good(Walk(m)[k])}
<1>1. /\ Len(m) \in Nat /\ Preserve \in Nat \ {0} /\ p \in {0, 1} /\ Len(m) - Preserve > p
      /\ \A i \in 1 .. Len(m) : m[i] \in Message
  BY PreserveAssumption, LenProperties, ElementOfSeq DEF ShouldCompact, PrefixLen
<1>2. m[p + 1].role # "tool"
  <2>1. p + 1 \in 1 .. Len(m) /\ (p = 1 => m[1] = Summary)
    BY <1>1 DEF PrefixLen
  <2>2. CASE m[p + 1].role = "tool"
    <3>1. PICK j \in 1 .. p : m[j].role = "assistant"
      BY <1>1, <2>1, <2>2 DEF AllPaired, Paired
    <3>2. p = 1 /\ j = 1
      BY <1>1, <3>1
    <3>. QED
      BY <2>1, <3>1, <3>2 DEF Summary
  <2>. QED
    BY <2>2
<1> HIDE DEF p
<1>3. Bad = {}
  <2>1. SUFFICES ASSUME Bad # {} PROVE FALSE
    OBVIOUS
  <2>2. PICK k \in Bad : \A e \in Bad : k <= e
    BY <2>1, NatLeast
  <2>3. k \in 0 .. Len(m) /\ p <= k /\ k < Len(m) /\ ~Good(Walk(m)[k])
    BY <1>1, <2>2
  <2>4. Walk(m)[k] = IF Stops(m, k) THEN k ELSE IF Asks(m, k) THEN k - 1 ELSE Walk(m)[k - 1]
    BY <1>1, <2>3, WalkSteps
  <2>5. CASE Stops(m, k)
    <3>1. Walk(m)[k] = k
      BY <2>4, <2>5
    <3>2. m[k + 1].role # "tool"
      BY <1>1, <1>2, <2>3, <2>5 DEF Stops, p
    <3>. QED
      BY <1>1, <2>3, <3>1, <3>2
  <2>6. CASE ~Stops(m, k)
    <3>1. p <= k - 1 /\ k - 1 \in Nat /\ k - 1 < Len(m)
      BY <1>1, <2>3, <2>6 DEF Stops, p
    <3>2. CASE Asks(m, k)
      <4>1. Walk(m)[k] = k - 1 /\ m[k - 1 + 1].role # "tool"
        BY <2>3, <2>4, <2>6, <3>2 DEF Asks
      <4>. QED
        BY <1>1, <2>3, <3>1, <4>1
    <3>3. CASE ~Asks(m, k)
      <4>1. Walk(m)[k] = Walk(m)[k - 1]
        BY <2>4, <2>6, <3>3
      <4>2. k - 1 \in Bad
        BY <2>3, <3>1, <4>1
      <4>. QED
        BY <2>2, <2>3, <4>2
    <3>. QED
      BY <3>2, <3>3
  <2>. QED
    BY <2>5, <2>6
<1>4. Len(m) - Preserve \in Nat /\ p <= Len(m) - Preserve /\ Len(m) - Preserve < Len(m)
  BY <1>1
<1>5. Good(Walk(m)[Len(m) - Preserve])
  BY <1>3, <1>4
<1>. QED
  BY <1>5, RemovedWalks DEF p
-----------------------------------------------------------------------------
(* What is kept.                                                           *)
LEMMA PrefixByElements ==
    ASSUME NEW S, NEW s \in Seq(S), NEW t \in Seq(S), Len(s) <= Len(t),
           \A i \in 1 .. Len(s) : s[i] = t[i]
    PROVE  IsPrefix(s, t)
<1>1. Len(s) \in Nat /\ Len(t) \in Nat
  BY LenProperties
<1>2. SubSeq(s, 1, Len(s)) = [i \in 1 .. Len(s) |-> s[i]]
  BY <1>1
<1>3. SubSeq(t, 1, Len(s)) = [i \in 1 .. Len(s) |-> t[i]]
  BY <1>1
<1>4. SubSeq(s, 1, Len(s)) = SubSeq(t, 1, Len(s))
  BY <1>2, <1>3
<1>. QED
  BY <1>4 DEF IsPrefix

LEMMA SuffixOfTail ==
    ASSUME NEW S, NEW t \in Seq(S), NEW r \in 0 .. Len(t)
    PROVE  IsSuffix(SubSeq(t, r + 1, Len(t)), t)
<1> DEFINE s == SubSeq(t, r + 1, Len(t))
<1>1. /\ Len(t) \in Nat /\ s \in Seq(S) /\ Len(s) = Len(t) - r
      /\ \A i \in 1 .. Len(t) - r : s[i] = t[r + i]
  <2>1. Len(t) \in Nat
    BY LenProperties
  <2>. QED
    BY <2>1
<1> HIDE DEF s
<1>2. Reverse(s) = [i \in 1 .. Len(s) |-> s[(Len(s) - i) + 1]]
  BY DEF Reverse
<1>3. Reverse(t) = [i \in 1 .. Len(t) |-> t[(Len(t) - i) + 1]]
  BY DEF Reverse
<1>4. Reverse(s) \in Seq(S) /\ Len(Reverse(s)) = Len(s)
  <2>1. \A i \in 1 .. Len(s) : s[(Len(s) - i) + 1] \in S
    BY <1>1, ElementOfSeq
  <2>. QED
    BY <1>1, <1>2, <2>1, IsASeq
<1>5. Reverse(t) \in Seq(S) /\ Len(Reverse(t)) = Len(t)
  <2>1. \A i \in 1 .. Len(t) : t[(Len(t) - i) + 1] \in S
    BY <1>1, ElementOfSeq
  <2>. QED
    BY <1>1, <1>3, <2>1, IsASeq
<1>6. ASSUME NEW i \in 1 .. Len(s) PROVE Reverse(s)[i] = Reverse(t)[i]
  <2>1. Reverse(s)[i] = s[(Len(s) - i) + 1]
    BY <1>2
  <2>2. i \in 1 .. Len(t) /\ (Len(s) - i) + 1 \in 1 .. Len(t) - r
    BY <1>1
  <2>3. Reverse(t)[i] = t[(Len(t) - i) + 1]
    BY <1>3, <2>2
  <2>4. r + ((Len(s) - i) + 1) = (Len(t) - i) + 1
    BY <1>1
  <2>. QED
    BY <1>1, <2>1, <2>2, <2>3, <2>4
<1>7. IsPrefix(Reverse(s), Reverse(t))
  <2>1. Len(Reverse(s)) <= Len(Reverse(t))
    BY <1>1, <1>4, <1>5
  <2>2. \A i \in 1 .. Len(Reverse(s)) : Reverse(s)[i] = Reverse(t)[i]
    BY <1>4, <1>6
  <2>. QED
    BY <1>4, <1>5, <2>1, <2>2, PrefixByElements
<1>. QED
  BY <1>7 DEF IsSuffix, s

LEMMA KeptFacts ==
    ASSUME NEW m \in Transcript, ShouldCompact(m, TRUE)
    PROVE  /\ Kept(m) \in Seq(Message) /\ IsSuffix(Kept(m), m)
           /\ Removed(m) \in 0 .. Len(m) - 1 /\ Len(Kept(m)) = Len(m) - Removed(m)
           /\ \A i \in 1 .. Len(Kept(m)) : Kept(m)[i] = m[Removed(m) + i]
           /\ m[Removed(m) + 1].role # "tool"
<1> DEFINE r == Removed(m)
<1>1. m \in Seq(Message) /\ AllPaired(m) /\ Len(m) \in Nat
  BY LenProperties DEF Transcript
<1>2. r \in PrefixLen(m) .. Len(m) - 1 /\ m[r + 1].role # "tool"
  BY <1>1, RemovedFacts
<1>3. r \in 0 .. Len(m) - 1
  BY <1>1, <1>2 DEF PrefixLen
<1> HIDE DEF r
<1>4. IsSuffix(SubSeq(m, r + 1, Len(m)), m)
  <2>1. r \in 0 .. Len(m)
    BY <1>1, <1>3
  <2>. QED
    BY <1>1, <2>1, SuffixOfTail
<1>5. /\ SubSeq(m, r + 1, Len(m)) \in Seq(Message)
      /\ Len(SubSeq(m, r + 1, Len(m))) = Len(m) - r
      /\ \A i \in 1 .. Len(m) - r : SubSeq(m, r + 1, Len(m))[i] = m[r + i]
  BY <1>1, <1>3
<1>6. Kept(m) = SubSeq(m, r + 1, Len(m))
  BY DEF Kept, r
<1>7. \A i \in 1 .. Len(Kept(m)) : Kept(m)[i] = m[r + i]
  BY <1>5, <1>6
<1>. QED
  BY <1>2, <1>3, <1>4, <1>5, <1>6, <1>7 DEF r

(* A compaction keeps no result without its call, and what it keeps is a   *)
(* tail of the transcript behind one summary (compact.rs).                 *)
THEOREM CompactedKeepsCalls ==
    ASSUME NEW m \in Transcript, ShouldCompact(m, TRUE)
    PROVE  /\ Compacted(m) \in Transcript
           /\ PrefixLen(Compacted(m)) = 1 /\ Tail(Compacted(m)) = Kept(m)
<1> DEFINE r == Removed(m)
           k == Kept(m)
           c == <<Summary>> \o k
<1>1. /\ k \in Seq(Message) /\ r \in 0 .. Len(m) - 1 /\ Len(k) = Len(m) - r
      /\ \A i \in 1 .. Len(k) : k[i] = m[r + i]
      /\ m[r + 1].role # "tool"
  BY KeptFacts
<1>2. Len(m) \in Nat /\ \A i \in 1 .. Len(m) : Paired(m, i) /\ m[i] \in Message
  BY LenProperties, ElementOfSeq DEF Transcript, AllPaired
<1> HIDE DEF k, r
<1>3. Summary \in Message
  BY DEF Summary, Message, Roles
<1>4. c \in Seq(Message) /\ Len(c) = Len(k) + 1 /\ c[1] = Summary
  BY <1>1, <1>3
<1>5. \A i \in 1 .. Len(k) : c[i + 1] = k[i]
  BY <1>1, <1>3
<1>6. Head(c) = Summary /\ c # <<>>
  BY <1>4, <1>3, <1>1, LenProperties
<1>7. Tail(c) = k
  BY <1>1, <1>3
<1> HIDE DEF c
<1>8. ASSUME NEW i \in 1 .. Len(c) PROVE Paired(c, i)
  <2>1. CASE i = 1
    BY <1>4, <2>1 DEF Paired, Summary
  <2>2. CASE i # 1 /\ c[i].role = "tool"
    <3> DEFINE s == r + (i - 1)
    <3>1. i - 1 \in 1 .. Len(k) /\ (i - 1) + 1 = i /\ Len(k) \in Nat /\ r \in Nat
      BY <1>1, <1>2, <1>4, <2>2
    <3>2. c[i] = m[s] /\ s \in 1 .. Len(m) /\ s >= r + 1
      <4>1. c[(i - 1) + 1] = k[i - 1] /\ k[i - 1] = m[r + (i - 1)]
        BY <1>1, <1>5, <3>1
      <4>2. s \in 1 .. Len(m) /\ s >= r + 1
        BY <1>1, <1>2, <3>1
      <4>. QED
        BY <3>1, <4>1, <4>2
    <3>3. s # r + 1
      BY <1>1, <2>2, <3>2
    <3> HIDE DEF s
    <3>4. PICK j \in 1 .. s - 1 :
              /\ m[j].role = "assistant" /\ m[j].n >= m[s].n
              /\ \A between \in j + 1 .. s - 1 : m[between].role = "tool"
      BY <1>2, <2>2, <3>2 DEF Paired
    <3>5. j >= r + 1
      <4>1. CASE j <= r
        <5>1. r + 1 \in j + 1 .. s - 1
          BY <1>2, <3>1, <3>2, <3>3, <4>1
        <5>. QED
          BY <1>1, <3>4, <5>1
      <4>. QED
        BY <3>1, <4>1
    <3> DEFINE l == j - r
    <3>6. l \in 1 .. i - 2 /\ r + l = j /\ l \in 1 .. Len(k) /\ l + 1 \in 1 .. i - 1
      BY <3>1, <3>2, <3>4, <3>5 DEF s
    <3>7. c[l + 1] = m[j]
      BY <1>1, <1>5, <3>6
    <3> HIDE DEF l
    <3>8. ASSUME NEW between \in (l + 1) + 1 .. i - 1 PROVE c[between].role = "tool"
      <4>1. /\ between - 1 \in 1 .. Len(k) /\ (between - 1) + 1 = between
            /\ r + (between - 1) \in j + 1 .. s - 1
        BY <3>1, <3>6 DEF s
      <4>2. c[between] = m[r + (between - 1)]
        BY <1>1, <1>5, <4>1
      <4>. QED
        BY <3>4, <4>1, <4>2
    <3>9. c[l + 1].role = "assistant" /\ c[l + 1].n >= c[i].n
      BY <3>2, <3>4, <3>7
    <3>. QED
      BY <3>6, <3>8, <3>9 DEF Paired
  <2>3. CASE c[i].role # "tool"
    BY <2>3 DEF Paired
  <2>. QED
    BY <2>1, <2>2, <2>3
<1>9. c \in Transcript
  BY <1>4, <1>8 DEF Transcript, AllPaired
<1>10. PrefixLen(c) = 1
  BY <1>6 DEF PrefixLen
<1>. QED
  BY <1>7, <1>9, <1>10 DEF c, k, Compacted

\* A file that begins with a transcript holds it.
LEMMA HoldsItself ==
    ASSUME NEW file, NEW m \in Transcript, NEW S, file.exists,
           file.messages \in Seq(S), m \in Seq(S), Len(m) <= Len(file.messages),
           \A i \in 1 .. Len(m) : file.messages[i] = m[i]
    PROVE  Holds(file, m)
<1>1. IsPrefix(m, file.messages)
  BY PrefixByElements
<1>. QED
  BY <1>1 DEF Holds

\* The file set aside holds what a compaction left of it.
LEMMA HoldsCompacted ==
    ASSUME NEW file, NEW m \in Transcript, ShouldCompact(m, TRUE),
           file.exists, file.messages = m
    PROVE  Holds(file, Compacted(m))
<1>1. PrefixLen(Compacted(m)) = 1 /\ Tail(Compacted(m)) = Kept(m)
  BY CompactedKeepsCalls
<1>2. IsSuffix(Kept(m), m)
  BY KeptFacts
<1>3. IsSuffix(Tail(Compacted(m)), file.messages)
  BY <1>1, <1>2
<1>. QED
  BY <1>1, <1>3 DEF Holds
-----------------------------------------------------------------------------
(* Growth of a transcript.                                                 *)

\* A result may come next: it answers a call of the run it would end.
Follows(m, x) ==
    x.role = "tool" =>
        \E j \in 1 .. Len(m) :
            /\ m[j].role = "assistant" /\ m[j].n >= x.n
            /\ \A between \in j + 1 .. Len(m) : m[between].role = "tool"

LEMMA AppendFacts ==
    ASSUME NEW m \in Transcript, NEW x \in Message
    PROVE  /\ Len(m) \in Nat /\ Append(m, x) \in Seq(Message)
           /\ Len(Append(m, x)) = Len(m) + 1
           /\ Append(m, x)[Len(m) + 1] = x
           /\ \A i \in 1 .. Len(m) : Append(m, x)[i] = m[i]
<1>1. m \in Seq(Message)
  BY DEF Transcript
<1>. QED
  BY <1>1, LenProperties, AppendProperties

\* A transcript stays one when a message that may follow is appended.
LEMMA AppendPaired ==
    ASSUME NEW m \in Transcript, NEW x \in Message, Follows(m, x)
    PROVE  Append(m, x) \in Transcript
<1> DEFINE a == Append(m, x)
<1>1. /\ Len(m) \in Nat /\ a \in Seq(Message) /\ Len(a) = Len(m) + 1
      /\ a[Len(m) + 1] = x /\ \A i \in 1 .. Len(m) : a[i] = m[i]
  BY AppendFacts
<1> HIDE DEF a
<1>2. \A i \in 1 .. Len(m) : Paired(m, i)
  BY DEF Transcript, AllPaired
<1>3. ASSUME NEW i \in 1 .. Len(m) PROVE Paired(a, i)
  <2>1. SUFFICES ASSUME m[i].role = "tool" PROVE Paired(a, i)
    BY <1>1 DEF Paired
  <2>2. PICK j \in 1 .. i - 1 :
            /\ m[j].role = "assistant" /\ m[j].n >= m[i].n
            /\ \A between \in j + 1 .. i - 1 : m[between].role = "tool"
    BY <1>2, <2>1 DEF Paired
  <2>3. j \in 1 .. Len(m) /\ \A between \in j + 1 .. i - 1 : between \in 1 .. Len(m)
    BY <1>1, <2>2
  <2>4. a[i] = m[i] /\ a[j] = m[j]
    BY <1>1, <2>3
  <2>5. \A between \in j + 1 .. i - 1 : a[between].role = "tool"
    BY <1>1, <2>2, <2>3
  <2>. QED
    BY <2>2, <2>4, <2>5 DEF Paired
<1>4. Paired(a, Len(m) + 1)
  <2>1. SUFFICES ASSUME x.role = "tool" PROVE Paired(a, Len(m) + 1)
    BY <1>1 DEF Paired
  <2>2. PICK j \in 1 .. Len(m) :
            /\ m[j].role = "assistant" /\ m[j].n >= x.n
            /\ \A between \in j + 1 .. Len(m) : m[between].role = "tool"
    BY <2>1 DEF Follows
  <2>3. /\ j \in 1 .. (Len(m) + 1) - 1 /\ a[j] = m[j]
        /\ \A between \in j + 1 .. (Len(m) + 1) - 1 : between \in j + 1 .. Len(m)
        /\ \A between \in j + 1 .. (Len(m) + 1) - 1 : between \in 1 .. Len(m)
    BY <1>1, <2>2
  <2>4. \A between \in j + 1 .. (Len(m) + 1) - 1 : a[between].role = "tool"
    BY <1>1, <2>2, <2>3
  <2>. QED
    BY <1>1, <2>2, <2>3, <2>4 DEF Paired
<1>5. \A i \in 1 .. Len(a) : i \in 1 .. Len(m) \/ i = Len(m) + 1
  BY <1>1
<1>6. AllPaired(a)
  BY <1>3, <1>4, <1>5 DEF AllPaired
<1>. QED
  BY <1>1, <1>6 DEF Transcript, a

\* What is answered stays answered.
LEMMA AppendAnswered ==
    ASSUME NEW m \in Transcript, NEW x \in Message, NEW i \in 1 .. Len(m), Answered(m, i)
    PROVE  Answered(Append(m, x), i)
<1> DEFINE a == Append(m, x)
<1>1. /\ Len(m) \in Nat /\ Len(a) = Len(m) + 1 /\ \A j \in 1 .. Len(m) : a[j] = m[j]
  BY AppendFacts
<1>2. m[i] \in Message
  BY ElementOfSeq DEF Transcript
<1> HIDE DEF a
<1>3. a[i] = m[i] /\ m[i].n \in Nat
  BY <1>1, <1>2 DEF Message
<1>4. ASSUME m[i].role = "assistant", NEW call \in 1 .. m[i].n
      PROVE  i + call <= Len(a) /\ a[i + call] = ToolResult(call)
  <2>1. i + call <= Len(m) /\ m[i + call] = ToolResult(call)
    BY <1>4 DEF Answered
  <2>2. i + call \in 1 .. Len(m)
    BY <1>1, <1>3, <1>4, <2>1
  <2>3. a[i + call] = m[i + call]
    BY <1>1, <2>2
  <2>4. i + call <= Len(a)
    BY <1>1, <2>2
  <2>. QED
    BY <2>1, <2>3, <2>4
<1>5. Answered(a, i)
  BY <1>3, <1>4 DEF Answered
<1>. QED
  BY <1>5 DEF a
-----------------------------------------------------------------------------
(* Files and what the process holds.                                       *)
Session == [messages: Transcript, compacted: BOOLEAN, stamp: Nat]
Tails == {"ended", "torn", "unended", "joined"}
WholeFile ==
    [exists: {TRUE}, messages: Transcript, compacted: BOOLEAN, stamp: Nat,
     tail: Tails, warned: BOOLEAN]
File == {NoFile} \cup WholeFile
Phases == {"down", "idle", "prompted", "writing", "request", "tools", "commit"}
InATurn == phase \in {"request", "tools", "commit"}

LEMMA FileFacts ==
    ASSUME NEW file \in File
    PROVE  /\ file.exists \in BOOLEAN
           /\ file.exists => file \in WholeFile
           /\ ~file.exists => file = NoFile
<1>1. CASE file = NoFile
  <2>1. file.exists = FALSE
    BY <1>1 DEF NoFile
  <2>. QED
    BY <1>1, <2>1
<1>2. CASE file \in WholeFile
  <2>1. file.exists = TRUE
    BY <1>2 DEF WholeFile
  <2>. QED
    BY <1>2, <2>1
<1>. QED
  BY <1>1, <1>2 DEF File

\* A line may be appended: the last one ended, or its end was warned of.
Ready(file) == file.tail = "ended" \/ file.warned
Apart(file) == file.exists /\ file.tail = "joined" => file.warned

LEMMA SnapshotFacts ==
    ASSUME NEW session \in Session
    PROVE  /\ Snapshot(session) \in WholeFile /\ Snapshot(session) \in File
           /\ Snapshot(session).exists /\ Snapshot(session).tail = "ended"
           /\ Ready(Snapshot(session)) /\ Apart(Snapshot(session))
           /\ Snapshot(session).messages = session.messages
           /\ Holds(Snapshot(session), session.messages)
<1>1. /\ Snapshot(session) \in WholeFile /\ Snapshot(session).exists
      /\ Snapshot(session).tail = "ended"
      /\ Snapshot(session).messages = session.messages
  BY DEF Snapshot, Session, WholeFile, Tails
<1>2. session.messages \in Transcript /\ session.messages \in Seq(Message)
  BY DEF Session, Transcript
<1>3. Len(session.messages) <= Len(session.messages)
  BY <1>2, LenProperties
<1>4. Holds(Snapshot(session), session.messages)
  BY <1>1, <1>2, <1>3, HoldsItself
<1>5. Ready(Snapshot(session)) /\ Apart(Snapshot(session))
  BY <1>1 DEF Ready, Apart
<1>. QED
  BY <1>1, <1>4, <1>5 DEF File

LEMMA AppendedFacts ==
    ASSUME NEW file \in WholeFile, NEW x \in Message, Follows(file.messages, x),
           Ready(file)
    PROVE  /\ Appended(file, x) \in WholeFile /\ Appended(file, x).exists
           /\ Appended(file, x).messages = Append(file.messages, x)
           /\ Ready(Appended(file, x)) /\ Apart(Appended(file, x))
           /\ Appended(file, x).warned = file.warned
<1> DEFINE a == Append(file.messages, x)
           end == IF file.tail = "ended" THEN "ended" ELSE "joined"
<1>1. a \in Transcript
  BY AppendPaired DEF WholeFile
<1>2. Appended(file, x) = [file EXCEPT !.messages = a, !.tail = end]
  BY DEF Appended
<1>3. end \in Tails /\ (end = "ended" \/ file.warned)
  BY DEF Ready, Tails
<1> HIDE DEF a, end
<1>4. /\ Appended(file, x) \in WholeFile /\ Appended(file, x).exists
      /\ Appended(file, x).messages = a /\ Appended(file, x).tail = end
      /\ Appended(file, x).warned = file.warned
  BY <1>1, <1>2, <1>3 DEF WholeFile
<1>5. Ready(Appended(file, x)) /\ Apart(Appended(file, x))
  BY <1>3, <1>4 DEF Ready, Apart
<1>. QED
  BY <1>4, <1>5 DEF a

\* A file whose end alone is another.
LEMMA TailFacts ==
    ASSUME NEW file \in WholeFile, NEW end \in Tails, NEW warned \in BOOLEAN,
           end = "joined" => warned
    PROVE  LET cut == [file EXCEPT !.tail = end, !.warned = warned]
           IN  /\ cut \in WholeFile /\ cut.exists /\ cut.messages = file.messages
               /\ cut.tail = end /\ cut.warned = warned /\ Apart(cut)
<1> DEFINE cut == [file EXCEPT !.tail = end, !.warned = warned]
<1>1. /\ cut \in WholeFile /\ cut.exists /\ cut.messages = file.messages
      /\ cut.tail = end /\ cut.warned = warned
  BY DEF WholeFile
<1>. QED
  BY <1>1 DEF Apart

LEMMA TailOnly ==
    ASSUME NEW file \in WholeFile, NEW end \in Tails, end = "joined" => file.warned
    PROVE  LET cut == [file EXCEPT !.tail = end]
           IN  /\ cut \in WholeFile /\ cut.exists /\ cut.messages = file.messages
               /\ cut.tail = end /\ cut.warned = file.warned /\ Apart(cut)
<1> DEFINE cut == [file EXCEPT !.tail = end]
<1>1. /\ cut \in WholeFile /\ cut.exists /\ cut.messages = file.messages
      /\ cut.tail = end /\ cut.warned = file.warned
  BY DEF WholeFile
<1>. QED
  BY <1>1 DEF Apart

LEMMA CutFacts ==
    ASSUME NEW file \in WholeFile, NEW x \in Message, Follows(file.messages, x),
           Ready(file), NEW cut \in Cut(file, x)
    PROVE  /\ cut \in WholeFile /\ Apart(cut)
           /\ cut.messages = file.messages \/ cut.messages = Append(file.messages, x)
<1> DEFINE a == Appended(file, x)
           torn == IF file.tail = "ended" THEN "torn" ELSE "joined"
           end == IF a.tail = "ended" THEN "unended" ELSE a.tail
<1>1. /\ a \in WholeFile /\ a.messages = Append(file.messages, x) /\ Ready(a) /\ Apart(a)
      /\ a.warned = file.warned
  BY AppendedFacts
<1>2. \/ cut = file
      \/ cut = [file EXCEPT !.tail = torn]
      \/ cut = [a EXCEPT !.tail = end]
  BY DEF Cut
<1>3. torn \in Tails /\ (torn = "joined" => file.warned)
  BY DEF Ready, Tails
<1> HIDE DEF a
<1>4. a.tail \in Tails
  BY <1>1 DEF WholeFile
<1>5. end \in Tails /\ (end = "joined" => a.warned)
  BY <1>1, <1>4 DEF Ready, Tails
<1> HIDE DEF torn, end
<1>6. CASE cut = file
  BY <1>6 DEF Ready, Apart
<1>7. CASE cut = [file EXCEPT !.tail = torn]
  BY <1>3, <1>7, TailOnly
<1>8. CASE cut = [a EXCEPT !.tail = end]
  BY <1>1, <1>5, <1>8, TailOnly
<1>. QED
  BY <1>2, <1>6, <1>7, <1>8

LEMMA LoadedFacts ==
    ASSUME NEW path \in Paths, files \in [Paths -> File], files[path].exists
    PROVE  Loaded(path) \in Session /\ Loaded(path).messages = files[path].messages
<1>1. files[path] \in WholeFile
  BY FileFacts
<1>. QED
  BY <1>1 DEF Loaded, Session, WholeFile
-----------------------------------------------------------------------------
(* The inductive invariant.                                                *)
Stored == files \in [Paths -> File] /\ \A path \in Paths : Apart(files[path])

\* What a turn's usage counts is of no matter here.
Held ==
    /\ memory \in Session /\ clock \in Nat /\ phase \in Phases
    /\ \E usage : turn \in [messages: Transcript, usage: {usage}, asked: Nat, done: Nat]

\* A process writes one file, and never behind a line that was cut before it.
Here ==
    phase # "down" =>
        /\ at.path \in Paths /\ at.id = at.path[1]
        /\ files[at.path].exists => Ready(files[at.path])

\* Between turns the file is the session in memory, or is about to be.
AtRest ==
    /\ phase = "idle" =>
           /\ files[at.path].exists => files[at.path] = Snapshot(memory)
           /\ at.path[2] = 0 => files[at.path].exists
    /\ phase = "writing" => ~files[at.path].exists
    /\ phase = "prompted" /\ files[at.path].exists =>
           files[at.path].messages = memory.messages

\* Within a turn the file is the copy the turn works on.
Grown(m, t) == Len(m) < Len(t) /\ \A i \in 1 .. Len(m) : t[i] = m[i]
InTurn ==
    InATurn =>
        /\ files[at.path].exists
        /\ files[at.path].messages = turn.messages
        /\ Grown(memory.messages, turn.messages)

\* The turn's own calls have their results, but for those of the last answer.
OwnAnswered(last) ==
    \A i \in Len(memory.messages) + 1 .. last : Answered(turn.messages, i)
Asking(asking) ==
    /\ asking \in Len(memory.messages) + 1 .. Len(turn.messages)
    /\ Len(turn.messages) = asking + turn.done /\ turn.done <= turn.asked
    /\ turn.messages[asking] = Assistant(turn.asked)
    /\ \A call \in 1 .. turn.done : turn.messages[asking + call] = ToolResult(call)
    /\ OwnAnswered(asking - 1)
Calls ==
    /\ phase \in {"request", "commit"} => OwnAnswered(Len(turn.messages))
    /\ phase = "tools" => \E asking \in Nat : Asking(asking)

ClawInv == Stored /\ Held /\ Here /\ AtRest /\ InTurn /\ Calls /\ FinishedTurnsKept

LEMMA AsideFacts ==
    ASSUME NEW path \in Paths, Long(path)
    PROVE  /\ Aside(path) \in Paths /\ Aside(path) # path
           /\ files[path].exists
<1>1. /\ path[1] \in Sessions /\ path[2] \in 0 .. MaxDepth
      /\ path[2] < MaxDepth /\ files[path].exists
  BY DEF Paths, Long
<1>2. path[2] + 1 \in 0 .. MaxDepth /\ path[2] + 1 # path[2]
  BY <1>1, ClawAssumption
<1>3. Aside(path) \in Paths
  BY <1>1, <1>2 DEF Aside, Paths
<1>4. Aside(path)[2] # path[2]
  BY <1>2 DEF Aside
<1>. QED
  BY <1>1, <1>3, <1>4

\* One file is written.
LEMMA StoreOne ==
    ASSUME Stored, NEW path \in Paths, NEW new \in File, Apart(new),
           files' = [files EXCEPT ![path] = new]
    PROVE  /\ Stored' /\ files'[path] = new
           /\ \A other \in Paths : other # path => files'[other] = files[other]
<1>1. /\ files' \in [Paths -> File] /\ files'[path] = new
      /\ \A other \in Paths : other # path => files'[other] = files[other]
  BY DEF Stored
<1>2. ASSUME NEW other \in Paths PROVE Apart(files'[other])
  <2>1. Apart(files[other])
    BY DEF Stored
  <2>. QED
    BY <1>1, <2>1
<1>. QED
  BY <1>1, <1>2 DEF Stored

LEMMA NoFileApart == NoFile \in File /\ ~NoFile.exists /\ Apart(NoFile)
BY DEF NoFile, File, Apart

(* A save, wherever it ends: the old file is aside or the new one there.   *)
LEMMA SaveFacts ==
    ASSUME Stored, NEW path \in Paths, NEW session \in Session, Save(path, session)
    PROVE  /\ Stored'
           /\ \/ /\ phase' = "writing" /\ Long(path) /\ ~files'[path].exists
                 /\ files'[Aside(path)] = files[path]
              \/ /\ phase' = "idle" /\ files'[path] = Snapshot(session)
<1>1. CASE Long(path)
  <2>1. Aside(path) \in Paths /\ Aside(path) # path /\ files[path].exists
    BY <1>1, AsideFacts
  <2>2. /\ files' = [files EXCEPT ![path] = NoFile, ![Aside(path)] = files[path]]
        /\ phase' = "writing"
    BY <1>1 DEF Save
  <2> DEFINE aside == Aside(path)
             old == files[path]
  <2>3. old \in File /\ Apart(old) /\ NoFile \in File /\ Apart(NoFile) /\ ~NoFile.exists
    BY NoFileApart DEF Stored
  <2>4. aside \in Paths /\ aside # path
    BY <2>1
  <2>5. files' = [files EXCEPT ![path] = NoFile, ![aside] = old]
    BY <2>2
  <2> HIDE DEF aside, old
  <2>6. /\ files' \in [Paths -> File] /\ files'[path] = NoFile /\ files'[aside] = old
        /\ \A other \in Paths : other \notin {path, aside} => files'[other] = files[other]
    BY <2>3, <2>4, <2>5 DEF Stored
  <2>7. ASSUME NEW other \in Paths PROVE Apart(files'[other])
    <3>1. Apart(files[other])
      BY DEF Stored
    <3>. QED
      BY <2>3, <2>6, <3>1
  <2>8. Stored'
    BY <2>6, <2>7 DEF Stored
  <2>. QED
    BY <1>1, <2>2, <2>3, <2>6, <2>8 DEF aside, old
<1>2. CASE ~Long(path)
  <2>1. files' = [files EXCEPT ![path] = Snapshot(session)] /\ phase' = "idle"
    BY <1>2 DEF Save
  <2>2. Snapshot(session) \in File /\ Apart(Snapshot(session))
    BY SnapshotFacts
  <2>. QED
    BY <2>1, <2>2, StoreOne
<1>. QED
  BY <1>1, <1>2

\* Any save of a session that the old file, if set aside, holds.
LEMMA SaveStep ==
    ASSUME ClawInv, NEW path \in Paths, NEW session \in Session, Save(path, session),
           path[2] = 0 /\ Long(path) => Holds(files[path], session.messages),
           memory' = session, at'.path = path, at'.id = path[1], clock' \in Nat,
           turn' = turn \/ turn' = NoTurn
    PROVE  ClawInv'
<1>1. Stored /\ Held
  BY DEF ClawInv
<1>2. Stored' /\ phase' \in {"writing", "idle"}
  BY <1>1, SaveFacts
<1>3. \/ /\ phase' = "writing" /\ Long(path) /\ ~files'[path].exists
         /\ files'[Aside(path)] = files[path]
      \/ phase' = "idle" /\ files'[path] = Snapshot(session)
  BY <1>1, SaveFacts
<1>4. /\ Snapshot(session).exists /\ Ready(Snapshot(session))
      /\ Holds(Snapshot(session), session.messages)
  BY SnapshotFacts
<1>5. Held'
  <2>1. \E usage : NoTurn \in [messages: Transcript, usage: {usage}, asked: Nat, done: Nat]
    <3>1. <<>> \in Transcript
      BY DEF Transcript, AllPaired
    <3>2. NoTurn \in [messages: Transcript, usage: {0}, asked: Nat, done: Nat]
      BY <3>1 DEF NoTurn
    <3>. QED
      BY <3>2
  <2>2. \E usage : turn' \in [messages: Transcript, usage: {usage}, asked: Nat, done: Nat]
    BY <1>1, <2>1, Zenon DEF Held
  <2>3. memory' \in Session /\ clock' \in Nat /\ phase' \in Phases
    BY <1>2 DEF Phases
  <2>. QED
    BY <2>2, <2>3 DEF Held
<1>6. Here'
  BY <1>3, <1>4 DEF Here
<1>7. AtRest'
  <2>1. Snapshot(memory)' = Snapshot(session)
    BY DEF Snapshot
  <2>2. CASE phase' = "writing"
    BY <1>3, <2>2 DEF AtRest
  <2>3. CASE phase' = "idle"
    BY <1>3, <1>4, <2>1, <2>3 DEF AtRest
  <2>. QED
    BY <1>2, <2>2, <2>3
<1>8. InTurn' /\ Calls'
  BY <1>2 DEF InTurn, InATurn, Calls
<1>9. FinishedTurnsKept'
  <2>1. SUFFICES ASSUME path[2] = 0
                 PROVE  \/ Holds(files'[path], session.messages)
                        \/ Holds(files'[Aside(path)], session.messages)
    BY DEF FinishedTurnsKept, Aside
  <2>. QED
    BY <1>3, <1>4, <2>1
<1>. QED
  BY <1>2, <1>5, <1>6, <1>7, <1>8, <1>9 DEF ClawInv

\* What a turn appends to, when it may.
Pushes(msgs, x) ==
    /\ at.path \in Paths /\ msgs \in Transcript /\ x \in Message /\ Follows(msgs, x)
    /\ Len(memory.messages) <= Len(msgs)
    /\ \A i \in 1 .. Len(memory.messages) : msgs[i] = memory.messages[i]
    /\ files[at.path].exists =>
           files[at.path].messages = msgs /\ Ready(files[at.path])

LEMMA GrownByPush ==
    ASSUME NEW msgs, NEW x, Pushes(msgs, x), memory \in Session
    PROVE  Grown(memory.messages, Append(msgs, x))
<1>1. /\ msgs \in Transcript /\ x \in Message /\ Len(memory.messages) <= Len(msgs)
      /\ \A i \in 1 .. Len(memory.messages) : msgs[i] = memory.messages[i]
  BY DEF Pushes
<1>2. Len(memory.messages) \in Nat
  BY LenProperties DEF Session, Transcript
<1> DEFINE a == Append(msgs, x)
<1>3. /\ Len(msgs) \in Nat /\ Len(a) = Len(msgs) + 1
      /\ \A i \in 1 .. Len(msgs) : a[i] = msgs[i]
  BY <1>1, AppendFacts
<1> HIDE DEF a
<1>4. Len(memory.messages) < Len(a)
  BY <1>1, <1>2, <1>3
<1>5. \A i \in 1 .. Len(memory.messages) : i \in 1 .. Len(msgs)
  BY <1>1, <1>2, <1>3
<1>6. \A i \in 1 .. Len(memory.messages) : a[i] = memory.messages[i]
  BY <1>1, <1>3, <1>5
<1>. QED
  BY <1>4, <1>6 DEF Grown, a

(* append_persisted_message, as far as the turn goes on.                   *)
LEMMA PushStep ==
    ASSUME ClawInv, NEW msgs, NEW x, Pushes(msgs, x), NEW stamp \in Nat, Push(msgs, x, stamp),
           phase' \in {"request", "tools", "commit"}, turn'.messages = Append(msgs, x),
           UNCHANGED <<at, memory>>, at.id = at.path[1]
    PROVE  Stored' /\ Here' /\ AtRest' /\ InTurn' /\ FinishedTurnsKept'
<1> DEFINE old == files[at.path]
           new == files'[at.path]
           a == Append(msgs, x)
<1>1. /\ at.path \in Paths /\ msgs \in Transcript /\ x \in Message /\ Follows(msgs, x)
      /\ old.exists => old.messages = msgs /\ Ready(old)
  BY DEF Pushes
<1>2. memory \in Session /\ Stored
  BY DEF ClawInv, Held
<1>3. Grown(memory.messages, a)
  BY <1>2, GrownByPush
<1>4. a \in Transcript
  BY <1>1, AppendPaired
<1>5. old \in File
  BY <1>1, <1>2 DEF Stored
<1> DEFINE whole == [memory EXCEPT !.messages = a, !.stamp = stamp]
           next == IF old.exists THEN Appended(old, x) ELSE Snapshot(whole)
<1>6. next \in WholeFile /\ next.exists /\ next.messages = a /\ Ready(next) /\ Apart(next)
  <2>1. CASE old.exists
    <3>1. old \in WholeFile
      BY <1>5, <2>1, FileFacts
    <3>2. old.messages = msgs /\ Ready(old)
      BY <1>1, <2>1
    <3>3. next = Appended(old, x)
      BY <2>1
    <3> HIDE DEF old, next
    <3>. QED
      BY <1>1, <3>1, <3>2, <3>3, AppendedFacts
  <2>2. CASE ~old.exists
    <3> HIDE DEF a
    <3>1. whole \in Session /\ whole.messages = a
      BY <1>2, <1>4 DEF Session
    <3>2. next = Snapshot(whole)
      BY <2>2
    <3> HIDE DEF old, next, whole
    <3>. QED
      BY <3>1, <3>2, SnapshotFacts
  <2>. QED
    BY <2>1, <2>2
<1>7. files' = [files EXCEPT ![at.path] = next]
  BY DEF Push
<1> HIDE DEF next, old
<1>8. next \in File
  BY <1>6 DEF File
<1>9. Stored' /\ files'[at.path] = next
  BY <1>1, <1>2, <1>6, <1>7, <1>8, StoreOne
<1>10. at' = at /\ memory' = memory
  OBVIOUS
<1>11. Here'
  BY <1>1, <1>6, <1>9, <1>10 DEF Here
<1>12. AtRest'
  BY DEF AtRest
<1>13. InTurn'
  BY <1>3, <1>6, <1>9, <1>10 DEF InTurn
<1>14. Holds(next, memory.messages)
  <2>1. memory.messages \in Transcript /\ memory.messages \in Seq(Message)
    BY <1>2 DEF Session, Transcript
  <2>2. a \in Seq(Message) /\ Len(a) \in Nat /\ Len(memory.messages) \in Nat
    BY <1>4, <2>1, LenProperties DEF Transcript
  <2> HIDE DEF a
  <2>3. /\ Len(memory.messages) <= Len(next.messages)
        /\ \A i \in 1 .. Len(memory.messages) : next.messages[i] = memory.messages[i]
    BY <1>3, <1>6, <2>2 DEF Grown
  <2>. QED
    BY <1>6, <2>1, <2>2, <2>3, HoldsItself
<1>15. FinishedTurnsKept'
  BY <1>9, <1>10, <1>14 DEF FinishedTurnsKept
<1>. QED
  BY <1>9, <1>11, <1>12, <1>13, <1>15

(* A process that ends while it appends.                                   *)
LEMMA CutStep ==
    ASSUME ClawInv, NEW msgs, NEW x, Pushes(msgs, x), PushCut(x),
           UNCHANGED <<at, memory>>, clock' \in Nat
    PROVE  ClawInv'
<1> DEFINE old == files[at.path]
<1>1. /\ at.path \in Paths /\ msgs \in Transcript /\ x \in Message /\ Follows(msgs, x)
      /\ old.exists /\ old.messages = msgs /\ Ready(old)
  BY DEF Pushes, PushCut
<1>2. memory \in Session /\ Stored
  BY DEF ClawInv, Held
<1>3. old \in WholeFile
  <2>1. old \in File
    BY <1>1, <1>2 DEF Stored
  <2>. QED
    BY <1>1, <2>1, FileFacts
<1>4. PICK cut \in Cut(old, x) : files' = [files EXCEPT ![at.path] = cut]
  BY DEF PushCut
<1> HIDE DEF old
<1>5. /\ cut \in WholeFile /\ Apart(cut)
      /\ cut.messages = msgs \/ cut.messages = Append(msgs, x)
  BY <1>1, <1>3, CutFacts
<1>6. cut \in File /\ cut.exists
  BY <1>5 DEF File, WholeFile
<1>7. Stored' /\ files'[at.path] = cut
  BY <1>1, <1>2, <1>4, <1>5, <1>6, StoreOne
<1>8. phase' = "down" /\ turn' = NoTurn /\ at' = at /\ memory' = memory
  BY DEF PushCut
<1>9. Held'
  <2>1. <<>> \in Transcript
    BY DEF Transcript, AllPaired
  <2>2. turn' \in [messages: Transcript, usage: {0}, asked: Nat, done: Nat]
    BY <1>8, <2>1 DEF NoTurn
  <2>. QED
    BY <1>2, <1>8, <2>2 DEF Held, Phases
<1>10. Here' /\ AtRest' /\ InTurn' /\ Calls'
  BY <1>8 DEF Here, AtRest, InTurn, InATurn, Calls
<1>11. Holds(cut, memory.messages)
  <2>1. memory.messages \in Transcript /\ memory.messages \in Seq(Message)
    BY <1>2 DEF Session, Transcript
  <2>2. msgs \in Seq(Message) /\ Append(msgs, x) \in Seq(Message)
    BY <1>1, AppendFacts DEF Transcript
  <2>3. CASE cut.messages = msgs
    <3>1. /\ Len(memory.messages) <= Len(cut.messages)
          /\ \A i \in 1 .. Len(memory.messages) : cut.messages[i] = memory.messages[i]
      BY <2>3 DEF Pushes
    <3>. QED
      BY <1>6, <2>1, <2>2, <2>3, <3>1, HoldsItself
  <2>4. CASE cut.messages = Append(msgs, x)
    <3> DEFINE a == Append(msgs, x)
    <3>1. Grown(memory.messages, a) /\ Len(a) \in Nat /\ Len(memory.messages) \in Nat
      BY <1>2, <2>1, <2>2, GrownByPush, LenProperties
    <3>2. cut.messages = a /\ a \in Seq(Message)
      BY <2>2, <2>4
    <3> HIDE DEF a
    <3>3. /\ Len(memory.messages) <= Len(cut.messages)
          /\ \A i \in 1 .. Len(memory.messages) : cut.messages[i] = memory.messages[i]
      BY <3>1, <3>2 DEF Grown
    <3>. QED
      BY <1>6, <2>1, <3>2, <3>3, HoldsItself
  <2>. QED
    BY <1>5, <2>3, <2>4
<1>12. FinishedTurnsKept'
  BY <1>7, <1>8, <1>11 DEF FinishedTurnsKept
<1>. QED
  BY <1>7, <1>9, <1>10, <1>12 DEF ClawInv

LEMMA InATurnFacts ==
    ASSUME ClawInv, InATurn
    PROVE  /\ at.path \in Paths /\ at.id = at.path[1]
           /\ memory \in Session /\ turn.messages \in Transcript
           /\ Grown(memory.messages, turn.messages)
           /\ \A x \in Message : Follows(turn.messages, x) => Pushes(turn.messages, x)
<1>1. /\ at.path \in Paths /\ at.id = at.path[1] /\ files[at.path].exists
      /\ files[at.path].messages = turn.messages /\ Ready(files[at.path])
      /\ Grown(memory.messages, turn.messages)
  BY DEF ClawInv, Here, InTurn, InATurn
<1>2. memory \in Session /\ turn.messages \in Transcript
  BY DEF ClawInv, Held
<1>3. Len(memory.messages) \in Nat /\ Len(turn.messages) \in Nat
  BY <1>2, LenProperties DEF Session, Transcript
<1>4. /\ Len(memory.messages) <= Len(turn.messages)
      /\ \A i \in 1 .. Len(memory.messages) : turn.messages[i] = memory.messages[i]
  BY <1>1, <1>3 DEF Grown
<1>. QED
  BY <1>1, <1>2, <1>4 DEF Pushes

LEMMA MessageFacts ==
    /\ User \in Message /\ \A m : Follows(m, User)
    /\ \A k \in Nat : Assistant(k) \in Message /\ \A m : Follows(m, Assistant(k))
    /\ \A k \in Nat : ToolResult(k) \in Message
BY DEF User, Assistant, ToolResult, Message, Roles, Follows
-----------------------------------------------------------------------------
(* A turn keeps the invariant.                                             *)
LEMMA StartTurnStep ==
    ASSUME ClawInv, StartTurn PROVE ClawInv'
<1> DEFINE m == memory.messages
           a == Append(m, User)
<1>1. /\ phase = "prompted" /\ clock' \in Nat /\ at' = at /\ memory' = memory
      /\ memory \in Session /\ clock + 1 \in Nat
  BY DEF StartTurn, ClawInv, Held
<1>2. m \in Transcript
  BY <1>1 DEF Session
<1>3. at.path \in Paths /\ at.id = at.path[1]
  BY <1>1 DEF ClawInv, Here
<1>4. Pushes(m, User)
  <2>1. files[at.path].exists => files[at.path].messages = m /\ Ready(files[at.path])
    BY <1>1 DEF ClawInv, AtRest, Here
  <2>2. Len(m) \in Nat
    BY <1>2, LenProperties DEF Transcript
  <2>3. Len(m) <= Len(m)
    BY <2>2
  <2>. QED
    BY <1>2, <1>3, <2>1, <2>3, MessageFacts DEF Pushes
<1>5. CASE PushCut(User)
  BY <1>1, <1>4, <1>5, CutStep
<1>6. CASE /\ turn' = [NoTurn EXCEPT !.messages = Append(memory.messages, User),
                                     !.usage = UsageOf(memory.messages)]
           /\ Push(memory.messages, User, clock + 1)
           /\ phase' = "request"
  <2>1. turn' = [messages |-> a, usage |-> UsageOf(memory.messages), asked |-> 0, done |-> 0]
    BY <1>6 DEF NoTurn
  <2>2. turn'.messages = a
    BY <2>1
  <2>3. Stored' /\ Here' /\ AtRest' /\ InTurn' /\ FinishedTurnsKept'
    <3>1. phase' \in {"request", "tools", "commit"} /\ Push(m, User, clock + 1)
      BY <1>6
    <3>. QED
      BY <1>1, <1>3, <1>4, <2>2, <3>1, PushStep
  <2>4. a \in Transcript
    BY <1>2, MessageFacts, AppendPaired
  <2>5. Held'
    <3>1. turn' \in [messages: Transcript, usage: {UsageOf(memory.messages)},
                     asked: Nat, done: Nat]
      BY <2>1, <2>4
    <3>. QED
      BY <1>1, <1>6, <3>1 DEF Held, Phases
  <2>6. Calls'
    <3>1. Len(a) = Len(m) + 1 /\ a[Len(m) + 1] = User /\ Len(m) \in Nat
      BY <1>2, MessageFacts, AppendFacts
    <3> HIDE DEF a, m
    <3>2. \A i \in Len(m) + 1 .. Len(a) : i = Len(m) + 1
      BY <3>1
    <3>3. \A i \in Len(m) + 1 .. Len(a) : Answered(a, i)
      BY <3>1, <3>2 DEF Answered, User
    <3>4. memory'.messages = m
      BY <1>1 DEF m
    <3>. QED
      BY <1>6, <2>2, <3>3, <3>4 DEF Calls, OwnAnswered
  <2>. QED
    BY <2>3, <2>5, <2>6 DEF ClawInv
<1>. QED
  BY <1>5, <1>6 DEF StartTurn

LEMMA ReplyStep ==
    ASSUME ClawInv, Reply PROVE ClawInv'
<1>1. /\ phase = "request" /\ clock' = clock /\ at' = at /\ memory' = memory /\ clock \in Nat
  BY DEF Reply, ClawInv, Held
<1>2. InATurn
  BY <1>1 DEF InATurn
<1>3. PICK k \in 0 .. MaxCalls :
        \/ /\ turn' = [turn EXCEPT !.messages = Append(@, Assistant(k)), !.usage = @ + 1,
                                   !.asked = k, !.done = 0]
           /\ Push(turn.messages, Assistant(k), clock)
           /\ phase' = IF k = 0 THEN "commit" ELSE "tools"
        \/ PushCut(Assistant(k))
  BY DEF Reply
<1>4. k \in Nat /\ Assistant(k) \in Message /\ \A m : Follows(m, Assistant(k))
  BY ClawAssumption, MessageFacts
<1>5. Pushes(turn.messages, Assistant(k))
  BY <1>2, <1>4, InATurnFacts
<1>6. at.id = at.path[1] /\ turn.messages \in Transcript /\ memory \in Session
  BY <1>2, InATurnFacts
<1>7. CASE PushCut(Assistant(k))
  BY <1>1, <1>5, <1>7, CutStep
<1>8. CASE /\ turn' = [turn EXCEPT !.messages = Append(@, Assistant(k)), !.usage = @ + 1,
                                   !.asked = k, !.done = 0]
           /\ Push(turn.messages, Assistant(k), clock)
           /\ phase' = IF k = 0 THEN "commit" ELSE "tools"
  <2> DEFINE t == turn.messages
             n == memory.messages
             a == Append(t, Assistant(k))
  <2>1. PICK usage : turn \in [messages: Transcript, usage: {usage}, asked: Nat, done: Nat]
    BY DEF ClawInv, Held
  <2>2. turn' = [messages |-> a, usage |-> turn.usage + 1, asked |-> k, done |-> 0]
    BY <1>8, <2>1
  <2>3. turn'.messages = a /\ turn'.asked = k /\ turn'.done = 0
    BY <2>2
  <2>4. phase' \in {"tools", "commit"} /\ (phase' = "commit" => k = 0)
    BY <1>8
  <2>5. Stored' /\ Here' /\ AtRest' /\ InTurn' /\ FinishedTurnsKept'
    <3>1. phase' \in {"request", "tools", "commit"}
      BY <2>4
    <3>. QED
      BY <1>1, <1>5, <1>6, <1>8, <2>3, <3>1, PushStep
  <2>6. a \in Transcript
    BY <1>4, <1>6, AppendPaired
  <2>7. Held'
    <3>1. turn' \in [messages: Transcript, usage: {turn.usage + 1}, asked: Nat, done: Nat]
      BY <1>4, <2>2, <2>6
    <3>2. phase' \in Phases /\ memory' \in Session /\ clock' \in Nat
      BY <1>1, <1>6, <2>4 DEF Phases
    <3>. QED
      BY <3>1, <3>2 DEF Held
  <2>8. Calls'
    <3>1. /\ Len(t) \in Nat /\ Len(a) = Len(t) + 1 /\ a[Len(t) + 1] = Assistant(k)
      BY <1>4, <1>6, AppendFacts
    <3>2. \A i \in Len(n) + 1 .. Len(t) : Answered(t, i)
      BY <1>1 DEF ClawInv, Calls, OwnAnswered
    <3>3. Len(n) < Len(t) /\ Len(n) \in Nat
      BY <1>2, <1>6, InATurnFacts, LenProperties DEF Grown, Session, Transcript
    <3>4. \A i \in Len(n) + 1 .. Len(t) : i \in 1 .. Len(t)
      BY <3>1, <3>3
    <3>5. \A i \in Len(n) + 1 .. Len(t) : Answered(a, i)
      BY <1>4, <1>6, <3>2, <3>4, AppendAnswered
    <3> HIDE DEF a, t, n
    <3>6. memory'.messages = n
      BY <1>1 DEF n
    <3>7. CASE phase' = "tools"
      <4>0. PICK g \in Nat : g = Len(t) + 1
        BY <3>1
      <4>1. g \in Len(n) + 1 .. Len(a) /\ Len(a) = g + 0 /\ 0 <= k /\ g - 1 = Len(t)
        BY <1>4, <3>1, <3>3, <4>0
      <4>2. a[g] = Assistant(k) /\ \A i \in Len(n) + 1 .. g - 1 : Answered(a, i)
        BY <3>1, <3>5, <4>0, <4>1
      <4>3. \A call \in 1 .. 0 : FALSE
        OBVIOUS
      <4>4. Asking(g)'
        BY <2>3, <3>6, <4>1, <4>2, <4>3 DEF Asking, OwnAnswered
      <4>. QED
        BY <3>7, <4>1, <4>4 DEF Calls
    <3>8. CASE phase' = "commit"
      <4>1. a[Len(t) + 1].n = 0
        BY <2>4, <3>1, <3>8 DEF Assistant
      <4>2. Answered(a, Len(t) + 1)
        BY <4>1 DEF Answered
      <4>3. \A i \in Len(n) + 1 .. Len(a) : i \in Len(n) + 1 .. Len(t) \/ i = Len(t) + 1
        BY <3>1, <3>3
      <4>4. \A i \in Len(n) + 1 .. Len(a) : Answered(a, i)
        BY <3>5, <4>2, <4>3
      <4>. QED
        BY <2>3, <3>6, <3>8, <4>4 DEF Calls, OwnAnswered
    <3>. QED
      BY <2>4, <3>7, <3>8
  <2>. QED
    BY <2>5, <2>7, <2>8 DEF ClawInv
<1>. QED
  BY <1>3, <1>7, <1>8

LEMMA RunToolStep ==
    ASSUME ClawInv, RunTool PROVE ClawInv'
<1>1. /\ phase = "tools" /\ clock' = clock /\ at' = at /\ memory' = memory /\ clock \in Nat
      /\ CallsLeft
  BY DEF RunTool, ClawInv, Held
<1>2. InATurn
  BY <1>1 DEF InATurn
<1> DEFINE t == turn.messages
           n == memory.messages
<1>3. at.id = at.path[1] /\ t \in Transcript /\ memory \in Session /\ n \in Transcript
  BY <1>2, InATurnFacts DEF Session
<1>4. PICK usage : turn \in [messages: Transcript, usage: {usage}, asked: Nat, done: Nat]
  BY DEF ClawInv, Held
<1>5. PICK done \in Nat : done = turn.done
  BY <1>4
<1>6. PICK asked \in Nat : asked = turn.asked
  BY <1>4
<1>7. PICK g \in Nat :
        /\ g \in Len(n) + 1 .. Len(t) /\ Len(t) = g + done /\ t[g] = Assistant(asked)
        /\ \A call \in 1 .. done : t[g + call] = ToolResult(call)
        /\ \A i \in Len(n) + 1 .. g - 1 : Answered(t, i)
  BY <1>1, <1>5, <1>6 DEF ClawInv, Calls, Asking, OwnAnswered
<1>8. Len(n) \in Nat /\ Len(t) \in Nat /\ done < asked
  BY <1>1, <1>3, <1>5, <1>6, LenProperties DEF Transcript, CallsLeft
<1> DEFINE x == ToolResult(done + 1)
<1>9. x \in Message /\ x.n = done + 1
  BY MessageFacts DEF ToolResult
<1>10. Follows(t, x)
  <2> HIDE DEF t, n
  <2>1. g \in 1 .. Len(t)
    BY <1>7, <1>8
  <2>2. t[g].role = "assistant" /\ t[g].n >= x.n
    BY <1>7, <1>8, <1>9 DEF Assistant
  <2>3. ASSUME NEW between \in g + 1 .. Len(t) PROVE t[between].role = "tool"
    <3>1. between - g \in 1 .. done /\ g + (between - g) = between
      BY <1>7, <1>8
    <3>2. t[between] = ToolResult(between - g)
      BY <1>7, <3>1
    <3>. QED
      BY <3>2 DEF ToolResult
  <2>. QED
    BY <2>1, <2>2, <2>3 DEF Follows
<1>11. Pushes(t, x)
  BY <1>2, <1>9, <1>10, InATurnFacts
<1>12. CASE PushCut(x)
  BY <1>1, <1>11, <1>12, CutStep
<1>13. CASE /\ turn' = [turn EXCEPT !.messages = Append(@, x), !.done = @ + 1]
            /\ Push(t, x, clock) /\ phase' = "tools"
  <2> DEFINE a == Append(t, x)
  <2>1. turn' = [messages |-> a, usage |-> turn.usage, asked |-> asked, done |-> done + 1]
    BY <1>4, <1>5, <1>6, <1>13
  <2>2. turn'.messages = a /\ turn'.asked = asked /\ turn'.done = done + 1
    BY <2>1
  <2>3. Stored' /\ Here' /\ AtRest' /\ InTurn' /\ FinishedTurnsKept'
    <3>1. phase' \in {"request", "tools", "commit"}
      BY <1>13
    <3>. QED
      BY <1>1, <1>3, <1>11, <1>13, <2>2, <3>1, PushStep
  <2>4. a \in Transcript
    BY <1>3, <1>9, <1>10, AppendPaired
  <2>5. Held'
    <3>1. turn' \in [messages: Transcript, usage: {turn.usage}, asked: Nat, done: Nat]
      BY <2>1, <2>4
    <3>2. phase' \in Phases /\ memory' \in Session /\ clock' \in Nat
      BY <1>1, <1>3, <1>13 DEF Phases
    <3>. QED
      BY <3>1, <3>2 DEF Held
  <2>6. Calls'
    <3>1. /\ Len(a) = Len(t) + 1 /\ a[Len(t) + 1] = x
          /\ \A i \in 1 .. Len(t) : a[i] = t[i]
      BY <1>3, <1>9, AppendFacts
    <3>2. \A i \in Len(n) + 1 .. g - 1 : i \in 1 .. Len(t)
      BY <1>7, <1>8
    <3>3. \A i \in Len(n) + 1 .. g - 1 : Answered(a, i)
      BY <1>3, <1>7, <1>9, <3>2, AppendAnswered
    <3> HIDE DEF a, t, n
    <3>4. memory'.messages = n
      BY <1>1 DEF n
    <3>5. g \in 1 .. Len(t)
      BY <1>7, <1>8
    <3>6. g \in Len(n) + 1 .. Len(a) /\ Len(a) = g + (done + 1) /\ done + 1 <= asked
      <4>1. Len(a) = g + (done + 1)
        BY <1>7, <1>8, <3>1
      <4>2. g \in Len(n) + 1 .. Len(a)
        BY <1>7, <1>8, <3>1
      <4>. QED
        BY <1>8, <4>1, <4>2
    <3>7. a[g] = Assistant(asked)
      BY <1>7, <3>1, <3>5
    <3>8. ASSUME NEW call \in 1 .. done + 1 PROVE a[g + call] = ToolResult(call)
      <4>1. CASE call = done + 1
        <5>1. g + call = Len(t) + 1
          BY <1>7, <4>1
        <5>. QED
          BY <3>1, <4>1, <5>1
      <4>2. CASE call # done + 1
        <5>1. call \in 1 .. done /\ g + call \in 1 .. Len(t)
          BY <1>7, <3>5, <4>2
        <5>. QED
          BY <1>7, <3>1, <5>1
      <4>. QED
        BY <4>1, <4>2
    <3>9. Asking(g)'
      BY <2>2, <3>3, <3>4, <3>6, <3>7, <3>8 DEF Asking, OwnAnswered
    <3>. QED
      BY <1>13, <3>9 DEF Calls
  <2>. QED
    BY <2>3, <2>5, <2>6 DEF ClawInv
<1>14. \/ PushCut(x)
       \/ /\ turn' = [turn EXCEPT !.messages = Append(@, x), !.done = @ + 1]
          /\ Push(t, x, clock) /\ phase' = "tools"
  BY <1>5 DEF RunTool
<1>. QED
  BY <1>12, <1>13, <1>14

LEMMA NextIterationStep ==
    ASSUME ClawInv, NextIteration PROVE ClawInv'
<1>1. /\ phase = "tools" /\ phase' = "request" /\ ~CallsLeft
      /\ UNCHANGED <<files, clock, at, memory, turn>>
  BY DEF NextIteration
<1> DEFINE t == turn.messages
           n == memory.messages
<1>2. PICK g \in Nat : Asking(g)
  BY <1>1 DEF ClawInv, Calls
<1>3. t \in Transcript /\ n \in Transcript /\ turn.done \in Nat /\ turn.asked \in Nat
  BY DEF ClawInv, Held, Session
<1>4. Len(n) \in Nat /\ Len(t) \in Nat
  BY <1>3, LenProperties DEF Transcript
<1>5. turn.done = turn.asked
  BY <1>1, <1>2, <1>3 DEF Asking, CallsLeft
<1>6. ASSUME NEW i \in Len(n) + 1 .. Len(t) PROVE Answered(t, i)
  <2>1. CASE i < g
    BY <1>2, <1>4, <2>1 DEF Asking, OwnAnswered
  <2>2. CASE i = g
    <3>1. t[i] = Assistant(turn.asked)
      BY <1>2, <2>2 DEF Asking
    <3>2. t[i].n = turn.asked
      BY <3>1 DEF Assistant
    <3>3. \A call \in 1 .. turn.asked :
             i + call <= Len(t) /\ t[i + call] = ToolResult(call)
      BY <1>2, <1>3, <1>5, <2>2 DEF Asking
    <3>. QED
      BY <3>2, <3>3 DEF Answered
  <2>3. CASE i > g
    <3>1. i - g \in 1 .. turn.done /\ g + (i - g) = i
      <4>1. Len(t) = g + turn.done /\ i \in Int /\ i <= Len(t)
        BY <1>2, <1>4 DEF Asking
      <4>. QED
        BY <1>3, <2>3, <4>1
    <3>2. t[i] = ToolResult(i - g)
      BY <1>2, <3>1 DEF Asking
    <3>3. t[i].role # "assistant"
      BY <3>2 DEF ToolResult
    <3>. QED
      BY <3>3 DEF Answered
  <2>. QED
    BY <1>4, <2>1, <2>2, <2>3
<1>7. Calls'
  BY <1>1, <1>6 DEF Calls, OwnAnswered
<1>8. Stored' /\ FinishedTurnsKept'
  BY <1>1 DEF ClawInv, Stored, FinishedTurnsKept
<1>9. Held' /\ Here' /\ AtRest' /\ InTurn'
  BY <1>1 DEF ClawInv, Held, Here, AtRest, InTurn, InATurn, Phases
<1>. QED
  BY <1>7, <1>8, <1>9 DEF ClawInv

LEMMA CommitStep ==
    ASSUME ClawInv, Commit PROVE ClawInv'
<1> DEFINE t == turn.messages
           session == [messages |-> IF AutoCompacts THEN Compacted(t) ELSE t,
                       compacted |-> memory.compacted \/ AutoCompacts,
                       stamp |-> clock]
<1>1. /\ phase = "commit" /\ memory' = session /\ Save(at.path, session)
      /\ turn' = NoTurn /\ clock' = clock /\ at' = at
  BY DEF Commit
<1>2. InATurn
  BY <1>1 DEF InATurn
<1>3. /\ at.path \in Paths /\ at.id = at.path[1] /\ memory \in Session /\ t \in Transcript
      /\ files[at.path].exists /\ files[at.path].messages = t
  BY <1>2, InATurnFacts DEF ClawInv, InTurn
<1>4. clock \in Nat
  BY DEF ClawInv, Held
<1>5. AutoCompacts => ShouldCompact(t, TRUE)
  BY DEF AutoCompacts, Removes
<1>6. session.messages \in Transcript /\ Holds(files[at.path], session.messages)
  <2>1. CASE AutoCompacts
    <3>1. session.messages = Compacted(t)
      BY <2>1
    <3>. QED
      BY <1>3, <1>5, <2>1, <3>1, CompactedKeepsCalls, HoldsCompacted
  <2>2. CASE ~AutoCompacts
    <3>1. session.messages = t
      BY <2>2
    <3>2. t \in Seq(Message) /\ Len(t) <= Len(t)
      BY <1>3, LenProperties DEF Transcript
    <3>3. Holds(files[at.path], t)
      BY <1>3, <3>2, HoldsItself
    <3>. QED
      BY <1>3, <3>1, <3>3
  <2>. QED
    BY <2>1, <2>2
<1>7. session.compacted \in BOOLEAN /\ session.stamp \in Nat
  BY <1>3, <1>4 DEF Session
<1>8. session = [messages |-> session.messages, compacted |-> session.compacted,
                 stamp |-> session.stamp]
  OBVIOUS
<1> HIDE DEF session
<1>9. session \in Session
  BY <1>6, <1>7, <1>8 DEF Session
<1>10. clock' \in Nat /\ at'.path = at.path /\ at'.id = at.path[1]
  BY <1>1, <1>3, <1>4
<1>. QED
  BY <1>1, <1>3, <1>6, <1>9, <1>10, SaveStep
-----------------------------------------------------------------------------
(* Commands keep the invariant.                                            *)
LEMMA NewSessionStep ==
    ASSUME ClawInv, NEW id \in Sessions, NewSession(id) PROVE ClawInv'
<1>1. /\ clock' = clock + 1 /\ at' = [id |-> id, path |-> <<id, 0>>] /\ turn' = turn
      /\ memory' = Fresh(clock + 1) /\ Save(<<id, 0>>, Fresh(clock + 1)) /\ Unused(id)
  BY DEF NewSession
<1>2. clock + 1 \in Nat
  BY DEF ClawInv, Held
<1>3. <<id, 0>> \in Paths /\ <<id, 0>>[1] = id
  BY ClawAssumption DEF Paths
<1>4. ~Long(<<id, 0>>)
  BY <1>1, <1>3 DEF Long, Unused
<1>5. Fresh(clock + 1) \in Session
  <2>1. <<>> \in Transcript
    BY DEF Transcript, AllPaired
  <2>. QED
    BY <1>2, <2>1 DEF Fresh, Session
<1>6. at'.path = <<id, 0>> /\ at'.id = <<id, 0>>[1] /\ clock' \in Nat
  BY <1>1, <1>2, <1>3
<1>. QED
  BY <1>1, <1>3, <1>4, <1>5, <1>6, SaveStep

LEMMA ForkStep ==
    ASSUME ClawInv, NEW id \in Sessions, Fork(id) PROVE ClawInv'
<1> DEFINE session == [memory EXCEPT !.stamp = clock + 1]
<1>1. /\ clock' = clock + 1 /\ at' = [id |-> id, path |-> <<id, 0>>] /\ turn' = turn
      /\ memory' = session /\ Save(<<id, 0>>, session) /\ Unused(id)
  BY DEF Fork
<1>2. clock + 1 \in Nat /\ memory \in Session
  BY DEF ClawInv, Held
<1>3. <<id, 0>> \in Paths /\ <<id, 0>>[1] = id
  BY ClawAssumption DEF Paths
<1>4. ~Long(<<id, 0>>)
  BY <1>1, <1>3 DEF Long, Unused
<1>5. session \in Session
  BY <1>2 DEF Session
<1> HIDE DEF session
<1>6. at'.path = <<id, 0>> /\ at'.id = <<id, 0>>[1] /\ clock' \in Nat
  BY <1>1, <1>2, <1>3
<1>. QED
  BY <1>1, <1>3, <1>4, <1>5, <1>6, SaveStep

LEMMA OpenStep ==
    ASSUME ClawInv, NEW path \in Paths, Open(path) PROVE ClawInv'
<1>1. /\ files[path].exists /\ at' = [id |-> path[1], path |-> path]
      /\ memory' = Loaded(path) /\ Save(path, Loaded(path))
      /\ clock' = clock /\ turn' = turn
  BY DEF Open, SaveOpened, Loadable
<1>2. files \in [Paths -> File] /\ clock \in Nat
  BY DEF ClawInv, Stored, Held
<1>3. Loaded(path) \in Session /\ Loaded(path).messages = files[path].messages
  BY <1>1, <1>2, LoadedFacts
<1>4. Holds(files[path], Loaded(path).messages)
  <2>1. Loaded(path).messages \in Transcript /\ Loaded(path).messages \in Seq(Message)
    BY <1>3 DEF Session, Transcript
  <2>2. Len(Loaded(path).messages) <= Len(files[path].messages)
    BY <1>3, <2>1, LenProperties
  <2>. QED
    BY <1>1, <1>3, <2>1, <2>2, HoldsItself
<1>5. at'.path = path /\ at'.id = path[1] /\ clock' \in Nat
  BY <1>1, <1>2
<1>. QED
  BY <1>1, <1>3, <1>4, <1>5, SaveStep

\* What a save of the session that is open has to go by.
LEMMA IdleFacts ==
    ASSUME ClawInv, phase = "idle"
    PROVE  /\ at.path \in Paths /\ at.id = at.path[1]
           /\ memory \in Session /\ clock \in Nat
           /\ files[at.path].exists => files[at.path].messages = memory.messages
BY DEF ClawInv, Here, AtRest, Held, Snapshot

LEMMA SaveHere ==
    ASSUME ClawInv, phase = "idle", Save(at.path, memory),
           UNCHANGED <<clock, at, memory, turn>>
    PROVE  ClawInv'
<1>1. /\ at.path \in Paths /\ at.id = at.path[1] /\ memory \in Session /\ clock \in Nat
      /\ files[at.path].exists => files[at.path].messages = memory.messages
  BY IdleFacts
<1>2. ASSUME Long(at.path) PROVE Holds(files[at.path], memory.messages)
  <2>1. files[at.path].exists /\ files[at.path].messages = memory.messages
    BY <1>1, <1>2 DEF Long
  <2>2. memory.messages \in Transcript /\ memory.messages \in Seq(Message)
    BY <1>1 DEF Session, Transcript
  <2>3. Len(memory.messages) <= Len(files[at.path].messages)
    BY <2>1, <2>2, LenProperties
  <2>. QED
    BY <2>1, <2>2, <2>3, HoldsItself
<1>3. at'.path = at.path /\ at'.id = at.path[1] /\ clock' \in Nat /\ memory' = memory
  BY <1>1
<1>. QED
  BY <1>1, <1>2, <1>3, SaveStep

LEMMA CompactStep ==
    ASSUME ClawInv, Compact PROVE ClawInv'
<1>1. /\ phase = "idle" /\ at' = at /\ turn' = turn
      /\ at.path \in Paths /\ at.id = at.path[1] /\ memory \in Session /\ clock \in Nat
      /\ files[at.path].exists => files[at.path].messages = memory.messages
  BY IdleFacts DEF Compact
<1> DEFINE m == memory.messages
           session == [messages |-> Compacted(m), compacted |-> TRUE, stamp |-> clock + 1]
<1>2. CASE /\ ShouldCompact(m, TRUE) /\ clock' = clock + 1
           /\ memory' = session /\ Save(at.path, session)
  <2>1. m \in Transcript
    BY <1>1 DEF Session
  <2>2. session \in Session /\ session.messages = Compacted(m) /\ clock' \in Nat
    <3>1. Compacted(m) \in Transcript
      BY <1>2, <2>1, CompactedKeepsCalls
    <3>2. clock + 1 \in Nat /\ clock' \in Nat
      BY <1>1, <1>2
    <3> HIDE DEF m
    <3>. QED
      BY <3>1, <3>2 DEF Session
  <2> HIDE DEF m, session
  <2>3. ASSUME Long(at.path) PROVE Holds(files[at.path], session.messages)
    <3>1. files[at.path].exists /\ files[at.path].messages = m
      BY <1>1, <2>3 DEF Long, m
    <3>. QED
      BY <1>2, <2>1, <2>2, <3>1, HoldsCompacted
  <2>4. at'.path = at.path /\ at'.id = at.path[1]
    BY <1>1
  <2>. QED
    BY <1>1, <1>2, <2>2, <2>3, <2>4, SaveStep
<1>3. CASE Save(at.path, memory) /\ UNCHANGED <<clock, memory>>
  BY <1>1, <1>3, SaveHere
<1>. QED
  BY <1>2, <1>3 DEF Compact, SaveCompacted

LEMMA DeleteStep ==
    ASSUME ClawInv, NEW path \in Paths, Delete(path) PROVE ClawInv'
<1>1. /\ phase = "idle" /\ files' = [files EXCEPT ![path] = NoFile]
      /\ path # <<at.id, 0>>
      /\ UNCHANGED <<clock, at, memory, turn, phase>>
  BY DEF Delete, Deletable
<1>2. at.path \in Paths /\ at.id = at.path[1] /\ files \in [Paths -> File]
  BY <1>1, IdleFacts DEF ClawInv, Stored
<1>3. NoFile \in File /\ ~NoFile.exists /\ Apart(NoFile)
  BY NoFileApart
<1>4. Stored'
  BY <1>1, <1>3, StoreOne DEF ClawInv
<1>5. files'[at.path] = files[at.path] \/ files'[at.path] = NoFile
  BY <1>1, <1>2
<1>6. at.path[2] = 0 => files'[at.path] = files[at.path]
  <2>1. ASSUME at.path[2] = 0 PROVE at.path # path
    <3>1. at.path = <<at.id, 0>>
      BY <1>2, <2>1 DEF Paths
    <3>. QED
      BY <1>1, <3>1
  <2>. QED
    BY <1>1, <1>2, <2>1
<1>7. Held' /\ InTurn' /\ Calls'
  BY <1>1 DEF ClawInv, Held, InTurn, InATurn, Calls
<1>8. Here'
  BY <1>1, <1>2, <1>3, <1>5 DEF ClawInv, Here
<1>9. AtRest'
  <2>1. Snapshot(memory)' = Snapshot(memory)
    BY <1>1 DEF Snapshot
  <2>2. at' = at /\ phase' = "idle"
    BY <1>1
  <2>3. files'[at.path].exists => files'[at.path] = Snapshot(memory)
    BY <1>1, <1>3, <1>5 DEF ClawInv, AtRest
  <2>4. at.path[2] = 0 => files'[at.path].exists
    BY <1>1, <1>6 DEF ClawInv, AtRest
  <2>. QED
    BY <2>1, <2>2, <2>3, <2>4 DEF AtRest
<1>10. FinishedTurnsKept'
  <2>1. SUFFICES ASSUME at.path[2] = 0
                 PROVE  Holds(files'[at.path], memory.messages)
    BY <1>1 DEF FinishedTurnsKept
  <2>2. files'[at.path] = Snapshot(memory)
    BY <1>1, <1>6, <2>1 DEF ClawInv, AtRest
  <2>. QED
    BY <1>1, <2>2, IdleFacts, SnapshotFacts
<1>. QED
  BY <1>4, <1>7, <1>8, <1>9, <1>10 DEF ClawInv

LEMMA WriteSnapshotStep ==
    ASSUME ClawInv, WriteSnapshot PROVE ClawInv'
<1>1. /\ files' = [files EXCEPT ![at.path] = Snapshot(memory)] /\ phase' = "idle"
      /\ UNCHANGED <<clock, at, memory, turn>> /\ phase = "writing"
  BY DEF WriteSnapshot
<1>2. memory \in Session /\ at.path \in Paths /\ at.id = at.path[1] /\ files \in [Paths -> File]
  BY <1>1 DEF ClawInv, Held, Here, Stored
<1>3. /\ Snapshot(memory) \in File /\ Snapshot(memory).exists /\ Apart(Snapshot(memory))
      /\ Ready(Snapshot(memory)) /\ Holds(Snapshot(memory), memory.messages)
  BY <1>2, SnapshotFacts
<1>4. Stored' /\ files'[at.path] = Snapshot(memory)
  BY <1>1, <1>2, <1>3, StoreOne DEF ClawInv
<1>5. Snapshot(memory)' = Snapshot(memory) /\ at' = at /\ memory' = memory
  BY <1>1 DEF Snapshot
<1>6. Held' /\ InTurn' /\ Calls'
  BY <1>1 DEF ClawInv, Held, InTurn, InATurn, Calls, Phases
<1>7. Here'
  BY <1>1, <1>2, <1>3, <1>4 DEF Here
<1>8. AtRest'
  BY <1>1, <1>3, <1>4, <1>5 DEF AtRest
<1>9. FinishedTurnsKept'
  BY <1>3, <1>4, <1>5 DEF FinishedTurnsKept
<1>. QED
  BY <1>4, <1>6, <1>7, <1>8, <1>9 DEF ClawInv

\* The end of the process changes no file.
LEMMA EndStep ==
    ASSUME ClawInv, phase' = "down", turn' = NoTurn, UNCHANGED <<files, clock, at, memory>>
    PROVE  ClawInv'
<1>1. Stored' /\ FinishedTurnsKept'
  BY DEF ClawInv, Stored, FinishedTurnsKept
<1>2. Held'
  <2>1. <<>> \in Transcript
    BY DEF Transcript, AllPaired
  <2>2. turn' \in [messages: Transcript, usage: {0}, asked: Nat, done: Nat]
    BY <2>1 DEF NoTurn
  <2>. QED
    BY <2>2 DEF ClawInv, Held, Phases
<1>3. Here' /\ AtRest' /\ InTurn' /\ Calls'
  BY DEF Here, AtRest, InTurn, InATurn, Calls
<1>. QED
  BY <1>1, <1>2, <1>3 DEF ClawInv

(* The prompt is written for the history, whole, cut or not at all.        *)
LEMMA NotedFacts ==
    ASSUME NEW file \in WholeFile, Ready(file), Apart(file)
    PROVE  /\ /\ Noted(file) \in WholeFile /\ Ready(Noted(file)) /\ Apart(Noted(file))
              /\ Noted(file).messages = file.messages
           /\ \A cut \in NotedCut(file) :
                 /\ cut \in WholeFile /\ Apart(cut) /\ cut.messages = file.messages
                 /\ LET warned == [cut EXCEPT !.warned = TRUE]
                    IN  /\ warned \in WholeFile /\ Apart(warned) /\ Ready(warned)
                        /\ warned.messages = file.messages
<1>1. Noted(file) \in WholeFile /\ Ready(Noted(file)) /\ Apart(Noted(file))
      /\ Noted(file).messages = file.messages
  <2> DEFINE end == IF file.tail = "ended" THEN "ended" ELSE "joined"
             noted == [file EXCEPT !.tail = end]
  <2>1. end \in Tails /\ (end = "joined" => file.warned) /\ (end = "ended" \/ file.warned)
    BY DEF Ready, Tails
  <2>2. Noted(file) = noted
    BY DEF Noted
  <2> HIDE DEF end
  <2>3. /\ noted \in WholeFile /\ noted.messages = file.messages
        /\ noted.tail = end /\ noted.warned = file.warned /\ Apart(noted)
    BY <2>1, TailOnly
  <2> HIDE DEF noted
  <2>. QED
    BY <2>1, <2>2, <2>3 DEF Ready
<1>2. ASSUME NEW cut \in NotedCut(file)
      PROVE  /\ cut \in WholeFile /\ Apart(cut) /\ cut.messages = file.messages
             /\ LET warned == [cut EXCEPT !.warned = TRUE]
                IN  /\ warned \in WholeFile /\ Apart(warned) /\ Ready(warned)
                    /\ warned.messages = file.messages
  <2>1. PICK left \in {"torn", "unended"} :
            cut = [file EXCEPT !.tail = IF @ = "ended" THEN left ELSE "joined"]
    BY DEF NotedCut
  <2> DEFINE end == IF file.tail = "ended" THEN left ELSE "joined"
  <2>2. end \in Tails /\ (end = "joined" => file.warned)
    BY DEF Ready, Tails
  <2>3. cut = [file EXCEPT !.tail = end]
    BY <2>1
  <2> HIDE DEF end
  <2>4. cut \in WholeFile /\ Apart(cut) /\ cut.messages = file.messages
    BY <2>2, <2>3, TailOnly
  <2> DEFINE warned == [cut EXCEPT !.warned = TRUE]
  <2>5. warned \in WholeFile /\ warned.messages = cut.messages /\ warned.warned = TRUE
    BY <2>4 DEF WholeFile
  <2>6. Apart(warned) /\ Ready(warned)
    BY <2>5 DEF Apart, Ready
  <2>. QED
    BY <2>4, <2>5, <2>6
<1>. QED
  BY <1>1, <1>2

\* Whatever became of the prompt's line, no message is touched.
OnlyLine(new) ==
    /\ Apart(new) /\ (files[at.path].exists => new.exists)
    /\ new.exists => new.messages = memory.messages
    /\ files' = [files EXCEPT ![at.path] = new]
    /\ phase' = "down" \/ (phase' = "prompted" /\ (new.exists => Ready(new)))
    /\ UNCHANGED <<clock, at, memory, turn>>

LEMMA LineStep ==
    ASSUME ClawInv, phase = "idle", NEW new \in File, OnlyLine(new)
    PROVE  ClawInv'
<1>0. /\ Apart(new) /\ (files[at.path].exists => new.exists)
      /\ new.exists => new.messages = memory.messages
      /\ files' = [files EXCEPT ![at.path] = new]
      /\ phase' = "down" \/ (phase' = "prompted" /\ (new.exists => Ready(new)))
      /\ UNCHANGED <<clock, at, memory, turn>>
  BY DEF OnlyLine
<1>1. /\ at.path \in Paths /\ at.id = at.path[1] /\ memory \in Session /\ Stored
  BY IdleFacts DEF ClawInv
<1>2. Stored' /\ files'[at.path] = new
  BY <1>0, <1>1, StoreOne
<1>3. Held'
  BY <1>0 DEF ClawInv, Held, Phases
<1>4. Here'
  BY <1>0, <1>1, <1>2 DEF Here
<1>5. AtRest'
  BY <1>0, <1>2 DEF AtRest
<1>6. InTurn' /\ Calls'
  BY <1>0 DEF InTurn, InATurn, Calls
<1>7. FinishedTurnsKept'
  <2>1. SUFFICES ASSUME at.path[2] = 0 PROVE Holds(new, memory.messages)
    BY <1>0, <1>2 DEF FinishedTurnsKept
  <2>2. new.exists /\ new.messages = memory.messages
    BY <1>0, <2>1 DEF ClawInv, AtRest
  <2>3. memory.messages \in Transcript /\ memory.messages \in Seq(Message)
    BY <1>1 DEF Session, Transcript
  <2>4. Len(memory.messages) <= Len(new.messages)
    BY <2>2, <2>3, LenProperties
  <2>. QED
    BY <2>2, <2>3, <2>4, HoldsItself
<1>. QED
  BY <1>2, <1>3, <1>4, <1>5, <1>6, <1>7 DEF ClawInv

LEMMA RecordPromptStep ==
    ASSUME ClawInv, RecordPrompt PROVE ClawInv'
<1> DEFINE file == files[at.path]
<1>1. phase = "idle" /\ UNCHANGED <<clock, at, memory, turn>>
  BY DEF RecordPrompt
<1>2. /\ at.path \in Paths /\ memory \in Session /\ files \in [Paths -> File]
      /\ file.exists => file.messages = memory.messages /\ Ready(file)
      /\ file \in File /\ Apart(file)
  BY <1>1, IdleFacts DEF ClawInv, Stored, Here
<1>3. \A whole \in WholeFile : whole \in File /\ whole.exists
  BY DEF File, WholeFile
<1>4. CASE ~file.exists
  <2>1. /\ Snapshot(memory) \in File /\ Apart(Snapshot(memory)) /\ Ready(Snapshot(memory))
        /\ Snapshot(memory).messages = memory.messages
    BY <1>2, SnapshotFacts
  <2>2. CASE files' = [files EXCEPT ![at.path] = Snapshot(memory)] /\ phase' = "prompted"
    <3> DEFINE new == Snapshot(memory)
    <3>1. OnlyLine(new)
      BY <1>1, <1>4, <2>1, <2>2 DEF OnlyLine
    <3> HIDE DEF new
    <3>. QED
      BY <1>1, <2>1, <3>1, LineStep DEF new
  <2>3. CASE UNCHANGED files /\ phase' = "prompted"
    <3>1. files' = [files EXCEPT ![at.path] = file]
      BY <1>2, <2>3
    <3>2. OnlyLine(file)
      BY <1>1, <1>2, <1>4, <2>3, <3>1 DEF OnlyLine
    <3>. QED
      BY <1>1, <1>2, <3>2, LineStep
  <2>. QED
    BY <1>4, <2>2, <2>3 DEF RecordPrompt
<1>5. CASE file.exists
  <2>1. file \in WholeFile /\ Ready(file) /\ Apart(file) /\ file.messages = memory.messages
    BY <1>2, <1>5, FileFacts
  <2>2. CASE files' = [files EXCEPT ![at.path] = Noted(file)] /\ phase' = "prompted"
    <3> HIDE DEF file
    <3>1. /\ Noted(file) \in WholeFile /\ Ready(Noted(file)) /\ Apart(Noted(file))
          /\ Noted(file).messages = memory.messages
      BY <2>1, NotedFacts
    <3>2. OnlyLine(Noted(file)) /\ Noted(file) \in File
      BY <1>1, <1>3, <2>2, <3>1 DEF OnlyLine, file
    <3>. QED
      BY <1>1, <3>2, LineStep
  <2>3. CASE /\ phase' = "down"
             /\ \E cut \in NotedCut(file) : files' = [files EXCEPT ![at.path] = cut]
    <3>1. PICK cut \in NotedCut(file) : files' = [files EXCEPT ![at.path] = cut]
      BY <2>3
    <3> HIDE DEF file
    <3>2. cut \in WholeFile /\ Apart(cut) /\ cut.messages = memory.messages
      BY <2>1, NotedFacts
    <3>3. cut \in File /\ cut.exists
      BY <1>3, <3>2
    <3>4. OnlyLine(cut)
      BY <1>1, <2>3, <3>1, <3>2, <3>3 DEF OnlyLine
    <3>. QED
      BY <1>1, <3>3, <3>4, LineStep
  <2>4. CASE /\ phase' = "prompted"
             /\ \E cut \in NotedCut(file) :
                   files' = [files EXCEPT ![at.path] = [cut EXCEPT !.warned = TRUE]]
    <3>1. PICK cut \in NotedCut(file) :
              files' = [files EXCEPT ![at.path] = [cut EXCEPT !.warned = TRUE]]
      BY <2>4
    <3> DEFINE warned == [cut EXCEPT !.warned = TRUE]
    <3> HIDE DEF file
    <3>2. /\ warned \in WholeFile /\ Apart(warned) /\ Ready(warned)
          /\ warned.messages = memory.messages
      BY <2>1, NotedFacts
    <3> HIDE DEF warned
    <3>3. files' = [files EXCEPT ![at.path] = warned]
      BY <3>1 DEF warned
    <3>4. OnlyLine(warned) /\ warned \in File
      BY <1>1, <1>3, <2>4, <3>2, <3>3 DEF OnlyLine, file
    <3>. QED
      BY <1>1, <3>4, LineStep
  <2>5. CASE UNCHANGED files /\ phase' = "prompted"
    <3>1. files' = [files EXCEPT ![at.path] = file]
      BY <1>2, <2>5
    <3>2. OnlyLine(file)
      BY <1>1, <1>2, <1>5, <2>5, <3>1 DEF OnlyLine
    <3>. QED
      BY <1>1, <1>2, <3>2, LineStep
  <2>. QED
    BY <1>5, <2>2, <2>3, <2>4, <2>5 DEF RecordPrompt
<1>. QED
  BY <1>2, <1>4, <1>5
-----------------------------------------------------------------------------
LEMMA InitHolds == ClawInit => ClawInv
<1> SUFFICES ASSUME ClawInit PROVE ClawInv
  OBVIOUS
<1>1. <<>> \in Transcript
  BY DEF Transcript, AllPaired
<1>2. Stored
  BY NoFileApart DEF ClawInit, Stored
<1>3. Held
  <2>1. Fresh(0) \in Session
    BY <1>1 DEF Fresh, Session
  <2>2. NoTurn \in [messages: Transcript, usage: {0}, asked: Nat, done: Nat]
    BY <1>1 DEF NoTurn
  <2>. QED
    BY <2>1, <2>2 DEF ClawInit, Held, Phases
<1>4. Here /\ AtRest /\ InTurn /\ Calls /\ FinishedTurnsKept
  BY DEF ClawInit, Here, AtRest, InTurn, InATurn, Calls, FinishedTurnsKept
<1>. QED
  BY <1>2, <1>3, <1>4 DEF ClawInv

LEMMA StepKeeps == ClawInv /\ [ClawNext]_clawVars => ClawInv'
<1> SUFFICES ASSUME ClawInv, [ClawNext]_clawVars PROVE ClawInv'
  OBVIOUS
<1>1. CASE TurnFails \/ End
  BY <1>1, EndStep DEF TurnFails, End
<1>2. CASE Rebuild
  BY <1>2, SaveHere DEF Rebuild
<1>3. CASE Compact
  BY <1>3, CompactStep
<1>4. CASE \E id \in Sessions : NewSession(id) \/ Fork(id)
  BY <1>4, NewSessionStep, ForkStep
<1>5. CASE OpenLatest \/ \E path \in Paths : Open(path) \/ Delete(path)
  BY <1>5, OpenStep, DeleteStep DEF OpenLatest
<1>6. CASE StartTurn \/ RecordPrompt
  BY <1>6, StartTurnStep, RecordPromptStep
<1>7. CASE Reply
  BY <1>7, ReplyStep
<1>8. CASE RunTool
  BY <1>8, RunToolStep
<1>9. CASE NextIteration
  BY <1>9, NextIterationStep
<1>10. CASE Commit
  BY <1>10, CommitStep
<1>11. CASE WriteSnapshot
  BY <1>11, WriteSnapshotStep
<1>12. CASE UNCHANGED clawVars
  <2>1. UNCHANGED <<files, clock, at, memory, turn, phase>>
    BY <1>12 DEF clawVars
  <2>2. Stored' /\ Held' /\ Here'
    BY <2>1 DEF ClawInv, Stored, Held, Here
  <2>3. AtRest'
    BY <2>1 DEF ClawInv, AtRest, Snapshot
  <2>4. InTurn' /\ Calls'
    BY <2>1 DEF ClawInv, InTurn, InATurn, Calls, Asking, OwnAnswered
  <2>5. FinishedTurnsKept'
    BY <2>1 DEF ClawInv, FinishedTurnsKept
  <2>. QED
    BY <2>2, <2>3, <2>4, <2>5 DEF ClawInv
<1>. QED
  BY <1>1, <1>2, <1>3, <1>4, <1>5, <1>6, <1>7, <1>8, <1>9, <1>10, <1>11, <1>12
     DEF ClawNext, Command

(* Files, memory and turn stay in step, for any sessions, crashes and cut  *)
(* writes (session.rs, conversation.rs, main.rs).                          *)
THEOREM ClawSound == ClawSpec => []ClawInv
<1>. QED
  BY InitHolds, StepKeeps, PTL DEF ClawSpec

(* No request carries a result without its call, wherever compactions cut  *)
(* and whatever was resumed (compact.rs:139).                              *)
THEOREM RequestsAlwaysPaired == ClawSpec => []RequestsPaired
<1>1. ClawInv => RequestsPaired
  <2> SUFFICES ASSUME ClawInv PROVE RequestsPaired
    OBVIOUS
  <2>1. turn.messages \in Seq(Message) /\ AllPaired(turn.messages)
    BY DEF ClawInv, Held, Transcript
  <2>2. DOMAIN turn.messages = 1 .. Len(turn.messages)
    BY <2>1, LenProperties
  <2>. QED
    BY <2>1, <2>2 DEF RequestsPaired, AllPaired
<1>. QED
  BY <1>1, ClawSound, PTL

(* The next request of a turn has a result for each of the turn's calls.   *)
THEOREM TurnsAnswerTheirCalls == ClawSpec => []TurnAnswersItsCalls
<1>1. ClawInv => TurnAnswersItsCalls
  BY DEF ClawInv, Calls, OwnAnswered, TurnAnswersItsCalls
<1>. QED
  BY <1>1, ClawSound, PTL

(* A session that waits for a prompt is what its file loads to.            *)
THEOREM FilesFollowMemory == ClawSpec => []FileFollowsMemory
<1>1. ClawInv => FileFollowsMemory
  <2> SUFFICES ASSUME ClawInv, phase = "idle", files[at.path].exists
               PROVE  Loadable(at.path) /\ Loaded(at.path) = memory
    BY DEF FileFollowsMemory
  <2>1. files[at.path] = Snapshot(memory) /\ memory \in Session
    BY DEF ClawInv, AtRest, Held
  <2>. QED
    BY <2>1 DEF Loadable, Loaded, Snapshot, Session
<1>. QED
  BY <1>1, ClawSound, PTL

(* What finished turns said is never lost, wherever the process ends.      *)
THEOREM FinishedTurnsAlwaysKept == ClawSpec => []FinishedTurnsKept
<1>1. ClawInv => FinishedTurnsKept
  BY DEF ClawInv
<1>. QED
  BY <1>1, ClawSound, PTL

(* Two records share a line only where the write of a prompt failed within *)
(* its line and was no more than warned of: a line that the end of a       *)
(* process cut is rewritten before anything is appended behind it          *)
(* (session.rs:510-574, main.rs:4791-4806).                                *)
THEOREM LinesAlwaysApart == ClawSpec => []LinesApart
<1>1. ClawInv => LinesApart
  BY DEF ClawInv, Stored, Apart, LinesApart
<1>. QED
  BY <1>1, ClawSound, PTL
=============================================================================
