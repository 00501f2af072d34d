----------------------------- MODULE Compaction -----------------------------
(***************************************************************************)
(* Transcript compaction: which messages survive when the prompt is over   *)
(* its budget.  A message keeps what the request format depends on (its    *)
(* role, the tool calls an assistant message makes, the call a tool        *)
(* message answers), the run whose goal it states (0: none), and its       *)
(* estimated tokens.                                                       *)
(***************************************************************************)
EXTENDS Naturals, Sequences, SequencesExt

Roles == {"system", "user", "assistant", "tool"}

Message == [role: Roles, calls: SUBSET Nat, of: Nat, goal: Nat, size: Nat]

Text(role, goal, size) ==
    [role |-> role, calls |-> {}, of |-> 0, goal |-> goal, size |-> size]
Assistant(calls, size) ==
    [role |-> "assistant", calls |-> calls, of |-> 0, goal |-> 0, size |-> size]
Answer(id, size) ==
    [role |-> "tool", calls |-> {}, of |-> id, goal |-> 0, size |-> size]

\* estimateMessagesTokens.
Tokens(msgs) == FoldSeq(LAMBDA m, sum : m.size + sum, 0, msgs)

\* Variant: the window's leading tool messages are kept.
RecentStarts_AnyRole(msgs, limit) ==
    {s \in 1 .. Len(msgs) + 1 : s + limit > Len(msgs)}

(* safeRecentMessages: the last `limit` messages, from the first of them   *)
(* that is not a tool message on; nothing when they are all tool messages. *)
RecentStarts(msgs, limit) ==
    {s \in 1 .. Len(msgs) + 1 :
        /\ s + limit > Len(msgs)
        /\ s <= Len(msgs) => msgs[s].role # "tool"}

RecentStart(msgs, limit) ==
    CHOOSE s \in RecentStarts(msgs, limit) :
        \A t \in RecentStarts(msgs, limit) : s <= t

SafeRecent(msgs, limit) == SubSeq(msgs, RecentStart(msgs, limit), Len(msgs))

\* The two head messages always stay; dropped is what lies between.
AfterHead(msgs) == SubSeq(msgs, 3, Len(msgs))
Recent(msgs, limit) == SafeRecent(AfterHead(msgs), limit)
SomeDropped(msgs, limit) == Len(Recent(msgs, limit)) < Len(AfterHead(msgs))

\* Variant: only the system prompt is kept as the head.
Compacted_ShortHead(msgs, limit, summarySize) ==
    <<msgs[1]>> \o <<Text("user", 0, summarySize)>> \o Recent(msgs, limit)

Compacted(msgs, limit, summarySize) ==
    SubSeq(msgs, 1, 2)
    \o <<Text("user", 0, summarySize)>>
    \o Recent(msgs, limit)
-----------------------------------------------------------------------------
\* A tool message follows the assistant message that made its call, with
\* nothing but other tool messages in between: the chat format's rule.
Calls(msgs, i, j) ==
    /\ i < j
    /\ msgs[i].role = "assistant" /\ msgs[j].of \in msgs[i].calls
    /\ \A k \in i + 1 .. j - 1 : msgs[k].role = "tool"

Anchored(msgs) ==
    \A j \in 1 .. Len(msgs) :
        msgs[j].role = "tool" => \E i \in 1 .. Len(msgs) : Calls(msgs, i, j)
=============================================================================
