---------------------------- MODULE ClawCompact ----------------------------
(***************************************************************************)
(* Compaction of a claw-rust session: a prefix of the transcript becomes   *)
(* one summary, and the boundary is moved back so that a tool result is    *)
(* never kept without the assistant message that asked for it.             *)
(***************************************************************************)
EXTENDS Integers, Sequences, SequencesExt

CONSTANT Preserve  \* preserve_recent_messages

ASSUME PreserveAssumption == Preserve \in Nat \ {0}

(* A message is its role and, for the assistant, how many tool calls it    *)
(* makes; for a tool, which of them it answers.                            *)
User == [role |-> "user", n |-> 0]
Assistant(k) == [role |-> "assistant", n |-> k]
ToolResult(i) == [role |-> "tool", n |-> i]
Summary == [role |-> "system", n |-> 0]

\* compacted_summary_prefix_len
PrefixLen(messages) == IF messages # <<>> /\ Head(messages) = Summary THEN 1 ELSE 0

\* should_compact; "full" says whether the estimate reaches the budget.
ShouldCompact(messages, full) ==
    Len(messages) - PrefixLen(messages) > Preserve /\ full

\* How many messages go: back from a result to the calls it answers.
\* Variant: the boundary is not moved.
Removed_Raw(messages) == Len(messages) - Preserve

Removed(messages) ==
    LET back[k \in 0 .. Len(messages)] ==
            IF k <= PrefixLen(messages) \/ messages[k + 1].role # "tool" THEN k
            ELSE IF messages[k].role = "assistant" /\ messages[k].n > 0 THEN k - 1
            ELSE back[k - 1]
    IN  back[Len(messages) - Preserve]

\* The messages kept of a compacted session.
Kept(messages) == SubSeq(messages, Removed(messages) + 1, Len(messages))

Compacted(messages) == <<Summary>> \o Kept(messages)

\* Whether anything but the old summary goes.
Removes(messages, full) ==
    ShouldCompact(messages, full) /\ Removed(messages) > PrefixLen(messages)

\* The result at i answers a call of the assistant message its run follows.
Paired(messages, i) ==
    messages[i].role = "tool" =>
        \E j \in 1 .. i - 1 :
            /\ messages[j].role = "assistant" /\ messages[j].n >= messages[i].n
            /\ \A between \in j + 1 .. i - 1 : messages[between].role = "tool"

\* Every call of the assistant message at i has its result right after it.
Answered(messages, i) ==
    messages[i].role = "assistant" =>
        \A call \in 1 .. messages[i].n :
            i + call <= Len(messages) /\ messages[i + call] = ToolResult(call)
=============================================================================
