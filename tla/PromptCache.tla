----------------------------- MODULE PromptCache -----------------------------
(***************************************************************************)
(* The Anthropic client's prompt cache: completions kept for a short time  *)
(* and answered from disk, and the watch on the provider's own cache of    *)
(* prompts, which reports a break when fewer tokens are read from it than  *)
(* the last time.  One client, whose calls do not overlap.                 *)
(***************************************************************************)
EXTENDS Integers

CONSTANTS
    Prompts,         \* requests, told apart by model, system, tools and messages
    CompletionTtl,   \* 30 s
    PromptTtl,       \* 5 minutes
    MinDrop,         \* the drop of tokens that counts as a break
    MaxRead,         \* tokens read from the provider's cache (a bound)
    MaxClock         \* a bound of the model

ASSUME CacheAssumption ==
    /\ CompletionTtl \in Nat \ {0} /\ PromptTtl \in Nat
    /\ MinDrop \in Nat \ {0} /\ MaxRead \in Nat /\ MaxClock \in Nat

Nothing == [none |-> TRUE]
Tracked(p, at, read) == [prompt |-> p, observed |-> at, read |-> read]

VARIABLES
    cacheClock,
    cachePrevious,     \* the TrackedPromptState in memory
    cacheOnDisk,       \* session-state.json
    cacheEntries,      \* completions/: when each was stored, and its tokens
    cacheAsked,        \* the request the provider has, and how it was sent
    cacheBreak,        \* the last report: none, expected or unexpected
    cacheAnswered      \* when the provider last answered each prompt (history)

cacheVars == <<cacheClock, cachePrevious, cacheOnDisk, cacheEntries, cacheAsked,
               cacheBreak, cacheAnswered>>

CacheInit ==
    /\ cacheClock = 0
    /\ cachePrevious = Nothing /\ cacheOnDisk = Nothing
    /\ cacheEntries = [p \in Prompts |-> Nothing]
    /\ cacheAsked = Nothing /\ cacheBreak = "none"
    /\ cacheAnswered = [p \in Prompts |-> -1]

Elapse ==
    /\ cacheClock < MaxClock /\ cacheClock' = cacheClock + 1
    /\ cacheBreak' = "none"
    /\ UNCHANGED <<cachePrevious, cacheOnDisk, cacheEntries, cacheAsked, cacheAnswered>>

\* persist_state ignores a write that fails: the file stays, or cannot be read.
Persist(tracked) ==
    cachePrevious' = tracked /\ cacheOnDisk' \in {tracked, cacheOnDisk, Nothing}

\* Variant: a completion does not expire.
Expired_Never(p) == FALSE

Expired(p) == cacheClock - cacheEntries[p].at >= CompletionTtl

\* lookup_completion answers: the prompt counts as observed now.
CachedAnswer(p) ==
    /\ cacheAsked = Nothing
    /\ cacheEntries[p] # Nothing /\ ~Expired(p)
    /\ Persist(Tracked(p, cacheClock, cacheEntries[p].read))
    /\ cacheBreak' = "none"
    /\ UNCHANGED <<cacheClock, cacheEntries, cacheAsked, cacheAnswered>>

\* send_message without an answer on disk; an expired one is removed, and the
\* miss is written down together with what was observed before.
SendMessage(p) ==
    /\ cacheAsked = Nothing
    /\ cacheEntries[p] # Nothing => Expired(p)
    /\ cacheEntries' = [cacheEntries EXCEPT ![p] = Nothing]
    /\ cacheAsked' = [prompt |-> p, streams |-> FALSE]
    /\ cacheBreak' = "none"
    /\ Persist(cachePrevious)
    /\ UNCHANGED <<cacheClock, cacheAnswered>>

\* stream_message asks the provider always.
StreamMessage(p) ==
    /\ cacheAsked = Nothing
    /\ cacheAsked' = [prompt |-> p, streams |-> TRUE]
    /\ cacheBreak' = "none"
    /\ UNCHANGED <<cacheClock, cachePrevious, cacheOnDisk, cacheEntries, cacheAnswered>>

(* detect_cache_break: no report below the drop; a changed prompt or one   *)
(* older than the provider keeps it explains the drop.  (A change of the   *)
(* fingerprint's version comes with another build and is not modelled.)    *)
Detected(p, read) ==
    IF cachePrevious = Nothing \/ cachePrevious.read - read < MinDrop THEN "none"
    ELSE IF \/ cachePrevious.prompt # p
            \/ cacheClock - cachePrevious.observed > PromptTtl
         THEN "expected" ELSE "unexpected"

\* record_response stores the completion, record_usage (a stream) only the usage.
Answered ==
    \E read \in 0 .. MaxRead :
        LET p == cacheAsked.prompt
        IN  /\ cacheAsked # Nothing /\ cacheAsked' = Nothing
            /\ cacheBreak' = Detected(p, read)
            /\ Persist(Tracked(p, cacheClock, read))
            /\ \/ UNCHANGED cacheEntries
               \/ /\ ~cacheAsked.streams
                  /\ cacheEntries' = [cacheEntries EXCEPT ![p] =
                                        [at |-> cacheClock, read |-> read]]
            /\ cacheAnswered' = [cacheAnswered EXCEPT ![p] = cacheClock]
            /\ UNCHANGED cacheClock

\* A failed request or a stream that ends without its last event records nothing.
RequestFails ==
    /\ cacheAsked # Nothing /\ cacheAsked' = Nothing
    /\ cacheBreak' = "none"
    /\ UNCHANGED <<cacheClock, cachePrevious, cacheOnDisk, cacheEntries, cacheAnswered>>

\* A new client of the session reads what is on disk.
Reopen ==
    /\ cachePrevious' = cacheOnDisk
    /\ cacheAsked' = Nothing /\ cacheBreak' = "none"
    /\ UNCHANGED <<cacheClock, cacheOnDisk, cacheEntries, cacheAnswered>>

CacheNext ==
    \/ Elapse \/ Answered \/ RequestFails \/ Reopen
    \/ \E p \in Prompts : CachedAnswer(p) \/ SendMessage(p) \/ StreamMessage(p)

CacheSpec == CacheInit /\ [][CacheNext]_cacheVars
-----------------------------------------------------------------------------
\* A break is called unexpected only when the provider answered this prompt less
\* than the two lives together ago: an answer from disk counts as observed without the provider
\* seeing it, but stretches its time by less than a completion is kept.
UnexpectedIsRecent ==
    [][cacheBreak' = "unexpected" =>
        /\ cacheAnswered[cacheAsked.prompt] >= 0
        /\ cacheClock - cacheAnswered[cacheAsked.prompt] < PromptTtl + CompletionTtl]_cacheVars
=============================================================================
