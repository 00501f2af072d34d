---------------------------- MODULE ProviderChain ----------------------------
(***************************************************************************)
(* How a sub-agent gets an answer: a chain of providers, the configured    *)
(* primary and its fallbacks, each asked with retries for a stream and, if *)
(* the stream brought nothing, once more for a whole message.  A failure   *)
(* that may pass moves on to the next provider; any other ends the call.   *)
(***************************************************************************)
EXTENDS Naturals, Sequences, SequencesExt

CONSTANTS
    ChainModels,        \* the primary and the configured fallbacks
    ChainRetries,       \* retries of one request
    ChainBlocks         \* bound: text pieces and tool calls in one answer

\* The pause before the n-th retry is 2^(n-1) times the first one, in 32 bits:
\* it cannot be computed for more than 32 retries, and the code asks for 8.
ASSUME ChainAssumption ==
    /\ ChainModels \in Nat \ {0} /\ ChainBlocks \in Nat
    /\ ChainRetries \in 0 .. 32

VARIABLES
    chain,              \* the models that a client could be built for
    chainAt,            \* the position in the chain
    chainPhase,         \* what the call is doing
    chainWhole,         \* the stream is over and the whole message is asked for
    chainAttempts,      \* attempts at the request under way
    chainEvents,        \* the events collected
    chainFailures       \* how each position asked so far has failed

chainVars == <<chain, chainAt, chainPhase, chainWhole, chainAttempts, chainEvents, chainFailures>>

\* new_with_fallback_config: without a client for the primary there is no
\* chain; a fallback without one is left out.
Chains ==
    {models \in UNION {[1 .. n -> 1 .. ChainModels] : n \in 1 .. ChainModels} :
        models[1] = 1 /\ \A i, j \in DOMAIN models : i < j => models[i] < models[j]}

ChainInit ==
    /\ chain \in Chains
    /\ chainAt = 0 /\ chainPhase = "idle" /\ chainWhole = FALSE
    /\ chainAttempts = 0 /\ chainEvents = <<>> /\ chainFailures = <<>>

\* The turn loop asks; every call begins at the primary.
ChainCall ==
    /\ chainPhase \in {"idle", "answered", "failed"}
    /\ chainAt' = 1 /\ chainPhase' = "sending" /\ chainWhole' = FALSE
    /\ chainAttempts' = 0 /\ chainEvents' = <<>> /\ chainFailures' = <<>>
    /\ UNCHANGED chain

\* Variant: what the provider has sent before it failed is kept.
ChainFallBack_Kept(failure) ==
    /\ chainFailures' = Append(chainFailures, failure)
    /\ IF failure = "passing" /\ chainAt < Len(chain)
       THEN /\ chainAt' = chainAt + 1 /\ chainPhase' = "sending" /\ chainWhole' = FALSE
            /\ chainAttempts' = 0 /\ UNCHANGED chainEvents
       ELSE /\ chainPhase' = "failed"
            /\ UNCHANGED <<chainAt, chainWhole, chainAttempts, chainEvents>>
    /\ UNCHANGED chain

\* A provider has failed: a failure that may pass goes on to the next one with
\* nothing of what this one has sent, any other and the last one end the call.
ChainFallBack(failure) ==
    /\ chainFailures' = Append(chainFailures, failure)
    /\ IF failure = "passing" /\ chainAt < Len(chain)
       THEN /\ chainAt' = chainAt + 1 /\ chainPhase' = "sending" /\ chainWhole' = FALSE
            /\ chainAttempts' = 0 /\ chainEvents' = <<>>
       ELSE /\ chainPhase' = "failed"
            /\ UNCHANGED <<chainAt, chainWhole, chainAttempts, chainEvents>>
    /\ UNCHANGED chain

\* send_with_retry: one attempt.  Where it fails in a way that may pass it is
\* repeated after a pause; the last repetition still counts as such a failure.
ChainSend ==
    /\ chainPhase = "sending"
    /\ \/ /\ chainPhase' = "reading" /\ chainAttempts' = chainAttempts + 1
          /\ UNCHANGED <<chain, chainAt, chainWhole, chainEvents, chainFailures>>
       \/ /\ chainAttempts < ChainRetries
          /\ chainPhase' = "pausing" /\ chainAttempts' = chainAttempts + 1
          /\ UNCHANGED <<chain, chainAt, chainWhole, chainEvents, chainFailures>>
       \/ chainAttempts = ChainRetries /\ ChainFallBack("passing")
       \/ ChainFallBack("lasting")

ChainPause ==
    /\ chainPhase = "pausing"
    /\ chainPhase' = "sending"
    /\ UNCHANGED <<chain, chainAt, chainWhole, chainAttempts, chainEvents, chainFailures>>

Sent(kind) == [from |-> chain[chainAt], whole |-> chainWhole, kind |-> kind]

\* A piece of the stream: text, a tool call, or the end of the message.
ChainRead ==
    /\ chainPhase = "reading" /\ ~chainWhole
    /\ \E kind \in {"content", "stop"} :
           /\ kind = "content" => Len(chainEvents) < ChainBlocks
           /\ kind = "stop" => Sent("stop") \notin ToSet(chainEvents)
           /\ chainEvents' = Append(chainEvents, Sent(kind))
    /\ UNCHANGED <<chain, chainAt, chainPhase, chainWhole, chainAttempts, chainFailures>>

\* The body breaks off: a timeout may pass, anything else does not.
ChainBreak ==
    /\ chainPhase = "reading"
    /\ \E failure \in {"passing", "lasting"} : ChainFallBack(failure)

\* The stream ends.  With content or a stop it is the answer, and a stop is
\* added where it brought none; without either the message is asked for whole.
ChainStreamEnd ==
    /\ chainPhase = "reading" /\ ~chainWhole
    /\ IF chainEvents # <<>>
       THEN /\ chainPhase' = "answered"
            /\ chainEvents' = IF Sent("stop") \in ToSet(chainEvents) THEN chainEvents
                              ELSE Append(chainEvents, Sent("stop"))
            /\ UNCHANGED <<chainWhole, chainAttempts>>
       ELSE /\ chainPhase' = "sending" /\ chainWhole' = TRUE /\ chainAttempts' = 0
            /\ UNCHANGED chainEvents
    /\ UNCHANGED <<chain, chainAt, chainFailures>>

\* The whole message is there and is turned into events.
ChainMessage ==
    /\ chainPhase = "reading" /\ chainWhole
    /\ \E n \in 0 .. ChainBlocks :
           chainEvents' = [k \in 1 .. n |-> Sent("content")] \o <<Sent("stop")>>
    /\ chainPhase' = "answered"
    /\ UNCHANGED <<chain, chainAt, chainWhole, chainAttempts, chainFailures>>

ChainNext ==
    \/ ChainCall \/ ChainSend \/ ChainPause \/ ChainRead \/ ChainBreak
    \/ ChainStreamEnd \/ ChainMessage

ChainSpec == ChainInit /\ [][ChainNext]_chainVars
-----------------------------------------------------------------------------
\* An answer has a stop among its events (what may follow it in the list is no
\* matter here) and is of one attempt of one provider, whatever the ones before
\* it had sent before they failed; and it is not given up before each provider
\* was asked, unless one failed for good (ProviderRuntimeClient.stream).
ChainOutcome ==
    /\ chainPhase = "answered" =>
           /\ Sent("stop") \in ToSet(chainEvents)
           /\ ToSet(chainEvents) \subseteq {Sent("content"), Sent("stop")}
           /\ chainFailures = [k \in 1 .. chainAt - 1 |-> "passing"]
    /\ chainPhase = "failed" =>
           Last(chainFailures) = "lasting" \/ Len(chainFailures) = Len(chain)
=============================================================================
