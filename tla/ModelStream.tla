---------------------------- MODULE ModelStream ----------------------------
(***************************************************************************)
(* One request of claw-rust to an OpenAI-compatible model: the requests    *)
(* with their retries, the translation of streamed chunks into block       *)
(* events, and the two consumers that collect tool calls: the CLI, which   *)
(* keeps one pending call, and a sub-agent, which keeps one per block and  *)
(* has a chain of providers.  The provider is external; it names a call    *)
(* before it ends and sends nothing about calls after a finish reason.     *)
(***************************************************************************)
EXTENDS Integers, Sequences, FiniteSets

CONSTANTS
    CallCount,   \* tool calls a message may have, indices 0 .. CallCount - 1
    MaxPieces,   \* pieces of a call's arguments (a bound of the model)
    MaxRetries,  \* max_retries of the client
    Chain        \* providers of a sub-agent, the fallbacks included

\* Calls by their block index, openai_index + 1.
Calls == 1 .. CallCount
Blocks == 0 .. CallCount

ASSUME StreamAssumption ==
    /\ CallCount \in Nat /\ MaxPieces \in Nat
    /\ MaxRetries \in Nat /\ Chain \in Nat \ {0}

VARIABLES
    client,    \* who asks, and whether the request ends with a tool result
    phase,     \* what the request does
    attempt,   \* the stall attempt of the CLI, the provider of a sub-agent
    tries,     \* HTTP tries of the request under way
    translator,\* StreamState
    pending,   \* events translated and not yet handed out
    seen,      \* what the events handed out so far say
    collected  \* the consumer: calls being collected, and what it delivers

streamVars == <<client, phase, attempt, tries, translator, pending, seen, collected>>

NoCall == [name |-> FALSE, args |-> 0, emitted |-> 0, started |-> FALSE, stopped |-> FALSE]

NewTranslator == [messageStarted |-> FALSE, textStarted |-> FALSE, stopReason |-> "none",
                  closed |-> FALSE, finished |-> FALSE, calls |-> [c \in Calls |-> NoCall]]

NothingSeen == [phase |-> "before", blocks |-> [b \in Blocks |-> "unopened"],
                event |-> [kind |-> "none", block |-> 0]]

Empty == [call |-> 0, input |-> <<>>]
NothingCollected == [slots |-> [b \in Blocks |-> Empty], text |-> FALSE,
                     tools |-> <<>>, stop |-> FALSE]

StreamInit ==
    /\ client \in [kind : {"cli", "agent"}, postTool : BOOLEAN]
    /\ phase = "send"
    /\ attempt = 1 /\ tries = 0
    /\ translator = NewTranslator
    /\ pending = {}
    /\ seen = NothingSeen
    /\ collected = NothingCollected
-----------------------------------------------------------------------------
(* Requests.  An attempt that fails ends the CLI's request; a sub-agent    *)
(* goes on to the next provider if the error is retryable.                 *)

\* Variant: a sub-agent goes back to the first provider.
AttemptFails_FirstAgain(retryable) ==
    IF client.kind = "agent" /\ retryable
    THEN phase' = "send" /\ attempt' = 1 /\ tries' = 0
    ELSE phase' = "failed" /\ UNCHANGED <<attempt, tries>>

AttemptFails(retryable) ==
    IF client.kind = "agent" /\ retryable /\ attempt < Chain
    THEN phase' = "send" /\ attempt' = attempt + 1 /\ tries' = 0
    ELSE phase' = "failed" /\ UNCHANGED <<attempt, tries>>

Exhausted(n) == n > MaxRetries

\* send_with_retry: the answer of one try.
Send ==
    /\ phase \in {"send", "fallback"}
    /\ UNCHANGED client
    /\ \/ /\ phase' = IF phase = "send" THEN "read" ELSE "done"
          /\ tries' = tries + 1
          /\ translator' = NewTranslator /\ pending' = {}
          /\ seen' = NothingSeen /\ collected' = NothingCollected
          /\ UNCHANGED attempt
       \/ /\ IF Exhausted(tries + 1) THEN AttemptFails(TRUE)
             ELSE tries' = tries + 1 /\ UNCHANGED <<phase, attempt>>
          /\ UNCHANGED <<translator, pending, seen, collected>>
       \/ /\ AttemptFails(FALSE)
          /\ UNCHANGED <<translator, pending, seen, collected>>
-----------------------------------------------------------------------------
(* Translation.  The queue of events is the set of those due, and Place    *)
(* tells the order in which they are pushed: each call in turn, then, of a *)
(* chunk that ends the calls, the stops of the calls it does not mention.  *)
Event(kind, b) == [kind |-> kind, block |-> b, from |-> 0, to |-> 0, late |-> FALSE]
Delta(c, call) ==
    [kind |-> "delta", block |-> c, from |-> call.emitted, to |-> call.args, late |-> FALSE]
Stop(c, late) == [kind |-> "stop", block |-> c, from |-> 0, to |-> 0, late |-> late]

Place(e) ==
    LET block == 3 * e.block
        last == 4 * CallCount + 4
    IN  CASE e.kind = "message_start" -> 0
          [] e.kind = "start" -> block + 1
          [] e.kind = "delta" -> block + 2
          [] e.kind = "stop" -> IF e.late THEN 3 * CallCount + 3 + e.block ELSE block + 3
          [] e.kind = "message_delta" -> last
          [] OTHER -> last + 1

When(condition, events) == IF condition THEN events ELSE {}

\* A chunk says of a call nothing, its name, a piece of its arguments or both.
Say == {"nothing", "name", "piece", "both"}

Apply(call, say) ==
    [name |-> call.name \/ say \in {"name", "both"},
     args |-> IF say \in {"piece", "both"} THEN call.args + 1 ELSE call.args,
     emitted |-> call.emitted, started |-> call.started, stopped |-> call.stopped]

\* The call after start_event and delta_event, which give all of its arguments.
Begun(call) == [call EXCEPT !.started = TRUE, !.emitted = call.args]

\* Variant: a stop is not remembered, and finish() stops the block again.
Closed_Again(call) == call

Closed(call) == [call EXCEPT !.stopped = TRUE]

\* What a call has come to in a chunk: nothing is given before it has a name.
Gives(call, say) == say # "nothing" /\ Apply(call, say).name
Heard(call, say) == IF Gives(call, say) THEN Begun(Apply(call, say)) ELSE Apply(call, say)

\* The events of the calls that start and that grow.
Starts(calls) == {Event("start", c) : c \in calls}
Deltas(calls, state) == {Delta(c, state[c]) : c \in {d \in calls : state[d].emitted < state[d].args}}

\* ingest_chunk, for a chunk with one choice.
Ingested(says, text, reason) ==
    LET old == translator.calls
        applied == [c \in Calls |-> Apply(old[c], says[c])]
        heard == [c \in Calls |-> Heard(old[c], says[c])]
        given == {c \in Calls : Gives(old[c], says[c])}
        ended == {c \in Calls : reason = "tool_calls" /\ heard[c].started /\ ~heard[c].stopped}
    IN  [state |-> [messageStarted |-> TRUE,
                    textStarted |-> translator.textStarted \/ text,
                    stopReason |-> IF reason = "none" THEN translator.stopReason ELSE reason,
                    closed |-> translator.closed,
                    finished |-> translator.finished,
                    calls |-> [c \in Calls |-> IF c \in ended THEN Closed(heard[c]) ELSE heard[c]]],
         events |-> When(~translator.messageStarted, {Event("message_start", 0)})
              \cup When(text /\ ~translator.textStarted, {Event("start", 0)})
              \cup When(text, {Event("delta", 0)})
              \cup Starts({c \in given : ~old[c].started}) \cup Deltas(given, applied)
              \cup {Stop(c, says[c] = "nothing") : c \in ended}]

\* finish(): what is open is stopped, the message is summed up and ends.
Finished ==
    LET calls == translator.calls
        given == {c \in Calls : ~calls[c].started /\ calls[c].name}
        ended == {c \in Calls : (calls[c].started \/ c \in given) /\ ~calls[c].stopped}
        begun == [c \in Calls |-> IF c \in given THEN Begun(calls[c]) ELSE calls[c]]
    IN  [state |-> [translator EXCEPT
            !.finished = TRUE,
            !.calls = [c \in Calls |-> IF c \in ended THEN Closed(begun[c]) ELSE begun[c]]],
         events |-> When(translator.textStarted, {Event("stop", 0)})
              \cup Starts(given) \cup Deltas(given, calls) \cup {Stop(c, FALSE) : c \in ended}
              \cup When(translator.messageStarted,
                        {Event("message_delta", 0), Event("message_stop", 0)})]

\* What a provider may say of a call: its pieces are few, and end with the message.
MaySay(call, say) == say \in {"piece", "both"} => call.args < MaxPieces

\* next_event reads a chunk, of text or of calls, when nothing is pending.
ReadChunk ==
    /\ phase = "read" /\ pending = {} /\ ~translator.closed
    /\ translator.stopReason = "none"
    /\ \E says \in [Calls -> Say], text \in BOOLEAN,
          reason \in {"none", "stop", "tool_calls"} :
          /\ text => \A c \in Calls : says[c] = "nothing"
          /\ \A c \in Calls : MaySay(translator.calls[c], says[c])
          /\ \E ingested \in {Ingested(says, text, reason)} :
                translator' = ingested.state /\ pending' = ingested.events
    /\ UNCHANGED <<client, phase, attempt, tries, seen, collected>>

CloseBody ==
    /\ phase = "read" /\ pending = {} /\ ~translator.closed
    /\ translator' = [translator EXCEPT !.closed = TRUE]
    /\ UNCHANGED <<client, phase, attempt, tries, pending, seen, collected>>

\* The body is over: next_event takes what finish() gives.
FinishStream ==
    /\ phase = "read" /\ pending = {} /\ translator.closed /\ ~translator.finished
    /\ translator' = Finished.state
    /\ pending' = Finished.events
    /\ UNCHANGED <<client, phase, attempt, tries, seen, collected>>

\* A read or a parse error: what this chunk had already given is lost.
ReadFails ==
    /\ phase = "read" /\ pending = {} /\ ~translator.closed
    /\ \E retryable \in BOOLEAN : AttemptFails(retryable)
    /\ translator' = NewTranslator
    /\ seen' = NothingSeen /\ collected' = NothingCollected
    /\ UNCHANGED <<client, pending>>

\* The one wait with a timer: that of the CLI for the first event after a tool.
StallTimed ==
    /\ phase = "read" /\ client = [kind |-> "cli", postTool |-> TRUE] /\ attempt = 1
    /\ seen.event.kind = "none" /\ pending = {} /\ ~translator.messageStarted

\* It runs out, and the CLI asks once more.
Stall ==
    /\ StallTimed
    /\ phase' = "send" /\ attempt' = 2 /\ tries' = 0
    /\ UNCHANGED <<client, translator, pending, seen, collected>>

\* Everywhere else the provider may keep its client waiting for ever: no answer
\* comes, or the body neither goes on nor ends, or it goes on without end.
Endless ==
    /\ \/ phase \in {"send", "fallback"}
       \/ phase = "read" /\ pending = {} /\ ~translator.closed /\ ~StallTimed
    /\ phase' = "hung"
    /\ UNCHANGED <<client, attempt, tries, translator, pending, seen, collected>>
-----------------------------------------------------------------------------
(* Consumers.                                                              *)
Pieces(e) == [i \in 1 .. e.to - e.from |-> e.from + i]

\* The slot of a block: the CLI has one.
\* Variant: a sub-agent with one slot as well.
Slot_Single(b) == 0

Slot(b) == IF client.kind = "cli" THEN 0 ELSE b

Took(e) ==
    LET s == Slot(e.block)
        slot == collected.slots[s]
        opens == e.kind = "start" /\ e.block \in Calls
        grows == e.kind = "delta" /\ e.block \in Calls /\ slot.call # 0
        closes == e.kind = "stop" /\ slot.call # 0
    IN  [slots |-> CASE opens -> [collected.slots EXCEPT ![s] = [call |-> e.block, input |-> <<>>]]
                     [] grows -> [collected.slots EXCEPT
                                    ![s] = [call |-> slot.call, input |-> slot.input \o Pieces(e)]]
                     [] closes -> [collected.slots EXCEPT ![s] = Empty]
                     [] OTHER -> collected.slots,
         text |-> collected.text \/ (e.kind = "delta" /\ e.block = 0),
         tools |-> IF closes THEN Append(collected.tools, slot) ELSE collected.tools,
         stop |-> collected.stop \/ e.kind = "message_stop"]

\* What the events handed out say of the message, each taken at its word.
Saw(e) ==
    [phase |-> CASE e.kind = "message_start" -> "open"
                 [] e.kind = "message_delta" -> "summed"
                 [] e.kind = "message_stop" -> "after"
                 [] OTHER -> seen.phase,
     blocks |-> CASE e.kind = "start" -> [seen.blocks EXCEPT ![e.block] = "open"]
                  [] e.kind = "stop" -> [seen.blocks EXCEPT ![e.block] = "stopped"]
                  [] OTHER -> seen.blocks,
     event |-> [kind |-> e.kind, block |-> e.block]]

\* The first of the events that are due.
TakeEvent ==
    /\ phase = "read"
    /\ \E e \in pending :
          /\ \A f \in pending : Place(e) <= Place(f)
          /\ pending' = pending \ {e}
          /\ seen' = Saw(e)
          /\ collected' = Took(e)
    /\ UNCHANGED <<client, phase, attempt, tries, translator>>

(* No event is left: a message without an end is given one if it has       *)
(* content, and one that has nothing is asked for again without streaming. *)
EndOfStream ==
    /\ phase = "read" /\ pending = {} /\ translator.finished
    /\ LET content == collected.text \/ collected.tools # <<>>
           ended == collected.stop \/ content
       IN  /\ phase' = IF ended THEN "done" ELSE "fallback"
           /\ tries' = IF ended THEN tries ELSE 0
           /\ collected' = [collected EXCEPT !.stop = ended]
    /\ UNCHANGED <<client, attempt, translator, pending, seen>>

StreamNext ==
    \/ Send \/ ReadChunk \/ CloseBody \/ FinishStream \/ ReadFails \/ Stall \/ Endless
    \/ TakeEvent \/ EndOfStream

\* What the client does by itself: it is one async function, and its timer runs.
Proceed == FinishStream \/ Stall \/ TakeEvent \/ EndOfStream

\* A request is answered or not, and a body ends, breaks off or does neither:
\* one of the three, although chunks may be read in between.
Responds == Send \/ Endless
BodyOver == CloseBody \/ ReadFails \/ Endless

StreamSpec == StreamInit /\ [][StreamNext]_streamVars

StreamFairSpec ==
    StreamSpec /\ WF_streamVars(Proceed) /\ WF_streamVars(Responds) /\ SF_streamVars(BodyOver)
-----------------------------------------------------------------------------
(* Properties.                                                             *)
(* The events next_event hands out, read one by one, are a block stream,   *)
(* whatever the order in which the provider names and fills its calls.     *)
Handed == INSTANCE BlockStream
            WITH phase <- seen.phase, blocks <- seen.blocks, event <- seen.event
HandsOutBlocks == Handed!BlockSpec

CallsDelivered(kind) ==
    client.kind = kind /\ phase = "done" /\ seen.phase = "after" =>
        LET named == {c \in Calls : translator.calls[c].name}
            whole(c) == [call |-> c, input |-> [i \in 1 .. translator.calls[c].args |-> i]]
        IN  /\ Len(collected.tools) = Cardinality(named)
            /\ {collected.tools[i] : i \in 1 .. Len(collected.tools)} = {whole(c) : c \in named}

(* A sub-agent delivers every call the model named, once and with its own  *)
(* arguments, however the pieces of parallel calls are mixed.              *)
AgentCallsDelivered == CallsDelivered("agent")

(* The same of the CLI, whose single pending call a second start replaces. *)
CliCallsDelivered == CallsDelivered("cli")

\* Tries, the second attempt after a stall and the chain of providers come to an
\* end, and with them the request, unless a provider keeps it waiting where the
\* client has no timer (main.rs: AnthropicRuntimeClient.stream, consume_stream).
StreamEnds == <>(phase \in {"done", "failed", "hung"})
=============================================================================
