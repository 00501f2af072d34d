--------------------------- MODULE ToolCallProofs ---------------------------
(***************************************************************************)
(* The way of a tool call: what the model streams is collected call by     *)
(* call (ModelStream), and each call then stands before the gate           *)
(* (ToolGate).  First the stream: its events implement BlockStream, and a  *)
(* sub-agent collects every call, for any number of calls.  Then the gate: *)
(* what it promises of every call, for every set of inputs, of modes and   *)
(* of rules, and for any number of hooks and calls.  No property of the    *)
(* two is inductive by itself: they rest on StreamInv, and on what each    *)
(* stage of a call has established, which GateInv says stage by stage.     *)
(***************************************************************************)
EXTENDS ToolGate, ModelStream, FiniteSetTheorems, SequenceTheorems, TLAPS
-----------------------------------------------------------------------------
(* The calls of a streamed message (ModelStream).  The inductive invariant *)
(* relates three things: what the translator remembers of each block, the  *)
(* events that are due, and what the events handed out say.                *)
Kinds == {"message_start", "start", "delta", "stop", "message_delta", "message_stop"}
EventsOf == [kind : Kinds, block : Blocks, from : Nat, to : Nat, late : BOOLEAN]
CallStates == [name : BOOLEAN, args : Nat, emitted : Nat, started : BOOLEAN, stopped : BOOLEAN]
SlotsOf == [call : Blocks, input : Seq(Nat)]

TranslatorTypes ==
    translator \in [messageStarted : BOOLEAN, textStarted : BOOLEAN,
                    stopReason : {"none", "stop", "tool_calls"}, closed : BOOLEAN,
                    finished : BOOLEAN, calls : [Calls -> CallStates]]

SeenTypes ==
    seen \in [phase : {"before", "open", "summed", "after"},
              blocks : [Blocks -> {"unopened", "open", "stopped"}],
              event : [kind : Kinds \cup {"none"}, block : Blocks]]

CollectedTypes ==
    collected \in [slots : [Blocks -> SlotsOf], text : BOOLEAN, tools : Seq(SlotsOf), stop : BOOLEAN]

\* An event is told from the others that are due by its kind and its block.
PendingTypes ==
    /\ \A e \in pending : e \in EventsOf /\ e.from <= e.to
    /\ \A e \in pending : e.kind \notin {"start", "delta", "stop"} => e.block = 0
    /\ \A e, f \in pending : e.kind = f.kind /\ e.block = f.block => e = f

Client == client \in [kind : {"cli", "agent"}, postTool : BOOLEAN]
StreamTypes ==
    /\ Client
    /\ TranslatorTypes /\ SeenTypes /\ CollectedTypes /\ PendingTypes

Due(kind, b) == \E e \in pending : e.kind = kind /\ e.block = b

BlockStarted(b) == IF b = 0 THEN translator.textStarted ELSE translator.calls[b].started
BlockStopped(b) ==
    IF b = 0 THEN translator.textStarted /\ translator.finished ELSE translator.calls[b].stopped

\* What is due of the message is what it has come to and was not handed out.
MessageFits ==
    /\ Due("message_start", 0) <=> translator.messageStarted /\ seen.phase = "before"
    /\ Due("message_delta", 0) <=>
         translator.messageStarted /\ translator.finished /\ seen.phase \in {"before", "open"}
    /\ Due("message_stop", 0) <=>
         translator.messageStarted /\ translator.finished /\ seen.phase # "after"
    /\ ~translator.messageStarted => pending = {} /\ seen.phase = "before"
    /\ seen.phase \in {"summed", "after"} =>
         /\ translator.finished
         /\ \A e \in pending : e.kind \notin {"start", "delta", "stop"}

\* The same of a block, which grows only between its start and its stop.
BlockFits(b) ==
    /\ Due("start", b) <=> BlockStarted(b) /\ seen.blocks[b] = "unopened"
    /\ Due("stop", b) <=> BlockStopped(b) /\ seen.blocks[b] # "stopped"
    /\ BlockStopped(b) => BlockStarted(b)
    /\ BlockStarted(b) => translator.messageStarted
    /\ translator.finished /\ BlockStarted(b) => BlockStopped(b)
    /\ ~BlockStarted(b) => seen.blocks[b] = "unopened" /\ ~Due("delta", b)
    /\ seen.blocks[b] = "stopped" => BlockStopped(b) /\ ~Due("delta", b)

BlocksFit == \A b \in Blocks : BlockFits(b)

\* A call starts with its name, and is given whole; none changes once it is stopped.
CallFits(c) ==
    LET own == translator.calls[c]
    IN  /\ own.started <=> own.name
        /\ own.emitted = IF own.started THEN own.args ELSE 0
        /\ own.stopped => translator.closed \/ translator.stopReason # "none"

CallsFit ==
    /\ \A c \in Calls : CallFits(c)
    /\ translator.finished => translator.closed

Upto(n) == [i \in 1 .. n |-> i]

\* n pieces of a call were handed out: the delta that is due gives the rest.
Given(c, n) ==
    /\ \A e \in pending : e.kind = "delta" /\ e.block = c =>
          e.from = n /\ e.to = translator.calls[c].emitted
    /\ ~Due("delta", c) => n = translator.calls[c].emitted

SlotFits(c) ==
    CASE seen.blocks[c] = "open" ->
           \E n \in Nat : Given(c, n) /\ collected.slots[c] = [call |-> c, input |-> Upto(n)]
      [] seen.blocks[c] = "unopened" -> Given(c, 0) /\ collected.slots[c] = Empty
      [] OTHER -> collected.slots[c] = Empty

WholeCall(c) == [call |-> c, input |-> Upto(translator.calls[c].args)]
StoppedCalls == {c \in Calls : seen.blocks[c] = "stopped"}

\* What a sub-agent has collected: each call in a slot of its own, then as a tool use.
ToolsFit ==
    LET tools == collected.tools
    IN  /\ \A i \in 1 .. Len(tools) : \E c \in StoppedCalls : tools[i] = WholeCall(c)
        /\ \A c \in StoppedCalls : \E i \in 1 .. Len(tools) : tools[i] = WholeCall(c)
        /\ Len(tools) = Cardinality(StoppedCalls)

AgentFits ==
    client.kind = "agent" =>
        /\ collected.slots[0] = Empty
        /\ \A c \in Calls : SlotFits(c)
        /\ ToolsFit

StreamInv == StreamTypes /\ MessageFits /\ BlocksFit /\ CallsFit /\ AgentFits

(* What is given at once: a chunk, or what finish() gives.  The translator *)
(* moves on, and exactly what it has come to is due.                       *)
BlockMoves(b) ==
    /\ BlockStarted(b) => BlockStarted(b)'
    /\ BlockStopped(b) => BlockStopped(b)'
    /\ Due("start", b)' <=> BlockStarted(b)' /\ ~BlockStarted(b)
    /\ Due("stop", b)' <=> BlockStopped(b)' /\ ~BlockStopped(b)
    /\ Due("delta", b)' => BlockStarted(b)' /\ ~BlockStopped(b)
    /\ BlockStopped(b)' => BlockStarted(b)'
    /\ BlockStarted(b)' => translator'.messageStarted
    /\ translator'.finished /\ BlockStarted(b)' => BlockStopped(b)'

MessageMoves ==
    /\ ~translator.finished
    /\ translator'.finished => translator'.closed
    /\ translator.messageStarted => translator'.messageStarted
    /\ Due("message_start", 0)' <=> translator'.messageStarted /\ ~translator.messageStarted
    /\ Due("message_delta", 0)' <=> translator'.messageStarted /\ translator'.finished
    /\ Due("message_stop", 0)' <=> translator'.messageStarted /\ translator'.finished
    /\ ~translator'.messageStarted => pending' = {}

CallMoves(c) ==
    /\ CallFits(c)'
    /\ translator.calls[c].stopped => translator'.calls[c].args = translator.calls[c].args
    /\ \A n : n = translator.calls[c].emitted => Given(c, n)'

Batch ==
    /\ pending = {}
    /\ UNCHANGED <<client, seen, collected>>
    /\ TranslatorTypes' /\ PendingTypes'
    /\ MessageMoves
    /\ \A b \in Blocks : BlockMoves(b)
    /\ \A c \in Calls : CallMoves(c)

LEMMA BlockFacts ==
    /\ Calls = Blocks \ {0} /\ 0 \in Blocks /\ 0 \notin Calls
    /\ \A c \in Calls : c \in Nat /\ c # 0 /\ c \in Blocks
BY StreamAssumption DEF Calls, Blocks

\* Where nothing is due, a block is as the translator left it.
LEMMA NothingDue ==
  ASSUME StreamInv, pending = {}, NEW b \in Blocks
  PROVE  /\ BlockStarted(b) <=> seen.blocks[b] # "unopened"
         /\ BlockStopped(b) <=> seen.blocks[b] = "stopped"
<1>1. ~Due("start", b) /\ ~Due("stop", b)
  BY DEF Due
<1>2. BlockFits(b)
  BY DEF StreamInv, BlocksFit
<1>. QED
  BY <1>1, <1>2 DEF BlockFits

LEMMA BatchMessage == StreamInv /\ Batch => MessageFits'
<1>. SUFFICES ASSUME StreamInv, Batch PROVE MessageFits'
  OBVIOUS
<1>1. /\ ~Due("message_start", 0)
      /\ seen.phase \in {"before", "open", "summed", "after"}
  BY DEF Batch, Due, StreamInv, StreamTypes, SeenTypes
<1>2. MessageFits /\ MessageMoves /\ seen' = seen
  BY DEF StreamInv, Batch
<1>3. seen.phase \in {"before", "open"} /\ (seen.phase = "before" <=> ~translator.messageStarted)
  BY <1>1, <1>2 DEF MessageFits, MessageMoves
<1>. QED
  BY <1>2, <1>3 DEF MessageFits, MessageMoves

LEMMA BatchBlocks == StreamInv /\ Batch => BlocksFit'
<1>. SUFFICES ASSUME StreamInv, Batch, NEW b \in Blocks PROVE BlockFits(b)'
  BY DEF BlocksFit
<1>1. /\ BlockStarted(b) <=> seen.blocks[b] # "unopened"
      /\ BlockStopped(b) <=> seen.blocks[b] = "stopped"
  BY NothingDue DEF Batch
<1>2. BlockMoves(b) /\ seen' = seen
  BY DEF Batch
<1>. QED
  BY <1>1, <1>2 DEF BlockFits, BlockMoves

LEMMA BatchSlots ==
  ASSUME StreamInv, Batch, NEW c \in Calls, SlotFits(c)
  PROVE  SlotFits(c)'
<1>1. /\ CallMoves(c) /\ seen' = seen /\ collected' = collected
      /\ ~Due("delta", c)
  BY DEF Batch, Due
<1>2. \A n : Given(c, n) => n = translator.calls[c].emitted
  BY <1>1 DEF Given
<1>3. \A n : Given(c, n) => Given(c, n)'
  BY <1>1, <1>2 DEF CallMoves
<1>4. CASE seen.blocks[c] = "open"
  <2>1. PICK n \in Nat : Given(c, n) /\ collected.slots[c] = [call |-> c, input |-> Upto(n)]
    BY <1>4 DEF SlotFits
  <2>. QED
    BY <1>1, <1>3, <1>4, <2>1 DEF SlotFits, Upto
<1>5. CASE seen.blocks[c] = "unopened"
  BY <1>1, <1>3, <1>5 DEF SlotFits, Empty
<1>6. CASE seen.blocks[c] \notin {"open", "unopened"}
  BY <1>1, <1>6 DEF SlotFits, Empty
<1>. QED
  BY <1>4, <1>5, <1>6

LEMMA BatchTools == StreamInv /\ Batch /\ ToolsFit => ToolsFit'
<1>. SUFFICES ASSUME StreamInv, Batch, ToolsFit PROVE ToolsFit'
  OBVIOUS
<1>1. seen' = seen /\ collected' = collected
  BY DEF Batch
<1>2. StoppedCalls' = StoppedCalls
  BY <1>1 DEF StoppedCalls
<1>3. ASSUME NEW c \in StoppedCalls PROVE WholeCall(c)' = WholeCall(c)
  <2>1. c \in Calls /\ c \in Blocks /\ c # 0 /\ seen.blocks[c] = "stopped"
    BY BlockFacts DEF StoppedCalls
  <2>2. translator.calls[c].stopped
    BY <2>1, NothingDue DEF Batch, BlockStopped
  <2>3. translator'.calls[c].args = translator.calls[c].args
    BY <2>1, <2>2 DEF Batch, CallMoves
  <2>. QED
    BY <2>3 DEF WholeCall, Upto
<1>. QED
  BY <1>1, <1>2, <1>3 DEF ToolsFit

LEMMA BatchKeeps == StreamInv /\ Batch => StreamInv'
<1>. SUFFICES ASSUME StreamInv, Batch PROVE StreamInv'
  OBVIOUS
<1>1. StreamTypes'
  BY DEF StreamInv, StreamTypes, Client, Batch, SeenTypes, CollectedTypes
<1>2. MessageFits' /\ BlocksFit'
  BY BatchMessage, BatchBlocks
<1>3. CallsFit'
  BY DEF Batch, CallMoves, CallsFit, MessageMoves
<1>4. AgentFits'
  <2>1. client' = client /\ collected' = collected
    BY DEF Batch
  <2>2. SUFFICES ASSUME client.kind = "agent"
                 PROVE  /\ collected.slots[0] = Empty
                        /\ \A c \in Calls : SlotFits(c)'
                        /\ ToolsFit'
    BY <2>1 DEF AgentFits, Empty
  <2>3. collected.slots[0] = Empty /\ (\A c \in Calls : SlotFits(c)) /\ ToolsFit
    BY <2>2 DEF StreamInv, AgentFits
  <2>. QED
    BY <2>3, BatchSlots, BatchTools
<1>. QED
  BY <1>1, <1>2, <1>3, <1>4 DEF StreamInv

\* What a call has come to in a chunk, field by field.
LEMMA HeardFacts ==
  ASSUME NEW own \in CallStates, NEW say \in Say
  PROVE  /\ Heard(own, say) \in CallStates /\ Apply(own, say) \in CallStates
         /\ Heard(own, say).name = Apply(own, say).name
         /\ Heard(own, say).args = Apply(own, say).args
         /\ Heard(own, say).stopped = own.stopped
         /\ Heard(own, say).started <=> own.started \/ Gives(own, say)
         /\ Heard(own, say).emitted =
              IF Gives(own, say) THEN Apply(own, say).args ELSE own.emitted
         /\ Apply(own, say).emitted = own.emitted
         /\ Apply(own, say).name <=> own.name \/ say \in {"name", "both"}
         /\ own.args <= Apply(own, say).args
         /\ say = "nothing" => Apply(own, say).args = own.args
<1>1. Apply(own, say) \in CallStates
  BY DEF CallStates, Apply
<1>2. /\ Apply(own, say).started = own.started
      /\ Apply(own, say).stopped = own.stopped
      /\ Apply(own, say).emitted = own.emitted
      /\ Apply(own, say).name <=> own.name \/ say \in {"name", "both"}
      /\ own.args <= Apply(own, say).args
      /\ say = "nothing" => Apply(own, say).args = own.args
  <2>1. own.args \in Nat
    BY DEF CallStates
  <2>2. Apply(own, say).args = IF say \in {"piece", "both"} THEN own.args + 1 ELSE own.args
    BY DEF Apply
  <2>3. /\ Apply(own, say).started = own.started
        /\ Apply(own, say).stopped = own.stopped
        /\ Apply(own, say).emitted = own.emitted
        /\ Apply(own, say).name = (own.name \/ say \in {"name", "both"})
    BY DEF Apply
  <2>4. own.args <= Apply(own, say).args
    BY <2>1, <2>2
  <2>. QED
    BY <2>2, <2>3, <2>4
<1>3. /\ Begun(Apply(own, say)) \in CallStates
      /\ Begun(Apply(own, say)).name = Apply(own, say).name
      /\ Begun(Apply(own, say)).args = Apply(own, say).args
      /\ Begun(Apply(own, say)).stopped = Apply(own, say).stopped
      /\ Begun(Apply(own, say)).started = TRUE
      /\ Begun(Apply(own, say)).emitted = Apply(own, say).args
  BY <1>1 DEF Begun, CallStates
<1>4. CASE Gives(own, say)
  BY <1>1, <1>2, <1>3, <1>4 DEF Heard
<1>5. CASE ~Gives(own, say)
  BY <1>1, <1>2, <1>5 DEF Heard
<1>. QED
  BY <1>4, <1>5

LEMMA ClosedFacts ==
  ASSUME NEW own \in CallStates
  PROVE  /\ Closed(own) \in CallStates /\ Closed(own).stopped = TRUE
         /\ Closed(own).name = own.name /\ Closed(own).started = own.started
         /\ Closed(own).args = own.args /\ Closed(own).emitted = own.emitted
BY DEF Closed, CallStates

\* The events of a batch: those of the message and the text, and those of the calls
\* that start, that grow (by what state says) and that end.
BatchOf(head, starts, grows, state, ends, late) ==
    head \cup Starts(starts) \cup Deltas(grows, state) \cup {Stop(c, late[c]) : c \in ends}

Heads == {Event(kind, 0) : kind \in Kinds}

\* What a batch says of each block.
BatchSays(events, head, starts, grows, state, ends) ==
    /\ \A e \in events : e \in EventsOf /\ e.from <= e.to
    /\ \A e \in events : e.kind \notin {"start", "delta", "stop"} => e.block = 0
    /\ \A e, f \in events : e.kind = f.kind /\ e.block = f.block => e = f
    /\ \A e \in events : e.block = 0 => e \in head
    /\ \A e \in events : e.block # 0 /\ e.kind = "delta" => e = Delta(e.block, state[e.block])
    /\ \A c \in Calls :
         /\ (\E e \in events : e.kind = "start" /\ e.block = c) <=> c \in starts
         /\ (\E e \in events : e.kind = "stop" /\ e.block = c) <=> c \in ends
         /\ (\E e \in events : e.kind = "delta" /\ e.block = c) <=>
              c \in grows /\ state[c].emitted < state[c].args

LEMMA BatchEvents ==
  ASSUME NEW head \in SUBSET Heads, NEW starts \in SUBSET Calls,
         NEW grows \in SUBSET Calls, NEW ends \in SUBSET Calls,
         NEW state, \A c \in grows : state[c] \in CallStates,
         NEW late, \A c \in ends : late[c] \in BOOLEAN
  PROVE  BatchSays(BatchOf(head, starts, grows, state, ends, late), head, starts, grows, state, ends)
<1>. DEFINE events == BatchOf(head, starts, grows, state, ends, late)
<1>1. /\ \A c \in Calls : c \in Nat /\ c # 0 /\ c \in Blocks
      /\ 0 \in Blocks
  BY BlockFacts
<1>2. ASSUME NEW e \in head
      PROVE  /\ e \in EventsOf /\ e.from <= e.to /\ e.block = 0 /\ e = Event(e.kind, 0)
  <2>1. PICK kind \in Kinds : e = Event(kind, 0)
    BY DEF Heads
  <2>. QED
    BY <1>1, <2>1 DEF Event, EventsOf
<1>3. ASSUME NEW e \in Starts(starts)
      PROVE  /\ e \in EventsOf /\ e.from <= e.to
             /\ e.kind = "start" /\ e.block \in starts /\ e = Event("start", e.block)
  <2>1. PICK c \in starts : e = Event("start", c)
    BY DEF Starts
  <2>2. c \in Blocks
    BY <1>1
  <2>. QED
    BY <2>1, <2>2 DEF Event, EventsOf, Kinds
<1>4. ASSUME NEW e \in Deltas(grows, state)
      PROVE  /\ e \in EventsOf /\ e.from <= e.to /\ e.kind = "delta" /\ e.block \in grows
             /\ e = Delta(e.block, state[e.block]) /\ state[e.block].emitted < state[e.block].args
  <2>1. PICK c \in grows : e = Delta(c, state[c]) /\ state[c].emitted < state[c].args
    BY DEF Deltas
  <2>2. c \in Blocks /\ state[c].emitted \in Nat /\ state[c].args \in Nat
    BY <1>1 DEF CallStates
  <2>. QED
    BY <2>1, <2>2 DEF Delta, EventsOf, Kinds
<1>5. ASSUME NEW e \in {Stop(c, late[c]) : c \in ends}
      PROVE  /\ e \in EventsOf /\ e.from <= e.to /\ e.kind = "stop" /\ e.block \in ends
             /\ e = Stop(e.block, late[e.block])
  <2>1. PICK c \in ends : e = Stop(c, late[c])
    OBVIOUS
  <2>2. c \in Blocks /\ late[c] \in BOOLEAN
    BY <1>1
  <2>. QED
    BY <2>1, <2>2 DEF Stop, EventsOf, Kinds
<1>6. ASSUME NEW e \in events
      PROVE  \/ e \in head
             \/ e \in Starts(starts)
             \/ e \in Deltas(grows, state)
             \/ e \in {Stop(c, late[c]) : c \in ends}
  BY DEF BatchOf
<1>. HIDE DEF events
<1>7. \A e \in events : e \in EventsOf /\ e.from <= e.to
  BY <1>2, <1>3, <1>4, <1>5, <1>6
<1>8. \A e \in events : e.block # 0 => e \notin head
  BY <1>2
<1>9. \A e \in events : e.block = 0 => e \in head
  BY <1>1, <1>3, <1>4, <1>5, <1>6
<1>10. ASSUME NEW e \in events, e.block # 0
       PROVE  \/ e.kind = "start" /\ e = Event("start", e.block) /\ e.block \in starts
              \/ /\ e.kind = "delta" /\ e = Delta(e.block, state[e.block])
                 /\ e.block \in grows /\ state[e.block].emitted < state[e.block].args
              \/ e.kind = "stop" /\ e = Stop(e.block, late[e.block]) /\ e.block \in ends
  BY <1>3, <1>4, <1>5, <1>6, <1>8, <1>10
<1>11. \A e \in events : e.kind \notin {"start", "delta", "stop"} => e.block = 0
  BY <1>10
<1>12. ASSUME NEW e \in events, NEW f \in events, e.kind = f.kind, e.block = f.block
       PROVE  e = f
  <2>1. CASE e.block = 0
    BY <1>2, <1>9, <1>12, <2>1
  <2>2. CASE e.block # 0
    BY <1>10, <1>12, <2>2
  <2>. QED
    BY <2>1, <2>2
<1>13. \A e \in events : e.block # 0 /\ e.kind = "delta" => e = Delta(e.block, state[e.block])
  BY <1>10
<1>14. ASSUME NEW c \in Calls
       PROVE  /\ (\E e \in events : e.kind = "start" /\ e.block = c) <=> c \in starts
              /\ (\E e \in events : e.kind = "stop" /\ e.block = c) <=> c \in ends
              /\ (\E e \in events : e.kind = "delta" /\ e.block = c) <=>
                   c \in grows /\ state[c].emitted < state[c].args
  <2>1. c \in starts => Event("start", c) \in events
    BY DEF Starts, BatchOf, events
  <2>2. c \in ends => Stop(c, late[c]) \in events
    BY DEF BatchOf, events
  <2>3. c \in grows /\ state[c].emitted < state[c].args => Delta(c, state[c]) \in events
    BY DEF Deltas, BatchOf, events
  <2>4. /\ Event("start", c).kind = "start" /\ Event("start", c).block = c
        /\ Stop(c, late[c]).kind = "stop" /\ Stop(c, late[c]).block = c
        /\ Delta(c, state[c]).kind = "delta" /\ Delta(c, state[c]).block = c
    BY DEF Event, Stop, Delta
  <2>5. c # 0
    BY <1>1
  <2>. QED
    BY <1>10, <2>1, <2>2, <2>3, <2>4, <2>5
<1>. QED
  <2>1. BatchSays(events, head, starts, grows, state, ends)
    BY <1>7, <1>9, <1>11, <1>12, <1>13, <1>14 DEF BatchSays
  <2>. QED
    BY <2>1 DEF events

\* A chunk, call by call: nothing has a finish reason yet, so no block is stopped.
LEMMA ReadMoves ==
  ASSUME StreamInv, pending = {}, ~translator.closed, translator.stopReason = "none",
         UNCHANGED <<client, seen, collected>>,
         NEW says \in [Calls -> Say], NEW text \in BOOLEAN,
         NEW reason \in {"none", "stop", "tool_calls"},
         translator' = Ingested(says, text, reason).state,
         pending' = Ingested(says, text, reason).events
  PROVE  Batch
<1>. DEFINE old == translator.calls
            new == translator'.calls
            applied == [c \in Calls |-> Apply(old[c], says[c])]
            heard == [c \in Calls |-> Heard(old[c], says[c])]
            given == {c \in Calls : Gives(old[c], says[c])}
            starts == {c \in given : ~old[c].started}
            ended == {c \in Calls : reason = "tool_calls" /\ heard[c].started /\ ~heard[c].stopped}
            late == [c \in Calls |-> says[c] = "nothing"]
            head == When(~translator.messageStarted, {Event("message_start", 0)})
                      \cup When(text /\ ~translator.textStarted, {Event("start", 0)})
                      \cup When(text, {Event("delta", 0)})
<1>1. /\ translator \in [messageStarted : BOOLEAN, textStarted : BOOLEAN,
                         stopReason : {"none", "stop", "tool_calls"}, closed : BOOLEAN,
                         finished : BOOLEAN, calls : [Calls -> CallStates]]
      /\ \A c \in Calls : CallFits(c)
      /\ translator.finished => translator.closed
      /\ MessageFits /\ BlocksFit
  BY DEF StreamInv, StreamTypes, TranslatorTypes, CallsFit
<1>2. /\ old \in [Calls -> CallStates] /\ ~translator.finished
      /\ translator.textStarted \in BOOLEAN /\ translator.messageStarted \in BOOLEAN
  BY <1>1
<1>3. /\ translator'.messageStarted = TRUE
      /\ translator'.textStarted = (translator.textStarted \/ text)
      /\ translator'.stopReason = IF reason = "none" THEN translator.stopReason ELSE reason
      /\ translator'.closed = translator.closed
      /\ translator'.finished = translator.finished
      /\ new = [c \in Calls |-> IF c \in ended THEN Closed(heard[c]) ELSE heard[c]]
      /\ translator' = [messageStarted |-> translator'.messageStarted,
                        textStarted |-> translator'.textStarted,
                        stopReason |-> translator'.stopReason, closed |-> translator'.closed,
                        finished |-> translator'.finished, calls |-> new]
  BY DEF Ingested
<1>4. pending' = BatchOf(head, starts, given, applied, ended, late)
  <2>1. {Stop(c, says[c] = "nothing") : c \in ended} = {Stop(c, late[c]) : c \in ended}
    OBVIOUS
  <2>. QED
    BY <2>1 DEF Ingested, BatchOf
<1>5. ASSUME NEW c \in Calls
      PROVE  /\ old[c] \in CallStates /\ says[c] \in Say
             /\ applied[c] = Apply(old[c], says[c])
             /\ applied[c] \in CallStates /\ heard[c] \in CallStates
             /\ heard[c].name = applied[c].name
             /\ heard[c].args = applied[c].args
             /\ heard[c].stopped = old[c].stopped
             /\ heard[c].started <=> old[c].started \/ c \in given
             /\ heard[c].emitted = IF c \in given THEN applied[c].args ELSE old[c].emitted
             /\ applied[c].emitted = old[c].emitted
             /\ applied[c].name <=> old[c].name \/ says[c] \in {"name", "both"}
             /\ old[c].args <= applied[c].args
             /\ says[c] = "nothing" => applied[c].args = old[c].args
             /\ c \in given <=> says[c] # "nothing" /\ applied[c].name
  <2>1. old[c] \in CallStates /\ says[c] \in Say
    BY <1>2
  <2>2. applied[c] = Apply(old[c], says[c]) /\ heard[c] = Heard(old[c], says[c])
    OBVIOUS
  <2>3. c \in given <=> Gives(old[c], says[c])
    OBVIOUS
  <2>. HIDE DEF applied, heard, given
  <2>. QED
    BY <2>1, <2>2, <2>3, HeardFacts DEF Gives
<1>6. ASSUME NEW c \in Calls
      PROVE  /\ old[c].started <=> old[c].name
             /\ old[c].emitted = IF old[c].started THEN old[c].args ELSE 0
             /\ ~old[c].stopped
             /\ old[c].args \in Nat /\ applied[c].args \in Nat
             /\ c \in given <=> heard[c].started /\ says[c] # "nothing"
  <2>1. CallFits(c)
    BY <1>1
  <2>2. /\ old[c].started <=> old[c].name
        /\ old[c].emitted = IF old[c].started THEN old[c].args ELSE 0
        /\ ~old[c].stopped
    BY <2>1 DEF CallFits
  <2>3. old[c].args \in Nat /\ applied[c].args \in Nat
    BY <1>5 DEF CallStates
  <2>4. c \in given <=> heard[c].started /\ says[c] # "nothing"
    <3>. HIDE DEF applied, heard, given
    <3>. QED
      BY <1>5, <2>2
  <2>. QED
    BY <2>2, <2>3, <2>4
<1>7. ASSUME NEW c \in Calls
      PROVE  /\ new[c] \in CallStates
             /\ new[c].name = heard[c].name /\ new[c].started = heard[c].started
             /\ new[c].args = heard[c].args /\ new[c].emitted = heard[c].emitted
             /\ new[c].stopped <=> c \in ended
             /\ c \in ended => new[c].started /\ reason = "tool_calls"
  <2>1. heard[c] \in CallStates /\ ~heard[c].stopped
    <3>. HIDE DEF heard, applied, given
    <3>. QED
      BY <1>5, <1>6
  <2>2. new[c] = IF c \in ended THEN Closed(heard[c]) ELSE heard[c]
    BY <1>3
  <2>3. c \in ended => heard[c].started /\ reason = "tool_calls"
    OBVIOUS
  <2>. HIDE DEF heard, ended, new
  <2>. QED
    BY <2>1, <2>2, <2>3, ClosedFacts
<1>8. /\ starts \in SUBSET Calls /\ given \in SUBSET Calls /\ ended \in SUBSET Calls
      /\ \A c \in given : applied[c] \in CallStates
      /\ \A c \in ended : late[c] \in BOOLEAN
  BY <1>5
<1>9. /\ head \in SUBSET Heads
      /\ \A e \in head : \/ e = Event("message_start", 0) /\ ~translator.messageStarted
                         \/ e = Event("start", 0) /\ text /\ ~translator.textStarted
                         \/ e = Event("delta", 0) /\ text
      /\ ~translator.messageStarted => Event("message_start", 0) \in head
      /\ text /\ ~translator.textStarted => Event("start", 0) \in head
  BY DEF When, Heads, Kinds
<1>10. /\ \A e \in pending' : e \in EventsOf /\ e.from <= e.to
       /\ \A e \in pending' : e.kind \notin {"start", "delta", "stop"} => e.block = 0
       /\ \A e, f \in pending' : e.kind = f.kind /\ e.block = f.block => e = f
       /\ \A e \in pending' : e.block = 0 => e \in head
       /\ \A e \in pending' : e.block # 0 /\ e.kind = "delta" => e = Delta(e.block, applied[e.block])
       /\ \A c \in Calls :
            /\ (\E e \in pending' : e.kind = "start" /\ e.block = c) <=> c \in starts
            /\ (\E e \in pending' : e.kind = "stop" /\ e.block = c) <=> c \in ended
            /\ (\E e \in pending' : e.kind = "delta" /\ e.block = c) <=>
                 c \in given /\ applied[c].emitted < applied[c].args
  <2>1. BatchSays(pending', head, starts, given, applied, ended)
    <3>. HIDE DEF starts, given, ended, applied, late, head
    <3>. QED
      BY <1>4, <1>8, <1>9, BatchEvents
  <2>. HIDE DEF starts, given, ended, applied, late, head
  <2>. QED
    BY <2>1 DEF BatchSays
<1>11. TranslatorTypes' /\ PendingTypes'
  <2>1. new \in [Calls -> CallStates]
    <3>. HIDE DEF heard, ended
    <3>. QED
      BY <1>3, <1>7
  <2>2. translator'.stopReason \in {"none", "stop", "tool_calls"}
    BY <1>1, <1>3
  <2>3. /\ translator'.messageStarted \in BOOLEAN /\ translator'.textStarted \in BOOLEAN
        /\ translator'.closed \in BOOLEAN /\ translator'.finished \in BOOLEAN
    BY <1>1, <1>3
  <2>4. TranslatorTypes'
    <3>. HIDE DEF new
    <3>. QED
      BY <1>3, <2>1, <2>2, <2>3 DEF TranslatorTypes
  <2>. HIDE DEF head, applied
  <2>. QED
    BY <2>4, <1>10 DEF PendingTypes
<1>12. \A e \in pending' : e.kind \in {"message_start", "message_delta", "message_stop"} =>
           e.kind = "message_start" /\ ~translator.messageStarted
  <2>1. /\ Event("message_start", 0).kind = "message_start" /\ Event("start", 0).kind = "start"
        /\ Event("delta", 0).kind = "delta"
    BY DEF Event
  <2>. HIDE DEF head
  <2>. QED
    BY <1>9, <1>10, <2>1
<1>13. MessageMoves
  <2>1. ~translator.messageStarted =>
           \E e \in pending' : e.kind = "message_start" /\ e.block = 0
    <3>1. Event("message_start", 0).kind = "message_start" /\ Event("message_start", 0).block = 0
      BY DEF Event
    <3>2. head \subseteq pending'
      BY <1>4 DEF BatchOf
    <3>. HIDE DEF head
    <3>. QED
      BY <1>9, <3>1, <3>2
  <2>. HIDE DEF head
  <2>. QED
    BY <1>2, <1>3, <1>12, <2>1 DEF MessageMoves, Due
<1>14. ASSUME NEW c \in Calls PROVE BlockMoves(c)
  <2>1. /\ BlockStarted(c) = old[c].started /\ BlockStopped(c) = old[c].stopped
        /\ BlockStarted(c)' = new[c].started /\ BlockStopped(c)' = new[c].stopped
    BY BlockFacts DEF BlockStarted, BlockStopped
  <2>2. /\ Due("start", c)' <=> c \in given /\ ~old[c].started
        /\ Due("stop", c)' <=> c \in ended
        /\ Due("delta", c)' => c \in given
    <3>1. c \in starts <=> c \in given /\ ~old[c].started
      OBVIOUS
    <3>. HIDE DEF starts, given, ended, applied
    <3>. QED
      BY <1>10, <3>1 DEF Due
  <2>3. new[c].started <=> old[c].started \/ c \in given
    <3>. HIDE DEF heard, given, new, ended
    <3>. QED
      BY <1>5, <1>7
  <2>. HIDE DEF given, ended, new, old
  <2>. QED
    BY <1>2, <1>3, <1>6, <1>7, <2>1, <2>2, <2>3 DEF BlockMoves
<1>15. BlockMoves(0)
  <2>1. /\ BlockStarted(0) = translator.textStarted
        /\ BlockStopped(0) = (translator.textStarted /\ translator.finished)
        /\ BlockStarted(0)' = translator'.textStarted
        /\ BlockStopped(0)' = (translator'.textStarted /\ translator'.finished)
    BY DEF BlockStarted, BlockStopped
  <2>2. /\ Event("start", 0).kind = "start" /\ Event("start", 0).block = 0
        /\ Event("delta", 0).kind = "delta" /\ Event("message_start", 0).kind = "message_start"
    BY DEF Event
  <2>3. head \subseteq pending'
    BY <1>4 DEF BatchOf
  <2>4. /\ Due("start", 0)' <=> text /\ ~translator.textStarted
        /\ ~Due("stop", 0)' /\ (Due("delta", 0)' => text)
    <3>. HIDE DEF head
    <3>. QED
      BY <1>9, <1>10, <2>2, <2>3 DEF Due
  <2>. QED
    BY <1>2, <1>3, <2>1, <2>4 DEF BlockMoves
<1>16. ASSUME NEW c \in Calls PROVE CallMoves(c)
  <2>1. /\ new[c].started <=> new[c].name
        /\ new[c].emitted = IF new[c].started THEN new[c].args ELSE 0
    <3>1. new[c].name <=> old[c].name \/ says[c] \in {"name", "both"}
      BY <1>5, <1>7
    <3>2. new[c].started <=> old[c].started \/ c \in given
      <4>. HIDE DEF heard, given, new, ended, applied
      <4>. QED
        BY <1>5, <1>7
    <3>3. c \in given <=> says[c] # "nothing" /\ applied[c].name
      BY <1>5
    <3>4. new[c].emitted = IF c \in given THEN new[c].args ELSE old[c].emitted
      <4>. HIDE DEF heard, given, new, ended, applied
      <4>. QED
        BY <1>5, <1>7
    <3>5. c \notin given => new[c].args = old[c].args \/ ~new[c].started
      <4>. HIDE DEF heard, given, new, ended, applied
      <4>. QED
        BY <1>5, <1>6, <1>7
    <3>6. applied[c].name <=> old[c].name \/ says[c] \in {"name", "both"}
      BY <1>5
    <3>. HIDE DEF heard, given, new, ended, applied, old
    <3>. QED
      BY <1>6, <3>1, <3>2, <3>3, <3>4, <3>5, <3>6
  <2>2. new[c].stopped => translator'.stopReason # "none"
    <3>. HIDE DEF ended, new, heard
    <3>. QED
      BY <1>3, <1>7
  <2>3. CallFits(c)'
    BY <2>1, <2>2 DEF CallFits
  <2>4. ASSUME NEW n, n = old[c].emitted PROVE Given(c, n)'
    <3>1. new[c].emitted = IF c \in given THEN applied[c].args ELSE old[c].emitted
      <4>. HIDE DEF heard, given, new, ended, applied
      <4>. QED
        BY <1>5, <1>7
    <3>2. /\ Due("delta", c)' <=> c \in given /\ applied[c].emitted < applied[c].args
          /\ \A e \in pending' : e.kind = "delta" /\ e.block = c => e = Delta(c, applied[c])
      <4>1. c # 0
        BY BlockFacts
      <4>. HIDE DEF starts, given, ended, applied, head
      <4>. QED
        BY <1>10, <4>1 DEF Due
    <3>3. applied[c].emitted = n /\ n <= applied[c].args
      <4>1. n \in Nat /\ applied[c].emitted = n /\ n <= old[c].args
        <5>. HIDE DEF applied, heard, given, old
        <5>. QED
          BY <1>5, <1>6, <2>4
      <4>2. old[c].args <= applied[c].args
        BY <1>5
      <4>. HIDE DEF applied, old
      <4>. QED
        BY <1>6, <4>1, <4>2
    <3>4. ~Due("delta", c)' => n = new[c].emitted
      <4>. HIDE DEF applied, old, new, given
      <4>. QED
        BY <1>6, <2>4, <3>1, <3>2, <3>3
    <3>5. \A e \in pending' : e.kind = "delta" /\ e.block = c =>
             e.from = n /\ e.to = new[c].emitted
      <4>1. \A e \in pending' : e.kind = "delta" /\ e.block = c =>
              e.from = applied[c].emitted /\ e.to = applied[c].args /\ Due("delta", c)'
        <5>. HIDE DEF applied
        <5>. QED
          BY <3>2 DEF Delta, Due
      <4>. HIDE DEF applied, old, new, given
      <4>. QED
        BY <3>1, <3>2, <3>3, <4>1
    <3>. QED
      BY <3>4, <3>5 DEF Given
  <2>. QED
    BY <1>6, <2>3, <2>4 DEF CallMoves
<1>17. \A b \in Blocks : b = 0 \/ b \in Calls
  BY BlockFacts
<1>. HIDE DEF old, new
<1>. QED
  BY <1>11, <1>13, <1>14, <1>15, <1>16, <1>17 DEF Batch

\* finish(): a call that started has a name, so none is left to start, and what
\* was not stopped is.
LEMMA FinishMoves ==
  ASSUME StreamInv, pending = {}, translator.closed, ~translator.finished,
         UNCHANGED <<client, seen, collected>>,
         translator' = Finished.state, pending' = Finished.events
  PROVE  Batch
<1>. DEFINE old == translator.calls
            new == translator'.calls
            ended == {c \in Calls : old[c].started /\ ~old[c].stopped}
            late == [c \in Calls |-> FALSE]
            head == When(translator.textStarted, {Event("stop", 0)})
                      \cup When(translator.messageStarted,
                                {Event("message_delta", 0), Event("message_stop", 0)})
<1>1. /\ translator \in [messageStarted : BOOLEAN, textStarted : BOOLEAN,
                         stopReason : {"none", "stop", "tool_calls"}, closed : BOOLEAN,
                         finished : BOOLEAN, calls : [Calls -> CallStates]]
      /\ \A c \in Calls : CallFits(c)
      /\ \A b \in Blocks : BlockFits(b)
  BY DEF StreamInv, StreamTypes, TranslatorTypes, CallsFit, BlocksFit
<1>2. ASSUME NEW c \in Calls
      PROVE  /\ old[c] \in CallStates
             /\ old[c].started <=> old[c].name
             /\ old[c].emitted = IF old[c].started THEN old[c].args ELSE 0
             /\ old[c].stopped => old[c].started
             /\ old[c].started => translator.messageStarted
  <2>1. CallFits(c) /\ BlockFits(c) /\ c # 0
    BY <1>1, BlockFacts
  <2>2. BlockStarted(c) = old[c].started /\ BlockStopped(c) = old[c].stopped
    BY <2>1 DEF BlockStarted, BlockStopped
  <2>3. old[c] \in CallStates
    BY <1>1
  <2>. QED
    BY <2>1, <2>2, <2>3 DEF CallFits, BlockFits
<1>3. translator.textStarted => translator.messageStarted
  <2>1. BlockFits(0)
    BY <1>1, BlockFacts
  <2>. QED
    BY <2>1 DEF BlockFits, BlockStarted
<1>4. {c \in Calls : ~old[c].started /\ old[c].name} = {}
  BY <1>2
<1>5. /\ translator'.messageStarted = translator.messageStarted
      /\ translator'.textStarted = translator.textStarted
      /\ translator'.stopReason = translator.stopReason
      /\ translator'.closed = translator.closed
      /\ translator'.finished = TRUE
      /\ new = [c \in Calls |-> IF c \in ended THEN Closed(old[c]) ELSE old[c]]
      /\ TranslatorTypes'
  <2>. DEFINE given == {c \in Calls : ~old[c].started /\ old[c].name}
              begun == [c \in Calls |-> IF c \in given THEN Begun(old[c]) ELSE old[c]]
              closing == {c \in Calls : (old[c].started \/ c \in given) /\ ~old[c].stopped}
              closed == [c \in Calls |-> IF c \in closing THEN Closed(begun[c]) ELSE begun[c]]
  <2>1. translator' = [translator EXCEPT !.finished = TRUE, !.calls = closed]
    BY DEF Finished
  <2>2. closing = ended
    BY <1>4
  <2>3. \A c \in Calls : begun[c] = old[c]
    BY <1>4
  <2>4. closed = [c \in Calls |-> IF c \in ended THEN Closed(old[c]) ELSE old[c]]
    <3>. HIDE DEF given, begun, closing, ended
    <3>. QED
      BY <2>2, <2>3
  <2>5. closed \in [Calls -> CallStates]
    <3>1. \A c \in Calls : old[c] \in CallStates /\ Closed(old[c]) \in CallStates
      BY <1>2, ClosedFacts
    <3>. HIDE DEF closed, ended
    <3>. QED
      BY <2>4, <3>1
  <2>. HIDE DEF closed, given, begun, closing, ended
  <2>. QED
    BY <1>1, <2>1, <2>4, <2>5 DEF TranslatorTypes
<1>6. pending' = BatchOf(head, {}, {}, old, ended, late)
  <2>. DEFINE given == {c \in Calls : ~old[c].started /\ old[c].name}
              closing == {c \in Calls : (old[c].started \/ c \in given) /\ ~old[c].stopped}
  <2>1. pending' = When(translator.textStarted, {Event("stop", 0)})
                     \cup Starts(given) \cup Deltas(given, old) \cup {Stop(c, FALSE) : c \in closing}
                     \cup When(translator.messageStarted,
                               {Event("message_delta", 0), Event("message_stop", 0)})
    BY DEF Finished
  <2>2. given = {} /\ closing = ended
    BY <1>4
  <2>3. Starts({}) = {} /\ Deltas({}, old) = {}
    BY DEF Starts, Deltas
  <2>4. {Stop(c, FALSE) : c \in ended} = {Stop(c, late[c]) : c \in ended}
    OBVIOUS
  <2>. HIDE DEF given, closing, ended, late
  <2>. QED
    BY <2>1, <2>2, <2>3, <2>4 DEF BatchOf
<1>7. ASSUME NEW c \in Calls
      PROVE  /\ new[c] \in CallStates
             /\ new[c].name = old[c].name /\ new[c].started = old[c].started
             /\ new[c].args = old[c].args /\ new[c].emitted = old[c].emitted
             /\ new[c].stopped <=> old[c].stopped \/ c \in ended
             /\ c \in ended <=> old[c].started /\ ~old[c].stopped
  <2>1. new[c] = IF c \in ended THEN Closed(old[c]) ELSE old[c]
    BY <1>5
  <2>2. c \in ended <=> old[c].started /\ ~old[c].stopped
    OBVIOUS
  <2>3. /\ old[c] \in CallStates
        /\ Closed(old[c]) \in CallStates /\ Closed(old[c]).stopped = TRUE
        /\ Closed(old[c]).name = old[c].name /\ Closed(old[c]).started = old[c].started
        /\ Closed(old[c]).args = old[c].args /\ Closed(old[c]).emitted = old[c].emitted
    BY <1>2, ClosedFacts
  <2>. HIDE DEF ended, new, old
  <2>4. CASE c \in ended
    BY <2>1, <2>2, <2>3, <2>4
  <2>5. CASE c \notin ended
    BY <2>1, <2>2, <2>3, <2>5
  <2>. QED
    BY <2>4, <2>5
<1>8. /\ head \in SUBSET Heads
      /\ \A e \in head : \/ e = Event("stop", 0) /\ translator.textStarted
                         \/ /\ e \in {Event("message_delta", 0), Event("message_stop", 0)}
                            /\ translator.messageStarted
      /\ translator.messageStarted => Event("message_delta", 0) \in head /\ Event("message_stop", 0) \in head
      /\ translator.textStarted => Event("stop", 0) \in head
  BY DEF When, Heads, Kinds
<1>9. /\ \A e \in pending' : e \in EventsOf /\ e.from <= e.to
      /\ \A e \in pending' : e.kind \notin {"start", "delta", "stop"} => e.block = 0
      /\ \A e, f \in pending' : e.kind = f.kind /\ e.block = f.block => e = f
      /\ \A e \in pending' : e.block = 0 => e \in head
      /\ \A c \in Calls :
           /\ ~(\E e \in pending' : e.kind = "start" /\ e.block = c)
           /\ (\E e \in pending' : e.kind = "stop" /\ e.block = c) <=> c \in ended
           /\ ~(\E e \in pending' : e.kind = "delta" /\ e.block = c)
  <2>1. BatchSays(pending', head, {}, {}, old, ended)
    <3>1. ended \in SUBSET Calls /\ \A c \in ended : late[c] \in BOOLEAN
      OBVIOUS
    <3>. HIDE DEF ended, late, head
    <3>. QED
      BY <1>6, <1>8, <3>1, BatchEvents
  <2>. HIDE DEF ended, late, head
  <2>. QED
    BY <2>1 DEF BatchSays
<1>10. PendingTypes'
  <2>. HIDE DEF head
  <2>. QED
    BY <1>9 DEF PendingTypes
<1>11. /\ head \subseteq pending'
       /\ Event("stop", 0).kind = "stop" /\ Event("stop", 0).block = 0
       /\ Event("message_delta", 0).kind = "message_delta" /\ Event("message_delta", 0).block = 0
       /\ Event("message_stop", 0).kind = "message_stop" /\ Event("message_stop", 0).block = 0
  BY <1>6 DEF BatchOf, Event
<1>12. /\ ~Due("message_start", 0)' /\ ~Due("start", 0)' /\ ~Due("delta", 0)'
       /\ Due("message_delta", 0)' <=> translator.messageStarted
       /\ Due("message_stop", 0)' <=> translator.messageStarted
       /\ Due("stop", 0)' <=> translator.textStarted
  <2>. HIDE DEF head
  <2>. QED
    BY <1>8, <1>9, <1>11 DEF Due
<1>13. MessageMoves
  <2>1. ~translator.messageStarted => pending' = {}
    <3>1. SUFFICES ASSUME ~translator.messageStarted, NEW e \in pending' PROVE FALSE
      OBVIOUS
    <3>2. e \notin head
      <4>. HIDE DEF head
      <4>. QED
        BY <1>3, <1>8, <3>1
    <3>3. e.block \in Calls
      <4>. HIDE DEF head
      <4>. QED
        BY <1>9, <3>1, <3>2, BlockFacts DEF EventsOf
    <3>4. e.kind \in {"start", "delta", "stop"}
      <4>. HIDE DEF head
      <4>. QED
        BY <1>9, <3>1, <3>3, BlockFacts
    <3>5. e.block \in ended
      <4>. HIDE DEF head, ended
      <4>. QED
        BY <1>9, <3>1, <3>3, <3>4
    <3>. QED
      BY <1>2, <3>1, <3>5
  <2>. QED
    BY <1>5, <1>12, <2>1 DEF MessageMoves
<1>14. ASSUME NEW c \in Calls PROVE BlockMoves(c)
  <2>1. /\ BlockStarted(c) = old[c].started /\ BlockStopped(c) = old[c].stopped
        /\ BlockStarted(c)' = new[c].started /\ BlockStopped(c)' = new[c].stopped
    BY BlockFacts DEF BlockStarted, BlockStopped
  <2>2. ~Due("start", c)' /\ (Due("stop", c)' <=> c \in ended) /\ ~Due("delta", c)'
    <3>. HIDE DEF ended, head
    <3>. QED
      BY <1>9 DEF Due
  <2>. HIDE DEF ended, new, old
  <2>. QED
    BY <1>2, <1>5, <1>7, <2>1, <2>2 DEF BlockMoves
<1>15. BlockMoves(0)
  <2>1. /\ BlockStarted(0) = translator.textStarted
        /\ BlockStopped(0) = (translator.textStarted /\ translator.finished)
        /\ BlockStarted(0)' = translator'.textStarted
        /\ BlockStopped(0)' = (translator'.textStarted /\ translator'.finished)
    BY DEF BlockStarted, BlockStopped
  <2>. QED
    BY <1>3, <1>5, <1>12, <2>1 DEF BlockMoves
<1>16. ASSUME NEW c \in Calls PROVE CallMoves(c)
  <2>1. CallFits(c)'
    <3>. HIDE DEF ended, new, old
    <3>. QED
      BY <1>2, <1>5, <1>7 DEF CallFits, new, old
  <2>2. ~Due("delta", c)'
    <3>. HIDE DEF ended, head
    <3>. QED
      BY <1>9 DEF Due
  <2>3. \A n : n = old[c].emitted => Given(c, n)'
    <3>1. new[c].emitted = old[c].emitted
      BY <1>7
    <3>. HIDE DEF ended, head, old
    <3>. QED
      BY <2>2, <3>1 DEF Given, Due
  <2>4. new[c].args = old[c].args
    BY <1>7
  <2>. QED
    BY <2>1, <2>3, <2>4 DEF CallMoves
<1>17. \A b \in Blocks : b = 0 \/ b \in Calls
  BY BlockFacts
<1>. HIDE DEF old, new
<1>. QED
  BY <1>5, <1>10, <1>13, <1>14, <1>15, <1>16, <1>17 DEF Batch

\* The order of the events, as far as it matters: the message is opened first and
\* ended last, and a block is started, then grows, then is stopped.
LEMMA PlaceFacts ==
  ASSUME NEW e \in EventsOf
  PROVE  /\ e.kind = "message_start" => Place(e) = 0
         /\ e.kind = "start" => Place(e) = 3 * e.block + 1
         /\ e.kind = "delta" => Place(e) = 3 * e.block + 2
         /\ e.kind = "stop" => Place(e) >= 3 * e.block + 3 /\ Place(e) <= 4 * CallCount + 3
         /\ e.kind \in {"start", "delta"} => Place(e) <= 3 * CallCount + 2
         /\ e.kind = "message_delta" => Place(e) = 4 * CallCount + 4
         /\ e.kind = "message_stop" => Place(e) = 4 * CallCount + 5
         /\ Place(e) \in Int
<1>1. e.kind \in Kinds /\ e.block \in 0 .. CallCount /\ CallCount \in Nat /\ e.late \in BOOLEAN
  BY StreamAssumption DEF EventsOf, Blocks
<1>2. CASE e.kind = "stop"
  <2>1. Place(e) = IF e.late THEN 3 * CallCount + 3 + e.block ELSE 3 * e.block + 3
    BY <1>2 DEF Place
  <2>2. CASE e.late
    BY <1>1, <1>2, <2>1, <2>2
  <2>3. CASE ~e.late
    BY <1>1, <1>2, <2>1, <2>3
  <2>. QED
    BY <2>2, <2>3
<1>3. CASE e.kind = "start"
  <2>1. Place(e) = 3 * e.block + 1
    BY <1>3 DEF Place
  <2>. QED
    BY <1>1, <1>3, <2>1
<1>4. CASE e.kind = "delta"
  <2>1. Place(e) = 3 * e.block + 2
    BY <1>4 DEF Place
  <2>. QED
    BY <1>1, <1>4, <2>1
<1>5. CASE e.kind = "message_start"
  BY <1>5 DEF Place
<1>6. CASE e.kind = "message_delta"
  <2>1. Place(e) = 4 * CallCount + 4
    BY <1>6 DEF Place
  <2>. QED
    BY <1>1, <1>6, <2>1
<1>7. CASE e.kind = "message_stop"
  <2>1. Place(e) = 4 * CallCount + 4 + 1
    BY <1>7 DEF Place
  <2>. QED
    BY <1>1, <1>7, <2>1
<1>. QED
  BY <1>1, <1>2, <1>3, <1>4, <1>5, <1>6, <1>7 DEF Kinds

First(e) == e \in pending /\ \A f \in pending : Place(e) <= Place(f)

\* What comes before the first event is not due.
LEMMA FirstFacts ==
  ASSUME StreamInv, NEW e, First(e)
  PROVE  /\ e \in EventsOf /\ e.from <= e.to /\ e.kind \in Kinds /\ e.block \in Blocks
         /\ e.kind \notin {"start", "delta", "stop"} => e.block = 0
         /\ e.kind # "message_start" => ~Due("message_start", 0)
         /\ e.kind \in {"delta", "stop"} => ~Due("start", e.block)
         /\ e.kind = "stop" => ~Due("delta", e.block)
         /\ e.kind \in {"message_delta", "message_stop"} =>
              \A f \in pending : f.kind \notin {"start", "delta", "stop"}
         /\ e.kind = "message_stop" => ~Due("message_delta", 0)
<1>1. /\ e \in EventsOf /\ e.from <= e.to /\ e \in pending
      /\ \A f \in pending : f \in EventsOf /\ Place(e) <= Place(f)
      /\ e.kind \notin {"start", "delta", "stop"} => e.block = 0
  BY DEF StreamInv, StreamTypes, PendingTypes, First
<1>2. e.kind \in Kinds /\ e.block \in Blocks /\ e.block \in Nat /\ CallCount \in Nat
  BY <1>1, StreamAssumption DEF EventsOf, Blocks
<1>3. ASSUME NEW f \in pending
      PROVE  /\ f.kind \in Kinds /\ f.block \in Nat
             /\ e.kind # "message_start" => f.kind # "message_start"
             /\ e.kind \in {"delta", "stop"} /\ f.kind = "start" => f.block # e.block
             /\ e.kind = "stop" /\ f.kind = "delta" => f.block # e.block
             /\ e.kind \in {"message_delta", "message_stop"} => f.kind \notin {"start", "delta", "stop"}
             /\ e.kind = "message_stop" => f.kind # "message_delta"
  <2>1. /\ f \in EventsOf /\ Place(e) <= Place(f) /\ Place(e) \in Int /\ Place(f) \in Int
        /\ f.kind \in Kinds /\ f.block \in Nat
    BY <1>1, PlaceFacts, StreamAssumption DEF EventsOf, Blocks
  <2>2. ASSUME e.kind # "message_start", f.kind = "message_start" PROVE FALSE
    <3>1. Place(f) = 0
      BY <2>1, <2>2, PlaceFacts
    <3>2. Place(e) >= 1
      <4>1. /\ e.kind = "start" => Place(e) = 3 * e.block + 1
            /\ e.kind = "delta" => Place(e) = 3 * e.block + 2
            /\ e.kind = "stop" => Place(e) >= 3 * e.block + 3
            /\ e.kind = "message_delta" => Place(e) = 4 * CallCount + 4
            /\ e.kind = "message_stop" => Place(e) = 4 * CallCount + 5
        BY <1>1, PlaceFacts
      <4>. QED
        BY <1>2, <2>1, <2>2, <4>1 DEF Kinds
    <3>. QED
      BY <2>1, <3>1, <3>2
  <2>3. ASSUME e.kind \in {"delta", "stop"}, f.kind = "start", f.block = e.block PROVE FALSE
    <3>1. Place(f) = 3 * e.block + 1
      BY <2>1, <2>3, PlaceFacts
    <3>2. Place(e) >= 3 * e.block + 2
      <4>1. /\ e.kind = "delta" => Place(e) = 3 * e.block + 2
            /\ e.kind = "stop" => Place(e) >= 3 * e.block + 3
        BY <1>1, PlaceFacts
      <4>. QED
        BY <1>2, <2>1, <2>3, <4>1
    <3>. QED
      BY <1>2, <2>1, <3>1, <3>2
  <2>4. ASSUME e.kind = "stop", f.kind = "delta", f.block = e.block PROVE FALSE
    <3>1. Place(f) = 3 * e.block + 2 /\ Place(e) >= 3 * e.block + 3
      BY <1>1, <2>1, <2>4, PlaceFacts
    <3>. QED
      BY <1>2, <2>1, <3>1
  <2>5. ASSUME e.kind \in {"message_delta", "message_stop"}, f.kind \in {"start", "delta", "stop"}
        PROVE  FALSE
    <3>1. Place(e) >= 4 * CallCount + 4
      <4>1. /\ e.kind = "message_delta" => Place(e) = 4 * CallCount + 4
            /\ e.kind = "message_stop" => Place(e) = 4 * CallCount + 5
        BY <1>1, PlaceFacts
      <4>. QED
        BY <1>2, <2>1, <2>5, <4>1
    <3>2. Place(f) <= 4 * CallCount + 3
      <4>1. /\ f.kind \in {"start", "delta"} => Place(f) <= 3 * CallCount + 2
            /\ f.kind = "stop" => Place(f) <= 4 * CallCount + 3
        BY <2>1, PlaceFacts
      <4>. QED
        BY <1>2, <2>1, <2>5, <4>1
    <3>. QED
      BY <1>2, <2>1, <3>1, <3>2
  <2>6. ASSUME e.kind = "message_stop", f.kind = "message_delta" PROVE FALSE
    <3>1. Place(e) = 4 * CallCount + 5 /\ Place(f) = 4 * CallCount + 4
      BY <1>1, <2>1, <2>6, PlaceFacts
    <3>. QED
      BY <1>2, <2>1, <3>1
  <2>. QED
    BY <2>1, <2>2, <2>3, <2>4, <2>5, <2>6
<1>. QED
  BY <1>1, <1>2, <1>3 DEF Due

\* The protocol: what the first event says may be said.
MayBeSaid(e) ==
    CASE e.kind = "message_start" -> seen.phase = "before"
      [] e.kind = "start" -> seen.phase = "open" /\ seen.blocks[e.block] = "unopened"
      [] e.kind \in {"delta", "stop"} -> seen.phase = "open" /\ seen.blocks[e.block] = "open"
      [] e.kind = "message_delta" -> seen.phase = "open" /\ \A b \in Blocks : seen.blocks[b] # "open"
      [] OTHER -> seen.phase = "summed"

LEMMA FirstMayBeSaid ==
  ASSUME StreamInv, NEW e, First(e)
  PROVE  MayBeSaid(e)
<1>1. /\ e \in pending /\ e.kind \in Kinds /\ e.block \in Blocks
      /\ e.kind \notin {"start", "delta", "stop"} => e.block = 0
      /\ e.kind # "message_start" => ~Due("message_start", 0)
      /\ e.kind \in {"delta", "stop"} => ~Due("start", e.block)
      /\ e.kind \in {"message_delta", "message_stop"} =>
           \A f \in pending : f.kind \notin {"start", "delta", "stop"}
      /\ e.kind = "message_stop" => ~Due("message_delta", 0)
  BY FirstFacts DEF First
<1>2. Due(e.kind, e.block)
  BY <1>1 DEF Due
<1>3. MessageFits /\ BlockFits(e.block) /\ (\A b \in Blocks : BlockFits(b))
  BY <1>1 DEF StreamInv, BlocksFit
<1>4. /\ seen.phase \in {"before", "open", "summed", "after"}
      /\ \A b \in Blocks : seen.blocks[b] \in {"unopened", "open", "stopped"}
  BY DEF StreamInv, StreamTypes, SeenTypes
<1>5. translator.messageStarted
  BY <1>1, <1>3 DEF MessageFits
<1>6. e.kind \in {"start", "delta", "stop"} => seen.phase \notin {"summed", "after"}
  BY <1>1, <1>3 DEF MessageFits
<1>7. e.kind # "message_start" => seen.phase # "before"
  BY <1>1, <1>3, <1>5 DEF MessageFits
<1>8. CASE e.kind = "message_start"
  BY <1>1, <1>2, <1>3, <1>8 DEF MayBeSaid, MessageFits
<1>9. CASE e.kind = "start"
  BY <1>2, <1>3, <1>4, <1>6, <1>7, <1>9 DEF MayBeSaid, BlockFits
<1>10. CASE e.kind \in {"delta", "stop"}
  <2>1. seen.blocks[e.block] = "open"
    BY <1>1, <1>2, <1>3, <1>4, <1>10 DEF BlockFits
  <2>. QED
    BY <1>4, <1>6, <1>7, <1>10, <2>1 DEF MayBeSaid
<1>11. CASE e.kind = "message_delta"
  <2>1. Due("message_delta", 0)
    BY <1>1, <1>2, <1>11
  <2>2. seen.phase = "open" /\ translator.finished
    BY <1>3, <1>7, <1>11, <2>1 DEF MessageFits
  <2>3. ASSUME NEW b \in Blocks PROVE seen.blocks[b] # "open"
    <3>1. ~Due("start", b) /\ ~Due("stop", b)
      BY <1>1, <1>11 DEF Due
    <3>. QED
      BY <1>3, <2>2, <3>1 DEF BlockFits
  <2>. QED
    BY <1>11, <2>2, <2>3 DEF MayBeSaid
<1>12. CASE e.kind = "message_stop"
  <2>1. Due("message_stop", 0) /\ ~Due("message_delta", 0)
    BY <1>1, <1>2, <1>12
  <2>2. seen.phase = "summed"
    BY <1>3, <1>4, <1>5, <2>1 DEF MessageFits
  <2>. QED
    BY <1>12, <2>2 DEF MayBeSaid
<1>. QED
  BY <1>1, <1>8, <1>9, <1>10, <1>11, <1>12 DEF Kinds

TakeOf(e) ==
    /\ First(e)
    /\ pending' = pending \ {e}
    /\ seen' = Saw(e)
    /\ collected' = Took(e)
    /\ UNCHANGED <<client, translator>>

LEMMA TakeDue ==
  ASSUME StreamInv, NEW e, TakeOf(e), NEW kind, NEW b
  PROVE  Due(kind, b)' <=> Due(kind, b) /\ ~(e.kind = kind /\ e.block = b)
<1>1. \A f \in pending : f.kind = e.kind /\ f.block = e.block => f = e
  BY DEF StreamInv, StreamTypes, PendingTypes, TakeOf, First
<1>. QED
  BY <1>1 DEF TakeOf, Due

LEMMA TakeSeen ==
  ASSUME StreamInv, NEW e, TakeOf(e)
  PROVE  /\ SeenTypes'
         /\ seen'.phase = CASE e.kind = "message_start" -> "open"
                            [] e.kind = "message_delta" -> "summed"
                            [] e.kind = "message_stop" -> "after"
                            [] OTHER -> seen.phase
         /\ \A b \in Blocks : seen'.blocks[b] =
              IF b = e.block /\ e.kind = "start" THEN "open"
              ELSE IF b = e.block /\ e.kind = "stop" THEN "stopped" ELSE seen.blocks[b]
         /\ seen'.event = [kind |-> e.kind, block |-> e.block]
<1>1. e.kind \in Kinds /\ e.block \in Blocks
  BY FirstFacts DEF TakeOf
<1>2. /\ seen.phase \in {"before", "open", "summed", "after"}
      /\ seen.blocks \in [Blocks -> {"unopened", "open", "stopped"}]
  BY DEF StreamInv, StreamTypes, SeenTypes
<1>. DEFINE now == CASE e.kind = "message_start" -> "open"
                     [] e.kind = "message_delta" -> "summed"
                     [] e.kind = "message_stop" -> "after"
                     [] OTHER -> seen.phase
            told == CASE e.kind = "start" -> [seen.blocks EXCEPT ![e.block] = "open"]
                      [] e.kind = "stop" -> [seen.blocks EXCEPT ![e.block] = "stopped"]
                      [] OTHER -> seen.blocks
            last == [kind |-> e.kind, block |-> e.block]
<1>3. seen' = [phase |-> now, blocks |-> told, event |-> last]
  BY DEF TakeOf, Saw
<1>4. now \in {"before", "open", "summed", "after"}
  BY <1>2
<1>5. /\ told \in [Blocks -> {"unopened", "open", "stopped"}]
      /\ \A b \in Blocks : told[b] =
           IF b = e.block /\ e.kind = "start" THEN "open"
           ELSE IF b = e.block /\ e.kind = "stop" THEN "stopped" ELSE seen.blocks[b]
  <2>1. CASE e.kind = "start"
    BY <1>1, <1>2, <2>1
  <2>2. CASE e.kind = "stop"
    BY <1>1, <1>2, <2>2
  <2>3. CASE e.kind \notin {"start", "stop"}
    BY <1>1, <1>2, <2>3
  <2>. QED
    BY <2>1, <2>2, <2>3
<1>6. last \in [kind : Kinds \cup {"none"}, block : Blocks]
  BY <1>1
<1>7. seen'.phase = now
  BY <1>3
<1>8. SeenTypes' /\ seen'.blocks = told /\ seen'.event = last
  <2>. HIDE DEF now, told, last
  <2>. QED
    BY <1>3, <1>4, <1>5, <1>6 DEF SeenTypes
<1>. HIDE DEF told
<1>. QED
  BY <1>5, <1>7, <1>8

LEMMA TakeMessage ==
  ASSUME StreamInv, NEW e, TakeOf(e)
  PROVE  MessageFits'
<1>1. /\ MessageFits /\ MayBeSaid(e) /\ translator' = translator
      /\ e \in pending /\ pending' = pending \ {e} /\ e.kind \in Kinds
      /\ e.kind \notin {"start", "delta", "stop"} => e.block = 0
      /\ e.kind \in {"message_delta", "message_stop"} =>
           \A f \in pending : f.kind \notin {"start", "delta", "stop"}
  BY FirstFacts, FirstMayBeSaid DEF StreamInv, TakeOf, First
<1>2. /\ Due("message_start", 0)' <=> Due("message_start", 0) /\ e.kind # "message_start"
      /\ Due("message_delta", 0)' <=> Due("message_delta", 0) /\ e.kind # "message_delta"
      /\ Due("message_stop", 0)' <=> Due("message_stop", 0) /\ e.kind # "message_stop"
  BY <1>1, TakeDue
<1>3. translator.messageStarted
  BY <1>1 DEF MessageFits
<1>4. Due(e.kind, e.block)
  BY <1>1 DEF Due
<1>5. CASE e.kind = "message_start"
  <2>1. seen'.phase = "open" /\ seen.phase = "before"
    BY <1>1, <1>5, TakeSeen DEF MayBeSaid
  <2>. QED
    BY <1>1, <1>2, <1>3, <1>5, <2>1 DEF MessageFits
<1>6. CASE e.kind = "message_delta"
  <2>1. seen'.phase = "summed" /\ seen.phase = "open"
    BY <1>1, <1>6, TakeSeen DEF MayBeSaid
  <2>2. Due("message_delta", 0)
    BY <1>1, <1>4, <1>6
  <2>3. translator.finished
    BY <1>1, <2>2 DEF MessageFits
  <2>. QED
    BY <1>1, <1>2, <1>3, <1>6, <2>1, <2>3 DEF MessageFits
<1>7. CASE e.kind = "message_stop"
  <2>1. seen'.phase = "after" /\ seen.phase = "summed"
    BY <1>1, <1>7, TakeSeen DEF MayBeSaid
  <2>2. translator.finished
    BY <1>1, <2>1 DEF MessageFits
  <2>. QED
    BY <1>1, <1>2, <1>3, <1>7, <2>1, <2>2 DEF MessageFits
<1>8. CASE e.kind \in {"start", "delta", "stop"}
  <2>1. seen'.phase = seen.phase /\ seen.phase = "open"
    BY <1>1, <1>8, TakeSeen DEF MayBeSaid
  <2>. QED
    BY <1>1, <1>2, <1>3, <1>8, <2>1 DEF MessageFits
<1>. QED
  BY <1>1, <1>5, <1>6, <1>7, <1>8 DEF Kinds

LEMMA TakeBlock ==
  ASSUME StreamInv, NEW e, TakeOf(e), NEW b \in Blocks
  PROVE  BlockFits(b)'
<1>1. /\ BlockFits(b) /\ MayBeSaid(e) /\ translator' = translator
      /\ e.kind \in Kinds
      /\ e.kind = "stop" => ~Due("delta", e.block)
      /\ seen'.blocks[b] = IF b = e.block /\ e.kind = "start" THEN "open"
                           ELSE IF b = e.block /\ e.kind = "stop" THEN "stopped" ELSE seen.blocks[b]
      /\ Due(e.kind, e.block)
  <2>1. First(e) /\ e \in pending /\ translator' = translator
    BY DEF TakeOf, First
  <2>2. BlockFits(b)
    BY DEF StreamInv, BlocksFit
  <2>3. e.kind \in Kinds /\ (e.kind = "stop" => ~Due("delta", e.block))
    BY <2>1, FirstFacts
  <2>4. MayBeSaid(e)
    BY <2>1, FirstMayBeSaid
  <2>5. Due(e.kind, e.block)
    BY <2>1 DEF Due
  <2>. QED
    BY <2>1, <2>2, <2>3, <2>4, <2>5, TakeSeen
<1>2. /\ Due("start", b)' <=> Due("start", b) /\ ~(e.kind = "start" /\ e.block = b)
      /\ Due("stop", b)' <=> Due("stop", b) /\ ~(e.kind = "stop" /\ e.block = b)
      /\ Due("delta", b)' => Due("delta", b)
  BY TakeDue
<1>3. BlockStarted(b)' = BlockStarted(b) /\ BlockStopped(b)' = BlockStopped(b)
  BY <1>1 DEF BlockStarted, BlockStopped
<1>4. CASE b # e.block \/ e.kind \notin {"start", "stop"}
  BY <1>1, <1>2, <1>3, <1>4 DEF BlockFits
<1>5. CASE b = e.block /\ e.kind = "start"
  <2>1. Due("start", b) /\ seen.blocks[b] = "unopened" /\ seen'.blocks[b] = "open"
    BY <1>1, <1>5 DEF MayBeSaid
  <2>. QED
    BY <1>1, <1>2, <1>3, <1>5, <2>1 DEF BlockFits
<1>6. CASE b = e.block /\ e.kind = "stop"
  <2>1. Due("stop", b) /\ seen.blocks[b] = "open" /\ seen'.blocks[b] = "stopped" /\ ~Due("delta", b)
    BY <1>1, <1>6 DEF MayBeSaid
  <2>. QED
    BY <1>1, <1>2, <1>3, <1>6, <2>1 DEF BlockFits
<1>. QED
  BY <1>4, <1>5, <1>6

LEMMA UptoFacts ==
  ASSUME NEW n \in Nat, NEW m \in Nat, n <= m
  PROVE  /\ Upto(n) \in Seq(Nat) /\ Upto(0) = <<>> /\ Len(Upto(n)) = n
         /\ [i \in 1 .. m - n |-> n + i] \in Seq(Nat)
         /\ Upto(n) \o [i \in 1 .. m - n |-> n + i] = Upto(m)
<1>. DEFINE rest == [i \in 1 .. m - n |-> n + i]
<1>1. /\ Upto(n) \in Seq(Nat) /\ Len(Upto(n)) = n /\ \A i \in 1 .. n : Upto(n)[i] = i
  BY DEF Upto
<1>2. Upto(0) = <<>>
  BY DEF Upto
<1>3. /\ m - n \in Nat
      /\ \A i \in 1 .. m - n : n + i \in Nat
  OBVIOUS
<1>4. rest \in Seq(Nat) /\ Len(rest) = m - n /\ \A i \in 1 .. m - n : rest[i] = n + i
  BY <1>3
<1>5. Upto(m) \in Seq(Nat) /\ Len(Upto(m)) = m /\ \A i \in 1 .. m : Upto(m)[i] = i
  BY DEF Upto
<1>. HIDE DEF rest
<1>6. Upto(n) \o rest = Upto(m)
  <2>1. /\ Upto(n) \o rest \in Seq(Nat) /\ Len(Upto(n) \o rest) = m
        /\ \A i \in 1 .. m : (Upto(n) \o rest)[i] = IF i <= n THEN Upto(n)[i] ELSE rest[i - n]
    <3>0. Upto(n) \in Seq(Nat) /\ rest \in Seq(Nat) /\ Len(Upto(n)) = n /\ Len(rest) = m - n
      BY <1>1, <1>4
    <3>1. Upto(n) \o rest \in Seq(Nat)
      BY <3>0, ConcatProperties
    <3>2. Len(Upto(n) \o rest) = n + (m - n)
      BY <3>0, ConcatProperties
    <3>3. n + (m - n) = m
      OBVIOUS
    <3>4. \A i \in 1 .. n + (m - n) :
             (Upto(n) \o rest)[i] = IF i <= n THEN Upto(n)[i] ELSE rest[i - n]
      BY <3>0, ConcatProperties
    <3>. QED
      BY <3>1, <3>2, <3>3, <3>4
  <2>2. ASSUME NEW i \in 1 .. m PROVE (Upto(n) \o rest)[i] = Upto(m)[i]
    <3>1. CASE i <= n
      BY <1>1, <1>5, <2>1, <3>1
    <3>2. CASE ~(i <= n)
      <4>1. i - n \in 1 .. m - n /\ n + (i - n) = i
        BY <3>2
      <4>2. rest[i - n] = i
        BY <1>4, <4>1
      <4>. QED
        BY <1>5, <2>1, <3>2, <4>2
    <3>. QED
      BY <3>1, <3>2
  <2>. QED
    BY <1>5, <2>1, <2>2, SeqEqual
<1>. QED
  BY <1>1, <1>2, <1>4, <1>6 DEF rest

\* What a consumer does with an event, by its kind.
LEMMA TookFacts ==
  ASSUME StreamInv, NEW e, First(e)
  PROVE  LET s == Slot(e.block)
             slot == collected.slots[s]
             taken == Took(e)
         IN  /\ s \in Blocks /\ slot \in SlotsOf /\ Pieces(e) \in Seq(Nat)
             /\ e.kind = "start" /\ e.block \in Calls =>
                  /\ taken.slots = [collected.slots EXCEPT ![s] = [call |-> e.block, input |-> <<>>]]
                  /\ taken.tools = collected.tools
             /\ e.kind = "delta" /\ e.block \in Calls /\ slot.call # 0 =>
                  /\ taken.slots = [collected.slots EXCEPT
                                      ![s] = [call |-> slot.call, input |-> slot.input \o Pieces(e)]]
                  /\ taken.tools = collected.tools
             /\ e.kind = "stop" /\ slot.call # 0 =>
                  /\ taken.slots = [collected.slots EXCEPT ![s] = Empty]
                  /\ taken.tools = Append(collected.tools, slot)
             /\ \/ e.kind \notin {"start", "delta", "stop"}
                \/ e.kind \in {"start", "delta"} /\ e.block \notin Calls
                \/ e.kind \in {"delta", "stop"} /\ slot.call = 0
                => taken.slots = collected.slots /\ taken.tools = collected.tools
             /\ taken.text \in BOOLEAN /\ taken.stop \in BOOLEAN
             /\ taken = [slots |-> taken.slots, text |-> taken.text,
                         tools |-> taken.tools, stop |-> taken.stop]
<1>. DEFINE s == Slot(e.block)
            slot == collected.slots[s]
            taken == Took(e)
<1>1. /\ e.block \in Blocks /\ e.from \in Nat /\ e.to \in Nat /\ e.from <= e.to
  BY FirstFacts DEF EventsOf
<1>2. /\ collected.slots \in [Blocks -> SlotsOf]
      /\ collected.text \in BOOLEAN /\ collected.stop \in BOOLEAN
  BY DEF StreamInv, StreamTypes, CollectedTypes
<1>3. s \in Blocks
  BY <1>1, BlockFacts DEF Slot
<1>4. slot \in SlotsOf
  BY <1>2, <1>3
<1>5. Pieces(e) \in Seq(Nat)
  BY <1>1, UptoFacts DEF Pieces
<1>6. e.kind = "start" /\ e.block \in Calls =>
        /\ taken.slots = [collected.slots EXCEPT ![s] = [call |-> e.block, input |-> <<>>]]
        /\ taken.tools = collected.tools
  BY DEF Took
<1>7. e.kind = "delta" /\ e.block \in Calls /\ slot.call # 0 =>
        /\ taken.slots = [collected.slots EXCEPT
                            ![s] = [call |-> slot.call, input |-> slot.input \o Pieces(e)]]
        /\ taken.tools = collected.tools
  BY DEF Took
<1>8. e.kind = "stop" /\ slot.call # 0 =>
        /\ taken.slots = [collected.slots EXCEPT ![s] = Empty]
        /\ taken.tools = Append(collected.tools, slot)
  BY DEF Took
<1>9. ASSUME \/ e.kind \notin {"start", "delta", "stop"}
             \/ e.kind \in {"start", "delta"} /\ e.block \notin Calls
             \/ e.kind \in {"delta", "stop"} /\ slot.call = 0
      PROVE  taken.slots = collected.slots /\ taken.tools = collected.tools
  <2>1. /\ ~(e.kind = "start" /\ e.block \in Calls)
        /\ ~(e.kind = "delta" /\ e.block \in Calls /\ slot.call # 0)
        /\ ~(e.kind = "stop" /\ slot.call # 0)
    BY <1>9
  <2>. QED
    BY <2>1 DEF Took
<1>10. taken.text \in BOOLEAN /\ taken.stop \in BOOLEAN
  BY <1>2 DEF Took
<1>11. taken = [slots |-> taken.slots, text |-> taken.text,
                tools |-> taken.tools, stop |-> taken.stop]
  BY DEF Took
<1>. QED
  BY <1>3, <1>4, <1>5, <1>6, <1>7, <1>8, <1>9, <1>10, <1>11

LEMMA TakeTypes ==
  ASSUME StreamInv, NEW e, TakeOf(e)
  PROVE  StreamTypes'
<1>. DEFINE s == Slot(e.block)
            slot == collected.slots[s]
            taken == Took(e)
<1>1. /\ First(e) /\ collected' = taken /\ pending' = pending \ {e}
      /\ client' = client /\ translator' = translator
  BY DEF TakeOf
<1>2. s \in Blocks /\ slot \in SlotsOf /\ Pieces(e) \in Seq(Nat)
  BY <1>1, TookFacts
<1>3. /\ collected.slots \in [Blocks -> SlotsOf] /\ collected.tools \in Seq(SlotsOf)
  BY DEF StreamInv, StreamTypes, CollectedTypes
<1>4. taken.slots \in [Blocks -> SlotsOf] /\ taken.tools \in Seq(SlotsOf)
  <2>1. CASE e.kind = "start" /\ e.block \in Calls
    <3>1. [call |-> e.block, input |-> <<>>] \in SlotsOf
      BY <2>1, BlockFacts DEF SlotsOf
    <3>2. /\ taken.slots = [collected.slots EXCEPT ![s] = [call |-> e.block, input |-> <<>>]]
          /\ taken.tools = collected.tools
      BY <1>1, <2>1, TookFacts
    <3>. HIDE DEF s, slot, taken
    <3>. QED
      BY <1>2, <1>3, <3>1, <3>2
  <2>2. CASE e.kind = "delta" /\ e.block \in Calls /\ slot.call # 0
    <3>1. [call |-> slot.call, input |-> slot.input \o Pieces(e)] \in SlotsOf
      <4>. HIDE DEF slot
      <4>1. slot.call \in Blocks /\ slot.input \in Seq(Nat)
        BY <1>2 DEF SlotsOf
      <4>2. slot.input \o Pieces(e) \in Seq(Nat)
        BY <1>2, <4>1, ConcatProperties
      <4>. QED
        BY <4>1, <4>2 DEF SlotsOf
    <3>2. /\ taken.slots = [collected.slots EXCEPT
                              ![s] = [call |-> slot.call, input |-> slot.input \o Pieces(e)]]
          /\ taken.tools = collected.tools
      BY <1>1, <2>2, TookFacts
    <3>. HIDE DEF s, slot, taken
    <3>. QED
      BY <1>2, <1>3, <3>1, <3>2
  <2>3. CASE e.kind = "stop" /\ slot.call # 0
    <3>1. Empty \in SlotsOf
      BY BlockFacts DEF SlotsOf, Empty
    <3>2. /\ taken.slots = [collected.slots EXCEPT ![s] = Empty]
          /\ taken.tools = Append(collected.tools, slot)
      BY <1>1, <2>3, TookFacts
    <3>. HIDE DEF s, slot, taken
    <3>. QED
      BY <1>2, <1>3, <3>1, <3>2, AppendProperties
  <2>4. CASE \/ e.kind \notin {"start", "delta", "stop"}
             \/ e.kind \in {"start", "delta"} /\ e.block \notin Calls
             \/ e.kind \in {"delta", "stop"} /\ slot.call = 0
    <3>1. taken.slots = collected.slots /\ taken.tools = collected.tools
      BY <1>1, <2>4, TookFacts
    <3>. QED
      BY <1>3, <3>1
  <2>. QED
    BY <2>1, <2>2, <2>3, <2>4
<1>5. CollectedTypes'
  <2>1. taken.text \in BOOLEAN /\ taken.stop \in BOOLEAN
    BY <1>1, TookFacts
  <2>2. taken = [slots |-> taken.slots, text |-> taken.text, tools |-> taken.tools, stop |-> taken.stop]
    BY <1>1, TookFacts
  <2>. HIDE DEF taken
  <2>. QED
    BY <1>1, <1>4, <2>1, <2>2 DEF CollectedTypes
<1>6. PendingTypes'
  BY <1>1 DEF StreamInv, StreamTypes, PendingTypes
<1>7. SeenTypes'
  BY TakeSeen
<1>. QED
  BY <1>1, <1>5, <1>6, <1>7 DEF StreamInv, StreamTypes, Client, TranslatorTypes

\* What is still to be given of a call, after an event that is not a part of it.
LEMMA GivenKept ==
  ASSUME StreamInv, NEW e, TakeOf(e), NEW c \in Calls, NEW n, Given(c, n),
         ~(e.kind = "delta" /\ e.block = c)
  PROVE  Given(c, n)'
<1>1. translator' = translator /\ pending' = pending \ {e}
  BY DEF TakeOf
<1>2. Due("delta", c)' <=> Due("delta", c)
  BY TakeDue
<1>. QED
  BY <1>1, <1>2 DEF Given

\* A sub-agent: each block has the slot of its index, and the text has none.
LEMMA AgentTook ==
  ASSUME StreamInv, NEW e, First(e), client.kind = "agent"
  PROVE  LET slot == collected.slots[e.block]
             taken == Took(e)
         IN  /\ \A b \in Blocks : b # e.block => taken.slots[b] = collected.slots[b]
             /\ e.kind = "start" /\ e.block \in Calls =>
                  /\ taken.slots[e.block] = [call |-> e.block, input |-> <<>>]
                  /\ taken.tools = collected.tools
             /\ e.kind = "delta" /\ e.block \in Calls /\ slot.call # 0 =>
                  /\ taken.slots[e.block] = [call |-> slot.call, input |-> slot.input \o Pieces(e)]
                  /\ taken.tools = collected.tools
             /\ e.kind = "stop" /\ slot.call # 0 =>
                  /\ taken.slots[e.block] = Empty
                  /\ taken.tools = Append(collected.tools, slot)
             /\ e.kind \notin {"start", "delta", "stop"} \/ e.block \notin Calls =>
                  taken.slots = collected.slots /\ taken.tools = collected.tools
             /\ slot \in SlotsOf
<1>. DEFINE slot == collected.slots[e.block]
            taken == Took(e)
<1>1. /\ e.block \in Blocks /\ Slot(e.block) = e.block
      /\ e.kind \in Kinds
  BY FirstFacts DEF Slot
<1>2. collected.slots \in [Blocks -> SlotsOf] /\ slot \in SlotsOf
  BY <1>1 DEF StreamInv, StreamTypes, CollectedTypes
<1>3. CASE e.kind = "start" /\ e.block \in Calls
  <2>1. /\ taken.slots = [collected.slots EXCEPT ![e.block] = [call |-> e.block, input |-> <<>>]]
        /\ taken.tools = collected.tools
    BY <1>1, <1>3, TookFacts
  <2>. HIDE DEF taken, slot
  <2>2. /\ \A b \in Blocks : b # e.block => taken.slots[b] = collected.slots[b]
        /\ taken.slots[e.block] = [call |-> e.block, input |-> <<>>]
    BY <1>1, <1>2, <2>1
  <2>. QED
    BY <1>2, <1>3, <2>1, <2>2 DEF taken, slot
<1>4. CASE e.kind = "delta" /\ e.block \in Calls /\ slot.call # 0
  <2>1. /\ taken.slots = [collected.slots EXCEPT
                            ![e.block] = [call |-> slot.call, input |-> slot.input \o Pieces(e)]]
        /\ taken.tools = collected.tools
    BY <1>1, <1>4, TookFacts
  <2>. HIDE DEF taken, slot
  <2>2. /\ \A b \in Blocks : b # e.block => taken.slots[b] = collected.slots[b]
        /\ taken.slots[e.block] = [call |-> slot.call, input |-> slot.input \o Pieces(e)]
    BY <1>1, <1>2, <2>1
  <2>. QED
    BY <1>2, <1>4, <2>1, <2>2 DEF taken, slot
<1>5. CASE e.kind = "stop" /\ slot.call # 0
  <2>1. /\ taken.slots = [collected.slots EXCEPT ![e.block] = Empty]
        /\ taken.tools = Append(collected.tools, slot)
    BY <1>1, <1>5 DEF Took
  <2>2. e.block \in Calls
    <3>1. collected.slots[0].call = 0
      BY DEF StreamInv, AgentFits, Empty
    <3>. QED
      BY <1>1, <1>5, <3>1, BlockFacts
  <2>. HIDE DEF taken, slot
  <2>3. /\ \A b \in Blocks : b # e.block => taken.slots[b] = collected.slots[b]
        /\ taken.slots[e.block] = Empty
    BY <1>1, <1>2, <2>1
  <2>. QED
    BY <1>2, <1>5, <2>1, <2>2, <2>3 DEF taken, slot
<1>6. CASE \/ e.kind \notin {"start", "delta", "stop"}
           \/ e.kind \in {"start", "delta"} /\ e.block \notin Calls
           \/ e.kind \in {"delta", "stop"} /\ slot.call = 0
  <2>1. taken.slots = collected.slots /\ taken.tools = collected.tools
    BY <1>1, <1>6, TookFacts
  <2>. HIDE DEF taken
  <2>. QED
    BY <1>2, <1>6, <2>1 DEF taken
<1>. QED
  BY <1>3, <1>4, <1>5, <1>6

\* The slots of a sub-agent: a call starts empty, grows by what is given next, and
\* leaves its slot whole.
LEMMA AgentTakes ==
  ASSUME StreamInv, NEW e, TakeOf(e), client.kind = "agent", NEW c \in Calls
  PROVE  SlotFits(c)'
<1>1. /\ First(e) /\ e \in pending /\ collected' = Took(e)
      /\ pending' = pending \ {e} /\ translator' = translator
  BY DEF TakeOf, First
<1>2. MayBeSaid(e) /\ e.kind \in Kinds /\ e.block \in Blocks
  BY <1>1, FirstMayBeSaid, FirstFacts
<1>3. /\ collected.slots[0] = Empty /\ SlotFits(c) /\ Slot(e.block) = e.block
      /\ collected.slots \in [Blocks -> SlotsOf]
      /\ c \in Blocks /\ c # 0
  BY BlockFacts DEF StreamInv, StreamTypes, CollectedTypes, AgentFits, Slot
<1>4. seen'.blocks[c] = IF c = e.block /\ e.kind = "start" THEN "open"
                        ELSE IF c = e.block /\ e.kind = "stop" THEN "stopped" ELSE seen.blocks[c]
  BY <1>3, TakeSeen
<1>5. CASE e.block # c \/ e.kind \notin {"start", "delta", "stop"}
  <2>1. collected'.slots[c] = collected.slots[c]
    <3>1. CASE e.block # c
      BY <1>1, <1>3, <3>1, AgentTook
    <3>2. CASE e.kind \notin {"start", "delta", "stop"}
      BY <1>1, <3>2, AgentTook
    <3>. QED
      BY <1>5, <3>1, <3>2
  <2>2. seen'.blocks[c] = seen.blocks[c]
    BY <1>4, <1>5
  <2>3. \A n : Given(c, n) => Given(c, n)'
    BY <1>5, GivenKept
  <2>4. CASE seen.blocks[c] = "open"
    <3>1. PICK n \in Nat : Given(c, n) /\ collected.slots[c] = [call |-> c, input |-> Upto(n)]
      BY <1>3, <2>4 DEF SlotFits
    <3>. QED
      BY <2>1, <2>2, <2>3, <2>4, <3>1 DEF SlotFits, Upto
  <2>5. CASE seen.blocks[c] = "unopened"
    BY <1>3, <2>1, <2>2, <2>3, <2>5 DEF SlotFits, Empty
  <2>6. CASE seen.blocks[c] \notin {"open", "unopened"}
    BY <1>3, <2>1, <2>2, <2>6 DEF SlotFits, Empty
  <2>. QED
    BY <2>4, <2>5, <2>6
<1>6. CASE e.block = c /\ e.kind = "start"
  <2>1. seen.blocks[c] = "unopened" /\ seen'.blocks[c] = "open"
    BY <1>2, <1>4, <1>6 DEF MayBeSaid
  <2>2. Given(c, 0)
    BY <1>3, <2>1 DEF SlotFits
  <2>3. Given(c, 0)'
    BY <1>6, <2>2, GivenKept
  <2>4. collected'.slots[c] = [call |-> c, input |-> <<>>]
    BY <1>1, <1>6, AgentTook
  <2>5. Upto(0) = <<>>
    BY DEF Upto
  <2>. QED
    BY <2>1, <2>3, <2>4, <2>5 DEF SlotFits, Upto
<1>7. CASE e.block = c /\ e.kind = "delta"
  <2>1. seen.blocks[c] = "open" /\ seen'.blocks[c] = "open"
    BY <1>2, <1>4, <1>7 DEF MayBeSaid
  <2>2. PICK n \in Nat : Given(c, n) /\ collected.slots[c] = [call |-> c, input |-> Upto(n)]
    BY <1>3, <2>1 DEF SlotFits
  <2>3. /\ e.from = n /\ e.to = translator.calls[c].emitted
        /\ e.from <= e.to /\ e.to \in Nat
    BY <1>1, <1>7, <2>2, FirstFacts DEF Given, EventsOf
  <2>4. collected.slots[c].call = c /\ collected.slots[c].input = Upto(n)
    BY <2>2
  <2>5. collected'.slots[c] = [call |-> c, input |-> Upto(n) \o Pieces(e)]
    BY <1>1, <1>3, <1>7, <2>4, AgentTook
  <2>6. Upto(n) \o Pieces(e) = Upto(e.to)
    BY <2>3, UptoFacts DEF Pieces
  <2>7. collected'.slots[c] = [call |-> c, input |-> Upto(e.to)]
    BY <2>5, <2>6
  <2>8. Given(c, e.to)'
    <3>1. ~Due("delta", c)'
      BY <1>7, TakeDue
    <3>. QED
      BY <1>1, <2>3, <3>1 DEF Given, Due
  <2>. QED
    BY <2>1, <2>3, <2>7, <2>8 DEF SlotFits, Upto
<1>8. CASE e.block = c /\ e.kind = "stop"
  <2>1. seen.blocks[c] = "open" /\ seen'.blocks[c] = "stopped"
    BY <1>2, <1>4, <1>8 DEF MayBeSaid
  <2>2. collected.slots[c].call = c
    <3>1. PICK n \in Nat : collected.slots[c] = [call |-> c, input |-> Upto(n)]
      BY <1>3, <2>1 DEF SlotFits
    <3>. QED
      BY <3>1
  <2>3. collected'.slots[c] = Empty
    BY <1>1, <1>3, <1>8, <2>2, AgentTook
  <2>. QED
    BY <2>1, <2>3 DEF SlotFits, Empty
<1>. QED
  BY <1>2, <1>5, <1>6, <1>7, <1>8

LEMMA BlocksFinite == IsFiniteSet(Blocks) /\ IsFiniteSet(Calls) /\ IsFiniteSet(StoppedCalls)
<1>1. IsFiniteSet(Blocks) /\ IsFiniteSet(Calls)
  BY FS_Interval, StreamAssumption DEF Blocks, Calls
<1>. QED
  BY <1>1, FS_Subset DEF StoppedCalls

\* A call that is stopped has been given whole, and becomes a tool use.
LEMMA AgentDelivers ==
  ASSUME StreamInv, NEW e, TakeOf(e), client.kind = "agent"
  PROVE  ToolsFit'
<1>1. /\ First(e) /\ e \in pending /\ collected' = Took(e) /\ translator' = translator
  BY DEF TakeOf, First
<1>2. /\ MayBeSaid(e) /\ e.kind \in Kinds /\ e.block \in Blocks
      /\ e.kind = "stop" => ~Due("delta", e.block)
  BY <1>1, FirstMayBeSaid, FirstFacts
<1>3. ToolsFit /\ collected.tools \in Seq(SlotsOf) /\ \A c \in Calls : SlotFits(c)
  BY DEF StreamInv, StreamTypes, CollectedTypes, AgentFits
<1>4. \A c \in Calls : WholeCall(c)' = WholeCall(c)
  BY <1>1 DEF WholeCall, Upto
<1>5. CASE e.kind = "stop" /\ e.block \in Calls
  <2>. DEFINE c == e.block
              tools == collected.tools
              slot == collected.slots[c]
  <2>1. seen.blocks[c] = "open"
    BY <1>2, <1>5 DEF MayBeSaid
  <2>2. PICK n \in Nat : Given(c, n) /\ slot = [call |-> c, input |-> Upto(n)]
    BY <1>3, <1>5, <2>1 DEF SlotFits
  <2>3. n = translator.calls[c].args
    <3>1. n = translator.calls[c].emitted
      BY <1>2, <1>5, <2>2 DEF Given
    <3>2. Due("stop", c)
      BY <1>1, <1>5 DEF Due
    <3>3. BlockFits(c) /\ CallFits(c) /\ c # 0
      BY <1>2, <1>5, BlockFacts DEF StreamInv, BlocksFit, CallsFit
    <3>4. translator.calls[c].started
      BY <3>2, <3>3 DEF BlockFits, BlockStarted
    <3>. QED
      BY <3>1, <3>3, <3>4 DEF CallFits
  <2>4. slot = WholeCall(c)
    BY <2>2, <2>3 DEF WholeCall
  <2>5. slot.call # 0 /\ slot \in SlotsOf
    <3>1. slot.call = c /\ c # 0
      BY <2>2, <1>5, BlockFacts
    <3>2. slot \in SlotsOf
      BY <1>1, AgentTook
    <3>. QED
      BY <3>1, <3>2
  <2>6. collected'.tools = Append(tools, slot)
    BY <1>1, <1>5, <2>5, AgentTook
  <2>7. StoppedCalls' = StoppedCalls \cup {c} /\ c \notin StoppedCalls
    <3>1. ASSUME NEW d \in Calls
          PROVE  seen'.blocks[d] = IF d = c THEN "stopped" ELSE seen.blocks[d]
      <4>1. seen'.blocks[d] = IF d = e.block /\ e.kind = "start" THEN "open"
                              ELSE IF d = e.block /\ e.kind = "stop" THEN "stopped" ELSE seen.blocks[d]
        BY TakeSeen, BlockFacts
      <4>. QED
        BY <1>5, <4>1
    <3>. QED
      BY <1>5, <2>1, <3>1 DEF StoppedCalls
  <2>8. Cardinality(StoppedCalls') = Cardinality(StoppedCalls) + 1
    BY <2>7, BlocksFinite, FS_AddElement
  <2>9. /\ collected'.tools \in Seq(SlotsOf) /\ Len(collected'.tools) = Len(tools) + 1
        /\ \A i \in 1 .. Len(tools) : collected'.tools[i] = tools[i]
        /\ collected'.tools[Len(tools) + 1] = slot /\ Len(tools) \in Nat
    BY <1>3, <2>5, <2>6, AppendProperties
  <2>10. /\ \A i \in 1 .. Len(tools) : \E d \in StoppedCalls : tools[i] = WholeCall(d)
         /\ \A d \in StoppedCalls : \E i \in 1 .. Len(tools) : tools[i] = WholeCall(d)
         /\ Len(tools) = Cardinality(StoppedCalls)
         /\ StoppedCalls \subseteq Calls
    BY <1>3 DEF ToolsFit, StoppedCalls
  <2>11. ASSUME NEW i \in 1 .. Len(collected'.tools)
         PROVE  \E d \in StoppedCalls' : collected'.tools[i] = WholeCall(d)'
    <3>1. CASE i \in 1 .. Len(tools)
      <4>1. PICK d \in StoppedCalls : tools[i] = WholeCall(d)
        BY <2>10, <3>1
      <4>. QED
        BY <1>4, <2>7, <2>9, <2>10, <3>1, <4>1
    <3>2. CASE i = Len(tools) + 1
      BY <1>4, <1>5, <2>4, <2>7, <2>9, <3>2
    <3>. QED
      BY <2>9, <3>1, <3>2
  <2>12. ASSUME NEW d \in StoppedCalls'
         PROVE  \E i \in 1 .. Len(collected'.tools) : collected'.tools[i] = WholeCall(d)'
    <3>1. CASE d = c
      <4>1. Len(tools) + 1 \in 1 .. Len(collected'.tools)
        BY <2>9
      <4>. QED
        BY <1>4, <1>5, <2>4, <2>9, <3>1, <4>1
    <3>2. CASE d \in StoppedCalls
      <4>1. PICK i \in 1 .. Len(tools) : tools[i] = WholeCall(d)
        BY <2>10, <3>2
      <4>2. i \in 1 .. Len(collected'.tools)
        BY <2>9
      <4>. QED
        BY <1>4, <2>9, <2>10, <3>2, <4>1, <4>2
    <3>. QED
      BY <2>7, <3>1, <3>2
  <2>. HIDE DEF tools, slot, c
  <2>. QED
    BY <2>8, <2>9, <2>10, <2>11, <2>12 DEF ToolsFit
<1>6. CASE ~(e.kind = "stop" /\ e.block \in Calls)
  <2>1. StoppedCalls' = StoppedCalls
    <3>1. \A d \in Calls : seen'.blocks[d] = "stopped" <=> seen.blocks[d] = "stopped"
      <4>1. ASSUME NEW d \in Calls PROVE seen'.blocks[d] = "stopped" <=> seen.blocks[d] = "stopped"
        <5>1. seen'.blocks[d] = IF d = e.block /\ e.kind = "start" THEN "open"
                                ELSE IF d = e.block /\ e.kind = "stop" THEN "stopped" ELSE seen.blocks[d]
          BY TakeSeen, BlockFacts
        <5>2. d = e.block /\ e.kind = "start" => seen.blocks[d] = "unopened"
          BY <1>2 DEF MayBeSaid
        <5>. QED
          BY <1>6, <5>1, <5>2
      <4>. QED
        BY <4>1
    <3>. QED
      BY <3>1 DEF StoppedCalls
  <2>2. collected'.tools = collected.tools
    <3>1. CASE e.kind \notin {"start", "delta", "stop"} \/ e.block \notin Calls
      BY <1>1, <3>1, AgentTook
    <3>2. CASE e.kind = "start" /\ e.block \in Calls
      BY <1>1, <3>2, AgentTook
    <3>3. CASE e.kind = "delta" /\ e.block \in Calls
      <4>1. seen.blocks[e.block] = "open"
        BY <1>2, <3>3 DEF MayBeSaid
      <4>2. PICK n \in Nat : collected.slots[e.block] = [call |-> e.block, input |-> Upto(n)]
        BY <1>3, <3>3, <4>1 DEF SlotFits
      <4>3. collected.slots[e.block].call # 0
        BY <3>3, <4>2, BlockFacts
      <4>. QED
        BY <1>1, <3>3, <4>3, AgentTook
    <3>. QED
      BY <1>2, <1>6, <3>1, <3>2, <3>3
  <2>3. \A c \in StoppedCalls : WholeCall(c)' = WholeCall(c)
    BY <1>4 DEF StoppedCalls
  <2>. QED
    BY <1>3, <2>1, <2>2, <2>3 DEF ToolsFit
<1>. QED
  BY <1>5, <1>6

LEMMA TakeKeeps == StreamInv /\ TakeEvent => StreamInv'
<1>. SUFFICES ASSUME StreamInv, TakeEvent PROVE StreamInv'
  OBVIOUS
<1>1. PICK e \in pending : TakeOf(e)
  BY DEF TakeEvent, TakeOf, First
<1>2. client' = client /\ translator' = translator /\ collected' = Took(e) /\ First(e)
  BY <1>1 DEF TakeOf
<1>3. CallsFit'
  BY <1>2 DEF StreamInv, CallsFit, CallFits
<1>4. BlocksFit'
  BY <1>1, TakeBlock DEF BlocksFit
<1>5. AgentFits'
  <2>1. SUFFICES ASSUME client.kind = "agent"
                 PROVE  collected'.slots[0] = Empty /\ (\A c \in Calls : SlotFits(c)') /\ ToolsFit'
    BY <1>2 DEF AgentFits, Empty
  <2>2. collected.slots[0] = Empty
    BY <2>1 DEF StreamInv, AgentFits
  <2>3. collected'.slots[0] = collected.slots[0]
    <3>1. CASE e.block = 0
      BY <1>2, <2>1, <3>1, AgentTook, BlockFacts
    <3>2. CASE e.block # 0
      BY <1>2, <2>1, <3>2, AgentTook, BlockFacts
    <3>. QED
      BY <3>1, <3>2
  <2>. QED
    BY <1>1, <2>1, <2>2, <2>3, AgentTakes, AgentDelivers
<1>. QED
  BY <1>1, <1>3, <1>4, <1>5, TakeTypes, TakeMessage DEF StreamInv

\* A new request: nothing is translated, due, seen or collected.
Anew ==
    /\ translator = NewTranslator /\ pending = {}
    /\ seen = NothingSeen /\ collected = NothingCollected

LEMMA AnewFits == Client /\ Anew => StreamInv
<1>. SUFFICES ASSUME Client, Anew PROVE StreamInv
  OBVIOUS
<1>1. \A kind, b : ~Due(kind, b)
  BY DEF Anew, Due
<1>2. TranslatorTypes
  <2>1. NoCall \in CallStates
    BY DEF NoCall, CallStates
  <2>2. [c \in Calls |-> NoCall] \in [Calls -> CallStates]
    BY <2>1
  <2>. QED
    BY <2>2 DEF Anew, NewTranslator, TranslatorTypes
<1>3. SeenTypes
  BY BlockFacts DEF Anew, NothingSeen, SeenTypes
<1>4. CollectedTypes /\ \A b \in Blocks : collected.slots[b] = Empty
  <2>1. Empty \in SlotsOf
    BY BlockFacts DEF SlotsOf, Empty
  <2>2. [b \in Blocks |-> Empty] \in [Blocks -> SlotsOf] /\ <<>> \in Seq(SlotsOf)
    BY <2>1
  <2>. QED
    BY <2>2 DEF Anew, NothingCollected, CollectedTypes
<1>5. PendingTypes
  BY DEF Anew, PendingTypes
<1>6. /\ ~translator.messageStarted /\ ~translator.textStarted /\ ~translator.finished
      /\ \A c \in Calls : translator.calls[c] = NoCall
      /\ seen.phase = "before" /\ \A b \in Blocks : seen.blocks[b] = "unopened"
      /\ collected.tools = <<>>
  BY DEF Anew, NewTranslator, NothingSeen, NothingCollected
<1>7. MessageFits
  BY <1>1, <1>6 DEF MessageFits, Anew
<1>8. ASSUME NEW b \in Blocks PROVE BlockFits(b)
  <2>1. ~BlockStarted(b) /\ ~BlockStopped(b)
    BY <1>6, BlockFacts DEF BlockStarted, BlockStopped, NoCall
  <2>. QED
    BY <1>1, <1>6, <2>1 DEF BlockFits
<1>9. CallsFit
  BY <1>6 DEF CallsFit, CallFits, NoCall
<1>10. AgentFits
  <2>1. collected.slots[0] = Empty
    BY <1>4, BlockFacts
  <2>2. ASSUME NEW c \in Calls PROVE SlotFits(c)
    <3>1. Given(c, 0)
      BY <1>6 DEF Given, Anew, NoCall
    <3>. QED
      BY <1>4, <1>6, <3>1, BlockFacts DEF SlotFits
  <2>3. ToolsFit
    <3>1. StoppedCalls = {}
      BY <1>6, BlockFacts DEF StoppedCalls
    <3>2. Cardinality(StoppedCalls) = 0
      BY <3>1, FS_EmptySet
    <3>. QED
      BY <1>6, <3>1, <3>2 DEF ToolsFit
  <2>. QED
    BY <2>1, <2>2, <2>3 DEF AgentFits
<1>. QED
  BY <1>2, <1>3, <1>4, <1>5, <1>7, <1>8, <1>9, <1>10 DEF StreamInv, StreamTypes, BlocksFit

LEMMA AnewFitsNext == (Client /\ Anew => StreamInv)'
BY AnewFits, PTL

\* Steps that leave what was translated, due, seen and collected as it is.
LEMMA FrameKeeps ==
  ASSUME StreamInv, UNCHANGED <<client, translator, pending, seen>>,
         CollectedTypes', collected'.slots = collected.slots, collected'.tools = collected.tools
  PROVE  StreamInv'
<1>1. StreamTypes'
  BY DEF StreamInv, StreamTypes, Client, TranslatorTypes, SeenTypes, PendingTypes
<1>2. MessageFits'
  BY DEF StreamInv, MessageFits, Due
<1>3. BlocksFit'
  BY DEF StreamInv, BlocksFit, BlockFits, BlockStarted, BlockStopped, Due
<1>4. CallsFit'
  BY DEF StreamInv, CallsFit, CallFits
<1>5. AgentFits'
  <2>1. \A c \in Calls : \A n : Given(c, n)' <=> Given(c, n)
    BY DEF Given, Due
  <2>2. \A c \in Calls : SlotFits(c) => SlotFits(c)'
    BY <2>1 DEF SlotFits, Upto, Empty
  <2>3. ToolsFit => ToolsFit'
    <3>1. StoppedCalls' = StoppedCalls /\ \A c : WholeCall(c)' = WholeCall(c)
      BY DEF StoppedCalls, WholeCall, Upto
    <3>. QED
      BY <3>1 DEF ToolsFit
  <2>. QED
    BY <2>2, <2>3 DEF StreamInv, AgentFits, Empty
<1>. QED
  BY <1>1, <1>2, <1>3, <1>4, <1>5 DEF StreamInv

\* The body ends.
LEMMA CloseKeeps == StreamInv /\ CloseBody => StreamInv'
<1>. SUFFICES ASSUME StreamInv, CloseBody PROVE StreamInv'
  OBVIOUS
<1>1. /\ UNCHANGED <<client, pending, seen, collected>>
      /\ translator' = [translator EXCEPT !.closed = TRUE]
  BY DEF CloseBody
<1>2. TranslatorTypes
  BY DEF StreamInv, StreamTypes
<1>3. /\ TranslatorTypes' /\ translator'.messageStarted = translator.messageStarted
      /\ translator'.textStarted = translator.textStarted
      /\ translator'.finished = translator.finished
      /\ translator'.calls = translator.calls
      /\ translator'.closed = TRUE
  BY <1>1, <1>2 DEF TranslatorTypes
<1>4. StreamTypes'
  BY <1>1, <1>3 DEF StreamInv, StreamTypes, Client, SeenTypes, PendingTypes, CollectedTypes
<1>5. MessageFits'
  BY <1>1, <1>3 DEF StreamInv, MessageFits, Due
<1>6. BlocksFit'
  BY <1>1, <1>3 DEF StreamInv, BlocksFit, BlockFits, BlockStarted, BlockStopped, Due
<1>7. CallsFit'
  BY <1>3 DEF StreamInv, CallsFit, CallFits
<1>8. AgentFits'
  <2>1. \A c \in Calls : \A n : Given(c, n)' <=> Given(c, n)
    BY <1>1, <1>3 DEF Given, Due
  <2>2. \A c \in Calls : SlotFits(c) => SlotFits(c)'
    BY <1>1, <2>1 DEF SlotFits, Upto, Empty
  <2>3. ToolsFit => ToolsFit'
    <3>1. StoppedCalls' = StoppedCalls /\ \A c : WholeCall(c)' = WholeCall(c)
      BY <1>1, <1>3 DEF StoppedCalls, WholeCall, Upto
    <3>. QED
      BY <1>1, <3>1 DEF ToolsFit
  <2>. QED
    BY <1>1, <2>2, <2>3 DEF StreamInv, AgentFits, Empty
<1>. QED
  BY <1>4, <1>5, <1>6, <1>7, <1>8 DEF StreamInv

LEMMA StreamInvInit == StreamInit => StreamInv
BY AnewFits DEF StreamInit, Anew, Client

LEMMA StreamInvStep == StreamInv /\ [StreamNext]_streamVars => StreamInv'
<1>. SUFFICES ASSUME StreamInv, [StreamNext]_streamVars PROVE StreamInv'
  OBVIOUS
<1>1. Client /\ CollectedTypes
  BY DEF StreamInv, StreamTypes
<1>2. ASSUME client' = client, Anew' PROVE StreamInv'
  <2>1. Client'
    BY <1>1, <1>2 DEF Client
  <2>. QED
    BY <1>2, <2>1, AnewFitsNext
<1>3. ASSUME UNCHANGED <<client, translator, pending, seen, collected>> PROVE StreamInv'
  BY <1>1, <1>3, FrameKeeps DEF CollectedTypes
<1>4. CASE Send
  <2>1. client' = client
    BY <1>4 DEF Send
  <2>2. Anew' \/ UNCHANGED <<translator, pending, seen, collected>>
    BY <1>4 DEF Send, Anew, NewTranslator, NothingSeen, NothingCollected, NoCall, Empty
  <2>. QED
    BY <1>2, <1>3, <2>1, <2>2
<1>5. CASE ReadChunk
  <2>1. /\ pending = {} /\ ~translator.closed /\ translator.stopReason = "none"
        /\ UNCHANGED <<client, seen, collected>>
    BY <1>5 DEF ReadChunk
  <2>2. PICK says \in [Calls -> Say], text \in BOOLEAN, reason \in {"none", "stop", "tool_calls"} :
           \E ingested \in {Ingested(says, text, reason)} :
              translator' = ingested.state /\ pending' = ingested.events
    BY <1>5 DEF ReadChunk
  <2>3. translator' = Ingested(says, text, reason).state /\ pending' = Ingested(says, text, reason).events
    BY <2>2
  <2>4. Batch
    BY <2>1, <2>3, ReadMoves
  <2>. QED
    BY <2>4, BatchKeeps
<1>6. CASE CloseBody
  BY <1>6, CloseKeeps
<1>7. CASE FinishStream
  <2>1. Batch
    BY <1>7, FinishMoves DEF FinishStream
  <2>. QED
    BY <2>1, BatchKeeps
<1>8. CASE ReadFails
  <2>1. client' = client /\ Anew'
    BY <1>8 DEF ReadFails, Anew, NewTranslator, NothingSeen, NothingCollected, NoCall, Empty
  <2>. QED
    BY <1>2, <2>1
<1>9. CASE Stall \/ Endless
  BY <1>3, <1>9 DEF Stall, Endless
<1>10. CASE TakeEvent
  BY <1>10, TakeKeeps
<1>11. CASE EndOfStream
  <2>. DEFINE ended == collected.stop \/ (collected.text \/ collected.tools # <<>>)
  <2>1. /\ UNCHANGED <<client, translator, pending, seen>>
        /\ collected' = [collected EXCEPT !.stop = ended]
    BY <1>11 DEF EndOfStream
  <2>2. ended \in BOOLEAN
    OBVIOUS
  <2>. HIDE DEF ended
  <2>3. /\ CollectedTypes' /\ collected'.slots = collected.slots
        /\ collected'.tools = collected.tools
    BY <1>1, <2>1, <2>2 DEF CollectedTypes
  <2>. QED
    BY <2>1, <2>3, FrameKeeps
<1>12. CASE UNCHANGED streamVars
  BY <1>3, <1>12 DEF streamVars
<1>. QED
  BY <1>4, <1>5, <1>6, <1>7, <1>8, <1>9, <1>10, <1>11, <1>12 DEF StreamNext

LEMMA StreamInvAlways == StreamSpec => []StreamInv
<1>1. StreamInit => StreamInv
  BY StreamInvInit
<1>2. StreamInv /\ [StreamNext]_streamVars => StreamInv'
  BY StreamInvStep
<1>. QED
  BY <1>1, <1>2, PTL DEF StreamSpec

\* For any number of calls, split and mixed in any way, over any number of chunks: a
\* sub-agent whose stream ran to its end has every call the model named, once and with
\* its own arguments (openai_compat.rs: ingest_chunk, finish; tools: stream_with_provider).
THEOREM AgentGetsEveryCall == StreamSpec => []AgentCallsDelivered
<1>1. StreamInv => AgentCallsDelivered
  <2>. SUFFICES ASSUME StreamInv, client.kind = "agent", seen.phase = "after"
                PROVE  LET named == {c \in Calls : translator.calls[c].name}
                           whole(c) == [call |-> c, input |-> [i \in 1 .. translator.calls[c].args |-> i]]
                       IN  /\ Len(collected.tools) = Cardinality(named)
                           /\ {collected.tools[i] : i \in 1 .. Len(collected.tools)} =
                                {whole(c) : c \in named}
    BY DEF AgentCallsDelivered, CallsDelivered
  <2>. DEFINE named == {c \in Calls : translator.calls[c].name}
  <2>1. ToolsFit
    BY DEF StreamInv, AgentFits
  <2>2. translator.finished /\ \A e \in pending : e.kind # "stop"
    BY DEF StreamInv, MessageFits
  <2>3. ASSUME NEW c \in Calls PROVE seen.blocks[c] = "stopped" <=> translator.calls[c].name
    <3>1. BlockFits(c) /\ CallFits(c) /\ c # 0
      BY BlockFacts DEF StreamInv, BlocksFit, CallsFit
    <3>2. ~Due("stop", c)
      BY <2>2 DEF Due
    <3>3. /\ BlockStarted(c) = translator.calls[c].started
          /\ BlockStopped(c) = translator.calls[c].stopped
      BY <3>1 DEF BlockStarted, BlockStopped
    <3>. QED
      BY <2>2, <3>1, <3>2, <3>3 DEF BlockFits, CallFits
  <2>4. StoppedCalls = named
    BY <2>3 DEF StoppedCalls
  <2>5. \A c : WholeCall(c) = [call |-> c, input |-> [i \in 1 .. translator.calls[c].args |-> i]]
    BY DEF WholeCall, Upto
  <2>. HIDE DEF named
  <2>6. {collected.tools[i] : i \in 1 .. Len(collected.tools)} = {WholeCall(c) : c \in named}
    BY <2>1, <2>4 DEF ToolsFit
  <2>7. Len(collected.tools) = Cardinality(named)
    BY <2>1, <2>4 DEF ToolsFit
  <2>. QED
    BY <2>5, <2>6, <2>7 DEF named
<1>. QED
  BY <1>1, StreamInvAlways, PTL

\* Each event the reader hands out is a step of the block protocol.
LEMMA HandsOutStep ==
  StreamInv /\ [StreamNext]_streamVars => [Handed!BlockNext]_(Handed!blockVars)
<1>. SUFFICES ASSUME StreamInv, [StreamNext]_streamVars
              PROVE  [Handed!BlockNext]_(Handed!blockVars)
  OBVIOUS
<1>1. ASSUME seen' = seen PROVE UNCHANGED Handed!blockVars
  BY <1>1 DEF Handed!blockVars
<1>2. ASSUME seen' = NothingSeen PROVE Handed!Another
  BY <1>2 DEF Handed!Another, Handed!NoEvent, NothingSeen
<1>3. ASSUME TakeEvent PROVE Handed!BlockNext
  <2>1. PICK e \in pending : TakeOf(e)
    BY <1>3 DEF TakeEvent, TakeOf, First
  <2>2. First(e) /\ seen' = Saw(e)
    BY <2>1 DEF TakeOf
  <2>3. /\ MayBeSaid(e) /\ e.kind \in Kinds /\ e.block \in Blocks
        /\ e.kind \notin {"start", "delta", "stop"} => e.block = 0
    BY <2>2, FirstMayBeSaid, FirstFacts
  <2>4. seen'.event = [kind |-> e.kind, block |-> e.block]
    BY <2>2 DEF Saw
  <2>5. CASE e.kind = "message_start"
    <3>1. seen'.phase = "open" /\ seen'.blocks = seen.blocks
      BY <2>2, <2>5 DEF Saw
    <3>2. Handed!MessageStart
      BY <2>3, <2>4, <2>5, <3>1 DEF Handed!MessageStart, MayBeSaid
    <3>. QED
      BY <3>2 DEF Handed!BlockNext
  <2>6. CASE e.kind = "start"
    <3>1. seen'.phase = seen.phase /\ seen'.blocks = [seen.blocks EXCEPT ![e.block] = "open"]
      BY <2>2, <2>6 DEF Saw
    <3>2. Handed!BlockStart(e.block)
      BY <2>3, <2>4, <2>6, <3>1 DEF Handed!BlockStart, MayBeSaid
    <3>. QED
      BY <2>3, <3>2 DEF Handed!BlockNext
  <2>7. CASE e.kind = "delta"
    <3>1. seen'.phase = seen.phase /\ seen'.blocks = seen.blocks
      BY <2>2, <2>7 DEF Saw
    <3>2. Handed!BlockDelta(e.block)
      BY <2>3, <2>4, <2>7, <3>1 DEF Handed!BlockDelta, MayBeSaid
    <3>. QED
      BY <2>3, <3>2 DEF Handed!BlockNext
  <2>8. CASE e.kind = "stop"
    <3>1. seen'.phase = seen.phase /\ seen'.blocks = [seen.blocks EXCEPT ![e.block] = "stopped"]
      BY <2>2, <2>8 DEF Saw
    <3>2. Handed!BlockStop(e.block)
      BY <2>3, <2>4, <2>8, <3>1 DEF Handed!BlockStop, MayBeSaid
    <3>. QED
      BY <2>3, <3>2 DEF Handed!BlockNext
  <2>9. CASE e.kind = "message_delta"
    <3>1. seen'.phase = "summed" /\ seen'.blocks = seen.blocks
      BY <2>2, <2>9 DEF Saw
    <3>2. Handed!MessageDelta
      BY <2>3, <2>4, <2>9, <3>1 DEF Handed!MessageDelta, MayBeSaid
    <3>. QED
      BY <3>2 DEF Handed!BlockNext
  <2>10. CASE e.kind = "message_stop"
    <3>1. seen'.phase = "after" /\ seen'.blocks = seen.blocks
      BY <2>2, <2>10 DEF Saw
    <3>2. Handed!MessageStop
      BY <2>3, <2>4, <2>10, <3>1 DEF Handed!MessageStop, MayBeSaid
    <3>. QED
      BY <3>2 DEF Handed!BlockNext
  <2>. QED
    BY <2>3, <2>5, <2>6, <2>7, <2>8, <2>9, <2>10 DEF Kinds
<1>4. CASE StreamNext
  <2>1. seen' = seen \/ seen' = NothingSeen \/ TakeEvent
    <3>1. CASE Send
      BY <3>1 DEF Send, NothingSeen
    <3>2. CASE ReadChunk \/ CloseBody \/ FinishStream \/ Stall \/ Endless \/ EndOfStream
      BY <3>2 DEF ReadChunk, CloseBody, FinishStream, Stall, Endless, EndOfStream
    <3>3. CASE ReadFails
      BY <3>3 DEF ReadFails, NothingSeen
    <3>. QED
      BY <1>4, <3>1, <3>2, <3>3 DEF StreamNext
  <2>. QED
    BY <1>1, <1>2, <1>3, <2>1 DEF Handed!BlockNext
<1>5. CASE UNCHANGED streamVars
  BY <1>1, <1>5 DEF streamVars
<1>. QED
  BY <1>4, <1>5

\* What next_event hands out is a block stream, for any number of calls and however
\* the provider names, fills and ends them: the reader implements BlockStream.
THEOREM ReaderIsABlockStream == StreamSpec => HandsOutBlocks
<1>1. StreamInit => Handed!BlockInit
  BY DEF StreamInit, Handed!BlockInit, Handed!NoEvent, NothingSeen
<1>2. StreamInv /\ [StreamNext]_streamVars => [Handed!BlockNext]_(Handed!blockVars)
  BY HandsOutStep
<1>. QED
  BY <1>1, <1>2, StreamInvAlways, PTL DEF StreamSpec, HandsOutBlocks, Handed!BlockSpec
-----------------------------------------------------------------------------
(* The gate (ToolGate).                                                    *)
Steps == {"pre", "prompt", "execute", "post", "told", "done"}
Stops == {"no", "denied", "failed", "cancelled"}

GateTypeOK ==
    /\ call \in [tool : Tools, input : Inputs]
    /\ said \in [stop : Stops, override : {"none", "allow", "deny", "ask"},
                 input : Inputs \cup {NoInput}]
    /\ step \in Steps
    /\ vetoed \in {"no", "pre", "post"}

\* What the policy, or the user, has granted to the call as it is now.
Cleared ==
    /\ <<call.tool, call.input>> \notin setup.policy.deny
    /\ \/ approved = call.input
       \/ /\ <<call.tool, call.input>> \notin setup.policy.ask
          /\ Covered(setup.policy, call.tool, call.input)

\* A tool runs with the effective input, and only with one that was granted.
RanCleared == ran # NoInput => ran = call.input /\ Cleared

Granted ==
    /\ step = "prompt" => <<call.tool, call.input>> \notin setup.policy.deny
    /\ step = "execute" => Cleared
    /\ step \in {"pre", "prompt", "execute"} => ran = NoInput

\* The refusal of a hook and what the loop knows of it are the same thing.
HooksHeard ==
    /\ hook.child # "none" => said.stop = "no" /\ step \in {"pre", "post"}
    /\ step = "pre" =>
           vetoed = IF said.stop # "no" \/ said.override = "deny" THEN "pre" ELSE "no"
    /\ step = "post" =>
           said.override = "none" /\ vetoed = IF said.stop # "no" THEN "post" ELSE "no"
    /\ step \in {"prompt", "execute"} => vetoed = "no"

GateInv == GateTypeOK /\ RanCleared /\ Granted /\ HooksHeard /\ VetoHolds

\* A verdict is a deny only of what a deny rule, a hook or the mode refuses, and an
\* allow only of what no ask rule matches and the mode or an allow rule covers.
LEMMA DecideSound ==
    ASSUME NEW policy, NEW tool, NEW input, NEW override,
           Decide(policy, tool, input, override) # "deny"
    PROVE  /\ <<tool, input>> \notin policy.deny 
           /\ Decide(policy, tool, input, override) # "prompt" =>
                 <<tool, input>> \notin policy.ask /\ Covered(policy, tool, input)
  BY DEF Decide

LEMMA DenialDenies ==
    ASSUME NEW policy, NEW tool, NEW input
    PROVE  Decide(policy, tool, input, "deny") = "deny"
  BY DEF Decide

LEMMA EffectiveIsInput ==
    ASSUME GateTypeOK
    PROVE  Effective \in Inputs
  BY DEF GateTypeOK, Effective

LEMMA GateInvInit == GateInit => GateInv
  BY DEF GateInit, GateInv, GateTypeOK, RanCleared, Granted, HooksHeard, VetoHolds,
         NothingSaid, NoHook, Steps, Stops

\* A hook that ends leaves the call alone, and its refusal is heard.
LEMMA HookEndsKeeps ==
    ASSUME GateInv, InHooks, hook.child # "none" \/ said.stop = "no",
           NEW stop \in Stops, NEW merged,
           merged \in [stop : Stops, override : {"none", "allow", "deny", "ask"},
                       input : Inputs \cup {NoInput}],
           merged.stop = stop, NEW override \in Overrides,
           merged.override = IF override = "none" THEN said.override ELSE override,
           HookEnds(stop, override, merged)
    PROVE  GateInv'
<1>1. /\ said.stop = "no" /\ step \in {"pre", "post"}
      /\ step = "post" => override = "none" /\ said.override = "none"
  BY DEF GateInv, HooksHeard, InHooks, Overrides
<1>2. /\ hook'.child = "none" /\ said' = merged
      /\ vetoed' = IF stop # "no" \/ override = "deny" THEN step
                   ELSE IF override = "none" THEN vetoed ELSE "no"
      /\ UNCHANGED <<setup, aborted, calls, call, step, approved, ran, result>>
  BY DEF HookEnds, HooksSettled
<1>3. override \in {"none", "allow", "deny", "ask"}
  BY <1>1 DEF Overrides
<1>4. HooksHeard'
  <2>1. CASE step = "pre"
    BY <1>1, <1>2, <1>3, <2>1 DEF GateInv, HooksHeard
  <2>2. CASE step = "post"
    BY <1>1, <1>2, <2>2 DEF GateInv, HooksHeard
  <2>. QED
    BY <1>1, <2>1, <2>2
<1>5. vetoed' \in {"no", "pre", "post"}
  BY <1>1, <1>2 DEF GateInv, GateTypeOK
<1>6. GateTypeOK'
  BY <1>2, <1>5 DEF GateInv, GateTypeOK
<1>7. RanCleared' /\ Granted'
  BY <1>2 DEF GateInv, RanCleared, Cleared, Granted, Covered
<1>8. VetoHolds'
  <2>1. step' \in {"pre", "post"} /\ ran' = ran
    BY <1>1, <1>2
  <2>2. vetoed' = "pre" => step = "pre"
    BY <1>1, <1>2 DEF GateInv, HooksHeard
  <2>3. step = "pre" => ran = NoInput
    BY DEF GateInv, Granted
  <2>. QED
    BY <2>1, <2>2, <2>3 DEF VetoHolds
<1>. QED
  BY <1>4, <1>6, <1>7, <1>8 DEF GateInv

LEMMA MergedIsSaid ==
    ASSUME GateTypeOK, NEW stop \in Stops, NEW override \in Overrides, NEW input \in Updates
    PROVE  /\ Merged(stop, override, input) \in
                    [stop : Stops, override : {"none", "allow", "deny", "ask"},
                     input : Inputs \cup {NoInput}]
           /\ Merged(stop, override, input).stop = stop
           /\ Merged(stop, override, input).override =
                  IF override = "none" THEN said.override ELSE override
  BY DEF GateTypeOK, Merged, Overrides, Updates

\* A step of a hook that is not its end.
LEMMA HookGoesOn ==
    ASSUME GateInv, InHooks, said.stop = "no", UNCHANGED <<said, vetoed, HooksSettled>>
    PROVE  GateInv'
  BY DEF GateInv, GateTypeOK, RanCleared, Cleared, Granted, HooksHeard, VetoHolds, InHooks,
         HooksSettled, Covered

LEMMA HookUnderWay ==
    ASSUME GateInv, hook.child # "none"
    PROVE  InHooks /\ said.stop = "no"
  BY DEF GateInv, HooksHeard, InHooks

\* One step of the loop, of a hook or of the user preserves it.
LEMMA GateInvStep == GateInv /\ [GateNext]_gateVars => GateInv'
<1> SUFFICES ASSUME GateInv, [GateNext]_gateVars PROVE GateInv'
  OBVIOUS
<1> USE DEF GateInv, GateTypeOK, RanCleared, Cleared, Granted, HooksHeard, VetoHolds, Covered
<1>1. CASE Abort
  BY <1>1 DEF Abort
<1>2. CASE CancelledBefore
  <2>1. /\ said' = [said EXCEPT !.stop = "cancelled"] /\ vetoed' = step /\ hook.child = "none"
        /\ UNCHANGED <<hook, setup, aborted, calls, call, step, approved, ran, result>>
        /\ step \in {"pre", "post"}
    BY <1>2 DEF CancelledBefore, InHooks, HooksSettled, NoHook
  <2>2. said'.stop = "cancelled" /\ said' \in [stop : Stops,
            override : {"none", "allow", "deny", "ask"}, input : Inputs \cup {NoInput}]
    BY <2>1 DEF Stops
  <2>. QED
    BY <2>1, <2>2 DEF Steps
<1>3. CASE SpawnHook
  <2>1. InHooks /\ said.stop = "no" /\ UNCHANGED <<said, vetoed, HooksSettled>>
    BY <1>3 DEF SpawnHook
  <2>. HIDE DEF GateInv
  <2>. QED
    BY <2>1, HookGoesOn
<1>4. CASE HookTakesPayload \/ HookExits \/ KillHook \/ PipesHeld
  <2>1. hook.child # "none" /\ UNCHANGED <<said, vetoed, HooksSettled>>
    BY <1>4 DEF HookTakesPayload, HookExits, KillHook, PipesHeld
  <2>. HIDE DEF GateInv
  <2>2. InHooks /\ said.stop = "no"
    BY <2>1, HookUnderWay
  <2>. QED
    BY <2>1, <2>2, HookGoesOn
<1>5. CASE HookHeard
  <2>1. PICK stop \in {"no", "denied", "failed"}, override \in Overrides, input \in Updates :
            HookEnds(stop, override, Merged(stop, override, input))
    BY <1>5 DEF HookHeard
  <2>2. stop \in Stops /\ hook.child # "none"
    BY <1>5 DEF Stops, HookHeard
  <2>3. GateTypeOK
    OBVIOUS
  <2>. HIDE DEF GateInv, GateTypeOK
  <2>4. InHooks
    BY <2>2, HookUnderWay
  <2>. QED
    BY <2>1, <2>2, <2>3, <2>4, MergedIsSaid, HookEndsKeeps
<1>6. CASE HookBreaks
  <2>1. hook.child # "none"
        /\ HookEnds("failed", "none", Merged("failed", "none", NoInput))
    BY <1>6 DEF HookBreaks
  <2>2. "failed" \in Stops /\ "none" \in Overrides /\ NoInput \in Updates
    BY DEF Stops, Overrides, Updates
  <2>3. GateTypeOK
    OBVIOUS
  <2>. HIDE DEF GateInv, GateTypeOK
  <2>4. InHooks
    BY <2>1, HookUnderWay
  <2>. QED
    BY <2>1, <2>2, <2>3, <2>4, MergedIsSaid, HookEndsKeeps
<1>7. CASE KilledOver
  <2> DEFINE merged == [said EXCEPT !.stop = "cancelled"]
  <2>1. hook.child # "none" /\ HookEnds("cancelled", "none", merged)
    BY <1>7 DEF KilledOver
  <2>2. /\ merged.stop = "cancelled" /\ merged.override = said.override
        /\ "cancelled" \in Stops /\ merged \in [stop : Stops,
               override : {"none", "allow", "deny", "ask"}, input : Inputs \cup {NoInput}]
    BY DEF Stops
  <2>3. "none" \in Overrides
    BY DEF Overrides
  <2>. HIDE DEF GateInv, GateTypeOK, merged
  <2>4. InHooks
    BY <2>1, HookUnderWay
  <2>. QED
    BY <2>1, <2>2, <2>3, <2>4, HookEndsKeeps
<1>8. CASE Authorize
  <2> DEFINE decided == Decide(setup.policy, call.tool, Effective, said.override)
  <2>1. /\ step = "pre" /\ HooksOver
        /\ call' = [call EXCEPT !.input = Effective]
        /\ IF said.stop # "no" \/ decided = "deny" \/ (decided = "prompt" /\ setup.who = "agent")
           THEN Told(TRUE)
           ELSE GoTo(IF decided = "prompt" THEN "prompt" ELSE "execute")
        /\ UNCHANGED <<setup, aborted, calls, hook, said, vetoed>>
    BY <1>8 DEF Authorize
  <2>2. call' \in [tool : Tools, input : Inputs] /\ call'.tool = call.tool
        /\ call'.input = Effective /\ ran' = NoInput /\ hook.child = "none"
    BY <2>1, EffectiveIsInput DEF Told, GoTo, HooksOver
  <2>3. CASE Told(TRUE)
    BY <2>1, <2>2, <2>3 DEF Told, Steps
  <2>4. CASE /\ decided # "deny" /\ said.stop = "no"
             /\ GoTo(IF decided = "prompt" THEN "prompt" ELSE "execute")
    <3>1. /\ <<call'.tool, call'.input>> \notin setup'.policy.deny
          /\ decided # "prompt" => /\ <<call'.tool, call'.input>> \notin setup'.policy.ask
                                   /\ Covered(setup.policy, call'.tool, call'.input)
      BY <2>1, <2>2, <2>4, DecideSound
    <3>2. /\ step' \in {"prompt", "execute"} /\ UNCHANGED <<setup, hook, vetoed, said>>
          /\ step' = "execute" => decided # "prompt"
          /\ UNCHANGED <<approved, ran, result>>
      BY <2>1, <2>4 DEF GoTo
    <3>3. vetoed = "no"
      <4>1. said.override # "deny"
        BY <2>4, DenialDenies
      <4>. QED
        BY <2>1, <2>4, <4>1
    <3>. HIDE DEF decided
    <3>4. step' = "execute" => Cleared'
      BY <3>1, <3>2
    <3>. QED
      BY <2>1, <2>2, <3>1, <3>2, <3>3, <3>4 DEF Steps
  <2>. QED
    BY <2>1, <2>3, <2>4
<1>9. CASE Answer
  BY <1>9 DEF Answer, Told, Steps
<1>10. CASE Execute
  BY <1>10 DEF Execute, NothingSaid, NoHook, Steps, Stops
<1>11. CASE PostHooksOver
  BY <1>11 DEF PostHooksOver, HooksOver, Told, Steps
<1>12. CASE NextCall
  BY <1>12 DEF NextCall, NothingSaid, NoHook, Steps, Stops
<1>13. CASE LastCall
  BY <1>13 DEF LastCall, Steps
<1>14. CASE UNCHANGED gateVars
  BY <1>14 DEF gateVars
<1>. QED
  BY <1>1, <1>2, <1>3, <1>4, <1>5, <1>6, <1>7, <1>8, <1>9, <1>10, <1>11, <1>12, <1>13, <1>14
     DEF GateNext, PipesEnd

LEMMA GateInvAlways == GateSpec => []GateInv
<1>1. GateInit => GateInv
  BY GateInvInit
<1>2. GateInv /\ [GateNext]_gateVars => GateInv'
  BY GateInvStep
<1>. QED
  BY <1>1, <1>2, PTL DEF GateSpec

\* For every policy and every hook: a denied input never runs, and an ask rule's
\* input only after a yes to it (conversation.rs: run_turn, permissions.rs).
THEOREM GateRulesHold == GateSpec => []RulesHold
<1>1. GateInv => RulesHold
  BY DEF GateInv, RanCleared, Cleared, RulesHold
<1>. QED
  BY <1>1, GateInvAlways, PTL

\* For every policy and every hook: what the mode does not cover runs only by an
\* allow rule or after a yes.
THEOREM GateModeHolds == GateSpec => []ModeHolds
<1>1. GateInv => ModeHolds
  <2> SUFFICES ASSUME GateInv, ran # NoInput PROVE ModeHolds
    BY DEF ModeHolds
  <2>1. ran = call.input /\ Cleared /\ call.tool \in Tools
    BY DEF GateInv, RanCleared, GateTypeOK
  <2>2. Level["allow"] >= Level[Requires[call.tool]]
    BY <2>1 DEF Level, Requires, Tools
  <2>. QED
    BY <2>1, <2>2 DEF ModeHolds, Cleared, Covered
<1>. QED
  BY <1>1, GateInvAlways, PTL

\* What the hooks refuse does not run, or is an error to the model, however many
\* hooks and whenever the signal comes: a stop is final, and of the permission
\* decisions the last one counts (hooks.rs: merge_parsed_hook_output).
THEOREM GateVetoHolds == GateSpec => []VetoHolds
<1>1. GateInv => VetoHolds
  BY DEF GateInv
<1>. QED
  BY <1>1, GateInvAlways, PTL
=============================================================================
