---------------------------- MODULE BlockStream ----------------------------
(***************************************************************************)
(* What a consumer of model events may rely on: a message is opened, its   *)
(* blocks are started once, grow only while open and are stopped once, and *)
(* the message ends when no block is open.                                 *)
(***************************************************************************)
CONSTANT Blocks  \* indices of content blocks

VARIABLES
    phase,   \* before the message, in it, after its summary, or after its end
    blocks,  \* unopened, open or stopped
    event    \* the last event handed out

blockVars == <<phase, blocks, event>>

NoEvent == [kind |-> "none", block |-> 0]

BlockInit ==
    /\ phase = "before"
    /\ blocks = [b \in Blocks |-> "unopened"]
    /\ event = NoEvent

MessageStart ==
    /\ phase = "before"
    /\ phase' = "open"
    /\ event' = [kind |-> "message_start", block |-> 0]
    /\ UNCHANGED blocks

BlockStart(b) ==
    /\ phase = "open" /\ blocks[b] = "unopened"
    /\ blocks' = [blocks EXCEPT ![b] = "open"]
    /\ event' = [kind |-> "start", block |-> b]
    /\ UNCHANGED phase

BlockDelta(b) ==
    /\ phase = "open" /\ blocks[b] = "open"
    /\ event' = [kind |-> "delta", block |-> b]
    /\ UNCHANGED <<phase, blocks>>

BlockStop(b) ==
    /\ phase = "open" /\ blocks[b] = "open"
    /\ blocks' = [blocks EXCEPT ![b] = "stopped"]
    /\ event' = [kind |-> "stop", block |-> b]
    /\ UNCHANGED phase

MessageDelta ==
    /\ phase = "open" /\ \A b \in Blocks : blocks[b] # "open"
    /\ phase' = "summed"
    /\ event' = [kind |-> "message_delta", block |-> 0]
    /\ UNCHANGED blocks

MessageStop ==
    /\ phase = "summed"
    /\ phase' = "after"
    /\ event' = [kind |-> "message_stop", block |-> 0]
    /\ UNCHANGED blocks

\* The client drops the stream for another one.
Another == phase' = "before" /\ blocks' = [b \in Blocks |-> "unopened"] /\ event' = NoEvent

BlockNext ==
    \/ MessageStart \/ MessageDelta \/ MessageStop \/ Another
    \/ \E b \in Blocks : BlockStart(b) \/ BlockDelta(b) \/ BlockStop(b)

BlockSpec == BlockInit /\ [][BlockNext]_blockVars
=============================================================================
