----------------------------- MODULE McpSession -----------------------------
(***************************************************************************)
(* McpServerSession: concurrent calls share one transport to an MCP        *)
(* server.  Each request has an id, a pending entry and a timer; the       *)
(* answer, the timer, a failed send or close settles it, whichever comes   *)
(* first, and an answer that comes later finds no entry and is dropped.    *)
(***************************************************************************)
EXTENDS Naturals, FiniteSets

CONSTANTS
    Calls,        \* the listTools, callTool, ... calls ever made
    MaxPages,     \* the most pages the server's lists have
    SendMayFail   \* whether an open transport may refuse a message

ASSUME SessionAssumption ==
    MaxPages \in Nat \ {0} /\ SendMayFail \in BOOLEAN

\* listTools and listResources page through a list; callTool and readResource
\* make one request.
Operations == {"list", "call"}
Methods == {"initialize"} \cup Operations

VARIABLES
    timerOn,     \* requestTimeoutMs > 0, fixed by the configuration
    nextId,
    initialized,
    pending,     \* which call's promise each pending id resolves
    call,        \* what each call is doing
    wire,        \* requests the server may still answer
    agreed,      \* the server has accepted an initialize
    closed

vars == <<timerOn, nextId, initialized, pending, call, wire, agreed, closed>>

(* A call awaits one request at a time.  "answered" is a resolved promise  *)
(* whose continuation has not run, got the request that was answered;      *)
(* sent is false when the transport was closed before the request.         *)
Steps == {"idle", "waiting", "answered", "done", "failed"}
Idle == [op |-> "call", step |-> "idle", method |-> "initialize", id |-> 0,
         sent |-> FALSE, page |-> 1, got |-> {}, ok |-> FALSE, more |-> FALSE]

\* A call that has returned or thrown.
Ended(step) == [Idle EXCEPT !.step = step]

Waiting(c) == call[c].step = "waiting"
Outgoing(c) == [id |-> call[c].id, from |-> c, method |-> call[c].method]

Init ==
    /\ timerOn \in BOOLEAN
    /\ nextId = 1 /\ initialized = FALSE
    /\ pending = [i \in {} |-> 0]
    /\ call = [c \in Calls |-> Idle]
    /\ wire = {} /\ agreed = FALSE /\ closed = FALSE

\* Variant: ids count the requests that are pending.
TakeId_Pending == Cardinality(DOMAIN pending) + 1

TakeId == nextId

(* request: the entry is made whatever becomes of the message, which a     *)
(* closed transport does not take.                                         *)
Request(c, state, method) ==
    /\ nextId' = nextId + 1
    /\ pending' = [i \in DOMAIN pending \cup {TakeId} |->
                      IF i = TakeId THEN c ELSE pending[i]]
    /\ call' = [call EXCEPT ![c] =
          [Idle EXCEPT !.op = state.op, !.page = state.page, !.step = "waiting",
                       !.method = method, !.id = TakeId, !.sent = ~closed]]
    /\ wire' = IF closed THEN wire
               ELSE wire \cup {[id |-> TakeId, from |-> c, method |-> method]}

\* A call up to its first request: the handshake unless it has been done.
Begin(c, op) ==
    /\ call[c].step = "idle"
    /\ Request(c, [Idle EXCEPT !.op = op], IF initialized THEN op ELSE "initialize")
    /\ UNCHANGED <<timerOn, initialized, agreed, closed>>

Forget(i) == [j \in DOMAIN pending \ {i} |-> pending[j]]

(* handleMessage: the server answers with a result, or with an error or    *)
(* nothing, and perhaps again; without a pending entry it is dropped.      *)
Answer(request, ok, more, again) ==
    /\ request \in wire
    /\ wire' = IF again THEN wire ELSE wire \ {request}
    /\ agreed' = (agreed \/ (request.method = "initialize" /\ ok))
    /\ IF request.id \in DOMAIN pending
       THEN /\ call' = [call EXCEPT ![pending[request.id]] =
                  [@ EXCEPT !.step = "answered", !.got = {request},
                            !.ok = ok, !.more = more]]
            /\ pending' = Forget(request.id)
       ELSE UNCHANGED <<call, pending>>
    /\ UNCHANGED <<timerOn, nextId, initialized, closed>>

\* The function ends: its promise is fulfilled or rejected.
Finish(c, step) ==
    /\ call' = [call EXCEPT ![c] = Ended(step)]
    /\ UNCHANGED <<nextId, pending, wire>>

(* What the awaiting function does next: throw on an error, make the       *)
(* call's own request after the handshake, ask for the next page, return.  *)
Continue(c) ==
    LET state == call[c]
        shaken == state.method = "initialize"
    IN  /\ state.step = "answered"
        /\ initialized' = (initialized \/ (shaken /\ state.ok))
        /\ IF ~state.ok THEN Finish(c, "failed")
           ELSE IF shaken THEN Request(c, state, state.op)
           ELSE IF state.op = "list" /\ state.more
                THEN Request(c, [state EXCEPT !.page = @ + 1], "list")
           ELSE Finish(c, "done")
        /\ UNCHANGED <<timerOn, agreed, closed>>

\* The timer or the failed send takes the entry and rejects the promise.
Settle(c) ==
    /\ pending' = Forget(call[c].id)
    /\ call' = [call EXCEPT ![c] = Ended("failed")]
    /\ UNCHANGED <<timerOn, nextId, initialized, wire, agreed, closed>>

TimesOut(c) == timerOn /\ Waiting(c) /\ Settle(c)

SendFails(c) == (SendMayFail \/ ~call[c].sent) /\ Waiting(c) /\ Settle(c)

\* Variant: only the transport is closed.
Close_TransportOnly ==
    /\ closed' = TRUE
    /\ pending' = [i \in {} |-> 0]
    /\ UNCHANGED <<timerOn, nextId, initialized, call, wire, agreed>>

\* close rejects every pending promise; the server's output may still arrive.
Close ==
    /\ closed' = TRUE
    /\ call' = [c \in Calls |->
                  IF \E i \in DOMAIN pending : pending[i] = c
                  THEN Ended("failed") ELSE call[c]]
    /\ pending' = [i \in {} |-> 0]
    /\ UNCHANGED <<timerOn, nextId, initialized, wire, agreed>>

Proceed(c) == Continue(c) \/ TimesOut(c)
Refuse(c) == ~call[c].sent /\ SendFails(c)

Next ==
    \/ \E c \in Calls, op \in Operations : Begin(c, op)
    \/ \E c \in Calls : Continue(c) \/ TimesOut(c) \/ SendFails(c)
    \/ \E request \in wire, ok, more, again \in BOOLEAN :
          /\ more => request.method = "list" /\ call[request.from].page < MaxPages
          /\ Answer(request, ok, more, again)
    \/ Close

Spec == Init /\ [][Next]_vars

(* The event loop runs continuations, timers and the refusals of a closed  *)
(* transport; the server need not answer and nobody need close.            *)
FairSpec ==
    Spec /\ \A c \in Calls : WF_vars(Proceed(c)) /\ WF_vars(Refuse(c))
-----------------------------------------------------------------------------
Message == [id: Nat \ {0}, from: Calls, method: Methods]
CallState == [op: Operations, step: Steps, method: Methods, id: Nat,
              sent: BOOLEAN, page: Nat, got: SUBSET Message,
              ok: BOOLEAN, more: BOOLEAN]

\* Ids stay below the counter, and every variable in its range.
TypeOK ==
    /\ timerOn \in BOOLEAN
    /\ nextId \in Nat \ {0} /\ initialized \in BOOLEAN
    /\ agreed \in BOOLEAN /\ closed \in BOOLEAN
    /\ DOMAIN pending \subseteq 1 .. nextId - 1
    /\ pending \in [DOMAIN pending -> Calls]
    /\ call \in [Calls -> CallState]
    /\ wire \subseteq Message

\* However late, repeated or out of order the server answers, a call acts on
\* an answer to the very request it is waiting for.
AnswersMatch ==
    \A c \in Calls : call[c].step = "answered" => call[c].got = {Outgoing(c)}

\* The pending map holds the requests that calls wait for, each with its call,
\* and nothing else: no settled request leaves an entry behind, and no call
\* waits for a promise that nobody can settle.
NothingLeaks ==
    /\ \A i \in DOMAIN pending : Waiting(pending[i]) /\ call[pending[i]].id = i
    /\ \A c \in Calls : Waiting(c) => call[c].id \in DOMAIN pending
                                      /\ pending[call[c].id] = c

\* No request but the handshake is sent before the server has accepted one,
\* whoever made it.
HandshakeFirst ==
    \A c \in Calls : Waiting(c) /\ call[c].method # "initialize" => agreed

\* Without it a silent server hangs its callers, but close lets none of them
\* hang, those that call afterwards included.
CloseSettles ==
    \A c \in Calls : closed /\ Waiting(c) ~> call[c].step \in {"done", "failed"}
=============================================================================
