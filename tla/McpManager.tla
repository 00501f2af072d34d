----------------------------- MODULE McpManager -----------------------------
(***************************************************************************)
(* McpServerManager of claw-rust: stdio servers that are spawned, greeted, *)
(* asked and reset, with the routes of the tools they listed.  Operations  *)
(* take the manager by &mut, so one runs at a time; the server processes   *)
(* run beside it.  A bridge call (McpToolRegistry) is discovery, one tool  *)
(* call and shutdown under one lock.                                       *)
(***************************************************************************)
EXTENDS Integers, FiniteSets

CONSTANTS
    ServerCount,  \* the configured stdio servers, in the order of the map
    Tools,        \* raw tool names
    Offers,       \* the tools a server may list
    Qualified,    \* mcp_tool_name: a name for every server and raw name
    MaxPages      \* pages of a listing (a bound of the model)

Servers == 1 .. ServerCount
Names == {Qualified[s][t] : s \in Servers, t \in Tools}

ASSUME McpAssumption ==
    /\ ServerCount \in Nat \ {0} /\ MaxPages \in Nat \ {0}
    /\ Offers \in [Servers -> SUBSET Tools]
    /\ Qualified \in [Servers -> [Tools -> Names]]

VARIABLES
    server,    \* ManagedMcpServer, with what its process has accepted and owes
    routes,    \* tool_index: a qualified name to a server and a raw name
    listed,    \* the tools of the last listing each server completed
    op         \* the operation that has the manager

mcpVars == <<server, routes, listed, op>>

NoProcess == [process |-> "none", initialized |-> FALSE, greeted |-> FALSE, unread |-> 0]
Fresh == [NoProcess EXCEPT !.process = "running"]

NoOp == [kind |-> "idle", server |-> 1, tool |-> "", bridge |-> FALSE, step |-> "check",
         attempts |-> 0, tries |-> 0, tools |-> {}, page |-> 1, spawns |-> 0, calls |-> 0]

\* Spawns are counted to five, one more than may happen.
Counted(n) == IF n < 5 THEN n + 1 ELSE n

Unrouted == [server |-> 0, raw |-> ""]

McpInit ==
    /\ server = [s \in Servers |-> NoProcess]
    /\ routes = [n \in Names |-> Unrouted]
    /\ listed = [s \in Servers |-> {}]
    /\ op = NoOp
-----------------------------------------------------------------------------
(* Errors.  A stray message in place of the answer and a malformed answer  *)
(* are both InvalidResponse; the first leaves the answer in the pipe.      *)
Failures == {"transport", "timeout", "stray", "malformed"}
IsRetryable(error) == error \in {"transport", "timeout"}

\* Variant: a timeout leaves the process as it is.
ShouldReset_NotTimeout(error) == error \in (Failures \cup {"missing"}) \ {"timeout"}

ShouldReset(error) == error \in Failures \cup {"missing"}

\* What is left to read once the manager has given up or gone on.
Left(outcome) == IF outcome \in {"timeout", "stray"} THEN 1 ELSE 0

\* reset_server takes and kills the process.
AfterOutcome(s, outcome) ==
    server' = [server EXCEPT ![s] = IF ShouldReset(outcome) THEN NoProcess
                                    ELSE [@ EXCEPT !.unread = Left(outcome)]]

\* Variant: routes of tools the server no longer lists stay.
ClearRoutes_Keep(s) == routes

ClearRoutes(s) == [n \in Names |-> IF routes[n].server = s THEN Unrouted ELSE routes[n]]

RoutesWith(s, tools) ==
    LET cleared == ClearRoutes(s)
    IN  [n \in Names |->
            IF \E t \in tools : Qualified[s][t] = n
            THEN [server |-> s, raw |-> CHOOSE t \in tools : Qualified[s][t] = n]
            ELSE cleared[n]]

Discovering == op.kind \in {"discover", "best_effort"}

\* The call of a bridge call starts: unknown tools go straight to shutdown.
StartCall(o, index) ==
    IF index[o.tool].server = 0 THEN [o EXCEPT !.kind = "shutdown"]
    ELSE [o EXCEPT !.kind = "call", !.server = index[o.tool].server, !.step = "check",
                   !.attempts = 0, !.tries = 0, !.spawns = 0]

\* The operation is done with this server.
Onward(index) ==
    IF Discovering /\ op.server < ServerCount
    THEN [op EXCEPT !.server = @ + 1, !.step = "check", !.attempts = 0, !.tries = 0,
                    !.tools = {}, !.page = 1, !.spawns = 0]
    ELSE IF ~op.bridge THEN NoOp
    ELSE IF op.kind = "discover" THEN StartCall(op, index)
    ELSE [op EXCEPT !.kind = "shutdown"]

(* The operation gives up on this server: discover_tools as a whole, also  *)
(* under a bridge call, whose `?` skips the shutdown.                      *)
GiveUp ==
    /\ routes' = IF op.kind = "best_effort" THEN ClearRoutes(op.server) ELSE routes
    /\ listed' = IF op.kind = "best_effort" THEN [listed EXCEPT ![op.server] = {}] ELSE listed
    /\ op' = IF op.kind = "discover" THEN NoOp ELSE Onward(routes)

\* Variant: attempts are not counted.
Retries_Always(error) == op.kind # "call" /\ IsRetryable(error)

\* Variant: tools/call is tried again like the listings.
Retries_Calls(error) == op.attempts = 0 /\ IsRetryable(error)

Retries(error) == op.kind # "call" /\ op.attempts = 0 /\ IsRetryable(error)

Error(error) ==
    IF Retries(error)
    THEN /\ op' = [op EXCEPT !.attempts = 1, !.tries = 0, !.step = "check",
                             !.tools = {}, !.page = 1]
         /\ UNCHANGED <<routes, listed>>
    ELSE GiveUp
-----------------------------------------------------------------------------
Begin(o) ==
    /\ op.kind = "idle"
    /\ op' = o
    /\ UNCHANGED <<server, routes, listed>>

Discover == Begin([NoOp EXCEPT !.kind = "discover"])
DiscoverBestEffort == Begin([NoOp EXCEPT !.kind = "best_effort"])
CallTool(n) ==
    routes[n].server # 0 /\ Begin([NoOp EXCEPT !.kind = "call", !.server = routes[n].server])
ListResources(s) == Begin([NoOp EXCEPT !.kind = "list", !.server = s])
ReadResource(s) == Begin([NoOp EXCEPT !.kind = "read", !.server = s])
BridgeCall(n) == Begin([NoOp EXCEPT !.kind = "discover", !.bridge = TRUE, !.tool = n])
BeginShutdown == Begin([NoOp EXCEPT !.kind = "shutdown"])

Running(step) == op.kind \notin {"idle", "shutdown"} /\ op.step = step

(* ensure_server_ready up to its first await: a process that has exited is *)
(* reset, a missing one is spawned, one that is not initialized is greeted.*)
EnsureReady ==
    LET s == op.server
        spawn == server[s].process # "running"
    IN  /\ Running("check")
        /\ \/ /\ spawn
              /\ server' = [server EXCEPT ![s] = Fresh]
              /\ op' = [op EXCEPT !.step = "initialize", !.spawns = Counted(@)]
              /\ UNCHANGED <<routes, listed>>
           \/ spawn /\ AfterOutcome(s, "missing") /\ GiveUp  \* spawn fails: Io, no retry
           \/ /\ ~spawn
              /\ op' = [op EXCEPT !.step = IF server[s].initialized THEN "request" ELSE "initialize"]
              /\ UNCHANGED <<server, routes, listed>>

InitializeAnswered ==
    /\ Running("initialize")
    /\ server' = [server EXCEPT ![op.server].initialized = TRUE, ![op.server].greeted = TRUE]
    /\ op' = [op EXCEPT !.step = "request"]
    /\ UNCHANGED <<routes, listed>>

\* Variant: an error answer is not looked at.
InitializeFails_ErrorIgnored(outcome) ==
    /\ Running("initialize")
    /\ IF outcome = "rpc"
       THEN /\ server' = [server EXCEPT ![op.server].initialized = TRUE]
            /\ op' = [op EXCEPT !.step = "request"] /\ UNCHANGED <<routes, listed>>
       ELSE AfterOutcome(op.server, outcome) /\ Error(outcome)

\* An error answer keeps the process; all else resets it, twice if need be.
InitializeFails(outcome) ==
    /\ Running("initialize")
    /\ AfterOutcome(op.server, outcome)
    /\ IF op.tries = 0 /\ IsRetryable(outcome)
       THEN op' = [op EXCEPT !.tries = 1, !.step = "check"] /\ UNCHANGED <<routes, listed>>
       ELSE Error(outcome)

\* take_request_id and the write of the frame.
Request ==
    /\ Running("request")
    /\ op' = [op EXCEPT !.step = "answer", !.calls = @ + IF op.kind = "call" THEN 1 ELSE 0]
    /\ UNCHANGED <<server, routes, listed>>

\* A page: a listing goes on while there is a cursor.
PageAnswered(tools, more) ==
    LET found == op.tools \cup tools
    IN  /\ Running("answer") /\ UNCHANGED server
        /\ more => op.kind \in {"discover", "best_effort", "list"} /\ op.page < MaxPages
        /\ tools \subseteq (IF Discovering THEN Offers[op.server] ELSE {})
        /\ IF more
           THEN /\ op' = [op EXCEPT !.step = "request", !.page = @ + 1, !.tools = found]
                /\ UNCHANGED <<routes, listed>>
           ELSE IF Discovering
           THEN /\ routes' = RoutesWith(op.server, found)
                /\ listed' = [listed EXCEPT ![op.server] = found]
                /\ op' = Onward(routes')
           ELSE op' = Onward(routes) /\ UNCHANGED <<routes, listed>>

\* The answer is an error or has no result: call_tool hands both back.
RequestRefused(outcome) ==
    /\ Running("answer")
    /\ IF op.kind = "call" THEN op' = Onward(routes) /\ UNCHANGED <<server, routes, listed>>
       ELSE AfterOutcome(op.server, outcome) /\ Error(outcome)

RequestFails(outcome) ==
    Running("answer") /\ AfterOutcome(op.server, outcome) /\ Error(outcome)

\* shutdown stops at the first process it cannot kill.
Shutdown(upTo) ==
    /\ op.kind = "shutdown"
    /\ upTo < ServerCount => server[upTo + 1].process = "running"
    /\ server' = [s \in Servers |-> IF s <= upTo THEN NoProcess ELSE server[s]]
    /\ op' = NoOp
    /\ UNCHANGED <<routes, listed>>

ProcessExits(s) ==
    /\ server[s].process = "running"
    /\ server' = [server EXCEPT ![s].process = "exited"]
    /\ UNCHANGED <<routes, listed, op>>

Step ==
    \/ EnsureReady \/ InitializeAnswered \/ Request
    \/ \E e \in Failures \cup {"rpc", "missing"} : InitializeFails(e)
    \/ \E tools \in SUBSET Tools, more \in BOOLEAN : PageAnswered(tools, more)
    \/ \E e \in {"rpc", "missing"} : RequestRefused(e)
    \/ \E e \in Failures : RequestFails(e)
    \/ \E k \in 0 .. ServerCount : Shutdown(k)

Start ==
    \/ Discover \/ DiscoverBestEffort \/ BeginShutdown
    \/ \E n \in Names : CallTool(n) \/ BridgeCall(n)
    \/ \E s \in Servers : ListResources(s) \/ ReadResource(s)

McpNext == Start \/ Step \/ \E s \in Servers : ProcessExits(s)

McpSpec == McpInit /\ [][McpNext]_mcpVars

\* Every await has a timeout, so an operation goes on.
McpFairSpec == McpSpec /\ WF_mcpVars(Step)
-----------------------------------------------------------------------------
\* The manager reads one answer per request and matches it by id: whenever it
\* is about to write, the pipe holds no answer to an earlier request, which
\* would be taken for this one's and refused.
CleanPipe ==
    op.step \in {"check", "initialize", "request"} =>
        \A s \in Servers : server[s].process = "running" => server[s].unread = 0

\* A request other than initialize goes to a process that has accepted
\* initialize itself, also after the one before it died or was reset.
GreetedFirst ==
    op.kind # "idle" /\ op.step \in {"request", "answer"} /\ op.kind # "shutdown" =>
        server[op.server].greeted

\* tools/call is written once, whatever happens to the process; a listing
\* spawns a server four times at most, twice for each of its two attempts.
RetriesBounded == op.calls <= 1 /\ op.spawns <= IF op.kind = "call" THEN 2 ELSE 4

\* A route leads to a server that listed the tool in its last listing, under
\* the name it is routed by, and every tool listed has a route unless another
\* tool shares its qualified name.
RoutesSound ==
    /\ \A n \in Names :
          routes[n] # Unrouted =>
              /\ routes[n].raw \in listed[routes[n].server]
              /\ Qualified[routes[n].server][routes[n].raw] = n
    /\ \A s \in Servers : \A t \in listed[s] :
          \/ routes[Qualified[s][t]] = [server |-> s, raw |-> t]
          \/ \E r \in Servers : \E u \in Offers[r] :
                <<r, u>> # <<s, t>> /\ Qualified[r][u] = Qualified[s][t]

\* Every operation ends, whatever processes die, hang or answer, as long as the
\* cursors of a listing end.
OperationEnds == op.kind # "idle" ~> op.kind = "idle"
=============================================================================
