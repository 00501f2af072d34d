-------------------------- MODULE McpManagerProofs --------------------------
(***************************************************************************)
(* What the manager of stdio servers promises, for any servers, tools and  *)
(* qualified names and listings of any length.                             *)
(***************************************************************************)
EXTENDS McpManager, TLAPS

Kinds == {"idle", "discover", "best_effort", "call", "list", "read", "shutdown"}
Resting == {"idle", "shutdown"}
Steps == {"check", "initialize", "request", "answer"}
Route == {Unrouted} \cup [server: Servers, raw: Tools]
ServerState == [process: {"none", "running", "exited"}, initialized: BOOLEAN,
                greeted: BOOLEAN, unread: {0, 1}]
Operation == [kind: Kinds, server: Servers, tool: Names \cup {""}, bridge: BOOLEAN,
              step: Steps, attempts: {0, 1}, tries: {0, 1}, tools: SUBSET Tools,
              page: Nat, spawns: Nat, calls: Nat]

(* No process is kept that owes an answer, and none counts as initialized  *)
(* that has not accepted the handshake itself.                             *)
ServersOK ==
    /\ server \in [Servers -> ServerState]
    /\ \A s \in Servers :
          server[s].unread = 0 /\ (server[s].initialized => server[s].greeted)

(* A server is spawned once at most for each try of each attempt, a tool   *)
(* call has one attempt, and it is written when its answer is waited for.  *)
CountsOK(o) ==
    /\ o.calls <= 1
    /\ o.kind # "shutdown" /\ ~(o.kind = "call" /\ o.step = "answer") => o.calls = 0
    /\ o.kind = "call" => o.attempts = 0
    /\ o.spawns <= 2 * o.attempts + o.tries
                   + (IF o.kind # "shutdown" /\ o.step = "check" THEN 0 ELSE 1)

OpOK(o) ==
    /\ o \in Operation
    /\ o.bridge => o.tool \in Names
    /\ CountsOK(o)
    /\ o.kind \in {"discover", "best_effort"} => o.tools \subseteq Offers[o.server]

RoutesOK ==
    /\ routes \in [Names -> Route]
    /\ listed \in [Servers -> SUBSET Tools]
    /\ \A s \in Servers : listed[s] \subseteq Offers[s]
    /\ RoutesSound

McpInv == ServersOK /\ OpOK(op) /\ GreetedFirst /\ RoutesOK
-----------------------------------------------------------------------------
LEMMA OperationFields ==
    ASSUME NEW o \in Operation
    PROVE  /\ o.kind \in Kinds /\ o.server \in Servers /\ o.tool \in Names \cup {""}
           /\ o.step \in Steps /\ o.tools \in SUBSET Tools /\ o.page \in Nat
           /\ o.attempts \in {0, 1} /\ o.tries \in {0, 1}
           /\ o.spawns \in Nat /\ o.calls \in Nat
BY DEF Operation

LEMMA RestOK == NoOp \in Operation /\ OpOK(NoOp) /\ NoOp.kind \in Resting
<1>1. 1 \in Servers
  BY McpAssumption DEF Servers
<1>2. NoOp \in Operation
  BY <1>1 DEF NoOp, Operation, Kinds, Steps
<1>3. /\ NoOp.kind = "idle" /\ NoOp.bridge = FALSE /\ NoOp.spawns = 0 /\ NoOp.calls = 0
      /\ NoOp.attempts = 0 /\ NoOp.tries = 0
  BY DEF NoOp
<1>4. CountsOK(NoOp)
  BY <1>3 DEF CountsOK
<1>. QED
  BY <1>2, <1>3, <1>4 DEF OpOK, Resting

(* Where an operation goes when it is done with a server: it starts on the *)
(* next one from the beginning, starts its call, rests, or is shut down.   *)
LEMMA OnwardOK ==
    ASSUME OpOK(op), op.kind \notin Resting, NEW index \in [Names -> Route]
    PROVE  OpOK(Onward(index))
           /\ (Onward(index).kind \notin Resting => Onward(index).step = "check")
<1> DEFINE o == Onward(index)
<1>0. op \in Operation /\ op.server \in Servers /\ ServerCount \in Nat
  BY McpAssumption, OperationFields DEF OpOK
<1>2. CASE Discovering /\ op.server < ServerCount
  <2>1. o = [op EXCEPT !.server = op.server + 1, !.step = "check", !.attempts = 0,
                       !.tries = 0, !.tools = {}, !.page = 1, !.spawns = 0]
    BY <1>2 DEF Onward
  <2>2. op.calls = 0
    BY <1>2 DEF OpOK, CountsOK, Discovering
  <2>3. op.server + 1 \in Servers
    BY <1>0, <1>2 DEF Servers
  <2> HIDE DEF o
  <2>4. o \in Operation
    BY <1>0, <2>1, <2>3 DEF Operation, Steps
  <2>5. /\ o.kind = op.kind /\ o.bridge = op.bridge /\ o.tool = op.tool
        /\ o.step = "check" /\ o.calls = op.calls /\ o.attempts = 0 /\ o.tries = 0
        /\ o.spawns = 0 /\ o.tools = {}
    BY <1>0, <2>1 DEF Operation
  <2>6. CountsOK(o) /\ (o.bridge => o.tool \in Names)
    BY <1>2, <2>2, <2>5 DEF OpOK, CountsOK, Discovering
  <2>7. OpOK(o) /\ o.step = "check"
    BY <2>4, <2>5, <2>6 DEF OpOK
  <2>. QED
    BY <2>7 DEF o
<1>3. CASE ~(Discovering /\ op.server < ServerCount) /\ ~op.bridge
  <2>1. o = NoOp
    BY <1>3 DEF Onward
  <2>. QED
    BY <2>1, RestOK
<1>4. ASSUME op.kind \in {"discover", "call", "list", "read", "best_effort"},
             o = [op EXCEPT !.kind = "shutdown"]
      PROVE  OpOK(o) /\ o.kind \in Resting
  <2> HIDE DEF o
  <2>0. o \in Operation
    BY <1>0, <1>4 DEF Operation, Kinds
  <2>1. /\ o.kind = "shutdown" /\ o.bridge = op.bridge /\ o.tool = op.tool
        /\ o.calls = op.calls /\ o.attempts = op.attempts /\ o.tries = op.tries
        /\ o.spawns = op.spawns
    BY <1>0, <1>4 DEF Operation
  <2>2. /\ op.attempts \in {0, 1} /\ op.tries \in {0, 1}
        /\ op.spawns \in Nat /\ op.calls \in Nat
    BY <1>0, OperationFields
  <2>3. CountsOK(o)
    BY <1>4, <2>1, <2>2 DEF CountsOK, OpOK
  <2>4. OpOK(o) /\ o.kind \in Resting
    BY <1>4, <2>0, <2>1, <2>3 DEF OpOK, Resting
  <2>. QED
    BY <2>4 DEF o
<1>5. op.kind \in {"discover", "call", "list", "read", "best_effort"}
  BY <1>0 DEF Operation, Kinds, Resting
<1>6. CASE ~(Discovering /\ op.server < ServerCount) /\ op.bridge /\ op.kind = "discover"
  <2>1. o = StartCall(op, index) /\ index[op.tool] \in Route
    BY <1>6 DEF Onward, OpOK
  <2>2. CASE index[op.tool].server = 0
    BY <1>4, <1>5, <2>1, <2>2 DEF StartCall
  <2>3. CASE index[op.tool].server # 0
    <3>1. o = [op EXCEPT !.kind = "call", !.server = index[op.tool].server, !.step = "check",
                         !.attempts = 0, !.tries = 0, !.spawns = 0]
      BY <2>1, <2>3 DEF StartCall
    <3>2. index[op.tool].server \in Servers
      <4>1. Unrouted.server = 0
        BY DEF Unrouted
      <4>2. index[op.tool] \in [server: Servers, raw: Tools]
        BY <2>1, <2>3, <4>1 DEF Route
      <4>. QED
        BY <4>2
    <3>3. op.calls = 0
      BY <1>6 DEF OpOK, CountsOK
    <3> HIDE DEF o
    <3>4. o \in Operation
      BY <1>0, <3>1, <3>2 DEF Operation, Kinds, Steps
    <3>6. /\ o.kind = "call" /\ o.bridge = op.bridge /\ o.tool = op.tool
          /\ o.step = "check" /\ o.calls = op.calls /\ o.attempts = 0 /\ o.tries = 0
          /\ o.spawns = 0
      BY <1>0, <3>1 DEF Operation
    <3>7. CountsOK(o)
      BY <3>3, <3>6 DEF CountsOK
    <3>5. OpOK(o) /\ o.step = "check"
      BY <3>4, <3>6, <3>7 DEF OpOK
    <3>. QED
      BY <3>5 DEF o
  <2>. QED
    BY <2>2, <2>3
<1>7. CASE ~(Discovering /\ op.server < ServerCount) /\ op.bridge /\ op.kind # "discover"
  BY <1>4, <1>5, <1>7 DEF Onward
<1>. QED
  BY <1>2, <1>3, <1>6, <1>7

-----------------------------------------------------------------------------
(* Replacing the routes of one server keeps the index and the listings in  *)
(* step.  A server that is given up is one that listed nothing.            *)
LEMMA Relisted ==
    ASSUME RoutesOK, NEW s \in Servers, NEW found \in SUBSET Offers[s],
           routes' = RoutesWith(s, found), listed' = [listed EXCEPT ![s] = found]
    PROVE  RoutesOK'
<1>0. /\ found \subseteq Tools
      /\ \A r \in Servers : Offers[r] \subseteq Tools
      /\ \A r \in Servers : \A t \in Tools : Qualified[r][t] \in Names
  BY McpAssumption
<1>1. \A r \in Servers : listed'[r] = IF r = s THEN found ELSE listed[r]
  BY DEF RoutesOK
<1>2. \A n \in Names :
        \/ \E t \in found : Qualified[s][t] = n /\ routes'[n] = [server |-> s, raw |-> t]
        \/ /\ ~\E t \in found : Qualified[s][t] = n
           /\ routes'[n] = IF routes[n].server = s THEN Unrouted ELSE routes[n]
  BY DEF RoutesWith, ClearRoutes
<1>3. routes' \in [Names -> Route]
  <2>1. DOMAIN routes' = Names /\ routes' = [n \in Names |-> routes'[n]]
    BY DEF RoutesWith
  <2>2. ASSUME NEW n \in Names
        PROVE  routes'[n] \in Route
    <3>1. \A t \in found : [server |-> s, raw |-> t] \in [server: Servers, raw: Tools]
      BY <1>0
    <3>2. Unrouted \in Route /\ routes[n] \in Route
      BY DEF RoutesOK, Route
    <3>3. \A t \in found : [server |-> s, raw |-> t] \in Route
      BY <3>1 DEF Route
    <3>4. CASE \E t \in found : Qualified[s][t] = n
      <4>1. PICK t \in found : routes'[n] = [server |-> s, raw |-> t]
        BY <1>2, <3>4
      <4>. QED
        BY <3>3, <4>1
    <3>5. CASE ~\E t \in found : Qualified[s][t] = n
      <4>1. routes'[n] = Unrouted \/ routes'[n] = routes[n]
        BY <1>2, <3>5
      <4>. QED
        BY <3>2, <4>1
    <3>. QED
      BY <3>4, <3>5
  <2>. QED
    BY <2>1, <2>2
<1>4. listed' \in [Servers -> SUBSET Tools] /\ \A r \in Servers : listed'[r] \subseteq Offers[r]
  BY <1>0, <1>1 DEF RoutesOK
<1>5. ASSUME NEW n \in Names, routes'[n] # Unrouted
      PROVE  /\ routes'[n].raw \in listed'[routes'[n].server]
             /\ Qualified[routes'[n].server][routes'[n].raw] = n
  <2>1. CASE \E t \in found : Qualified[s][t] = n /\ routes'[n] = [server |-> s, raw |-> t]
    BY <1>1, <2>1
  <2>2. CASE ~\E t \in found : Qualified[s][t] = n
    <3>1. routes'[n] = routes[n] /\ routes[n].server # s
      BY <1>2, <1>5, <2>2
    <3>2. routes[n] \in [server: Servers, raw: Tools]
      BY <1>5, <3>1 DEF RoutesOK, Route
    <3>3. /\ routes[n].raw \in listed[routes[n].server]
          /\ Qualified[routes[n].server][routes[n].raw] = n
      BY <1>5, <3>1 DEF RoutesOK, RoutesSound
    <3>4. routes[n].server \in Servers
      BY <3>2
    <3>. QED
      BY <1>1, <3>1, <3>3, <3>4
  <2>. QED
    BY <1>2, <2>1, <2>2
<1>6. ASSUME NEW r \in Servers, NEW t \in listed'[r]
      PROVE  \/ routes'[Qualified[r][t]] = [server |-> r, raw |-> t]
             \/ \E q \in Servers : \E u \in Offers[q] :
                   <<q, u>> # <<r, t>> /\ Qualified[q][u] = Qualified[r][t]
  <2>1. t \in Offers[r] /\ Qualified[r][t] \in Names
    BY <1>0, <1>4
  <2>2. CASE \E u \in found : /\ Qualified[s][u] = Qualified[r][t]
                              /\ routes'[Qualified[r][t]] = [server |-> s, raw |-> u]
    BY <2>2
  <2>3. CASE ~\E u \in found : Qualified[s][u] = Qualified[r][t]
    <3>1. r # s /\ t \in listed[r]
      BY <1>1, <2>3
    <3>2. CASE routes[Qualified[r][t]] = [server |-> r, raw |-> t]
      <4>1. routes[Qualified[r][t]].server = r
        BY <3>2
      <4>2. routes'[Qualified[r][t]] = routes[Qualified[r][t]]
        BY <1>2, <2>1, <2>3, <3>1, <4>1
      <4>. QED
        BY <3>2, <4>2
    <3>3. \/ routes[Qualified[r][t]] = [server |-> r, raw |-> t]
          \/ \E q \in Servers : \E u \in Offers[q] :
                <<q, u>> # <<r, t>> /\ Qualified[q][u] = Qualified[r][t]
      BY <3>1 DEF RoutesOK, RoutesSound
    <3>. QED
      BY <3>2, <3>3
  <2>. QED
    BY <1>2, <2>1, <2>2, <2>3
<1>7. RoutesSound'
  BY <1>5, <1>6 DEF RoutesSound
<1>. QED
  BY <1>3, <1>4, <1>7 DEF RoutesOK

LEMMA Cleared == \A s \in Servers : ClearRoutes(s) = RoutesWith(s, {})
BY DEF ClearRoutes, RoutesWith

(* A process that may still owe an answer is not kept.                     *)
LEMMA OutcomeOK ==
    ASSUME ServersOK, NEW s \in Servers, NEW e \in Failures \cup {"rpc", "missing"},
           AfterOutcome(s, e)
    PROVE  ServersOK'
<1>0. NoProcess \in ServerState /\ NoProcess.unread = 0 /\ ~NoProcess.initialized
  BY DEF NoProcess, ServerState
<1>1. CASE ShouldReset(e)
  <2>1. server' = [server EXCEPT ![s] = NoProcess]
    BY <1>1 DEF AfterOutcome
  <2>. QED
    BY <1>0, <2>1 DEF ServersOK
<1>2. CASE ~ShouldReset(e)
  <2>1. Left(e) = 0
    BY <1>2 DEF ShouldReset, Failures, Left
  <2>2. server' = [server EXCEPT ![s] = [server[s] EXCEPT !.unread = 0]]
    BY <1>2, <2>1 DEF AfterOutcome
  <2>3. server[s] \in ServerState /\ server[s].unread = 0
    BY DEF ServersOK
  <2>4. [server[s] EXCEPT !.unread = 0] = server[s]
    BY <2>3 DEF ServerState
  <2>. QED
    BY <2>2, <2>4 DEF ServersOK
<1>. QED
  BY <1>1, <1>2

(* Every way to fail leaves a sound operation that starts afresh or rests. *)
LEMMA GiveUpOK ==
    ASSUME OpOK(op), RoutesOK, op.kind \notin Resting, GiveUp
    PROVE  OpOK(op)' /\ (op'.kind \notin Resting => op'.step = "check") /\ RoutesOK'
<1>1. RoutesOK'
  <2>1. CASE op.kind = "best_effort"
    <3>1. op.server \in Servers /\ {} \in SUBSET Offers[op.server]
      BY OperationFields DEF OpOK
    <3>2. routes' = RoutesWith(op.server, {}) /\ listed' = [listed EXCEPT ![op.server] = {}]
      BY <2>1, <3>1, Cleared DEF GiveUp
    <3>. QED
      BY <3>1, <3>2, Relisted
  <2>2. CASE op.kind # "best_effort"
    BY <2>2 DEF GiveUp, RoutesOK, RoutesSound
  <2>. QED
    BY <2>1, <2>2
<1>2. OpOK(op') /\ (op'.kind \notin Resting => op'.step = "check")
  <2>1. routes \in [Names -> Route]
    BY DEF RoutesOK
  <2>2. op' = NoOp \/ op' = Onward(routes)
    BY DEF GiveUp
  <2>. QED
    BY <2>1, <2>2, OnwardOK, RestOK
<1>. QED
  BY <1>1, <1>2

LEMMA ErrorOK ==
    ASSUME OpOK(op), RoutesOK, op.kind \notin Resting, NEW e, Error(e)
    PROVE  OpOK(op)' /\ (op'.kind \notin Resting => op'.step = "check") /\ RoutesOK'
<1>1. CASE ~Retries(e)
  BY <1>1, GiveUpOK DEF Error
<1>2. CASE Retries(e)
  <2>1. /\ op' = [op EXCEPT !.attempts = 1, !.tries = 0, !.step = "check",
                            !.tools = {}, !.page = 1]
        /\ routes' = routes /\ listed' = listed
    BY <1>2 DEF Error
  <2>2. op.kind # "call" /\ op.attempts = 0 /\ op.kind # "shutdown"
    BY <1>2 DEF Retries, Resting
  <2>3. op \in Operation
    BY DEF OpOK
  <2>4. op' \in Operation
    BY <2>1, <2>3 DEF Operation, Steps
  <2>5. /\ op'.kind = op.kind /\ op'.bridge = op.bridge /\ op'.tool = op.tool
        /\ op'.step = "check" /\ op'.attempts = 1 /\ op'.tries = 0 /\ op'.tools = {}
        /\ op'.spawns = op.spawns /\ op'.calls = op.calls
    BY <2>1, <2>3 DEF Operation
  <2>6. op.tries \in {0, 1} /\ op.spawns \in Nat
    BY <2>3, OperationFields
  <2>7. CountsOK(op')
    BY <2>2, <2>5, <2>6 DEF OpOK, CountsOK
  <2>8. OpOK(op')
    BY <2>4, <2>5, <2>7 DEF OpOK
  <2>. QED
    BY <2>1, <2>5, <2>8 DEF RoutesOK, RoutesSound
<1>. QED
  BY <1>1, <1>2
-----------------------------------------------------------------------------
LEMMA McpInitOK == McpInit => McpInv
<1> SUFFICES ASSUME McpInit PROVE McpInv
  OBVIOUS
<1>1. ServersOK
  <2>1. NoProcess \in ServerState /\ NoProcess.unread = 0 /\ ~NoProcess.initialized
    BY DEF NoProcess, ServerState
  <2>. QED
    BY <2>1 DEF McpInit, ServersOK
<1>2. OpOK(op) /\ GreetedFirst
  BY RestOK DEF McpInit, GreetedFirst, Resting, NoOp
<1>3. RoutesOK
  BY DEF McpInit, RoutesOK, RoutesSound, Route
<1>. QED
  BY <1>1, <1>2, <1>3 DEF McpInv

(* A new operation starts at the first server of its listing, or at the    *)
(* server it names.                                                        *)
LEMMA BeginOK ==
    ASSUME McpInv, NEW o, Begin(o), o \in Operation, o.step = "check",
           o.calls = 0, o.spawns = 0, o.attempts = 0, o.tries = 0, o.tools = {},
           o.bridge => o.tool \in Names
    PROVE  McpInv'
<1>1. OpOK(o)
  BY DEF OpOK, CountsOK
<1>2. OpOK(op)' /\ GreetedFirst'
  BY <1>1 DEF Begin, GreetedFirst
<1>3. ServersOK' /\ RoutesOK'
  BY DEF McpInv, Begin, ServersOK, RoutesOK, RoutesSound
<1>. QED
  BY <1>2, <1>3 DEF McpInv

LEMMA StartOK == McpInv /\ Start => McpInv'
<1> SUFFICES ASSUME McpInv, Start PROVE McpInv'
  OBVIOUS
<1>0. /\ NoOp \in Operation /\ NoOp.step = "check" /\ NoOp.calls = 0 /\ NoOp.spawns = 0
      /\ NoOp.attempts = 0 /\ NoOp.tries = 0 /\ NoOp.tools = {} /\ NoOp.bridge = FALSE
  BY RestOK DEF NoOp
<1>1. ASSUME NEW k \in Kinds, Begin([NoOp EXCEPT !.kind = k])
      PROVE  McpInv'
  <2> DEFINE o == [NoOp EXCEPT !.kind = k]
  <2>1. o \in Operation
    BY <1>0 DEF Operation
  <2>2. /\ o.step = "check" /\ o.calls = 0 /\ o.spawns = 0
        /\ o.attempts = 0 /\ o.tries = 0 /\ o.tools = {} /\ o.bridge = FALSE
    BY <1>0 DEF Operation
  <2>. QED
    BY <1>1, <2>1, <2>2, BeginOK
<1>2. ASSUME NEW k \in Kinds, NEW s \in Servers,
             Begin([NoOp EXCEPT !.kind = k, !.server = s])
      PROVE  McpInv'
  <2> DEFINE o == [NoOp EXCEPT !.kind = k, !.server = s]
  <2>1. o \in Operation
    BY <1>0 DEF Operation
  <2>2. /\ o.step = "check" /\ o.calls = 0 /\ o.spawns = 0
        /\ o.attempts = 0 /\ o.tries = 0 /\ o.tools = {} /\ o.bridge = FALSE
    BY <1>0 DEF Operation
  <2>. QED
    BY <1>2, <2>1, <2>2, BeginOK
<1>3. CASE Discover \/ DiscoverBestEffort \/ BeginShutdown
  BY <1>1, <1>3 DEF Discover, DiscoverBestEffort, BeginShutdown, Kinds
<1>4. ASSUME NEW n \in Names, CallTool(n)
      PROVE  McpInv'
  <2>1. routes[n] \in Route /\ routes[n].server # 0
    BY <1>4 DEF McpInv, RoutesOK, CallTool
  <2>2. Unrouted.server = 0
    BY DEF Unrouted
  <2>3. routes[n] \in [server: Servers, raw: Tools]
    BY <2>1, <2>2 DEF Route
  <2>4. routes[n].server \in Servers
    BY <2>3
  <2>. QED
    BY <1>2, <1>4, <2>4 DEF CallTool, Kinds
<1>5. ASSUME NEW n \in Names, BridgeCall(n)
      PROVE  McpInv'
  <2> DEFINE o == [NoOp EXCEPT !.kind = "discover", !.bridge = TRUE, !.tool = n]
  <2>1. o \in Operation
    BY <1>0 DEF Operation, Kinds
  <2>2. /\ o.step = "check" /\ o.calls = 0 /\ o.spawns = 0
        /\ o.attempts = 0 /\ o.tries = 0 /\ o.tools = {} /\ o.tool = n
    BY <1>0 DEF Operation
  <2>. QED
    BY <1>5, <2>1, <2>2, BeginOK DEF BridgeCall
<1>6. ASSUME NEW s \in Servers, ListResources(s) \/ ReadResource(s)
      PROVE  McpInv'
  BY <1>2, <1>6 DEF ListResources, ReadResource, Kinds
<1>. QED
  BY <1>3, <1>4, <1>5, <1>6 DEF Start
(* Within an operation: what each step does to the process in hand.        *)
LEMMA StepOK == McpInv /\ Step => McpInv'
<1> SUFFICES ASSUME McpInv, Step PROVE McpInv'
  OBVIOUS
<1>0. /\ ServersOK /\ OpOK(op) /\ GreetedFirst /\ RoutesOK
      /\ op \in Operation /\ op.server \in Servers /\ CountsOK(op)
  BY OperationFields DEF McpInv, OpOK
<1>1. /\ op.attempts \in {0, 1} /\ op.tries \in {0, 1} /\ op.spawns \in Nat
      /\ op.calls \in Nat /\ op.page \in Nat /\ op.kind \in Kinds /\ op.step \in Steps
  BY <1>0, OperationFields
<1>2. ASSUME RoutesOK', ServersOK', OpOK(op)',
             op'.kind \notin Resting => op'.step = "check"
      PROVE  McpInv'
  BY <1>2 DEF McpInv, GreetedFirst, Resting
<1>3. ASSUME UNCHANGED <<routes, listed>>
      PROVE  RoutesOK'
  BY <1>0, <1>3 DEF RoutesOK, RoutesSound
<1>4. ASSUME NEW step, Running(step)
      PROVE  op.kind \notin Resting /\ op.kind # "shutdown" /\ op.step = step
  BY <1>4 DEF Running, Resting
<1>5. CASE EnsureReady
  <2>0. op.kind \notin Resting /\ op.kind # "shutdown" /\ op.step = "check"
    BY <1>4, <1>5 DEF EnsureReady
  <2>1. ASSUME server' = [server EXCEPT ![op.server] = Fresh],
               op' = [op EXCEPT !.step = "initialize", !.spawns = Counted(op.spawns)],
               UNCHANGED <<routes, listed>>
        PROVE  McpInv'
    <3>1. Fresh \in ServerState /\ Fresh.unread = 0 /\ Fresh.initialized = FALSE
      BY DEF Fresh, NoProcess, ServerState
    <3>2. ServersOK'
      BY <1>0, <2>1, <3>1 DEF ServersOK
    <3>3. Counted(op.spawns) \in Nat /\ Counted(op.spawns) <= op.spawns + 1
      BY <1>1 DEF Counted
    <3>4. op' \in Operation
      BY <1>0, <2>1, <3>3 DEF Operation, Steps
    <3>5. /\ op'.kind = op.kind /\ op'.bridge = op.bridge /\ op'.tool = op.tool
          /\ op'.step = "initialize" /\ op'.attempts = op.attempts /\ op'.tries = op.tries
          /\ op'.spawns = Counted(op.spawns) /\ op'.calls = op.calls
          /\ op'.tools = op.tools /\ op'.server = op.server
      BY <1>0, <2>1 DEF Operation
    <3>6. CountsOK(op')
      BY <1>0, <1>1, <2>0, <3>3, <3>5 DEF CountsOK
    <3>7. OpOK(op)'
      BY <1>0, <3>4, <3>5, <3>6 DEF OpOK
    <3>8. GreetedFirst'
      BY <3>5 DEF GreetedFirst
    <3>. QED
      BY <1>3, <2>1, <3>2, <3>7, <3>8 DEF McpInv
  <2>2. ASSUME AfterOutcome(op.server, "missing"), GiveUp
        PROVE  McpInv'
    BY <1>0, <1>2, <2>0, <2>2, OutcomeOK, GiveUpOK
  <2>3. ASSUME op' = [op EXCEPT !.step = IF server[op.server].initialized
                                         THEN "request" ELSE "initialize"],
               UNCHANGED <<server, routes, listed>>
        PROVE  McpInv'
    <3> DEFINE next == IF server[op.server].initialized THEN "request" ELSE "initialize"
    <3>1. next \in Steps /\ next # "check" /\ next # "answer"
      BY DEF Steps
    <3>2. next = "request" => server[op.server].greeted
      BY <1>0 DEF ServersOK
    <3>3. op' = [op EXCEPT !.step = next]
      BY <2>3
    <3> HIDE DEF next
    <3>4. op' \in Operation
      BY <1>0, <3>1, <3>3 DEF Operation
    <3>5. /\ op'.kind = op.kind /\ op'.bridge = op.bridge /\ op'.tool = op.tool
          /\ op'.step = next /\ op'.attempts = op.attempts /\ op'.tries = op.tries
          /\ op'.spawns = op.spawns /\ op'.calls = op.calls
          /\ op'.tools = op.tools /\ op'.server = op.server
      BY <1>0, <3>3 DEF Operation
    <3>6. CountsOK(op')
      BY <1>0, <1>1, <2>0, <3>1, <3>5 DEF CountsOK
    <3>7. OpOK(op)'
      BY <1>0, <3>4, <3>5, <3>6 DEF OpOK
    <3>8. GreetedFirst' /\ ServersOK'
      BY <1>0, <2>3, <3>1, <3>2, <3>5 DEF GreetedFirst, ServersOK
    <3>. QED
      BY <1>3, <2>3, <3>7, <3>8 DEF McpInv
  <2>. QED
    BY <1>5, <2>1, <2>2, <2>3 DEF EnsureReady
<1>6. CASE InitializeAnswered
  <2>0. op.kind \notin Resting /\ op.kind # "shutdown" /\ op.step = "initialize"
    BY <1>4, <1>6 DEF InitializeAnswered
  <2>1. /\ op' = [op EXCEPT !.step = "request"] /\ UNCHANGED <<routes, listed>>
        /\ server' = [server EXCEPT ![op.server] =
                        [server[op.server] EXCEPT !.initialized = TRUE, !.greeted = TRUE]]
    BY <1>0, <1>6 DEF InitializeAnswered, ServersOK
  <2> DEFINE fresh == [server[op.server] EXCEPT !.initialized = TRUE, !.greeted = TRUE]
  <2>2. server[op.server] \in ServerState /\ server[op.server].unread = 0
    BY <1>0 DEF ServersOK
  <2>3. fresh \in ServerState /\ fresh.unread = 0 /\ fresh.greeted
    BY <2>2 DEF ServerState
  <2>4. server' = [server EXCEPT ![op.server] = fresh]
    BY <2>1
  <2> HIDE DEF fresh
  <2>5. ServersOK' /\ server'[op.server].greeted
    BY <1>0, <2>3, <2>4 DEF ServersOK
  <2>6. op' \in Operation
    BY <1>0, <2>1 DEF Operation, Steps
  <2>7. /\ op'.kind = op.kind /\ op'.bridge = op.bridge /\ op'.tool = op.tool
        /\ op'.step = "request" /\ op'.attempts = op.attempts /\ op'.tries = op.tries
        /\ op'.spawns = op.spawns /\ op'.calls = op.calls
        /\ op'.tools = op.tools /\ op'.server = op.server
    BY <1>0, <2>1 DEF Operation
  <2>8. CountsOK(op')
    BY <1>0, <1>1, <2>0, <2>7 DEF CountsOK
  <2>9. OpOK(op)' /\ GreetedFirst'
    BY <1>0, <2>5, <2>6, <2>7, <2>8 DEF OpOK, GreetedFirst
  <2>. QED
    BY <1>3, <2>1, <2>5, <2>9 DEF McpInv
<1>7. ASSUME NEW e \in Failures \cup {"rpc", "missing"}, InitializeFails(e)
      PROVE  McpInv'
  <2>0. op.kind \notin Resting /\ op.kind # "shutdown" /\ op.step = "initialize"
    BY <1>4, <1>7 DEF InitializeFails
  <2>1. ServersOK'
    BY <1>0, <1>7, OutcomeOK DEF InitializeFails
  <2>2. CASE Error(e)
    BY <1>0, <1>2, <2>0, <2>1, <2>2, ErrorOK
  <2>3. CASE /\ op.tries = 0 /\ op' = [op EXCEPT !.tries = 1, !.step = "check"]
             /\ UNCHANGED <<routes, listed>>
    <3>1. op' \in Operation
      BY <1>0, <2>3 DEF Operation, Steps
    <3>2. /\ op'.kind = op.kind /\ op'.bridge = op.bridge /\ op'.tool = op.tool
          /\ op'.step = "check" /\ op'.attempts = op.attempts /\ op'.tries = 1
          /\ op'.spawns = op.spawns /\ op'.calls = op.calls
          /\ op'.tools = op.tools /\ op'.server = op.server
      BY <1>0, <2>3 DEF Operation
    <3>3. CountsOK(op')
      BY <1>0, <1>1, <2>0, <2>3, <3>2 DEF CountsOK
    <3>4. OpOK(op)'
      BY <1>0, <3>1, <3>2, <3>3 DEF OpOK
    <3>. QED
      BY <1>2, <1>3, <2>1, <2>3, <3>2, <3>4
  <2>. QED
    BY <1>7, <2>2, <2>3 DEF InitializeFails
<1>8. CASE Request
  <2>0. op.kind \notin Resting /\ op.kind # "shutdown" /\ op.step = "request"
    BY <1>4, <1>8 DEF Request
  <2> DEFINE calls == op.calls + IF op.kind = "call" THEN 1 ELSE 0
  <2>1. op' = [op EXCEPT !.step = "answer", !.calls = calls] /\ UNCHANGED <<server, routes, listed>>
    BY <1>8 DEF Request
  <2>2. op.calls = 0 /\ calls \in Nat /\ calls <= 1 /\ (op.kind # "call" => calls = 0)
    BY <1>0, <1>1, <2>0 DEF CountsOK
  <2> HIDE DEF calls
  <2>3. op' \in Operation
    BY <1>0, <2>1, <2>2 DEF Operation, Steps
  <2>4. /\ op'.kind = op.kind /\ op'.bridge = op.bridge /\ op'.tool = op.tool
        /\ op'.step = "answer" /\ op'.attempts = op.attempts /\ op'.tries = op.tries
        /\ op'.spawns = op.spawns /\ op'.calls = calls
        /\ op'.tools = op.tools /\ op'.server = op.server
    BY <1>0, <2>1 DEF Operation
  <2>5. CountsOK(op')
    BY <1>0, <1>1, <2>0, <2>2, <2>4 DEF CountsOK
  <2>6. OpOK(op)' /\ GreetedFirst' /\ ServersOK'
    BY <1>0, <2>0, <2>1, <2>3, <2>4, <2>5 DEF OpOK, GreetedFirst, Resting, ServersOK
  <2>. QED
    BY <1>3, <2>1, <2>6 DEF McpInv
<1>9. ASSUME NEW tools \in SUBSET Tools, NEW more \in BOOLEAN, PageAnswered(tools, more)
      PROVE  McpInv'
  <2>0. op.kind \notin Resting /\ op.kind # "shutdown" /\ op.step = "answer"
    BY <1>4, <1>9 DEF PageAnswered
  <2> DEFINE found == op.tools \cup tools
  <2>1. found \in SUBSET Tools /\ (Discovering => found \subseteq Offers[op.server])
    BY <1>0, <1>9, OperationFields DEF PageAnswered, Discovering, OpOK
  <2>2. ServersOK'
    BY <1>0, <1>9 DEF PageAnswered, ServersOK
  <2>3. CASE more
    <3>1. /\ op' = [op EXCEPT !.step = "request", !.page = op.page + 1, !.tools = found]
          /\ UNCHANGED <<server, routes, listed>> /\ op.kind # "call"
      BY <1>9, <2>3 DEF PageAnswered
    <3> DEFINE next == op.page + 1
    <3> HIDE DEF found
    <3>0. next \in Nat /\ op' = [op EXCEPT !.step = "request", !.page = next, !.tools = found]
      BY <1>1, <3>1
    <3> HIDE DEF next
    <3>2. op' \in Operation
      BY <1>0, <2>1, <3>0 DEF Operation, Steps
    <3>3. /\ op'.kind = op.kind /\ op'.bridge = op.bridge /\ op'.tool = op.tool
          /\ op'.step = "request" /\ op'.attempts = op.attempts /\ op'.tries = op.tries
          /\ op'.spawns = op.spawns /\ op'.calls = op.calls
          /\ op'.tools = found /\ op'.server = op.server
      BY <1>0, <3>1 DEF Operation
    <3>4. CountsOK(op')
      BY <1>0, <1>1, <2>0, <3>1, <3>3 DEF CountsOK
    <3>5. OpOK(op)'
      BY <1>0, <2>1, <3>2, <3>3, <3>4 DEF OpOK, Discovering
    <3>6. GreetedFirst'
      BY <1>0, <2>0, <3>1, <3>3 DEF GreetedFirst, Resting
    <3>. QED
      BY <1>3, <2>2, <3>1, <3>5, <3>6 DEF McpInv
  <2>4. CASE ~more /\ Discovering
    <3>1. /\ routes' = RoutesWith(op.server, found) /\ listed' = [listed EXCEPT ![op.server] = found]
          /\ op' = Onward(routes')
      BY <1>9, <2>4 DEF PageAnswered
    <3> HIDE DEF found
    <3>2. RoutesOK'
      BY <1>0, <2>1, <2>4, <3>1, Relisted
    <3>3. routes' \in [Names -> Route]
      BY <3>2 DEF RoutesOK
    <3>4. OpOK(op)' /\ (op'.kind \notin Resting => op'.step = "check")
      BY <1>0, <2>0, <3>1, <3>3, OnwardOK
    <3>. QED
      BY <1>2, <2>2, <3>2, <3>4
  <2>5. CASE ~more /\ ~Discovering
    <3>1. op' = Onward(routes) /\ UNCHANGED <<routes, listed>>
      BY <1>9, <2>5 DEF PageAnswered
    <3>2. routes \in [Names -> Route]
      BY <1>0 DEF RoutesOK
    <3>3. OpOK(op)' /\ (op'.kind \notin Resting => op'.step = "check")
      BY <1>0, <2>0, <3>1, <3>2, OnwardOK
    <3>. QED
      BY <1>2, <1>3, <2>2, <3>1, <3>3
  <2>. QED
    BY <2>3, <2>4, <2>5
<1>10. ASSUME NEW e \in {"rpc", "missing"}, RequestRefused(e)
       PROVE  McpInv'
  <2>0. op.kind \notin Resting
    BY <1>4, <1>10 DEF RequestRefused
  <2>1. CASE op.kind = "call"
    <3>1. op' = Onward(routes) /\ UNCHANGED <<server, routes, listed>>
      BY <1>10, <2>1 DEF RequestRefused
    <3>2. routes \in [Names -> Route] /\ ServersOK'
      BY <1>0, <3>1 DEF RoutesOK, ServersOK
    <3>3. OpOK(op)' /\ (op'.kind \notin Resting => op'.step = "check")
      BY <1>0, <2>0, <3>1, <3>2, OnwardOK
    <3>. QED
      BY <1>2, <1>3, <3>1, <3>2, <3>3
  <2>2. CASE op.kind # "call"
    <3>1. ServersOK' /\ Error(e)
      BY <1>0, <1>10, <2>2, OutcomeOK DEF RequestRefused
    <3>. QED
      BY <1>0, <1>2, <2>0, <3>1, ErrorOK
  <2>. QED
    BY <2>1, <2>2
<1>11. ASSUME NEW e \in Failures, RequestFails(e)
       PROVE  McpInv'
  <2>1. op.kind \notin Resting /\ ServersOK' /\ Error(e)
    BY <1>0, <1>4, <1>11, OutcomeOK DEF RequestFails
  <2>. QED
    BY <1>0, <1>2, <2>1, ErrorOK
<1>12. ASSUME NEW k \in 0 .. ServerCount, Shutdown(k)
       PROVE  McpInv'
  <2>1. NoProcess \in ServerState /\ NoProcess.unread = 0 /\ ~NoProcess.initialized
    BY DEF NoProcess, ServerState
  <2>2. ServersOK'
    BY <1>0, <1>12, <2>1 DEF Shutdown, ServersOK
  <2>3. op' = NoOp /\ UNCHANGED <<routes, listed>>
    BY <1>12 DEF Shutdown
  <2>. QED
    BY <1>2, <1>3, <2>2, <2>3, RestOK
<1>. QED
  BY <1>5, <1>6, <1>7, <1>8, <1>9, <1>10, <1>11, <1>12 DEF Step

LEMMA McpStepOK == McpInv /\ [McpNext]_mcpVars => McpInv'
<1> SUFFICES ASSUME McpInv, [McpNext]_mcpVars PROVE McpInv'
  OBVIOUS
<1>1. ASSUME NEW s \in Servers, ProcessExits(s)
      PROVE  McpInv'
  <2>1. server[s] \in ServerState /\ server' = [server EXCEPT ![s] = [server[s] EXCEPT !.process = "exited"]]
    BY <1>1 DEF ProcessExits, McpInv, ServersOK
  <2> DEFINE dead == [server[s] EXCEPT !.process = "exited"]
  <2>2. /\ dead \in ServerState /\ dead.unread = server[s].unread
        /\ dead.initialized = server[s].initialized /\ dead.greeted = server[s].greeted
    BY <2>1 DEF ServerState
  <2>3. server' = [server EXCEPT ![s] = dead]
    BY <2>1
  <2> HIDE DEF dead
  <2>4. \A r \in Servers : /\ server'[r].unread = server[r].unread
                           /\ server'[r].initialized = server[r].initialized
                           /\ server'[r].greeted = server[r].greeted
    BY <2>2, <2>3 DEF McpInv, ServersOK
  <2>5. ServersOK'
    BY <2>2, <2>3, <2>4 DEF McpInv, ServersOK
  <2>6. op.server \in Servers
    BY OperationFields DEF McpInv, OpOK
  <2>7. GreetedFirst' /\ RoutesOK' /\ OpOK(op)'
    BY <1>1, <2>4, <2>6 DEF McpInv, GreetedFirst, RoutesOK, RoutesSound, ProcessExits
  <2>. QED
    BY <2>5, <2>7 DEF McpInv
<1>2. CASE UNCHANGED mcpVars
  BY <1>2 DEF mcpVars, McpInv, ServersOK, GreetedFirst, RoutesOK, RoutesSound
<1>. QED
  BY <1>1, <1>2, StartOK, StepOK DEF McpNext
-----------------------------------------------------------------------------
THEOREM ManagerInvariant == McpSpec => []McpInv
BY McpInitOK, McpStepOK, PTL DEF McpSpec

(* Whenever the manager writes to a process, no answer to an earlier       *)
(* request is left in its pipe (mcp_stdio.rs: reset_server).               *)
THEOREM PipesAreClean == McpSpec => []CleanPipe
<1>1. McpInv => CleanPipe
  BY DEF McpInv, ServersOK, CleanPipe
<1>. QED
  BY <1>1, ManagerInvariant, PTL

(* No request but initialize goes to a process before it has accepted the  *)
(* handshake itself, whichever one died before (ensure_server_ready).      *)
THEOREM GreetsFirst == McpSpec => []GreetedFirst
<1>1. McpInv => GreetedFirst
  BY DEF McpInv
<1>. QED
  BY <1>1, ManagerInvariant, PTL

(* A tool call is written once, and the restarts of an operation are few,  *)
(* whatever the server does (discover_tools_for_server, call_tool).        *)
THEOREM RetriesAreBounded == McpSpec => []RetriesBounded
<1>1. McpInv => RetriesBounded
  <2> SUFFICES ASSUME McpInv PROVE RetriesBounded
    OBVIOUS
  <2>1. CountsOK(op) /\ op.attempts \in {0, 1} /\ op.tries \in {0, 1} /\ op.spawns \in Nat
    BY OperationFields DEF McpInv, OpOK
  <2>. QED
    BY <2>1 DEF RetriesBounded, CountsOK
<1>. QED
  BY <1>1, ManagerInvariant, PTL

(* Routes name tools that their server has listed and no listed tool is    *)
(* without a route but for a shared name (replace_tool_routes).            *)
THEOREM RoutesAreSound == McpSpec => []RoutesSound
<1>1. McpInv => RoutesSound
  BY DEF McpInv, RoutesOK
<1>. QED
  BY <1>1, ManagerInvariant, PTL
=============================================================================
