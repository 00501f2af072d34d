--------------------------- MODULE McpSessionProofs ---------------------------
(***************************************************************************)
(* What holds of an MCP session for any number of calls, pages and         *)
(* requests, with or without the timer.                                    *)
(***************************************************************************)
EXTENDS McpSession, TLAPS

(* An answer can only reach the call that asked for it because no id is    *)
(* handed out twice: a request the server still holds is of an earlier id, *)
(* and when a call waits for that id it is that call's own request.        *)
Traceable ==
    /\ \A m \in wire : m.id < nextId
    /\ \A m \in wire : \A c \in Calls :
          Waiting(c) /\ call[c].id = m.id => m = Outgoing(c)

(* What a call knows of the handshake is true of the server: the session's *)
(* flag, an answer that promises it, and every request made past it.       *)
Agreement ==
    /\ initialized => agreed
    /\ \A c \in Calls : /\ call[c].step \in {"waiting", "answered"}
                        /\ call[c].method # "initialize"
                        => agreed
    /\ \A c \in Calls : /\ call[c].step = "answered"
                        /\ call[c].method = "initialize" /\ call[c].ok
                        => agreed

Inv == TypeOK /\ NothingLeaks /\ AnswersMatch /\ Traceable /\ Agreement

LEMMA IdleFacts ==
    /\ Idle \in CallState /\ Idle.step = "idle"
    /\ \A step \in Steps : Ended(step) \in CallState /\ Ended(step).step = step
BY DEF Idle, Ended, CallState, Steps, Methods, Operations

LEMMA Initially == Init => Inv
<1> SUFFICES ASSUME Init PROVE Inv
    OBVIOUS
<1>1. /\ DOMAIN pending = {} /\ wire = {} /\ nextId = 1
      /\ initialized = FALSE /\ agreed = FALSE /\ closed = FALSE
  BY DEF Init
<1>2. call \in [Calls -> CallState] /\ \A c \in Calls : call[c].step = "idle"
  BY IdleFacts DEF Init
<1>3. TypeOK
  <2>1. [i \in {} |-> 0] \in [{} -> Calls]
    OBVIOUS
  <2>2. pending \in [DOMAIN pending -> Calls]
    BY <2>1, <1>1 DEF Init
  <2>3. \A i \in DOMAIN pending : i \in 1 .. nextId - 1
    BY <1>1
  <2>4. nextId \in Nat \ {0} /\ wire \subseteq Message
    BY <1>1
  <2>5. {initialized, agreed, closed} \subseteq BOOLEAN
    BY <1>1
  <2>6. DOMAIN pending \subseteq 1 .. nextId - 1
    BY <2>3
  <2>7. timerOn \in BOOLEAN
    BY DEF Init
  <2> QED BY <1>2, <2>2, <2>4, <2>5, <2>6, <2>7 DEF TypeOK
<1>4. NothingLeaks /\ AnswersMatch /\ Traceable /\ Agreement
  BY <1>1, <1>2 DEF NothingLeaks, AnswersMatch, Traceable, Agreement, Waiting
<1> QED BY <1>3, <1>4 DEF Inv

-----------------------------------------------------------------------------
(* A new request, of a call that waits for none, keeps the invariant.      *)
LEMMA RequestStep ==
    ASSUME Inv, NEW c \in Calls, NEW state \in CallState, NEW method \in Methods,
           ~Waiting(c), Request(c, state, method),
           timerOn' = timerOn, closed' = closed, agreed' = agreed,
           initialized' \in BOOLEAN, initialized' => agreed,
           method # "initialize" => agreed
    PROVE  Inv'
<1> DEFINE new == [Idle EXCEPT !.op = state.op, !.page = state.page,
                               !.step = "waiting", !.method = method,
                               !.id = TakeId, !.sent = ~closed]
           msg == [id |-> TakeId, from |-> c, method |-> method]
<1>1. nextId \in Nat \ {0} /\ closed \in BOOLEAN /\ TakeId = nextId
  BY DEF Inv, TypeOK, TakeId
<1>2. /\ new \in CallState /\ new.step = "waiting" /\ new.id = nextId
      /\ new.method = method
  <2>1. TakeId \in Nat /\ (~closed) \in BOOLEAN /\ "waiting" \in Steps
    BY <1>1 DEF Steps
  <2>2. state.op \in Operations /\ state.page \in Nat
    BY DEF CallState
  <2>3. Idle \in CallState
    BY IdleFacts
  <2>4. new \in CallState
    BY <2>1, <2>2, <2>3 DEF CallState
  <2>5. new.step = "waiting" /\ new.id = TakeId /\ new.method = method
    BY DEF Idle
  <2>. QED
    BY <1>1, <2>4, <2>5
<1>3. msg \in Message /\ msg.id = nextId /\ msg.from = c /\ msg.method = method
  BY <1>1 DEF Message
<1>4. /\ nextId' = nextId + 1
      /\ call' = [call EXCEPT ![c] = new]
      /\ pending' = [i \in DOMAIN pending \cup {nextId} |->
                        IF i = nextId THEN c ELSE pending[i]]
      /\ wire' \in SUBSET (wire \cup {msg})
  BY <1>1 DEF Request
<1>5. msg = [id |-> new.id, from |-> c, method |-> new.method]
  BY <1>1, <1>2
<1> HIDE DEF new, msg
<1>6. /\ call' \in [Calls -> CallState] /\ call'[c] = new
      /\ \A d \in Calls \ {c} : call'[d] = call[d]
  BY <1>2, <1>4 DEF Inv, TypeOK
<1>7. TypeOK'
  BY <1>1, <1>3, <1>4, <1>6 DEF Inv, TypeOK
<1>8. \A i \in DOMAIN pending :
         /\ i < nextId /\ pending[i] \in Calls \ {c} /\ pending'[i] = pending[i]
  BY <1>1, <1>4 DEF Inv, TypeOK, NothingLeaks
<1>9. NothingLeaks'
  <2>1. pending'[nextId] = c /\ DOMAIN pending' = DOMAIN pending \cup {nextId}
    BY <1>4
  <2>2. ASSUME NEW i \in DOMAIN pending'
        PROVE  /\ call'[pending'[i]].step = "waiting"
               /\ call'[pending'[i]].id = i
    <3>1. CASE i = nextId
      BY <3>1, <2>1, <1>2, <1>6
    <3>2. CASE i # nextId
      BY <3>2, <2>1, <1>6, <1>8 DEF Inv, NothingLeaks, Waiting
    <3> QED BY <3>1, <3>2
  <2>3. ASSUME NEW d \in Calls, call'[d].step = "waiting"
        PROVE  call'[d].id \in DOMAIN pending' /\ pending'[call'[d].id] = d
    <3>1. CASE d = c
      BY <3>1, <2>1, <1>2, <1>6
    <3>2. CASE d # c
      BY <3>2, <2>1, <2>3, <1>6, <1>8 DEF Inv, NothingLeaks, Waiting
    <3> QED BY <3>1, <3>2
  <2> QED BY <2>2, <2>3 DEF NothingLeaks, Waiting
<1>10. AnswersMatch'
  BY <1>2, <1>6 DEF Inv, AnswersMatch, Outgoing
<1>11. Traceable'
  <2>1. \A m \in wire : m.id < nextId /\ m.id \in Nat
    BY DEF Inv, Traceable, TypeOK, Message
  <2>2. \A m \in wire' : m.id < nextId'
    BY <2>1, <1>1, <1>3, <1>4
  <2>3. ASSUME NEW m \in wire', NEW d \in Calls,
               call'[d].step = "waiting", call'[d].id = m.id
        PROVE  m = [id |-> call'[d].id, from |-> d, method |-> call'[d].method]
    <3>1. CASE d = c
      <4>1. m \notin wire
        BY <3>1, <2>1, <2>3, <1>1, <1>2, <1>6
      <4> QED BY <4>1, <3>1, <1>4, <1>5, <1>6
    <3>2. CASE d # c
      <4>1. call[d].step = "waiting" /\ call[d].id = m.id
        BY <3>2, <2>3, <1>6
      <4>2. m \in wire
        BY <4>1, <1>1, <1>3, <1>4, <1>8 DEF Inv, NothingLeaks, Waiting
      <4> QED BY <4>1, <4>2, <3>2, <1>6 DEF Inv, Traceable, Waiting, Outgoing
    <3> QED BY <3>1, <3>2
  <2> QED BY <2>2, <2>3 DEF Traceable, Waiting, Outgoing
<1>12. Agreement'
  BY <1>2, <1>6 DEF Inv, Agreement
<1> QED BY <1>7, <1>9, <1>10, <1>11, <1>12 DEF Inv

(* Calls may end when their entries go with them.                          *)
LEMMA EndStep ==
    ASSUME Inv, NEW ended \in SUBSET Calls, NEW step \in {"done", "failed"},
           call' = [c \in Calls |-> IF c \in ended THEN Ended(step) ELSE call[c]],
           pending' = [i \in {j \in DOMAIN pending : pending[j] \notin ended} |->
                          pending[i]],
           timerOn' = timerOn, nextId' = nextId, wire' = wire, agreed' = agreed,
           initialized' \in BOOLEAN, closed' \in BOOLEAN, initialized' => agreed
    PROVE  Inv'
<1>1. Ended(step) \in CallState /\ Ended(step).step = step
  BY IdleFacts DEF Steps
<1>2. TypeOK'
  BY <1>1 DEF Inv, TypeOK
<1>3. \A c \in ended : call'[c].step \notin {"waiting", "answered"}
  BY <1>1
<1>4. \A c \in Calls \ ended : call'[c] = call[c]
  OBVIOUS
<1>5. NothingLeaks'
  <2>0. \A i \in DOMAIN pending : pending[i] \in Calls
    BY DEF Inv, TypeOK
  <2>1. \A i \in DOMAIN pending' :
           /\ i \in DOMAIN pending /\ pending'[i] = pending[i]
           /\ pending[i] \in Calls \ ended
    BY <2>0
  <2>2. \A i \in DOMAIN pending : pending[i] \notin ended => i \in DOMAIN pending'
    OBVIOUS
  <2>3. ASSUME NEW i \in DOMAIN pending'
        PROVE  Waiting(pending[i]) /\ call[pending[i]].id = i
    BY <2>1 DEF Inv, NothingLeaks
  <2>4. ASSUME NEW i \in DOMAIN pending'
        PROVE  call'[pending'[i]].step = "waiting" /\ call'[pending'[i]].id = i
    BY <2>1, <2>3, <1>4 DEF Waiting
  <2>5. ASSUME NEW c \in Calls, call'[c].step = "waiting"
        PROVE  call'[c].id \in DOMAIN pending' /\ pending'[call'[c].id] = c
    <3>1. c \notin ended /\ call'[c] = call[c] /\ call[c].step = "waiting"
      BY <2>5, <1>3, <1>4
    <3>2. call[c].id \in DOMAIN pending /\ pending[call[c].id] = c
      BY <3>1 DEF Inv, NothingLeaks, Waiting
    <3>. QED BY <2>1, <2>2, <3>1, <3>2
  <2> QED BY <2>4, <2>5 DEF NothingLeaks, Waiting
<1>6. AnswersMatch' /\ Traceable' /\ Agreement'
  BY <1>3, <1>4 DEF Inv, AnswersMatch, Traceable, Agreement, Waiting, Outgoing
<1> QED BY <1>2, <1>5, <1>6 DEF Inv

(* The call that waits for an id has the only entry that is its own.       *)
LEMMA OwnEntry ==
    ASSUME Inv, NEW c \in Calls
    PROVE  /\ Waiting(c) => {j \in DOMAIN pending : pending[j] \notin {c}}
                            = DOMAIN pending \ {call[c].id}
           /\ ~Waiting(c) => {j \in DOMAIN pending : pending[j] \notin {c}}
                             = DOMAIN pending
BY DEF Inv, NothingLeaks, Waiting

LEMMA SettleStep ==
    ASSUME Inv, NEW c \in Calls, Waiting(c), Settle(c)
    PROVE  Inv'
<1>1. call' = [d \in Calls |-> IF d \in {c} THEN Ended("failed") ELSE call[d]]
  BY DEF Settle, Inv, TypeOK
<1>2. pending' = [i \in {j \in DOMAIN pending : pending[j] \notin {c}} |-> pending[i]]
  BY OwnEntry DEF Settle, Forget
<1>3. /\ {c} \in SUBSET Calls /\ "failed" \in {"done", "failed"}
      /\ UNCHANGED <<timerOn, nextId, wire, agreed>>
      /\ initialized' \in BOOLEAN /\ closed' \in BOOLEAN /\ (initialized' => agreed)
  BY DEF Settle, Inv, TypeOK, Agreement
<1> QED BY <1>1, <1>2, <1>3, EndStep

LEMMA CloseStep == ASSUME Inv, Close PROVE Inv'
<1> DEFINE hit == {c \in Calls : \E i \in DOMAIN pending : pending[i] = c}
<1>1. call' = [d \in Calls |-> IF d \in hit THEN Ended("failed") ELSE call[d]]
  BY DEF Close
<1>2. {j \in DOMAIN pending : pending[j] \notin hit} = {}
  BY DEF Inv, TypeOK
<1>3. pending' = [i \in {j \in DOMAIN pending : pending[j] \notin hit} |-> pending[i]]
  BY <1>2 DEF Close
<1> HIDE DEF hit
<1>4. hit \in SUBSET Calls
  BY DEF hit
<1> QED BY <1>1, <1>3, <1>4, EndStep DEF Close, Inv, TypeOK, Agreement

LEMMA ContinueStep == ASSUME Inv, NEW c \in Calls, Continue(c) PROVE Inv'
<1> DEFINE state == call[c]
           shaken == state.method = "initialize"
<1>1. /\ state \in CallState /\ state.step = "answered" /\ ~Waiting(c)
      /\ state.op \in Operations /\ state.page \in Nat
      /\ initialized' = (initialized \/ (shaken /\ state.ok))
      /\ agreed' = agreed /\ closed' = closed /\ timerOn' = timerOn
  BY DEF Continue, Inv, TypeOK, CallState, Waiting
<1>2. (state.ok \/ ~shaken => agreed) /\ initialized' \in BOOLEAN
      /\ (initialized' => agreed)
  BY <1>1 DEF Inv, Agreement, TypeOK
<1>3. ASSUME NEW step \in {"done", "failed"}, Finish(c, step) PROVE Inv'
  <2>1. call' = [d \in Calls |-> IF d \in {c} THEN Ended(step) ELSE call[d]]
    BY <1>3 DEF Finish, Inv, TypeOK
  <2>2. pending' = [i \in {j \in DOMAIN pending : pending[j] \notin {c}} |-> pending[i]]
    BY <1>1, <1>3, OwnEntry DEF Finish, Inv, TypeOK
  <2>3. {c} \in SUBSET Calls /\ nextId' = nextId /\ wire' = wire /\ closed' \in BOOLEAN
    BY <1>1, <1>3 DEF Finish, Inv, TypeOK
  <2> QED BY <1>1, <1>2, <2>1, <2>2, <2>3, EndStep
<1>4. CASE ~state.ok
  BY <1>3, <1>4 DEF Continue
<1>5. CASE state.ok /\ shaken
  BY <1>1, <1>2, <1>5, RequestStep DEF Continue, Methods
<1>6. CASE state.ok /\ ~shaken /\ state.op = "list" /\ state.more
  <2>1. [state EXCEPT !.page = @ + 1] \in CallState
    BY <1>1 DEF CallState
  <2> QED BY <1>1, <1>2, <1>6, <2>1, RequestStep DEF Continue, Methods, Operations
<1>7. CASE state.ok /\ ~shaken /\ ~(state.op = "list" /\ state.more)
  BY <1>3, <1>7 DEF Continue
<1> QED BY <1>4, <1>5, <1>6, <1>7

LEMMA BeginStep ==
    ASSUME Inv, NEW c \in Calls, NEW op \in Operations, Begin(c, op) PROVE Inv'
<1> DEFINE state == [Idle EXCEPT !.op = op]
           method == IF initialized THEN op ELSE "initialize"
<1>1. state \in CallState
  BY DEF Idle, CallState, Steps, Methods, Operations
<1>2. method \in Methods /\ (method # "initialize" => agreed)
  BY DEF Methods, Inv, Agreement
<1>3. /\ ~Waiting(c) /\ Request(c, state, method)
      /\ closed' = closed /\ agreed' = agreed /\ initialized' = initialized
      /\ timerOn' = timerOn
  BY DEF Begin, Waiting
<1> HIDE DEF state, method
<1> QED BY <1>1, <1>2, <1>3, RequestStep DEF Inv, TypeOK, Agreement

(* Who waits for the id of an answered request is the call that asked.     *)
LEMMA AnswerStep ==
    ASSUME Inv, NEW m \in wire, NEW ok \in BOOLEAN, NEW more \in BOOLEAN,
           NEW again \in BOOLEAN, Answer(m, ok, more, again)
    PROVE  Inv'
<1>1. /\ wire' \in SUBSET wire /\ agreed' \in BOOLEAN /\ (agreed => agreed')
      /\ (m.method = "initialize" /\ ok => agreed')
      /\ UNCHANGED <<timerOn, nextId, initialized, closed>>
  BY DEF Answer, Inv, TypeOK
<1>2. CASE m.id \notin DOMAIN pending
  <2>1. UNCHANGED <<call, pending>>
    BY <1>2 DEF Answer
  <2> QED
    BY <1>1, <2>1 DEF Inv, TypeOK, NothingLeaks, AnswersMatch, Traceable,
                      Agreement, Waiting, Outgoing
<1>3. CASE m.id \in DOMAIN pending
  <2> DEFINE c == pending[m.id]
             new == [call[c] EXCEPT !.step = "answered", !.got = {m},
                                    !.ok = ok, !.more = more]
  <2>1. c \in Calls /\ Waiting(c) /\ call[c].id = m.id
    BY <1>3 DEF Inv, TypeOK, NothingLeaks
  <2>2. m = Outgoing(c) /\ m \in Message
    BY <2>1 DEF Inv, TypeOK, Traceable
  <2>3. m.method = call[c].method /\ (call[c].method # "initialize" => agreed)
    BY <2>1, <2>2 DEF Outgoing, Waiting, Inv, Agreement
  <2>4. /\ new \in CallState /\ new.step = "answered" /\ new.got = {m}
        /\ new.ok = ok /\ new.id = call[c].id /\ new.method = call[c].method
    <3>1. call[c] \in CallState /\ {m} \in SUBSET Message
      BY <2>1, <2>2 DEF Inv, TypeOK
    <3> HIDE DEF c
    <3>2. new \in CallState
      BY <3>1 DEF CallState, Steps
    <3>3. new.ok = ok
      BY <3>1, Zenon DEF CallState
    <3>4. /\ new.step = "answered" /\ new.got = {m}
          /\ new.id = call[c].id /\ new.method = call[c].method
      BY <3>1 DEF CallState
    <3> QED BY <3>2, <3>3, <3>4
  <2>5. call' = [call EXCEPT ![c] = new] /\ pending' = Forget(m.id)
    BY <1>3 DEF Answer
  <2>6. \A i \in DOMAIN pending \ {m.id} : pending[i] \in Calls \ {c}
    BY <2>1 DEF Inv, TypeOK, NothingLeaks
  <2> HIDE DEF c, new
  <2>7. /\ call' \in [Calls -> CallState] /\ call'[c] = new
        /\ \A d \in Calls \ {c} : call'[d] = call[d]
    BY <2>1, <2>4, <2>5 DEF Inv, TypeOK
  <2>8. /\ DOMAIN pending' = DOMAIN pending \ {m.id}
        /\ pending' \in [DOMAIN pending' -> Calls]
        /\ \A i \in DOMAIN pending' : pending'[i] = pending[i]
    BY <2>5, <2>6 DEF Forget
  <2>9. TypeOK'
    BY <1>1, <2>7, <2>8 DEF Inv, TypeOK
  <2>10. NothingLeaks'
    <3>1. \A i \in DOMAIN pending' :
             call'[pending'[i]].step = "waiting" /\ call'[pending'[i]].id = i
      BY <2>6, <2>7, <2>8 DEF Inv, NothingLeaks, Waiting
    <3>2. ASSUME NEW d \in Calls, call'[d].step = "waiting"
          PROVE  call'[d].id \in DOMAIN pending' /\ pending'[call'[d].id] = d
      <4>1. d # c /\ call'[d] = call[d]
        BY <3>2, <2>4, <2>7
      <4>2. call[d].id \in DOMAIN pending /\ pending[call[d].id] = d
        BY <3>2, <4>1 DEF Inv, NothingLeaks, Waiting
      <4>3. call[d].id # m.id
        BY <4>1, <4>2 DEF c
      <4> QED BY <4>1, <4>2, <4>3, <2>8
    <3> QED BY <3>1, <3>2 DEF NothingLeaks, Waiting
  <2>11. AnswersMatch'
    BY <2>1, <2>2, <2>4, <2>7 DEF Inv, AnswersMatch, Outgoing
  <2>12. Traceable'
    BY <1>1, <2>4, <2>7 DEF Inv, Traceable, Waiting, Outgoing
  <2>13. Agreement'
    BY <1>1, <2>3, <2>4, <2>7 DEF Inv, Agreement
  <2> QED BY <2>9, <2>10, <2>11, <2>12, <2>13 DEF Inv
<1> QED BY <1>2, <1>3

-----------------------------------------------------------------------------
(* The invariant of every behaviour of a session.                          *)
THEOREM Invariance == Spec => []Inv
<1>1. ASSUME Inv, [Next]_vars PROVE Inv'
  <2>1. ASSUME NEW c \in Calls, NEW op \in Operations, Begin(c, op) PROVE Inv'
    BY <1>1, <2>1, BeginStep
  <2>2. ASSUME NEW c \in Calls, Continue(c) \/ TimesOut(c) \/ SendFails(c)
        PROVE  Inv'
    BY <1>1, <2>2, ContinueStep, SettleStep DEF TimesOut, SendFails
  <2>3. ASSUME NEW m \in wire, NEW ok \in BOOLEAN, NEW more \in BOOLEAN,
               NEW again \in BOOLEAN, Answer(m, ok, more, again)
        PROVE  Inv'
    BY <1>1, <2>3, AnswerStep
  <2>4. CASE Close
    BY <1>1, <2>4, CloseStep
  <2>5. CASE UNCHANGED vars
    BY <1>1, <2>5 DEF vars, Inv, TypeOK, NothingLeaks, AnswersMatch, Traceable,
                      Agreement, Waiting, Outgoing
  <2> QED BY <1>1, <2>1, <2>2, <2>3, <2>4, <2>5 DEF Next
<1> QED BY Initially, <1>1, PTL DEF Spec

(* No variable leaves its range and no pending id is one to come.          *)
THEOREM TypeCorrect == Spec => []TypeOK
<1>1. Inv => TypeOK
  BY DEF Inv
<1> QED BY <1>1, Invariance, PTL

(* Every call acts on the answer to its own request, for any number of     *)
(* calls and however late, repeated or reordered the answers are.          *)
THEOREM AnswersAreOwn == Spec => []AnswersMatch
<1>1. Inv => AnswersMatch
  BY DEF Inv
<1> QED BY <1>1, Invariance, PTL

(* The pending map is exactly the requests that are waited for.            *)
THEOREM PendingExact == Spec => []NothingLeaks
<1>1. Inv => NothingLeaks
  BY DEF Inv
<1> QED BY <1>1, Invariance, PTL

(* Only the handshake is sent to a server that has not accepted one.       *)
THEOREM HandshakeComesFirst == Spec => []HandshakeFirst
<1>1. Inv => HandshakeFirst
  BY DEF Inv, Agreement, HandshakeFirst, Waiting
<1> QED BY <1>1, Invariance, PTL
=============================================================================
