----------------------------- MODULE WorkerBoot -----------------------------
(***************************************************************************)
(* WorkerRegistry: the boot state machine of one worker, driven by scrapes *)
(* of its screen and by calls of the control plane in any order.  A screen *)
(* is what the detectors find in its text; a prompt is a value; the event  *)
(* log is the set of gates it has recorded, all that is read back from it. *)
(***************************************************************************)
EXTENDS Naturals

CONSTANTS
    Prompts,
    None,          \* no prompt
    MaxAttempts    \* prompts sent between two restarts (a bound of the model)

ASSUME WorkerAssumption == None \notin Prompts /\ MaxAttempts \in Nat

Statuses == {"spawning", "trust_required", "tool_permission_required",
             "ready_for_prompt", "running", "finished", "failed"}
Gates == {"trust_required", "tool_permission_required"}
Failures == {"trust_gate", "tool_permission_gate", "prompt_delivery",
             "provider", "startup_no_evidence", "none"}
Classifications == {"trust_required", "tool_permission_required",
                    "prompt_misdelivery", "prompt_acceptance_timeout",
                    "transport_dead", "worker_crashed", "unknown"}

(* What the detectors see: a tool permission prompt, a trust prompt, the   *)
(* last prompt somewhere it should not be, a running cue, a ready cue.     *)
Screens == [tool: BOOLEAN, trust: BOOLEAN, astray: BOOLEAN,
            running: BOOLEAN, ready: BOOLEAN]

VARIABLES
    status,
    trustAutoResolve, autoRecover,    \* fixed at creation
    trustGateCleared,
    promptDeliveryAttempts, promptInFlight, lastPrompt, replayPrompt,
    lastError,
    events,           \* the gates the event log has
    old,              \* created more than thirty seconds ago
    classification    \* of the last startup timeout

settings == <<trustAutoResolve, autoRecover>>
prompting == <<promptDeliveryAttempts, promptInFlight, lastPrompt, replayPrompt>>
vars == <<status, settings, trustGateCleared, prompting, lastError, events, old,
          classification>>

\* create: the root decides about trust, the caller about recovery.
Init ==
    /\ status = "spawning"
    /\ trustAutoResolve \in BOOLEAN /\ autoRecover \in BOOLEAN
    /\ trustGateCleared = FALSE
    /\ promptDeliveryAttempts = 0 /\ promptInFlight = FALSE
    /\ lastPrompt = None /\ replayPrompt = None
    /\ lastError = "none" /\ events = {}
    /\ old = FALSE /\ classification = "unknown"

Ages == old' \in BOOLEAN /\ (old => old')
-----------------------------------------------------------------------------
(* observe: the cases in the order of its checks.                          *)

AtTrustGate(screen) == ~screen.tool /\ screen.trust /\ ~trustGateCleared

\* Past the gates, when there is none or the trust gate resolves itself.
PastGates(screen) ==
    ~screen.tool /\ (AtTrustGate(screen) => trustAutoResolve)

ObserveTool(screen) ==
    /\ screen.tool
    /\ status' = "tool_permission_required"
    /\ lastError' = "tool_permission_gate"
    /\ events' = events \cup {"tool_permission_required"}
    /\ UNCHANGED <<settings, trustGateCleared, prompting, classification>>

ObserveTrust(screen) ==
    /\ AtTrustGate(screen) /\ ~trustAutoResolve
    /\ status' = "trust_required"
    /\ lastError' = "trust_gate"
    /\ events' = events \cup {"trust_required"}
    /\ UNCHANGED <<settings, trustGateCleared, prompting, classification>>

\* The trust gate that resolves itself on the way to the later checks.
Resolved(screen) ==
    /\ trustGateCleared' = (trustGateCleared \/ AtTrustGate(screen))
    /\ events' = events \cup (IF AtTrustGate(screen) THEN {"trust_required"} ELSE {})

Misdelivered(screen) ==
    PastGates(screen) /\ screen.astray /\ promptInFlight /\ lastPrompt # None

ObserveAstray(screen) ==
    /\ Misdelivered(screen) /\ Resolved(screen)
    /\ lastError' = "prompt_delivery"
    /\ promptInFlight' = FALSE
    /\ replayPrompt' = IF autoRecover THEN lastPrompt ELSE replayPrompt
    /\ status' = IF autoRecover THEN "ready_for_prompt" ELSE "failed"
    /\ UNCHANGED <<settings, promptDeliveryAttempts, lastPrompt, classification>>

(* A running cue confirms the prompt in flight; a ready cue, on the same   *)
(* screen perhaps, makes the worker ready.                                 *)
ObserveCues(screen) ==
    LET gate      == AtTrustGate(screen)
        confirmed == screen.running /\ promptInFlight
        error     == IF gate \/ confirmed THEN "none" ELSE lastError
        before    == IF confirmed THEN "running"
                     ELSE IF gate THEN "spawning" ELSE status
        readied   == screen.ready /\ before # "ready_for_prompt"
    IN  /\ PastGates(screen) /\ ~Misdelivered(screen) /\ Resolved(screen)
        /\ promptInFlight' = (promptInFlight /\ ~confirmed /\ ~readied)
        /\ status' = IF readied THEN "ready_for_prompt" ELSE before
        /\ lastError' = IF readied /\ error = "trust_gate" THEN "none" ELSE error
        /\ UNCHANGED <<settings, promptDeliveryAttempts, lastPrompt, replayPrompt,
                       classification>>

Observe(screen) ==
    /\ \/ ObserveTool(screen) \/ ObserveTrust(screen)
       \/ ObserveAstray(screen) \/ ObserveCues(screen)
    /\ Ages
-----------------------------------------------------------------------------
ResolveTrust ==
    /\ status = "trust_required"
    /\ status' = "spawning"
    /\ trustGateCleared' = TRUE
    /\ lastError' = "none"
    /\ Ages
    /\ UNCHANGED <<settings, prompting, events, classification>>

\* Variant: a replay that was armed stays armed.
SendPrompt_KeepReplay(prompt) ==
    LET next == IF prompt # None THEN prompt ELSE replayPrompt
    IN  /\ status = "ready_for_prompt" /\ next # None
        /\ promptDeliveryAttempts < MaxAttempts
        /\ promptDeliveryAttempts' = promptDeliveryAttempts + 1
        /\ promptInFlight' = TRUE
        /\ lastPrompt' = next
        /\ lastError' = "none"
        /\ status' = "running"
        /\ Ages
        /\ UNCHANGED <<settings, trustGateCleared, replayPrompt, events, classification>>

\* A blank prompt stands for the one that is armed for replay.
SendPrompt(prompt) ==
    LET next == IF prompt # None THEN prompt ELSE replayPrompt
    IN  /\ status = "ready_for_prompt" /\ next # None
        /\ promptDeliveryAttempts < MaxAttempts
        /\ promptDeliveryAttempts' = promptDeliveryAttempts + 1
        /\ promptInFlight' = TRUE
        /\ lastPrompt' = next
        /\ replayPrompt' = None
        /\ lastError' = "none"
        /\ status' = "running"
        /\ Ages
        /\ UNCHANGED <<settings, trustGateCleared, events, classification>>

Restart ==
    /\ status' = "spawning"
    /\ trustGateCleared' = FALSE
    /\ promptDeliveryAttempts' = 0 /\ promptInFlight' = FALSE
    /\ lastPrompt' = None /\ replayPrompt' = None
    /\ lastError' = "none"
    /\ Ages
    /\ UNCHANGED <<settings, events, classification>>

Terminate ==
    /\ status' = "finished"
    /\ promptInFlight' = FALSE
    /\ Ages
    /\ UNCHANGED <<settings, trustGateCleared, promptDeliveryAttempts, lastPrompt,
                   replayPrompt, lastError, events, classification>>

\* observe_completion: finish "error", or "unknown" with no output, is the
\* provider's failure.
ObserveCompletion(providerFails) ==
    /\ status' = IF providerFails THEN "failed" ELSE "finished"
    /\ lastError' = IF providerFails THEN "provider" ELSE "none"
    /\ promptInFlight' = FALSE
    /\ Ages
    /\ UNCHANGED <<settings, trustGateCleared, promptDeliveryAttempts, lastPrompt,
                   replayPrompt, events, classification>>

\* classify_startup_failure: the first cause that the evidence supports.
Classify(transportHealthy, mcpHealthy) ==
    LET sent     == promptDeliveryAttempts > 0
        accepted == status = "running" /\ ~promptInFlight
    IN  IF ~transportHealthy THEN "transport_dead"
        ELSE IF status \in Gates /\ status \in events THEN status
        ELSE IF sent /\ ~accepted /\ status = "running" THEN "prompt_acceptance_timeout"
        ELSE IF sent /\ ~accepted /\ old' THEN "prompt_misdelivery"
        ELSE IF ~mcpHealthy THEN "worker_crashed"
        ELSE "unknown"

ObserveStartupTimeout(transportHealthy, mcpHealthy) ==
    /\ Ages
    /\ classification' = Classify(transportHealthy, mcpHealthy)
    /\ status' = "failed"
    /\ lastError' = "startup_no_evidence"
    /\ promptInFlight' = FALSE
    /\ UNCHANGED <<settings, trustGateCleared, promptDeliveryAttempts, lastPrompt,
                   replayPrompt, events>>

Next ==
    \/ \E screen \in Screens : Observe(screen)
    \/ ResolveTrust
    \/ \E prompt \in Prompts \cup {None} : SendPrompt(prompt)
    \/ Restart
    \/ Terminate
    \/ \E providerFails \in BOOLEAN : ObserveCompletion(providerFails)
    \/ \E t, m \in BOOLEAN : ObserveStartupTimeout(t, m)

Spec == Init /\ [][Next]_vars
-----------------------------------------------------------------------------
\* Every variable stays in its range.
TypeOK ==
    /\ status \in Statuses
    /\ trustAutoResolve \in BOOLEAN /\ autoRecover \in BOOLEAN
    /\ trustGateCleared \in BOOLEAN /\ promptInFlight \in BOOLEAN /\ old \in BOOLEAN
    /\ promptDeliveryAttempts \in 0 .. MaxAttempts
    /\ lastPrompt \in Prompts \cup {None} /\ replayPrompt \in Prompts \cup {None}
    /\ lastError \in Failures /\ events \subseteq Gates
    /\ classification \in Classifications

\* What await_ready calls blocked comes with the reason: a worker at a gate has
\* that gate's error, its trust is not cleared at the trust gate, and the log
\* in which a startup timeout looks for the gate has it; a failed worker has an
\* error that is no gate's.
BlockedExplained ==
    /\ status \in Gates => status \in events
    /\ status = "trust_required" => lastError = "trust_gate" /\ ~trustGateCleared
    /\ status = "tool_permission_required" => lastError = "tool_permission_gate"
    /\ status = "failed" =>
          lastError \in {"prompt_delivery", "provider", "startup_no_evidence"}

\* A worker that is ready, finished or failed has no prompt in flight, so the
\* next scrape cannot take an old prompt for one that went astray.
NothingInFlightAtRest ==
    status \in {"ready_for_prompt", "finished", "failed"} => ~promptInFlight

\* What is armed for replay is the very prompt that was sent last, of a worker
\* that asked for recovery, and it is not in flight at the same time: a replay
\* neither resends an older prompt nor sends twice what is under way.
ReplayIsLast ==
    replayPrompt # None =>
        autoRecover /\ replayPrompt = lastPrompt /\ ~promptInFlight /\ status # "running"

\* A worker runs, or has a prompt in flight, only for a prompt sent since its
\* last restart.
RunsForAPrompt ==
    status = "running" \/ promptInFlight =>
        lastPrompt # None /\ promptDeliveryAttempts > 0
=============================================================================
