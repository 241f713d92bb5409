----------------------------- MODULE Validation -----------------------------
(***************************************************************************)
(* The gateway's validation of its scopes against the adapter              *)
(* (src/server.ts, ScopeRegistry.validateAgainstAdapter).                  *)
(*                                                                         *)
(* An attempt asks the adapter for its health and then for the schema of   *)
(* each enabled scope; what runs between two of its awaits is one step.    *)
(* Startup awaits the first attempt before the gateway listens; later ones *)
(* are started by the retry timer, or by whoever holds the runtime object. *)
(***************************************************************************)
EXTENDS Naturals, FiniteSets

CONSTANTS
  Scope,     \* the enabled scopes
  Attempt,   \* attempts that may run at once, if the code let them
  None

VARIABLES
  onStartup,  \* config.validateOnStartup
  listening,  \* buildRuntime has returned
  ready,      \* readyState.ok
  inFlight,   \* validationInFlight
  timer,      \* validationRetryTimer is set
  stopped,    \* validationRetryStopped
  phase,      \* what each attempt waits for
  left,       \* scopes whose schema it has yet to ask for
  asker,      \* who started it: the gateway itself or a caller
  schemas,    \* validatedSchemas, as the scopes they cover
  up          \* the adapter is healthy and knows the configured attributes

vars == <<onStartup, listening, ready, inFlight, timer, stopped, phase, left, asker, schemas, up>>

Running == {t \in Attempt : phase[t] # "none"}

Init ==
  /\ onStartup \in BOOLEAN
  /\ listening = ~onStartup /\ ready = ~onStartup
  /\ inFlight = None /\ timer = FALSE /\ stopped = FALSE
  /\ phase = [t \in Attempt |-> "none"] /\ left = [t \in Attempt |-> {}]
  /\ asker = [t \in Attempt |-> "gateway"]
  /\ schemas = {} /\ up \in BOOLEAN

\* Faulty: a second caller starts an attempt of its own.
ValidateAlways(who) ==
  \E t \in Attempt \ Running :
    /\ inFlight' = t /\ phase' = [phase EXCEPT ![t] = "health"]
    /\ asker' = [asker EXCEPT ![t] = who]
    /\ UNCHANGED <<onStartup, listening, ready, stopped, left, schemas, up>>

\* validate(): whoever comes while an attempt is in flight shares its result.
Validate(who) ==
  IF inFlight # None
  THEN UNCHANGED <<onStartup, listening, ready, inFlight, stopped, phase, left, asker, schemas, up>>
  ELSE \E t \in Attempt \ Running :
         /\ inFlight' = t /\ phase' = [phase EXCEPT ![t] = "health"]
         /\ asker' = [asker EXCEPT ![t] = who]
         /\ UNCHANGED <<onStartup, listening, ready, stopped, left, schemas, up>>

\* Faulty: success leaves the timer of an earlier failure running.
TimerAfterAny(ok) == timer \/ (~ok /\ ~stopped /\ onStartup)

\* clearValidationRetry, or scheduleValidationRetry.
TimerAfter(ok) == ~ok /\ (timer \/ (~stopped /\ onStartup))

\* Faulty: only success clears validationInFlight.
SettleKept(t, ok) ==
  /\ ready' = ok /\ timer' = TimerAfter(ok)
  /\ phase' = [phase EXCEPT ![t] = "none"] /\ left' = [left EXCEPT ![t] = {}]
  /\ inFlight' = IF inFlight = t /\ ok THEN None ELSE inFlight
  /\ listening' = TRUE
  /\ UNCHANGED <<onStartup, stopped, asker, up>>

Settle(t, ok) ==
  /\ ready' = ok /\ timer' = TimerAfter(ok)
  /\ phase' = [phase EXCEPT ![t] = "none"] /\ left' = [left EXCEPT ![t] = {}]
  /\ inFlight' = IF inFlight = t THEN None ELSE inFlight
  /\ listening' = TRUE
  /\ UNCHANGED <<onStartup, stopped, asker, up>>

Boot == ~listening /\ Running = {} /\ Validate("gateway") /\ UNCHANGED timer

\* The schemas of an earlier validation are dropped when the first new one is asked for.
HealthAnswers(t) ==
  /\ phase[t] = "health"
  /\ \/ ~up /\ Settle(t, FALSE) /\ UNCHANGED schemas
     \/ /\ up
        /\ phase' = [phase EXCEPT ![t] = "schemas"] /\ left' = [left EXCEPT ![t] = Scope]
        /\ schemas' = {}
        /\ UNCHANGED <<onStartup, listening, ready, inFlight, timer, stopped, asker, up>>

SchemaAnswers(t) ==
  /\ phase[t] = "schemas"
  /\ \E s \in left[t] :
     \/ ~up /\ Settle(t, FALSE) /\ UNCHANGED schemas
     \/ /\ up /\ left[t] = {s} /\ Settle(t, TRUE) /\ schemas' = Scope
     \/ /\ up /\ left[t] # {s}
        /\ left' = [left EXCEPT ![t] = @ \ {s}]
        /\ UNCHANGED <<onStartup, listening, ready, inFlight, timer, stopped, phase, asker, schemas, up>>

TimerFires == timer /\ timer' = FALSE /\ Validate("gateway")

CallValidate == listening /\ Validate("caller") /\ UNCHANGED timer

\* stopValidationRetry, at shutdown.
Stop ==
  /\ listening /\ ~stopped
  /\ stopped' = TRUE /\ timer' = FALSE
  /\ UNCHANGED <<onStartup, listening, ready, inFlight, phase, left, asker, schemas, up>>

\* The adapter, or its repository, fails and recovers.
Adapter ==
  /\ up' = ~up
  /\ UNCHANGED <<onStartup, listening, ready, inFlight, timer, stopped, phase, left, asker, schemas>>

Answers == \E t \in Attempt : HealthAnswers(t) \/ SchemaAnswers(t)

Next == Boot \/ Answers \/ TimerFires \/ CallValidate \/ Stop \/ Adapter

\* The adapter's answers have a deadline, and the timer runs out.
Fairness == WF_vars(Boot) /\ WF_vars(Answers) /\ WF_vars(TimerFires)

Spec == Init /\ [][Next]_vars /\ Fairness

-----------------------------------------------------------------------------
(* Properties. *)

\* server.ts:71: however calls, timer and shutdown interleave, one attempt runs at a time; while
\* the gateway is not ready and not stopped another one is running or due; none is due once it is
\* ready or stopped.
OneValidation ==
  /\ Cardinality(Running) <= 1
  /\ timer => ~ready /\ ~stopped
  /\ onStartup /\ listening /\ ~ready /\ ~stopped => timer \/ Running # {}

\* A gateway that reports ready has the schemas its searches need.  An attempt that somebody asks
\* for takes them away for its duration; the gateway's own never run while it is ready.
ReadyHasSchemas ==
  onStartup /\ ready => schemas = Scope \/ \E t \in Running : asker[t] = "caller"

\* Once the adapter stays healthy the gateway becomes ready and stays so, unless it is stopped.
BecomesReady == onStartup /\ <>[](up /\ ~stopped) => <>[]ready
=============================================================================
