-------------------------- MODULE Components_proofs --------------------------
(***************************************************************************)
(* What the components of their own owe, proved for every value of the     *)
(* constants.  Each has an invariant that its own steps keep and that the  *)
(* steps of the others leave alone; so it holds whichever is in focus.     *)
(***************************************************************************)
EXTENDS Components, Sequences, FiniteSetTheorems, WellFoundedInduction, TLAPS

-----------------------------------------------------------------------------
(* A step is one of a single component. *)

\* Whatever happens, each component takes a step of its own or stands still.
LEMMA StepOfEach ==
  ASSUME [Next]_vars
  PROVE  /\ V!Next \/ UNCHANGED vVars
         /\ R!Next \/ UNCHANGED rVars
         /\ H!Next \/ UNCHANGED hVars
         /\ P!Next \/ UNCHANGED pVars
         /\ B!Next \/ UNCHANGED bVars
         /\ A!Next \/ UNCHANGED aVars
         /\ T!Next \/ UNCHANGED tVars
         /\ M!Next \/ UNCHANGED mVars
  BY Zenon DEF Next, vars

\* Every component starts in one of its own initial states.
LEMMA InitOfEach ==
  ASSUME Init
  PROVE  V!Init /\ R!Init /\ H!Init /\ P!Init /\ B!Init /\ A!Init /\ T!Init /\ M!Init
  BY DEF Init, NoV, NoR, NoH, NoP, NoB, NoA, NoT, NoM

-----------------------------------------------------------------------------
(* Validation: one attempt at a time. *)

ValidationTypes ==
  /\ {onStartup, listening, ready, timer, stopped} \subseteq BOOLEAN
  /\ inFlight \in Attempt \cup {None}
  /\ phase \in [Attempt -> {"none", "health", "schemas"}]
  /\ left \in [Attempt -> SUBSET Scope]
  /\ asker \in [Attempt -> {"gateway", "caller"}]

\* validationInFlight is the attempt that runs.
FlightTold == \A t \in Attempt : phase[t] # "none" <=> inFlight = t

\* Another attempt is due while the gateway is not ready, and only then.
AttemptDue ==
  /\ timer => ~ready /\ ~stopped /\ listening
  /\ onStartup /\ listening /\ ~ready /\ ~stopped => timer \/ inFlight # None
  /\ ~listening => onStartup /\ ~ready

\* The gateway's own attempts find it not ready; so only a caller's takes schemas away that are in use.
SchemasKept ==
  /\ inFlight # None /\ asker[inFlight] = "gateway" => ~ready \/ ~onStartup
  /\ onStartup /\ ready => schemas = Scope \/ (inFlight # None /\ asker[inFlight] = "caller")

ValidationInv == ValidationTypes /\ FlightTold /\ AttemptDue /\ SchemasKept

LEMMA ValidationInit ==
  ASSUME V!Init
  PROVE  ValidationInv
  BY LimitsAssumption
  DEF V!Init, ValidationInv, ValidationTypes, FlightTold, AttemptDue, SchemasKept, LimitsAssumption

\* A call that starts an attempt, or joins the one that runs.
LEMMA ValidateKeeps ==
  ASSUME ValidationInv, NEW who \in {"gateway", "caller"}, V!Validate(who),
         who = "gateway" => ~ready \/ ~onStartup,
         timer' \in BOOLEAN, timer' => timer,
         listening \/ inFlight = None
  PROVE  ValidationInv'
<1> USE LimitsAssumption DEF LimitsAssumption, ValidationInv, ValidationTypes
<1>1. CASE inFlight # None
  BY <1>1 DEF V!Validate, FlightTold, AttemptDue, SchemasKept
<1>2. CASE inFlight = None
  <2>1. PICK t \in Attempt \ V!Running :
             /\ inFlight' = t /\ phase' = [phase EXCEPT ![t] = "health"]
             /\ asker' = [asker EXCEPT ![t] = who]
             /\ UNCHANGED <<onStartup, listening, ready, stopped, left, schemas, up>>
    BY <1>2 DEF V!Validate
  <2>2. ValidationTypes' /\ FlightTold'
    BY <1>2, <2>1 DEF FlightTold
  <2>3. AttemptDue' /\ SchemasKept'
    BY <1>2, <2>1 DEF AttemptDue, SchemasKept
  <2> QED
    BY <2>2, <2>3
<1> QED
  BY <1>1, <1>2

\* The end of an attempt: with success its schemas are there, with failure the gateway is not ready.
LEMMA SettleKeeps ==
  ASSUME ValidationInv, NEW t \in Attempt, phase[t] # "none", NEW ok \in BOOLEAN, V!Settle(t, ok),
         ok => schemas' = Scope
  PROVE  ValidationInv'
<1> USE LimitsAssumption DEF LimitsAssumption, ValidationInv, ValidationTypes, V!Settle, V!TimerAfter
<1>1. inFlight = t
  BY DEF FlightTold
<1>2. ValidationTypes' /\ FlightTold'
  BY <1>1 DEF FlightTold
<1>3. AttemptDue' /\ SchemasKept'
  BY <1>1 DEF AttemptDue, SchemasKept
<1> QED
  BY <1>2, <1>3

LEMMA ValidationStep ==
  ASSUME ValidationInv, V!Next \/ UNCHANGED vVars
  PROVE  ValidationInv'
<1> USE LimitsAssumption DEF LimitsAssumption
<1>1. CASE V!Boot
  BY <1>1, ValidateKeeps DEF V!Boot, V!Running, ValidationInv, ValidationTypes, AttemptDue, FlightTold
<1>2. ASSUME NEW t \in Attempt, V!HealthAnswers(t)
      PROVE  ValidationInv'
  <2>1. phase[t] # "none" /\ inFlight = t
    BY <1>2 DEF V!HealthAnswers, ValidationInv, FlightTold
  <2>2. CASE V!Settle(t, FALSE)
    BY <2>1, <2>2, SettleKeeps
  <2>3. CASE /\ phase' = [phase EXCEPT ![t] = "schemas"] /\ left' = [left EXCEPT ![t] = Scope]
             /\ schemas' = {}
             /\ UNCHANGED <<onStartup, listening, ready, inFlight, timer, stopped, asker, up>>
    <3>1. ValidationTypes' /\ FlightTold'
      BY <2>1, <2>3 DEF ValidationInv, ValidationTypes, FlightTold
    <3>2. AttemptDue' /\ SchemasKept'
      BY <2>1, <2>3 DEF ValidationInv, ValidationTypes, AttemptDue, SchemasKept
    <3> QED
      BY <3>1, <3>2 DEF ValidationInv
  <2> QED
    BY <1>2, <2>2, <2>3 DEF V!HealthAnswers
<1>3. ASSUME NEW t \in Attempt, V!SchemaAnswers(t)
      PROVE  ValidationInv'
  <2>1. phase[t] # "none" /\ inFlight = t
    BY <1>3 DEF V!SchemaAnswers, ValidationInv, FlightTold
  <2>2. CASE V!Settle(t, FALSE)
    BY <2>1, <2>2, SettleKeeps
  <2>3. CASE V!Settle(t, TRUE) /\ schemas' = Scope
    BY <2>1, <2>3, SettleKeeps
  <2>4. ASSUME NEW s \in left[t],
               left' = [left EXCEPT ![t] = @ \ {s}],
               UNCHANGED <<onStartup, listening, ready, inFlight, timer, stopped, phase, asker, schemas, up>>
        PROVE  ValidationInv'
    <3>1. ValidationTypes' /\ FlightTold'
      BY <2>4 DEF ValidationInv, ValidationTypes, FlightTold
    <3>2. AttemptDue' /\ SchemasKept'
      BY <2>4 DEF ValidationInv, AttemptDue, SchemasKept
    <3> QED
      BY <3>1, <3>2 DEF ValidationInv
  <2> QED
    BY <1>3, <2>2, <2>3, <2>4 DEF V!SchemaAnswers
<1>4. CASE V!TimerFires
  BY <1>4, ValidateKeeps DEF V!TimerFires, ValidationInv, AttemptDue
<1>5. CASE V!CallValidate
  BY <1>5, ValidateKeeps DEF V!CallValidate, ValidationInv, ValidationTypes
<1>6. CASE V!Stop \/ V!Adapter \/ UNCHANGED vVars
  <2>1. UNCHANGED <<onStartup, listening, ready, inFlight, phase, left, asker, schemas>>
        /\ (UNCHANGED <<timer, stopped>> \/ (listening /\ stopped' = TRUE /\ timer' = FALSE))
    BY <1>6 DEF V!Stop, V!Adapter, vVars
  <2>2. ValidationTypes' /\ FlightTold'
    BY <2>1 DEF ValidationInv, ValidationTypes, FlightTold
  <2>3. AttemptDue' /\ SchemasKept'
    BY <2>1 DEF ValidationInv, AttemptDue, SchemasKept
  <2> QED
    BY <2>2, <2>3 DEF ValidationInv
<1> QED
  BY <1>1, <1>2, <1>3, <1>4, <1>5, <1>6 DEF V!Next, V!Answers

\* The instances count with the Cardinality of everybody.
LEMMA SameCardinality ==
  ASSUME NEW S
  PROVE  V!Cardinality(S) = Cardinality(S) /\ A!Cardinality(S) = Cardinality(S)
  BY Zenon DEF V!Cardinality, A!Cardinality, Cardinality

\* What the invariant says of the attempts that run.
LEMMA ValidationGives ==
  ASSUME ValidationInv
  PROVE  V!OneValidation /\ V!ReadyHasSchemas
<1> USE LimitsAssumption DEF LimitsAssumption, ValidationInv, ValidationTypes
<1>1. V!Running = IF inFlight = None THEN {} ELSE {inFlight}
  BY DEF FlightTold, V!Running
<1>2. Cardinality(V!Running) <= 1
  <2>1. Cardinality({}) = 0 /\ Cardinality({inFlight}) = 1
    BY FS_EmptySet, FS_Singleton, Zenon
  <2> QED
    BY <1>1, <2>1
<1>3. V!OneValidation
  <2>1. timer => ~ready /\ ~stopped
    BY DEF AttemptDue
  <2>2. onStartup /\ listening /\ ~ready /\ ~stopped => timer \/ V!Running # {}
    BY <1>1 DEF AttemptDue
  <2> QED
    BY <1>2, <2>1, <2>2, SameCardinality DEF V!OneValidation
<1>4. V!ReadyHasSchemas
  BY <1>1 DEF V!ReadyHasSchemas, SchemasKept
<1> QED
  BY <1>3, <1>4

-----------------------------------------------------------------------------
(* RateLimiter: the window of any access on. *)

\* What is in the bucket and what the window counted were there or have come back since.
LimiterInv ==
  /\ clock \in Int
  /\ bucket = None \/ bucket \in [tokens : Int, last : Int]
  /\ window = None \/ (/\ window \in [from : Int, count : Int] /\ bucket # None
                       /\ window.count * Cost + bucket.tokens <= R!Max + (bucket.last - window.from))

\* One more request costs one token more.
LEMMA OneMore ==
  ASSUME NEW c \in Int, NEW k \in Int
  PROVE  (c + 1) * k = c * k + k /\ c * k \in Int
  OBVIOUS

LEMMA LimiterInit ==
  ASSUME R!Init
  PROVE  LimiterInv
  BY DEF R!Init, LimiterInv

\* Every access refills at most what has passed, and never beyond the maximum.
LEMMA RefillBounded ==
  ASSUME LimiterInv
  PROVE  /\ R!Refill \in Int /\ R!Max \in Int /\ R!Refill <= R!Max
         /\ bucket # None => R!Refill <= bucket.tokens + (clock - bucket.last)
<1>1. R!Max \in Int
  BY LimitsAssumption DEF LimitsAssumption, R!Max
<1> QED
  BY <1>1 DEF LimiterInv, R!Refill

\* An access that takes the tokens of n requests and counts them.
LEMMA AccessKeeps ==
  ASSUME LimiterInv, NEW n \in {0, 1}, R!Count(n), UNCHANGED clock,
         bucket' = [tokens |-> R!Refill - n * Cost, last |-> clock]
  PROVE  /\ LimiterInv'
         /\ window' # None =>
              /\ window' \in [from : Int, count : Int]
              /\ window'.count * Cost + (R!Refill - n * Cost) <= R!Max + (clock - window'.from)
<1> DEFINE refill == R!Refill
           top == R!Max
<1>1. /\ refill \in Int /\ top \in Int /\ refill <= top
      /\ bucket # None => refill <= bucket.tokens + (clock - bucket.last)
      /\ clock \in Int /\ Cost \in Int
  BY RefillBounded, LimitsAssumption DEF LimiterInv, LimitsAssumption
<1>2. n * Cost = IF n = 1 THEN Cost ELSE 0
  BY <1>1
<1>3. bucket' \in [tokens : Int, last : Int] /\ bucket' # None
      /\ bucket'.tokens = refill - n * Cost /\ bucket'.last = clock
  BY <1>1, <1>2, LimitsAssumption DEF LimitsAssumption
<1> HIDE DEF refill, top
<1>4. CASE window' = [from |-> clock, count |-> n]
  <2>1. window' \in [from : Int, count : Int] /\ window'.count * Cost = n * Cost /\ window'.from = clock
    BY <1>1, <1>4
  <2>2. window'.count * Cost + (refill - n * Cost) <= top + (clock - window'.from)
    BY <1>1, <1>2, <2>1
  <2> QED
    BY <1>1, <1>2, <1>3, <2>1, <2>2 DEF LimiterInv, refill, top, R!Max
<1>5. CASE window # None /\ window' = [window EXCEPT !.count = @ + n]
  <2>1. /\ window \in [from : Int, count : Int] /\ bucket \in [tokens : Int, last : Int] /\ bucket # None
        /\ window.count * Cost + bucket.tokens <= top + (bucket.last - window.from)
    BY <1>5 DEF LimiterInv, top
  <2>2. window' \in [from : Int, count : Int] /\ window'.count = window.count + n /\ window'.from = window.from
    BY <1>5, <2>1
  <2>3. window'.count * Cost = window.count * Cost + n * Cost /\ window.count * Cost \in Int
    BY <1>1, <1>2, <2>1, <2>2, OneMore
  <2>4. window'.count * Cost + (refill - n * Cost) <= top + (clock - window'.from)
    BY <1>1, <1>2, <2>1, <2>2, <2>3
  <2> QED
    BY <1>1, <1>2, <1>3, <2>2, <2>4 DEF LimiterInv, refill, top, R!Max
<1>6. CASE window = None /\ UNCHANGED window
  BY <1>1, <1>3, <1>6 DEF LimiterInv
<1> QED
  BY <1>4, <1>5, <1>6 DEF R!Count

LEMMA LimiterStep ==
  ASSUME LimiterInv, R!Next \/ UNCHANGED rVars
  PROVE  LimiterInv' /\ (R!Admit /\ window' # None => window'.count * Cost <= R!Max + (clock - window'.from))
<1> USE LimitsAssumption DEF LimitsAssumption
<1>1. CASE R!Admit
  <2>1. bucket' = [tokens |-> R!Refill - 1 * Cost, last |-> clock] /\ R!Count(1) /\ UNCHANGED clock /\ R!Refill >= Cost
    BY <1>1 DEF R!Admit
  <2>2. /\ LimiterInv'
        /\ window' # None =>
             /\ window' \in [from : Int, count : Int]
             /\ window'.count * Cost + (R!Refill - 1 * Cost) <= R!Max + (clock - window'.from)
    BY <2>1, AccessKeeps
  <2>3. R!Refill \in Int /\ R!Max \in Int /\ clock \in Int
    BY RefillBounded DEF LimiterInv
  <2>4. ASSUME window' # None
        PROVE  window'.count * Cost <= R!Max + (clock - window'.from)
    <3>1. window'.count * Cost \in Int /\ window'.from \in Int
      BY <2>2, <2>4, OneMore
    <3> QED
      BY <2>1, <2>2, <2>3, <2>4, <3>1
  <2> QED
    BY <2>2, <2>4
<1>2. CASE R!Deny
  <2>1. bucket' = [tokens |-> R!Refill - 0 * Cost, last |-> clock] /\ R!Count(0) /\ UNCHANGED clock
    BY <1>2, RefillBounded DEF R!Deny
  <2>2. LimiterInv'
    BY <2>1, AccessKeeps
  <2>3. ~R!Admit
    BY <1>2, RefillBounded DEF R!Admit, R!Deny
  <2> QED
    BY <2>2, <2>3
<1>3. CASE ~R!Admit /\ ~R!Deny
  <2>1. clock' \in Int /\ UNCHANGED <<bucket, window>>
    BY <1>3 DEF R!Next, R!Tick, R!SetClock, rVars, LimiterInv
  <2> QED
    BY <1>3, <2>1 DEF LimiterInv, R!Max
<1> QED
  BY <1>1, <1>2, <1>3

-----------------------------------------------------------------------------
(* HttpRequests: the status line. *)

\* Nothing has been sent before the handler runs, and nothing is left to send when the request is done.
StatusInv ==
  /\ heads \in {0, 1}
  /\ wait \in {"callback", "health", "body"} => heads = 0
  /\ wait = "done" => heads = 1

LEMMA StatusInit ==
  ASSUME H!Init
  PROVE  StatusInv
  BY DEF H!Init, StatusInv

LEMMA StatusStep ==
  ASSUME StatusInv, H!Next \/ UNCHANGED hVars
  PROVE  StatusInv'
<1> USE DEF StatusInv
<1>1. CASE H!Receive
  BY <1>1 DEF H!Receive, H!Answer, H!JsonRpcError
<1>2. CASE H!Health
  BY <1>2 DEF H!Health, H!Answer
<1>3. CASE H!Chunk
  BY <1>3 DEF H!Chunk, H!JsonRpcError
<1>4. CASE H!EndOfBody \/ H!BodyBreaks
  BY <1>4 DEF H!EndOfBody, H!BodyBreaks, H!JsonRpcError
<1>5. CASE H!HandlerBegins \/ H!HandlerEnds \/ H!HandlerThrows
  BY <1>5 DEF H!HandlerBegins, H!HandlerEnds, H!HandlerThrows, H!JsonRpcError
<1>6. CASE H!Another \/ UNCHANGED hVars
  BY <1>6 DEF H!Another, hVars
<1> QED
  BY <1>1, <1>2, <1>3, <1>4, <1>5, <1>6 DEF H!Next

-----------------------------------------------------------------------------
(* ProcessRun: what a settled promise says. *)

ProcessFlags ==
  /\ truncate \in BOOLEAN /\ spawned \in BOOLEAN /\ alive \in BOOLEAN
  /\ deadline \in BOOLEAN /\ ended \in BOOLEAN /\ stdoutTruncated \in BOOLEAN

ProcessNumbers ==
  /\ written \in Nat /\ read \in Nat /\ kept \in Nat /\ stdoutSize \in Nat /\ read <= written
  /\ code \in Int

\* What has been kept is all that was read, until a limit is crossed.
KeptTold ==
  /\ stdoutTruncated => truncate /\ kept = MaxStdout /\ written > MaxStdout
  /\ ~stdoutTruncated /\ (truncate \/ promise = "pending") => kept = read /\ stdoutSize = read

\* A promise is settled once, when the process is dead; with a result at its close.
SettledOnce ==
  /\ alive => spawned
  /\ promise # "pending" => ~alive
  /\ promise = "resolved" => ended /\ P!ResultTrue

ProcessInv == ProcessFlags /\ ProcessNumbers /\ KeptTold /\ SettledOnce

LEMMA ProcessInit ==
  ASSUME P!Init
  PROVE  ProcessInv
<1>1. ProcessFlags
  BY DEF P!Init, ProcessFlags
<1>2. ProcessNumbers /\ KeptTold /\ SettledOnce
  BY DEF P!Init, ProcessNumbers, KeptTold, SettledOnce
<1> QED
  BY <1>1, <1>2 DEF ProcessInv

LEMMA ProcessStep ==
  ASSUME ProcessInv, P!Next \/ UNCHANGED pVars
  PROVE  ProcessInv'
<1>0. MaxStdout \in Nat
  BY LimitsAssumption DEF LimitsAssumption
<1> USE <1>0 DEF ProcessInv, P!KillStops, P!Reject
<1>1. CASE P!Write
  BY <1>1 DEF P!Write, ProcessFlags, ProcessNumbers, KeptTold, SettledOnce, P!ResultTrue
<1>2. CASE P!Exit
  <2>1. ProcessFlags'
    BY <1>2 DEF P!Exit, ProcessFlags
  <2>2. ProcessNumbers'
    BY <1>2 DEF P!Exit, ProcessNumbers
  <2>3. KeptTold'
    BY <1>2 DEF P!Exit, ProcessNumbers, KeptTold
  <2>4. SettledOnce'
    BY <1>2 DEF P!Exit, ProcessFlags, ProcessNumbers, KeptTold, SettledOnce, P!ResultTrue
  <2> QED
    BY <2>1, <2>2, <2>3, <2>4
<1>3. CASE P!Timeout
  <2>1. ProcessFlags'
    BY <1>3 DEF P!Timeout, ProcessFlags
  <2>2. ProcessNumbers'
    BY <1>3 DEF P!Timeout, ProcessNumbers
  <2>3. KeptTold'
    BY <1>3 DEF P!Timeout, ProcessNumbers, KeptTold
  <2>4. SettledOnce'
    BY <1>3 DEF P!Timeout, ProcessFlags, ProcessNumbers, KeptTold, SettledOnce, P!ResultTrue
  <2> QED
    BY <2>1, <2>2, <2>3, <2>4
<1>4. CASE P!Data
  <2>1. ProcessFlags'
    BY <1>4 DEF P!Data, P!Truncate, P!TooMuch, ProcessFlags
  <2>2. ProcessNumbers'
    BY <1>4 DEF P!Data, P!Truncate, P!TooMuch, ProcessNumbers
  <2>3. KeptTold'
    BY <1>4 DEF P!Data, P!Truncate, P!TooMuch, ProcessNumbers, KeptTold
  <2>4. SettledOnce'
    BY <1>4 DEF P!Data, P!Truncate, P!TooMuch, ProcessFlags, ProcessNumbers, KeptTold, SettledOnce, P!ResultTrue
  <2> QED
    BY <2>1, <2>2, <2>3, <2>4
<1>5. CASE P!SpawnError
  <2>1. ProcessFlags'
    BY <1>5 DEF P!SpawnError, ProcessFlags
  <2>2. ProcessNumbers'
    BY <1>5 DEF P!SpawnError, ProcessNumbers
  <2>3. KeptTold'
    BY <1>5 DEF P!SpawnError, ProcessNumbers, KeptTold
  <2>4. SettledOnce'
    BY <1>5 DEF P!SpawnError, ProcessFlags, ProcessNumbers, KeptTold, SettledOnce, P!ResultTrue
  <2> QED
    BY <2>1, <2>2, <2>3, <2>4
<1>6. CASE P!Close
  <2>1. ProcessFlags'
    BY <1>6 DEF P!Close, ProcessFlags
  <2>2. ProcessNumbers'
    BY <1>6 DEF P!Close, ProcessNumbers
  <2>3. KeptTold'
    BY <1>6 DEF P!Close, ProcessNumbers, KeptTold
  <2>4. SettledOnce'
    <3>1. CASE promise # "pending"
      BY <1>6, <3>1 DEF P!Close, SettledOnce, P!ResultTrue
    <3>2. CASE promise = "pending" /\ code # 0 /\ ~stdoutTruncated
      BY <1>6, <3>2 DEF P!Close, SettledOnce
    <3>3. CASE promise = "pending" /\ (code = 0 \/ stdoutTruncated)
      <4>1. run' = [kept |-> kept, code |-> code, whole |-> ~stdoutTruncated] /\ ended' = TRUE
            /\ read = written /\ UNCHANGED <<alive, spawned, truncate, written>> /\ ~alive
        BY <1>6, <3>3 DEF P!Close
      <4>2. run'.whole = ~stdoutTruncated /\ run'.kept = kept /\ run'.code = code
        BY <4>1
      <4>3. P!ResultTrue'
        BY <3>3, <4>1, <4>2 DEF ProcessNumbers, KeptTold, P!ResultTrue
      <4> QED
        BY <4>1, <4>3 DEF SettledOnce
    <3> QED
      BY <3>1, <3>2, <3>3
  <2> QED
    BY <2>1, <2>2, <2>3, <2>4
<1>7. CASE UNCHANGED pVars
  BY <1>7 DEF pVars, ProcessFlags, ProcessNumbers, KeptTold, SettledOnce, P!ResultTrue
<1> QED
  BY <1>1, <1>2, <1>3, <1>4, <1>5, <1>6, <1>7 DEF P!Next

-----------------------------------------------------------------------------
(* ResponseBody: what is held of a response, and what is returned. *)

BodyFlags ==
  /\ late \in BOOLEAN /\ terminal \in BOOLEAN
  /\ response.state \in {"pending", "complete", "failed"}
  /\ caller \in {"send", "get", "got", "returned", "failed"}

BodyNumbers ==
  /\ body.bytes \in Nat /\ response.bytes \in Nat
  /\ arrived \in Nat /\ output \in Nat /\ received \in Nat /\ arrived <= body.bytes

\* What arrives is held, up to the limit, until the body has ended; then nothing is.
HeldTold ==
  /\ terminal <=> response.state # "pending"
  /\ terminal => output = 0
  /\ ~terminal => output = received /\ received = arrived /\ received <= MaxResponseBytes
  /\ stream \in {"connect", "headers", "subscribe"} => arrived = 0 /\ subscription = "none"
  /\ terminal /\ subscription = "active" => stream = "eof"

\* Only a complete body is handed to the caller, and a caller that gives up ends it.
CallerTold ==
  /\ response.state = "complete" => response.bytes = body.bytes /\ body.bytes <= MaxResponseBytes
  /\ caller \in {"got", "returned"} => response.state = "complete"
  /\ caller = "failed" => terminal
  /\ caller = "send" => stream = "connect"

BodyInv == BodyFlags /\ BodyNumbers /\ HeldTold /\ CallerTold

LEMMA BodyInit ==
  ASSUME B!Init
  PROVE  BodyInv
<1>1. Sent \in Nat /\ MaxResponseBytes \in Nat
  BY LimitsAssumption DEF LimitsAssumption
<1>2. BodyFlags /\ BodyNumbers
  <2>1. BodyFlags
    BY DEF B!Init, BodyFlags
  <2>2. BodyNumbers
    BY <1>1 DEF B!Init, B!Lengths, BodyNumbers
  <2> QED
    BY <2>1, <2>2
<1>3. HeldTold
  BY <1>1 DEF B!Init, HeldTold
<1>4. CallerTold
  BY DEF B!Init, CallerTold
<1> QED
  BY <1>2, <1>3, <1>4 DEF BodyInv

\* fail() ends the body, or finds it ended; whichever way the stream goes on.
LEMMA FailKeeps ==
  ASSUME BodyInv, B!Fail, caller' \in {caller, "failed"}, UNCHANGED <<late, body, received>>,
         arrived' \in Nat, arrived' <= body.bytes, stream = "eof" => stream' = "eof",
         stream = "connect" => stream' = "connect",
         stream' \in {"connect", "headers", "subscribe"} => arrived' = 0 /\ subscription = "none"
  PROVE  BodyInv'
<1> USE DEF BodyInv
<1>1. CASE terminal /\ UNCHANGED <<output, subscription, terminal, response>>
  BY <1>1 DEF BodyFlags, BodyNumbers, HeldTold, CallerTold
<1>2. CASE /\ ~terminal /\ terminal' = TRUE /\ output' = 0
           /\ response' = [state |-> "failed", bytes |-> 0]
           /\ subscription' = IF subscription = "active" THEN "cancelled" ELSE subscription
  <2>1. response'.state = "failed" /\ response'.bytes = 0
    BY <1>2
  <2>2. BodyFlags'
    BY <1>2, <2>1 DEF BodyFlags
  <2>3. BodyNumbers'
    BY <1>2, <2>1 DEF BodyNumbers
  <2>4. HeldTold' /\ CallerTold'
    BY <1>2, <2>1 DEF BodyFlags, HeldTold, CallerTold
  <2> QED
    BY <2>2, <2>3, <2>4
<1> QED
  BY <1>1, <1>2 DEF B!Fail

LEMMA BodyStep ==
  ASSUME BodyInv, B!Next \/ UNCHANGED bVars
  PROVE  BodyInv'
<1>0. MaxResponseBytes \in Nat
  BY LimitsAssumption DEF LimitsAssumption
<1> USE <1>0 DEF BodyInv
<1>1. CASE B!DeadlinePasses
  <2>1. BodyFlags'
    BY <1>1 DEF B!DeadlinePasses, BodyFlags
  <2>2. BodyNumbers'
    BY <1>1 DEF B!DeadlinePasses, BodyNumbers, HeldTold
  <2>3. HeldTold'
    BY <1>1 DEF B!DeadlinePasses, BodyFlags, BodyNumbers, HeldTold
  <2>4. CallerTold'
    BY <1>1 DEF B!DeadlinePasses, BodyFlags, BodyNumbers, HeldTold, CallerTold
  <2> QED
    BY <2>1, <2>2, <2>3, <2>4
<1>2. CASE B!Send
  <2>1. CASE B!GiveUp
    <3>1. B!Fail /\ caller' = "failed"
      BY <2>1, Zenon DEF B!GiveUp
    <3>2. UNCHANGED <<late, body, stream, arrived, received>>
      BY <1>2, <2>1, <3>1 DEF B!Send
    <3> QED
      BY <3>1, <3>2, FailKeeps DEF BodyNumbers, HeldTold
  <2>2. CASE caller' = "get" /\ UNCHANGED <<output, subscription, terminal, response, cancelled>>
    <3>1. BodyFlags'
      BY <1>2, <2>2 DEF B!Send, BodyFlags
    <3>2. BodyNumbers'
      BY <1>2, <2>2 DEF B!Send, BodyNumbers, HeldTold
    <3>3. HeldTold'
      BY <1>2, <2>2 DEF B!Send, HeldTold, CallerTold
    <3>4. CallerTold'
      BY <1>2, <2>2 DEF B!Send, BodyFlags, BodyNumbers, HeldTold, CallerTold
    <3> QED
      BY <3>1, <3>2, <3>3, <3>4
  <2> QED
    BY <1>2, <2>1, <2>2 DEF B!Send
<1>3. CASE B!Get
  <2>1. CASE B!GiveUp
    <3>1. B!Fail /\ caller' = "failed"
      BY <2>1, Zenon DEF B!GiveUp
    <3>2. UNCHANGED <<late, body, stream, arrived, received>>
      BY <1>3, <2>1, <3>1 DEF B!Get
    <3> QED
      BY <3>1, <3>2, FailKeeps DEF BodyNumbers, HeldTold
  <2>2. CASE response.state = "complete" /\ caller' = "got" /\ UNCHANGED <<output, subscription, terminal, response, cancelled>>
    <3>1. BodyFlags'
      BY <1>3, <2>2 DEF B!Get, BodyFlags
    <3>2. BodyNumbers'
      BY <1>3, <2>2 DEF B!Get, BodyNumbers, HeldTold
    <3>3. HeldTold'
      BY <1>3, <2>2 DEF B!Get, BodyFlags, BodyNumbers, HeldTold
    <3>4. CallerTold'
      BY <1>3, <2>2 DEF B!Get, BodyFlags, BodyNumbers, HeldTold, CallerTold
    <3> QED
      BY <3>1, <3>2, <3>3, <3>4
  <2> QED
    BY <1>3, <2>1, <2>2 DEF B!Get
<1>4. CASE B!Return
  <2>1. CASE B!GiveUp
    <3>1. B!Fail /\ caller' = "failed"
      BY <2>1, Zenon DEF B!GiveUp
    <3>2. UNCHANGED <<late, body, stream, arrived, received>>
      BY <1>4, <2>1, <3>1 DEF B!Return
    <3> QED
      BY <3>1, <3>2, FailKeeps DEF BodyNumbers, HeldTold
  <2>2. CASE caller' = "returned" /\ UNCHANGED <<output, subscription, terminal, response, cancelled>>
    <3>1. BodyFlags'
      BY <1>4, <2>2 DEF B!Return, BodyFlags
    <3>2. BodyNumbers'
      BY <1>4, <2>2 DEF B!Return, BodyNumbers, HeldTold
    <3>3. HeldTold'
      BY <1>4, <2>2 DEF B!Return, BodyFlags, BodyNumbers, HeldTold
    <3>4. CallerTold'
      BY <1>4, <2>2 DEF B!Return, BodyFlags, BodyNumbers, HeldTold, CallerTold
    <3> QED
      BY <3>1, <3>2, <3>3, <3>4
  <2> QED
    BY <1>4, <2>1, <2>2 DEF B!Return
<1>5. CASE B!Headers
  <2>1. CASE B!Fail
    BY <1>5, <2>1, FailKeeps DEF B!Headers, BodyFlags, BodyNumbers, HeldTold
  <2>2. CASE UNCHANGED <<output, subscription, terminal, response>>
    <3>1. BodyFlags'
      BY <1>5, <2>2 DEF B!Headers, BodyFlags
    <3>2. BodyNumbers'
      BY <1>5, <2>2 DEF B!Headers, BodyNumbers, HeldTold
    <3>3. HeldTold'
      BY <1>5, <2>2 DEF B!Headers, BodyFlags, BodyNumbers, HeldTold
    <3>4. CallerTold'
      BY <1>5, <2>2 DEF B!Headers, BodyFlags, BodyNumbers, HeldTold, CallerTold
    <3> QED
      BY <3>1, <3>2, <3>3, <3>4
  <2> QED
    BY <1>5, <2>1, <2>2 DEF B!Headers
<1>6. CASE B!OnSubscribe
  <2>1. BodyFlags'
    BY <1>6 DEF B!OnSubscribe, BodyFlags
  <2>2. BodyNumbers'
    BY <1>6 DEF B!OnSubscribe, BodyNumbers, HeldTold
  <2>3. HeldTold'
    BY <1>6 DEF B!OnSubscribe, B!Accepts, BodyFlags, BodyNumbers, HeldTold
  <2>4. CallerTold'
    BY <1>6 DEF B!OnSubscribe, BodyFlags, BodyNumbers, HeldTold, CallerTold
  <2> QED
    BY <2>1, <2>2, <2>3, <2>4
<1>7. CASE B!OnNext
  <2>1. PICK n \in 1..(body.bytes - arrived) :
          /\ arrived' = arrived + n
          /\ IF terminal THEN UNCHANGED <<output, received, subscription, terminal, response>>
             ELSE IF late \/ n > MaxResponseBytes - received THEN B!Fail /\ UNCHANGED received
             ELSE /\ output' = output + n /\ received' = received + n
                  /\ UNCHANGED <<subscription, terminal, response>>
    BY <1>7 DEF B!OnNext
  <2>2. stream = "flow" /\ UNCHANGED <<late, body, caller, stream, cancelled>>
    BY <1>7 DEF B!OnNext
  <2>3. arrived' \in Nat /\ arrived' <= body.bytes
    BY <2>1 DEF BodyNumbers
  <2>4. CASE B!Fail /\ UNCHANGED received
    BY <2>2, <2>3, <2>4, FailKeeps DEF BodyNumbers
  <2>5. CASE terminal /\ UNCHANGED <<output, received, subscription, terminal, response>>
    <3>1. BodyFlags' /\ CallerTold'
      BY <2>2, <2>5 DEF BodyFlags, CallerTold
    <3>2. BodyNumbers' /\ HeldTold'
      BY <2>2, <2>3, <2>5 DEF BodyNumbers, HeldTold
    <3> QED
      BY <3>1, <3>2
  <2>6. CASE /\ ~terminal /\ n <= MaxResponseBytes - received
             /\ output' = output + n /\ received' = received + n
             /\ UNCHANGED <<subscription, terminal, response>>
    <3>1. BodyFlags' /\ CallerTold'
      BY <2>2, <2>6 DEF BodyFlags, CallerTold
    <3>2. BodyNumbers' /\ HeldTold'
      BY <2>1, <2>2, <2>3, <2>6 DEF BodyNumbers, HeldTold
    <3> QED
      BY <3>1, <3>2
  <2> QED
    BY <2>1, <2>4, <2>5, <2>6 DEF BodyNumbers
<1>8. CASE B!OnComplete
  <2>1. stream = "flow" /\ arrived = body.bytes /\ stream' = "eof"
        /\ UNCHANGED <<late, body, caller, arrived, received>>
    BY <1>8 DEF B!OnComplete
  <2>2. CASE B!Fail
    BY <2>1, <2>2, FailKeeps DEF BodyNumbers
  <2>3. CASE terminal /\ UNCHANGED <<output, subscription, terminal, response>>
    <3>1. BodyFlags' /\ CallerTold'
      BY <2>1, <2>3 DEF BodyFlags, CallerTold
    <3>2. BodyNumbers' /\ HeldTold'
      BY <2>1, <2>3 DEF BodyNumbers, HeldTold
    <3> QED
      BY <3>1, <3>2
  <2>4. CASE /\ ~terminal /\ terminal' = TRUE /\ output' = 0 /\ UNCHANGED subscription
             /\ response' = [state |-> "complete", bytes |-> output]
    <3>1. response'.state = "complete" /\ response'.bytes = output
      BY <2>4
    <3>2. BodyFlags'
      BY <2>1, <2>4, <3>1 DEF BodyFlags
    <3>3. BodyNumbers'
      BY <2>1, <2>4, <3>1 DEF BodyNumbers
    <3>4. HeldTold' /\ CallerTold'
      BY <2>1, <2>4, <3>1 DEF BodyNumbers, HeldTold, CallerTold
    <3> QED
      BY <3>2, <3>3, <3>4
  <2> QED
    BY <1>8, <2>2, <2>3, <2>4 DEF B!OnComplete
<1>9. CASE B!Breaks
  <2>1. CASE B!Fail
    BY <1>9, <2>1, FailKeeps DEF B!Breaks, BodyFlags, BodyNumbers, HeldTold
  <2>2. CASE UNCHANGED <<output, subscription, terminal, response>>
    <3>1. BodyFlags'
      BY <1>9, <2>2 DEF B!Breaks, BodyFlags
    <3>2. BodyNumbers'
      BY <1>9, <2>2 DEF B!Breaks, BodyNumbers, HeldTold
    <3>3. HeldTold'
      BY <1>9, <2>2 DEF B!Breaks, BodyFlags, BodyNumbers, HeldTold
    <3>4. CallerTold'
      BY <1>9, <2>2 DEF B!Breaks, BodyFlags, BodyNumbers, HeldTold, CallerTold
    <3> QED
      BY <3>1, <3>2, <3>3, <3>4
  <2> QED
    BY <1>9, <2>1, <2>2 DEF B!Breaks
<1>10. CASE UNCHANGED bVars
  BY <1>10 DEF bVars, BodyFlags, BodyNumbers, HeldTold, CallerTold
<1> QED
  BY <1>1, <1>2, <1>3, <1>4, <1>5, <1>6, <1>7, <1>8, <1>9, <1>10 DEF B!Next

-----------------------------------------------------------------------------
(* AdapterRequests: the permits. *)

Places == {"none", "queued", "start", "acquire", "handler", "caught", "finally"}

\* Each request that waits stands in the queue once.
QueueTold ==
  /\ at \in [A!Request -> Places]
  /\ queue \in Seq(A!Request)
  /\ \A i \in 1..Len(queue) : at[queue[i]] = "queued"
  /\ \A i, j \in 1..Len(queue) : queue[i] = queue[j] => i = j

\* The admitted requests are inside dispatch(), beyond its admission.
AdmittedTold ==
  /\ IsFiniteSet(admitted) /\ admitted \subseteq A!Request
  /\ permits = Active - Cardinality(admitted)
  /\ \A r \in admitted : at[r] \in {"handler", "caught", "finally"}
  /\ \A r \in Business : at[r] = "handler" => r \in admitted

PermitsInv == QueueTold /\ AdmittedTold

LEMMA PermitsInit ==
  ASSUME A!Init
  PROVE  PermitsInv
<1>1. QueueTold
  BY DEF A!Init, QueueTold, Places
<1>2. AdmittedTold
  BY FS_EmptySet, LimitsAssumption DEF A!Init, AdmittedTold, A!Request, LimitsAssumption
<1> QED
  BY <1>1, <1>2 DEF PermitsInv

\* A thread that goes on, and holds what it held.
LEMMA MovesKeeps ==
  ASSUME PermitsInv, NEW r \in A!Request, at[r] \notin {"none", "queued"}, NEW place \in Places \ {"queued"},
         at' = [at EXCEPT ![r] = place], UNCHANGED <<queue, permits, admitted>>,
         r \in admitted => place \in {"handler", "caught", "finally"},
         r \in Business /\ place = "handler" => r \in admitted
  PROVE  PermitsInv'
<1> USE DEF PermitsInv
<1>1. QueueTold'
  BY DEF QueueTold, Places
<1>2. AdmittedTold'
  BY DEF AdmittedTold, QueueTold, A!Request
<1> QED
  BY <1>1, <1>2

LEMMA ArriveKeeps ==
  ASSUME PermitsInv, NEW r \in A!Request, A!Arrive(r)
  PROVE  PermitsInv'
<1> USE DEF PermitsInv
<1>1. at[r] = "none" /\ r \notin admitted /\ UNCHANGED <<permits, admitted>>
  BY DEF A!Arrive, AdmittedTold
<1>2. CASE at' = [at EXCEPT ![r] = "start"] /\ UNCHANGED queue
  <2>1. QueueTold'
    BY <1>1, <1>2 DEF QueueTold, Places
  <2>2. AdmittedTold'
    BY <1>1, <1>2 DEF AdmittedTold, QueueTold, A!Request
  <2> QED
    BY <2>1, <2>2
<1>3. CASE at' = [at EXCEPT ![r] = "queued"] /\ queue' = Append(queue, r)
  <2>1. QueueTold'
    BY <1>1, <1>3 DEF QueueTold, Places
  <2>2. AdmittedTold'
    BY <1>1, <1>3 DEF AdmittedTold, QueueTold, A!Request
  <2> QED
    BY <2>1, <2>2
<1> QED
  BY <1>2, <1>3 DEF A!Arrive

LEMMA DequeueKeeps ==
  ASSUME PermitsInv, A!Dequeue
  PROVE  PermitsInv'
<1> USE DEF PermitsInv
<1>1. queue # <<>> /\ queue \in Seq(A!Request) /\ queue' = Tail(queue) /\ UNCHANGED <<permits, admitted>>
  BY DEF A!Dequeue, QueueTold
<1>2. PICK r \in A!Request : r = queue[1] /\ r = Head(queue)
  BY <1>1
<1>3. at' = [at EXCEPT ![r] = "start"] /\ at[r] = "queued"
  BY <1>1, <1>2 DEF A!Dequeue, QueueTold
<1>4. /\ queue' \in Seq(A!Request) /\ Len(queue') = Len(queue) - 1
      /\ \A i \in 1..Len(queue') : queue'[i] = queue[i + 1] /\ i + 1 \in 1..Len(queue)
  BY <1>1
<1>5. QueueTold'
  BY <1>1, <1>2, <1>3, <1>4 DEF QueueTold, Places
<1>6. AdmittedTold'
  BY <1>1, <1>3 DEF AdmittedTold, QueueTold, A!Request
<1> QED
  BY <1>5, <1>6

\* A permit is taken by a request that has none, and given back by one that has.
LEMMA AcquireKeeps ==
  ASSUME PermitsInv, NEW r \in A!Request, A!Acquire(r)
  PROVE  PermitsInv'
<1> USE DEF PermitsInv
<1>1. at[r] = "acquire" /\ r \notin admitted /\ UNCHANGED queue
  BY DEF A!Acquire, AdmittedTold
<1>2. CASE /\ permits' = permits - 1 /\ admitted' = admitted \cup {r}
           /\ at' = [at EXCEPT ![r] = "handler"]
  <2>1. QueueTold'
    BY <1>1, <1>2 DEF QueueTold, Places
  <2>2. IsFiniteSet(admitted') /\ Cardinality(admitted') = Cardinality(admitted) + 1
        /\ Cardinality(admitted) \in Nat
    BY <1>1, <1>2, FS_AddElement, FS_CardinalityType DEF AdmittedTold
  <2>3. permits' = Active - Cardinality(admitted')
    BY <1>2, <2>2, LimitsAssumption DEF AdmittedTold, LimitsAssumption
  <2>4. AdmittedTold'
    BY <1>1, <1>2, <2>2, <2>3 DEF AdmittedTold, QueueTold, A!Request
  <2> QED
    BY <2>1, <2>4
<1>3. CASE UNCHANGED <<permits, admitted>> /\ \E place \in {"finally", "caught"} : at' = [at EXCEPT ![r] = place]
  BY <1>1, <1>3, MovesKeeps DEF Places
<1> QED
  BY <1>2, <1>3 DEF A!Acquire, A!Answer

LEMMA FinallyKeeps ==
  ASSUME PermitsInv, NEW r \in A!Request, A!Finally(r)
  PROVE  PermitsInv'
<1> USE DEF PermitsInv
<1>1. at[r] = "finally" /\ at' = [at EXCEPT ![r] = "none"] /\ UNCHANGED queue /\ admitted' = admitted \ {r}
  BY DEF A!Finally
<1>2. QueueTold'
  BY <1>1 DEF QueueTold, Places
<1>3. permits' = Active - Cardinality(admitted')
  <2>1. CASE r \in admitted
    <3>1. Cardinality(admitted') = Cardinality(admitted) - 1 /\ Cardinality(admitted) \in Nat
      BY <1>1, <2>1, FS_RemoveElement, FS_CardinalityType DEF AdmittedTold
    <3> QED
      BY <2>1, <3>1, LimitsAssumption DEF A!Finally, AdmittedTold, LimitsAssumption
  <2>2. CASE r \notin admitted
    <3>1. admitted' = admitted
      BY <1>1, <2>2
    <3> QED
      BY <2>2, <3>1 DEF A!Finally, AdmittedTold
  <2> QED
    BY <2>1, <2>2
<1>4. IsFiniteSet(admitted')
  BY <1>1, FS_RemoveElement DEF AdmittedTold
<1>5. AdmittedTold'
  BY <1>1, <1>3, <1>4 DEF AdmittedTold, QueueTold, A!Request
<1> QED
  BY <1>2, <1>5

LEMMA PermitsStep ==
  ASSUME PermitsInv, A!Next \/ UNCHANGED aVars
  PROVE  PermitsInv'
<1>1. CASE A!Dequeue
  BY <1>1, DequeueKeeps
<1>2. ASSUME NEW r \in A!Request, A!Arrive(r)
      PROVE  PermitsInv'
  BY <1>2, ArriveKeeps
<1>3. ASSUME NEW r \in A!Request, A!Start(r)
      PROVE  PermitsInv'
  <2>1. at[r] = "start" /\ r \notin admitted
    BY <1>3 DEF A!Start, PermitsInv, AdmittedTold
  <2>2. PICK place \in {"finally", "caught", "acquire", "handler"} :
          /\ at' = [at EXCEPT ![r] = place] /\ UNCHANGED <<queue, permits, admitted>>
          /\ r \in Business => place # "handler"
    BY <1>3 DEF A!Start, A!Answer
  <2> QED
    BY <2>1, <2>2, MovesKeeps DEF Places
<1>4. ASSUME NEW r \in A!Request, A!Acquire(r)
      PROVE  PermitsInv'
  BY <1>4, AcquireKeeps
<1>5. ASSUME NEW r \in A!Request, A!Handler(r) \/ A!Caught(r)
      PROVE  PermitsInv'
  <2>1. at[r] \in {"handler", "caught"}
    BY <1>5 DEF A!Handler, A!Caught
  <2>2. PICK place \in {"finally", "caught"} :
          at' = [at EXCEPT ![r] = place] /\ UNCHANGED <<queue, permits, admitted>>
    BY <1>5 DEF A!Handler, A!Caught, A!Answer
  <2> QED
    BY <2>1, <2>2, MovesKeeps DEF Places
<1>6. ASSUME NEW r \in A!Request, A!Finally(r)
      PROVE  PermitsInv'
  BY <1>6, FinallyKeeps
<1>7. CASE UNCHANGED aVars
  BY <1>7 DEF aVars, PermitsInv, QueueTold, AdmittedTold
<1> QED
  BY <1>1, <1>2, <1>3, <1>4, <1>5, <1>6, <1>7 DEF A!Next, A!Thread

-----------------------------------------------------------------------------
(* Numbers.                                                                *)

\* A set of numbers has a first one.
LEMMA LeastOne ==
  ASSUME NEW I, I \subseteq Nat, I # {}
  PROVE  \E x \in I : \A y \in I : x <= y
<1> DEFINE Less == OpToRel(<, Nat)
<1>1. PICK x \in I : \A y \in I : ~(<<y, x>> \in Less)
  <2>1. IsWellFoundedOn(Less, Nat)
    BY NatLessThanWellFounded
  <2> HIDE DEF Less
  <2> QED BY <2>1, WFMin
<1>2. \A y \in I : ~(y < x)
  BY <1>1 DEF OpToRel
<1>3. \A y \in I : x <= y
  BY <1>2
<1> QED BY <1>3

\* Induction over the numbers, with the property as a set.
LEMMA Induction ==
  ASSUME NEW S, S \subseteq Nat, 0 \in S, \A n \in S : n + 1 \in S
  PROVE  S = Nat
<1> SUFFICES ASSUME Nat \ S # {} PROVE FALSE
  OBVIOUS
<1>1. PICK m \in Nat \ S : \A n \in Nat \ S : m <= n
  <2>1. Nat \ S \subseteq Nat
    OBVIOUS
  <2> QED BY <2>1, LeastOne
<1>2. m # 0 /\ m - 1 \in Nat /\ m - 1 \in S
  BY <1>1
<1> QED BY <1>2

\* A set of numbers up to n has a last one.
LEMMA LastOne ==
  ASSUME NEW n \in Nat, NEW I, I \subseteq 1..n, I # {}
  PROVE  \E x \in I : \A y \in I : y <= x
<1> DEFINE Q == {k \in Nat : n - k \in I /\ k <= n}
<1>1. ASSUME NEW y \in I PROVE n - y \in Q /\ n - (n - y) = y
  <2>1. y \in 1..n
    OBVIOUS
  <2>2. n - y \in Nat /\ n - (n - y) = y /\ n - y <= n
    BY <2>1
  <2> QED BY <2>2
<1>2. PICK k \in Q : \A j \in Q : k <= j
  <2>1. Q \subseteq Nat
    OBVIOUS
  <2>2. Q # {}
    BY <1>1
  <2> HIDE DEF Q
  <2> QED BY <2>1, <2>2, LeastOne
<1>3. ASSUME NEW y \in I PROVE y <= n - k
  <2>1. y \in 1..n
    OBVIOUS
  <2>2. k <= n - y
    BY <1>1, <1>2
  <2> QED BY <2>1, <2>2
<1> QED BY <1>2, <1>3

-----------------------------------------------------------------------------
(* ExtractedText: trimming. *)

\* What TrimRight leaves ends with the last character outside W.
LEMMA TrimRightTo ==
  ASSUME NEW s \in Seq(T!Char), NEW W, NEW r \in 0..Len(s),
         \A k \in r + 1..Len(s) : s[k] \in W,
         r > 0 => s[r] \notin W
  PROVE  T!TrimRight(s, W) = [k \in 1..r |-> s[k]]
<1> DEFINE I == {k \in 1..Len(s) : s[k] \notin W}
<1>1. T!SelectLastInSeq(s, LAMBDA c : c \notin W) = r
  <2>1. T!SelectLastInSeq(s, LAMBDA c : c \notin W) = IF I # {} THEN T!Max(I) ELSE 0
    BY DEF T!SelectLastInSeq
  <2>2. CASE r = 0
    BY <2>1, <2>2
  <2>3. CASE r > 0
    <3>1. r \in I
      BY <2>3
    <3>2. \A y \in I : r >= y
      OBVIOUS
    <3>3. I \subseteq Nat
      OBVIOUS
    <3> HIDE DEF I
    <3>4. T!Max(I) \in I /\ \A y \in I : T!Max(I) >= y
      <4>1. T!Max(I) = CHOOSE x \in I : \A y \in I : x >= y
        BY DEF T!Max
      <4>2. \E x \in I : \A y \in I : x >= y
        BY <3>1, <3>2
      <4> QED BY <4>1, <4>2, Zenon
    <3>5. T!Max(I) = r
      <4>1. PICK x : x = T!Max(I)
        OBVIOUS
      <4>2. x >= r /\ r >= x /\ x \in Nat /\ r \in Nat
        BY <3>1, <3>2, <3>3, <3>4, <4>1
      <4>3. x = r
        BY <4>2
      <4> QED BY <4>1, <4>3
    <3> QED BY <2>1, <3>1, <3>5
  <2> QED BY <2>2, <2>3
<1>2. SubSeq(s, 1, r) = [k \in 1..r |-> s[k]]
  OBVIOUS
<1> QED BY <1>1, <1>2 DEF T!TrimRight

\* Trim takes the white space from both ends.
LEMMA TrimTo ==
  ASSUME NEW s \in Seq(T!Char), NEW r \in 0..Len(s), NEW f \in 0..r,
         \A k \in 1..f : s[k] \in T!WhiteSpace,
         \A k \in r + 1..Len(s) : s[k] \in T!WhiteSpace,
         f < r => s[f + 1] \notin T!WhiteSpace /\ s[r] \notin T!WhiteSpace
  PROVE  T!Trim(s) = [k \in 1..r - f |-> s[f + k]]
<1> DEFINE e == IF f < r THEN r ELSE 0
           front == [k \in 1..e |-> s[k]]
           back == [k \in 1..e |-> front[e - k + 1]]
           rest == [k \in 1..r - f |-> back[k]]
<1>0. e \in 0..Len(s) /\ r - f \in 0..e
  OBVIOUS
<1>1. T!TrimRight(s, T!WhiteSpace) = front
  <2>1. \A k \in e + 1..Len(s) : s[k] \in T!WhiteSpace
    OBVIOUS
  <2>2. e > 0 => s[e] \notin T!WhiteSpace
    OBVIOUS
  <2> HIDE DEF e
  <2> QED BY <1>0, <2>1, <2>2, TrimRightTo
<1>2. front \in Seq(T!Char) /\ Len(front) = e
  <2> HIDE DEF e
  <2> QED BY <1>0
<1>3. T!Reverse(front) = back
  <2> HIDE DEF front, e
  <2> QED BY <1>2 DEF T!Reverse
<1>4. back \in Seq(T!Char) /\ Len(back) = e
  <2>1. \A k \in 1..e : e - k + 1 \in 1..e
    BY <1>0
  <2>2. \A k \in 1..e : front[e - k + 1] = s[e - k + 1] /\ s[e - k + 1] \in T!Char
    <3> HIDE DEF e
    <3> QED BY <1>0, <2>1
  <2> HIDE DEF e, front
  <2> QED BY <1>0, <2>2
<1>5. \A k \in 1..e : back[k] = s[e - k + 1]
  <2>1. \A k \in 1..e : e - k + 1 \in 1..e
    BY <1>0
  <2> HIDE DEF e
  <2> QED BY <2>1
<1>6. T!TrimRight(back, T!WhiteSpace) = rest
  <2>1. \A k \in r - f + 1..e : e - k + 1 \in 1..f /\ back[k] = s[e - k + 1]
    BY <1>0, <1>5
  <2>2. \A k \in r - f + 1..e : back[k] \in T!WhiteSpace
    <3> HIDE DEF e, back
    <3> QED BY <2>1
  <2>3. r - f > 0 => back[r - f] = s[f + 1]
    <3>1. r - f > 0 => r - f \in 1..e /\ e - (r - f) + 1 = f + 1
      OBVIOUS
    <3> HIDE DEF e, back
    <3> QED BY <1>5, <3>1
  <2>4. r - f > 0 => back[r - f] \notin T!WhiteSpace
    <3> HIDE DEF e, back
    <3> QED BY <2>3
  <2> HIDE DEF e, back
  <2>5. T!TrimRight(back, T!WhiteSpace) = [k \in 1..r - f |-> back[k]]
    BY <1>0, <1>4, <2>2, <2>4, TrimRightTo
  <2> QED BY <2>5
<1>7. \A k \in 1..r - f : rest[k] = back[k] /\ back[k] \in T!Char
  <2> HIDE DEF back, e
  <2> QED BY <1>0, <1>4
<1>8. rest \in Seq(T!Char) /\ Len(rest) = r - f
  <2> HIDE DEF back, e
  <2> QED BY <1>0, <1>7
<1>9. T!Reverse(rest) = [k \in 1..r - f |-> rest[r - f - k + 1]]
  <2> HIDE DEF rest
  <2> QED BY <1>8 DEF T!Reverse
<1>10. \A k \in 1..r - f : rest[r - f - k + 1] = s[f + k]
  <2> TAKE k \in 1..r - f
  <2>1. r - f - k + 1 \in 1..r - f /\ r - f - k + 1 \in 1..e /\ e = r
    BY <1>0
  <2>2. e - (r - f - k + 1) + 1 = f + k
    BY <2>1
  <2>3. rest[r - f - k + 1] = back[r - f - k + 1]
    BY <1>7, <2>1
  <2> HIDE DEF back, e, rest
  <2> QED BY <1>5, <2>1, <2>2, <2>3
<1> HIDE DEF front, back, rest, e
<1> QED BY <1>1, <1>3, <1>6, <1>9, <1>10 DEF T!Trim

-----------------------------------------------------------------------------
(* ExtractedText: the recursions. *)

\* The recursion of Normalize has a solution, and its last value is what is trimmed.
LEMMA PassUnfolds ==
  ASSUME Len(text) \in Nat
  PROVE  \E f : /\ f = [i \in 0..Len(text) |-> IF i = 0 THEN [output |-> <<>>, started |-> FALSE, full |-> FALSE] ELSE T!Turn(f[i - 1], i)]
                /\ T!Normalize = T!Trim(f[Len(text)].output)
<1> DEFINE Value(f, i) == IF i = 0 THEN [output |-> <<>>, started |-> FALSE, full |-> FALSE] ELSE T!Turn(f[i - 1], i)
           Rec(f) == [i \in 0..Len(text) |-> Value(f, i)]
           S == {n \in Nat : \E f : f = [i \in 0..n |-> Value(f, i)]}
<1>1. 0 \in S
  <2> DEFINE g == [i \in 0..0 |-> [output |-> <<>>, started |-> FALSE, full |-> FALSE]]
  <2>1. \A i \in 0..0 : Value(g, i) = [output |-> <<>>, started |-> FALSE, full |-> FALSE]
    OBVIOUS
  <2> HIDE DEF Value
  <2>2. g = [i \in 0..0 |-> Value(g, i)]
    BY <2>1
  <2> HIDE DEF g
  <2>3. \E f : f = [i \in 0..0 |-> Value(f, i)]
    BY <2>2
  <2> QED BY <2>3
<1>2. ASSUME NEW n \in S PROVE n + 1 \in S
  <2>1. n \in Nat
    OBVIOUS
  <2>2. PICK f : f = [i \in 0..n |-> Value(f, i)]
    OBVIOUS
  <2> DEFINE g == [i \in 0..n + 1 |-> IF i = n + 1 THEN Value(f, n + 1) ELSE f[i]]
  <2>3. \A i \in 0..n + 1 : g[i] = Value(g, i)
    <3> TAKE i \in 0..n + 1
    <3>1. CASE i = n + 1
      <4>1. i # 0 /\ i - 1 = n /\ g[n] = f[n]
        BY <2>1, <3>1
      <4> QED BY <2>1, <3>1, <4>1
    <3>2. CASE i \in 0..n /\ i # 0
      <4>1. i - 1 \in 0..n /\ g[i] = f[i] /\ g[i - 1] = f[i - 1]
        BY <2>1, <3>2
      <4>2. f[i] = Value(f, i)
        BY <2>2, <3>2
      <4> QED BY <3>2, <4>1, <4>2
    <3>3. CASE i = 0
      BY <2>1, <2>2, <3>3
    <3> QED BY <2>1, <3>1, <3>2, <3>3
  <2> HIDE DEF Value
  <2>4. g = [i \in 0..n + 1 |-> Value(g, i)]
    BY <2>3
  <2> HIDE DEF g
  <2>5. \E h : h = [i \in 0..n + 1 |-> Value(h, i)]
    <3> WITNESS g
    <3> QED BY <2>4
  <2> QED BY <2>1, <2>5
<1>3. PICK f : f = Rec(f)
  <2>1. S = Nat
    <3> HIDE DEF S
    <3>1. S \subseteq Nat
      BY DEF S
    <3> QED BY <1>1, <1>2, <3>1, Induction
  <2>2. Len(text) \in S
    BY <2>1
  <2> QED BY <2>2
<1>4. T!Normalize = T!Trim((CHOOSE g : g = Rec(g))[Len(text)].output)
  BY DEF T!Normalize
<1>5. PICK h : h = (CHOOSE g : g = Rec(g))
  OBVIOUS
<1>6. h = Rec(h)
  <2> HIDE DEF Rec
  <2> QED BY <1>3, <1>5, Zenon
<1>7. T!Normalize = T!Trim(h[Len(text)].output)
  BY <1>4, <1>5
<1> WITNESS h
<1> QED BY <1>6, <1>7

\* The recursion of Clean has a solution, and its last value is Clean.
LEMMA CleanUnfolds ==
  ASSUME Len(text) \in Nat
  PROVE  \E f : /\ f = [i \in 0..Len(text) |-> IF i = 0 THEN <<>> ELSE IF i \in T!Kept THEN Append(f[i - 1], text[i]) ELSE f[i - 1]]
                /\ T!Clean = f[Len(text)]
<1> DEFINE Value(f, i) == IF i = 0 THEN <<>> ELSE IF i \in T!Kept THEN Append(f[i - 1], text[i]) ELSE f[i - 1]
           Rec(f) == [i \in 0..Len(text) |-> Value(f, i)]
           S == {n \in Nat : \E f : f = [i \in 0..n |-> Value(f, i)]}
<1>1. 0 \in S
  <2> DEFINE g == [i \in 0..0 |-> <<>>]
  <2>1. \A i \in 0..0 : Value(g, i) = <<>>
    OBVIOUS
  <2> HIDE DEF Value
  <2>2. g = [i \in 0..0 |-> Value(g, i)]
    BY <2>1
  <2> HIDE DEF g
  <2>3. \E f : f = [i \in 0..0 |-> Value(f, i)]
    BY <2>2
  <2> QED BY <2>3
<1>2. ASSUME NEW n \in S PROVE n + 1 \in S
  <2>1. n \in Nat
    OBVIOUS
  <2>2. PICK f : f = [i \in 0..n |-> Value(f, i)]
    OBVIOUS
  <2> DEFINE g == [i \in 0..n + 1 |-> IF i = n + 1 THEN Value(f, n + 1) ELSE f[i]]
  <2>3. \A i \in 0..n + 1 : g[i] = Value(g, i)
    <3> TAKE i \in 0..n + 1
    <3>1. CASE i = n + 1
      <4>1. i # 0 /\ i - 1 = n /\ g[n] = f[n]
        BY <2>1, <3>1
      <4> QED BY <2>1, <3>1, <4>1
    <3>2. CASE i \in 0..n /\ i # 0
      <4>1. i - 1 \in 0..n /\ g[i] = f[i] /\ g[i - 1] = f[i - 1]
        BY <2>1, <3>2
      <4>2. f[i] = Value(f, i)
        BY <2>2, <3>2
      <4> QED BY <3>2, <4>1, <4>2
    <3>3. CASE i = 0
      BY <2>1, <2>2, <3>3
    <3> QED BY <2>1, <3>1, <3>2, <3>3
  <2> HIDE DEF Value
  <2>4. g = [i \in 0..n + 1 |-> Value(g, i)]
    BY <2>3
  <2> HIDE DEF g
  <2>5. \E h : h = [i \in 0..n + 1 |-> Value(h, i)]
    <3> WITNESS g
    <3> QED BY <2>4
  <2> QED BY <2>1, <2>5
<1>3. PICK f : f = Rec(f)
  <2>1. S = Nat
    <3> HIDE DEF S
    <3>1. S \subseteq Nat
      BY DEF S
    <3> QED BY <1>1, <1>2, <3>1, Induction
  <2>2. Len(text) \in S
    BY <2>1
  <2> QED BY <2>2
<1>4. T!Clean = (CHOOSE g : g = Rec(g))[Len(text)]
  BY DEF T!Clean
<1>5. PICK h : h = (CHOOSE g : g = Rec(g))
  OBVIOUS
<1>6. h = Rec(h)
  <2> HIDE DEF Rec
  <2> QED BY <1>3, <1>5, Zenon
<1>7. T!Clean = h[Len(text)]
  BY <1>4, <1>5
<1> WITNESS h
<1> QED BY <1>6, <1>7

-----------------------------------------------------------------------------
(* ExtractedText: the characters kept so far. *)

\* Of CR LF only the first ends a line.
Follows(j) == text[j] = "LF" /\ j > 1 /\ text[j - 1] = "CR"

\* Among the first i characters, j is a blank at the end of a line.
Trails(j, i) ==
  /\ text[j] = "blank"
  /\ \E l \in j + 1..i :
       text[l] \in {"CR", "LF"} /\ \A k \in j..l - 1 : text[k] \in {"blank", "control"}

\* What the text would keep if it ended after i characters.
KeptTo(i) == {j \in 1..i : text[j] # "control" /\ ~Follows(j) /\ ~Trails(j, i)}

\* e names them in their order.
Lists(e, m, i) ==
  /\ e \in [1..m -> 1..i]
  /\ \A j, k \in 1..m : j < k => e[j] < e[k]
  /\ KeptTo(i) = {e[k] : k \in 1..m}

LEMMA KeptToEnd ==
  ASSUME Len(text) \in Nat, DOMAIN text = 1..Len(text)
  PROVE  KeptTo(Len(text)) = T!Kept
  BY DEF KeptTo, Trails, Follows, T!Kept, T!TrailsLine

\* A character that goes changes nothing: it ends no line.
LEMMA KeptSame ==
  ASSUME NEW i \in Nat,
         text[i + 1] = "control" \/ Follows(i + 1)
  PROVE  KeptTo(i + 1) = KeptTo(i)
<1>1. i + 1 \notin KeptTo(i + 1)
  BY DEF KeptTo
<1>2. ASSUME NEW j \in 1..i, Trails(j, i + 1) PROVE Trails(j, i)
  <2>1. PICK l \in j + 1..i + 1 :
          text[l] \in {"CR", "LF"} /\ \A k \in j..l - 1 : text[k] \in {"blank", "control"}
    BY <1>2 DEF Trails
  <2>2. l # i + 1
    <3> SUFFICES ASSUME l = i + 1 PROVE FALSE
      OBVIOUS
    <3>1. text[i + 1] # "control" /\ i \in j..l - 1
      BY <2>1
    <3>2. text[i] = "CR"
      BY <3>1 DEF Follows
    <3> QED BY <2>1, <3>1, <3>2
  <2>3. l \in j + 1..i
    BY <2>1, <2>2
  <2> QED BY <1>2, <2>1, <2>3 DEF Trails
<1>3. ASSUME NEW j \in 1..i, Trails(j, i) PROVE Trails(j, i + 1)
  BY <1>3 DEF Trails
<1>4. 1..i + 1 = 1..i \cup {i + 1}
  OBVIOUS
<1> QED BY <1>1, <1>2, <1>3, <1>4 DEF KeptTo

\* A character inside a line is kept, and those before it stay.
LEMMA KeptMore ==
  ASSUME NEW i \in Nat, text[i + 1] \in {"x", "blank", "wide"}
  PROVE  KeptTo(i + 1) = KeptTo(i) \cup {i + 1}
<1>1. i + 1 \in KeptTo(i + 1)
  <2>1. ~Trails(i + 1, i + 1)
    BY DEF Trails
  <2> QED BY <2>1 DEF KeptTo, Follows
<1>2. ASSUME NEW j \in 1..i, Trails(j, i + 1) PROVE Trails(j, i)
  <2>1. PICK l \in j + 1..i + 1 :
          text[l] \in {"CR", "LF"} /\ \A k \in j..l - 1 : text[k] \in {"blank", "control"}
    BY <1>2 DEF Trails
  <2>2. l \in j + 1..i
    BY <2>1
  <2> QED BY <1>2, <2>1, <2>2 DEF Trails
<1>3. ASSUME NEW j \in 1..i, Trails(j, i) PROVE Trails(j, i + 1)
  BY <1>3 DEF Trails
<1>4. 1..i + 1 = 1..i \cup {i + 1}
  OBVIOUS
<1> QED BY <1>1, <1>2, <1>3, <1>4 DEF KeptTo

\* Of the characters listed, those after the first t are blanks.
BlanksAfter(e, m, t) ==
  /\ \A k \in t + 1..m : text[e[k]] = "blank"
  /\ t > 0 => text[e[t]] # "blank"

\* At the end of a line the blanks that were kept last go, whatever was not kept between them.
LEMMA KeptLine ==
  ASSUME text \in Seq(T!Char), NEW i \in 0..Len(text) - 1, T!EndsLine(i + 1),
         NEW m \in Nat, NEW e, Lists(e, m, i), NEW t \in 0..m, BlanksAfter(e, m, t)
  PROVE  KeptTo(i + 1) = {e[k] : k \in 1..t} \cup {i + 1}
<1> USE DEF BlanksAfter
<1>0. i \in Nat /\ i + 1 \in DOMAIN text
  OBVIOUS
<1>1. text[i + 1] \in {"CR", "LF"} /\ ~Follows(i + 1) /\ i + 1 \in 1..i + 1
  BY <1>0 DEF T!EndsLine, Follows
<1>2. i + 1 \in KeptTo(i + 1)
  <2>1. ~Trails(i + 1, i + 1)
    BY <1>1 DEF Trails
  <2> QED BY <1>1, <2>1 DEF KeptTo
<1>3. \A k \in 1..m : e[k] \in 1..i /\ e[k] \in KeptTo(i)
  BY DEF Lists
<1>4. ASSUME NEW k \in t + 1..m PROVE e[k] \notin KeptTo(i + 1)
  <2>1. k \in 1..m /\ text[e[k]] = "blank"
    OBVIOUS
  <2>2. ASSUME NEW j \in e[k]..i, text[j] \notin {"blank", "control"} PROVE FALSE
    <3>1. j \in DOMAIN text /\ j \in 1..i /\ j # e[k]
      BY <1>0, <1>3, <2>1, <2>2
    <3>2. ASSUME NEW h \in e[k]..i, h \in 1..i, h \in KeptTo(i), text[h] # "blank" PROVE FALSE
      <4>1. PICK l \in 1..m : e[l] = h
        BY <3>2 DEF Lists
      <4>2. l <= t
        BY <3>2, <4>1
      <4>3. l < k
        BY <4>2
      <4>4. e[l] < e[k]
        BY <2>1, <4>3 DEF Lists
      <4> QED BY <1>3, <2>1, <4>1, <4>4
    <3>3. CASE ~Follows(j)
      <4>1. ~Trails(j, i)
        BY <2>2 DEF Trails
      <4>2. j \in KeptTo(i)
        BY <2>2, <3>1, <3>3, <4>1 DEF KeptTo
      <4> QED BY <2>2, <3>1, <3>2, <4>2
    <3>4. CASE Follows(j)
      <4>1. text[j - 1] = "CR" /\ j - 1 \in e[k]..i /\ j - 1 \in 1..i
        BY <1>3, <2>1, <3>1, <3>4 DEF Follows
      <4>2. ~Trails(j - 1, i) /\ ~Follows(j - 1)
        BY <4>1 DEF Trails, Follows
      <4>3. j - 1 \in KeptTo(i)
        BY <4>1, <4>2 DEF KeptTo
      <4> QED BY <3>2, <4>1, <4>3
    <3> QED BY <3>3, <3>4
  <2>3. Trails(e[k], i + 1)
    <3>1. i + 1 \in e[k] + 1..i + 1
      BY <1>3, <2>1
    <3>2. \A j \in e[k]..(i + 1) - 1 : text[j] \in {"blank", "control"}
      BY <1>0, <2>2
    <3> QED BY <1>1, <2>1, <3>1, <3>2 DEF Trails
  <2> QED BY <2>3 DEF KeptTo
<1>5. ASSUME NEW k \in 1..t PROVE e[k] \in KeptTo(i + 1)
  <2>1. k \in 1..m /\ t \in 1..m
    OBVIOUS
  <2>2. e[t] \in e[k]..i
    <3>1. CASE k = t
      BY <1>3, <2>1, <3>1
    <3>2. CASE k < t
      BY <1>3, <2>1, <3>2 DEF Lists
    <3> QED BY <3>1, <3>2
  <2>3. text[e[t]] \notin {"blank", "control"}
    <3>1. e[t] \in KeptTo(i)
      BY <1>3, <2>1
    <3> QED BY <3>1 DEF KeptTo
  <2>4. ~Trails(e[k], i + 1)
    <3> SUFFICES ASSUME Trails(e[k], i + 1) PROVE FALSE
      OBVIOUS
    <3>1. PICK l \in e[k] + 1..i + 1 :
            text[l] \in {"CR", "LF"} /\ \A j \in e[k]..l - 1 : text[j] \in {"blank", "control"}
      BY DEF Trails
    <3>2. l # i + 1
      <4> SUFFICES ASSUME l = i + 1 PROVE FALSE
        OBVIOUS
      <4>1. e[t] \in e[k]..l - 1
        BY <1>0, <2>2
      <4> QED BY <2>3, <3>1, <4>1
    <3>3. l \in e[k] + 1..i
      BY <1>0, <1>3, <2>1, <3>1, <3>2
    <3>4. Trails(e[k], i)
      BY <3>1, <3>3 DEF Trails
    <3> QED BY <1>3, <2>1, <3>4 DEF KeptTo
  <2>5. e[k] \in 1..i + 1 /\ text[e[k]] # "control" /\ ~Follows(e[k])
    <3>1. e[k] \in KeptTo(i) /\ e[k] \in 1..i
      BY <1>3, <2>1
    <3> QED BY <3>1 DEF KeptTo
  <2> QED BY <2>4, <2>5 DEF KeptTo
<1>6. ASSUME NEW j \in KeptTo(i + 1), j # i + 1 PROVE \E k \in 1..t : e[k] = j
  <2>1. j \in 1..i /\ text[j] # "control" /\ ~Follows(j) /\ ~Trails(j, i + 1)
    BY <1>6 DEF KeptTo
  <2>2. ~Trails(j, i)
    BY <2>1 DEF Trails
  <2>3. j \in KeptTo(i)
    BY <2>1, <2>2 DEF KeptTo
  <2>4. PICK k \in 1..m : e[k] = j
    BY <2>3 DEF Lists
  <2>5. ~(k \in t + 1..m)
    BY <1>4, <2>4
  <2>6. k \in 1..t
    BY <2>5
  <2> QED BY <2>4, <2>6
<1> QED BY <1>2, <1>5, <1>6

LEMMA ListSame ==
  ASSUME NEW i \in Nat, NEW m \in Nat, NEW e, Lists(e, m, i), KeptTo(i + 1) = KeptTo(i)
  PROVE  Lists(e, m, i + 1)
<1>1. 1..i \subseteq 1..i + 1
  OBVIOUS
<1>2. e \in [1..m -> 1..i + 1]
  BY <1>1 DEF Lists
<1> QED BY <1>2 DEF Lists

\* The list goes on with the next character after its first t.
More(e, t, i) == [k \in 1..t + 1 |-> IF k = t + 1 THEN i + 1 ELSE e[k]]

LEMMA ListMore ==
  ASSUME NEW i \in Nat, NEW m \in Nat, NEW e, Lists(e, m, i), NEW t \in 0..m,
         KeptTo(i + 1) = {e[k] : k \in 1..t} \cup {i + 1}
  PROVE  Lists(More(e, t, i), t + 1, i + 1)
<1> DEFINE d == More(e, t, i)
<1>1. \A k \in 1..t + 1 : d[k] = IF k = t + 1 THEN i + 1 ELSE e[k]
  BY DEF More
<1>2. \A k \in 1..t : k \in 1..m /\ e[k] \in 1..i /\ d[k] = e[k]
  BY <1>1 DEF Lists
<1>3. d[t + 1] = i + 1 /\ t + 1 \in 1..t + 1
  BY <1>1
<1>4. d \in [1..t + 1 -> 1..i + 1]
  <2>1. \A k \in 1..t + 1 : (IF k = t + 1 THEN i + 1 ELSE e[k]) \in 1..i + 1
    BY <1>2
  <2> QED BY <2>1 DEF More
<1>5. ASSUME NEW j \in 1..t + 1, NEW k \in 1..t + 1, j < k PROVE d[j] < d[k]
  <2>1. j \in 1..t
    BY <1>5
  <2>2. CASE k = t + 1
    BY <1>2, <1>3, <2>1, <2>2
  <2>3. CASE k \in 1..t
    BY <1>2, <1>5, <2>1, <2>3 DEF Lists
  <2> QED BY <2>2, <2>3
<1>6. KeptTo(i + 1) = {d[k] : k \in 1..t + 1}
  <2>1. \A k \in 1..t + 1 : k \in 1..t \/ k = t + 1
    OBVIOUS
  <2>2. 1..t \subseteq 1..t + 1
    OBVIOUS
  <2> HIDE DEF d
  <2> QED BY <1>2, <1>3, <2>1, <2>2
<1> HIDE DEF d
<1>7. Lists(d, t + 1, i + 1)
  BY <1>4, <1>5, <1>6 DEF Lists
<1> QED BY <1>7 DEF d

\* What the next character does to the list.
LEMMA ListNext ==
  ASSUME text \in Seq(T!Char), NEW i \in 0..Len(text) - 1, NEW m \in Nat, NEW e, Lists(e, m, i)
  PROVE  \E t \in 0..m :
           \/ /\ text[i + 1] = "control" \/ Follows(i + 1)
              /\ ~T!EndsLine(i + 1) /\ t = m /\ Lists(e, m, i + 1)
           \/ /\ T!EndsLine(i + 1)
              /\ BlanksAfter(e, m, t)
              /\ Lists(More(e, t, i), t + 1, i + 1)
           \/ /\ text[i + 1] \in {"x", "blank", "wide"} /\ ~T!EndsLine(i + 1)
              /\ t = m /\ Lists(More(e, m, i), m + 1, i + 1)
<1>0. i \in Nat /\ i + 1 \in DOMAIN text /\ text[i + 1] \in T!Char /\ m \in 0..m
  OBVIOUS
<1>1. CASE text[i + 1] = "control" \/ Follows(i + 1)
  <2>1. ~T!EndsLine(i + 1)
    BY <1>1 DEF T!EndsLine, Follows
  <2>2. Lists(e, m, i + 1)
    BY <1>0, <1>1, KeptSame, ListSame
  <2> QED BY <1>0, <1>1, <2>1, <2>2
<1>2. CASE T!EndsLine(i + 1)
  <2> DEFINE I == {k \in 1..m : text[e[k]] # "blank"}
  <2>1. \E t \in 0..m : BlanksAfter(e, m, t)
    <3>1. CASE I = {}
      <4>1. \A k \in 0 + 1..m : text[e[k]] = "blank"
        BY <3>1
      <4> QED BY <4>1 DEF BlanksAfter
    <3>2. CASE I # {}
      <4>1. I \subseteq 1..m
        OBVIOUS
      <4>2. PICK t \in I : \A y \in I : y <= t
        <5> HIDE DEF I
        <5> QED BY <3>2, <4>1, LastOne
      <4>3. \A k \in t + 1..m : text[e[k]] = "blank"
        <5> SUFFICES ASSUME NEW k \in t + 1..m, text[e[k]] # "blank" PROVE FALSE
          OBVIOUS
        <5>1. k \in I
          BY <4>1, <4>2
        <5> QED BY <4>1, <4>2, <5>1
      <4>4. t \in 0..m /\ text[e[t]] # "blank"
        BY <4>2
      <4> QED BY <4>3, <4>4 DEF BlanksAfter
    <3> QED BY <3>1, <3>2
  <2>2. PICK t \in 0..m : BlanksAfter(e, m, t)
    BY <2>1
  <2>3. KeptTo(i + 1) = {e[k] : k \in 1..t} \cup {i + 1}
    BY <1>2, <2>2, KeptLine
  <2>4. Lists(More(e, t, i), t + 1, i + 1)
    BY <1>0, <2>2, <2>3, ListMore
  <2> QED BY <1>2, <2>2, <2>4
<1>3. CASE text[i + 1] \in {"x", "blank", "wide"}
  <2>1. ~T!EndsLine(i + 1)
    BY <1>3 DEF T!EndsLine
  <2>2. KeptTo(i + 1) = {e[k] : k \in 1..m} \cup {i + 1}
    BY <1>0, <1>3, KeptMore DEF Lists
  <2>3. Lists(More(e, m, i), m + 1, i + 1)
    BY <1>0, <2>2, ListMore
  <2> QED BY <1>0, <1>3, <2>1, <2>3
<1>4. text[i + 1] \in {"CR", "LF"} => T!EndsLine(i + 1) \/ Follows(i + 1)
  BY <1>0 DEF T!EndsLine, Follows
<1> QED BY <1>0, <1>1, <1>2, <1>3, <1>4 DEF T!Char

-----------------------------------------------------------------------------
(* ExtractedText: the pass. *)

Unified(c) == IF c = "CR" THEN "LF" ELSE c

\* The first v of the characters kept are all the white space the text begins with.
Leads(e, m, v) ==
  /\ v \in 0..m
  /\ \A k \in 1..v : text[e[k]] \in T!WhiteSpace
  /\ v < m => text[e[v + 1]] \notin T!WhiteSpace

\* The characters put are the ones kept from there on.
Exact(chars, e, m, v) == chars = [k \in 1..m - v |-> Unified(text[e[v + k]])]

\* They are as many as may be, and a beginning of those but for white space at the end.
Cut(chars, e, m, v) ==
  /\ Len(chars) = limit /\ v < m
  /\ \E g \in 1..limit :
       /\ g <= m - v
       /\ \A k \in 1..g : chars[k] = Unified(text[e[v + k]])
       /\ chars[g] \notin T!WhiteSpace
       /\ \A k \in g + 1..limit : chars[k] \in T!WhiteSpace

\* The pass after i characters.
PassTold(pass, i, e, m, v) ==
  /\ Lists(e, m, i) /\ Leads(e, m, v)
  /\ pass \in [output : Seq(T!Char), started : BOOLEAN, full : BOOLEAN] /\ Len(pass.output) <= i
  /\ ~pass.full => /\ pass.started <=> v < m
                   /\ Exact(pass.output, e, m, v) /\ Len(pass.output) < limit
  /\ pass.full => /\ Cut(pass.output, e, m, v)
                  /\ i <= limit => Exact(pass.output, e, m, v)

\* Once a character that is not white space has been put, what follows it is put as it comes.
LEMMA PutTold ==
  ASSUME text \in Seq(T!Char), limit \in Nat \ {0}, NEW i \in 0..Len(text) - 1,
         NEW n \in Nat, NEW d, Lists(d, n, i + 1), NEW v \in 0..n - 1, Leads(d, n, v), d[n] = i + 1,
         NEW chars, Exact(chars, d, n - 1, v), Len(chars) <= i, Len(chars) < limit
  PROVE  PassTold([output |-> Append(chars, Unified(text[i + 1])), started |-> TRUE,
                   full |-> Len(chars) + 1 >= limit], i + 1, d, n, v)
<1> DEFINE longer == Append(chars, Unified(text[i + 1]))
           l == n - 1 - v
<1>1. l \in Nat /\ n - v = l + 1 /\ v + (l + 1) = n
  OBVIOUS
<1>2. \A k \in 1..l + 1 : v + k \in 1..n /\ d[v + k] \in 1..i + 1
  <2>1. \A k \in 1..l + 1 : v + k \in 1..n
    OBVIOUS
  <2> HIDE DEF l
  <2> QED BY <2>1 DEF Lists
<1>3. \A k \in 1..l + 1 : Unified(text[d[v + k]]) \in T!Char
  <2>1. 1..i + 1 \subseteq DOMAIN text
    OBVIOUS
  <2>2. \A j \in 1..i + 1 : text[j] \in T!Char
    BY <2>1
  <2> HIDE DEF l
  <2> QED BY <1>2, <2>2 DEF Unified, T!Char
<1>4. chars = [k \in 1..l |-> Unified(text[d[v + k]])]
  BY DEF Exact
<1>5. \A k \in 1..l : k \in 1..l + 1
  BY <1>1
<1>6. chars \in Seq(T!Char) /\ Len(chars) = l
  <2>1. \A k \in 1..l : Unified(text[d[v + k]]) \in T!Char
    BY <1>3, <1>5
  <2> HIDE DEF l
  <2> QED BY <1>1, <1>4, <2>1
<1>7. longer = [k \in 1..l + 1 |-> Unified(text[d[v + k]])]
  <2>1. Unified(text[i + 1]) = Unified(text[d[v + (l + 1)]])
    BY <1>1
  <2>2. longer \in Seq(T!Char) /\ Len(longer) = l + 1
    <3>1. l + 1 \in 1..l + 1
      BY <1>1
    <3>2. Unified(text[i + 1]) \in T!Char
      BY <1>3, <2>1, <3>1
    <3> HIDE DEF l
    <3> QED BY <1>6, <3>2
  <2>3. \A k \in 1..l + 1 : longer[k] = Unified(text[d[v + k]])
    <3> TAKE k \in 1..l + 1
    <3>1. k = l + 1 \/ k \in 1..l
      BY <1>1
    <3>2. CASE k \in 1..l
      <4>1. longer[k] = chars[k]
        <5> HIDE DEF l
        <5> QED BY <1>6, <3>2
      <4>2. chars[k] = Unified(text[d[v + k]])
        <5> HIDE DEF l
        <5> QED BY <1>4, <3>2
      <4> QED BY <4>1, <4>2
    <3>3. CASE k = l + 1
      <4>1. longer[l + 1] = Unified(text[i + 1])
        <5> HIDE DEF l
        <5> QED BY <1>1, <1>6
      <4> QED BY <2>1, <3>3, <4>1
    <3> QED BY <3>1, <3>2, <3>3
  <2> HIDE DEF longer, l
  <2> QED BY <1>1, <2>2, <2>3
<1>8. longer \in Seq(T!Char) /\ Len(longer) = l + 1
  <2> HIDE DEF longer, l
  <2> QED BY <1>1, <1>3, <1>7
<1>9. Exact(longer, d, n, v)
  <2> HIDE DEF longer, l
  <2> QED BY <1>1, <1>7 DEF Exact
<1>10. ASSUME l + 1 >= limit PROVE Cut(longer, d, n, v)
  <2>1. l + 1 = limit /\ v < n
    <3> HIDE DEF l
    <3> QED BY <1>1, <1>6, <1>10
  <2> DEFINE I == {k \in 1..l + 1 : longer[k] \notin T!WhiteSpace}
  <2>2. 1 \in I
    <3>1. 1 \in 1..l + 1
      BY <1>1
    <3>2. longer[1] = Unified(text[d[v + 1]])
      <4> HIDE DEF longer, l
      <4> QED BY <1>7, <3>1
    <3>3. text[d[v + 1]] \notin T!WhiteSpace
      BY DEF Leads
    <3>4. longer[1] \notin T!WhiteSpace
      <4> HIDE DEF longer
      <4> QED BY <3>2, <3>3 DEF Unified, T!WhiteSpace
    <3> HIDE DEF longer, l
    <3> QED BY <3>1, <3>4
  <2>3. PICK g \in I : \A k \in I : k <= g
    <3>1. I \subseteq 1..l + 1 /\ l + 1 \in Nat
      BY <1>1
    <3> HIDE DEF I, l
    <3> QED BY <2>2, <3>1, LastOne
  <2>4. g \in 1..limit /\ g <= n - v /\ longer[g] \notin T!WhiteSpace
    <3>1. g \in 1..l + 1 /\ longer[g] \notin T!WhiteSpace
      BY <2>3
    <3> HIDE DEF longer, I
    <3> QED BY <1>1, <2>1, <3>1
  <2>5. \A k \in g + 1..limit : longer[k] \in T!WhiteSpace
    <3> SUFFICES ASSUME NEW k \in g + 1..limit, longer[k] \notin T!WhiteSpace PROVE FALSE
      OBVIOUS
    <3>1. k \in 1..l + 1
      <4> HIDE DEF longer, l
      <4> QED BY <2>1, <2>4
    <3>2. k \in I
      BY <3>1
    <3>3. k <= g
      BY <2>3, <3>2
    <3> HIDE DEF longer, I, l
    <3> QED BY <2>4, <3>3
  <2>6. \A k \in 1..g : longer[k] = Unified(text[d[v + k]])
    <3> HIDE DEF longer, I, l
    <3>1. \A k \in 1..g : k \in 1..l + 1
      BY <2>1, <2>4
    <3> QED BY <1>7, <3>1
  <2> HIDE DEF longer, I, l
  <2> QED BY <1>8, <2>1, <2>4, <2>5, <2>6 DEF Cut
<1> DEFINE next == [output |-> longer, started |-> TRUE, full |-> l + 1 >= limit]
<1>11. next.output = longer /\ next.started = TRUE /\ next.full = (l + 1 >= limit)
  OBVIOUS
<1>12. next \in [output : Seq(T!Char), started : BOOLEAN, full : BOOLEAN]
  <2>1. (l + 1 >= limit) \in BOOLEAN
    OBVIOUS
  <2> HIDE DEF longer, l
  <2> QED BY <1>8, <2>1
<1>13. PassTold(next, i + 1, d, n, v)
  <2>1. Len(longer) <= i + 1
    BY <1>1, <1>6, <1>8
  <2>2. l + 1 >= limit \/ Len(longer) < limit
    BY <1>1, <1>8
  <2>3. v < n
    OBVIOUS
  <2> HIDE DEF longer, l, next
  <2> QED BY <1>9, <1>10, <1>11, <1>12, <2>1, <2>2, <2>3 DEF PassTold
<1> QED
  <2>1. Len(chars) = l
    BY <1>6
  <2> HIDE DEF l
  <2> QED BY <1>13, <2>1

\* Nothing is put any more once the output is as long as it may be; what the text loses at the end
\* of a line lies behind it.
LEMMA FullKeeps ==
  ASSUME text \in Seq(T!Char), limit \in Nat \ {0}, NEW i \in 0..Len(text) - 1, NEW m \in Nat, NEW e,
         NEW v \in 0..m, NEW pass, PassTold(pass, i, e, m, v), pass.full
  PROVE  \E n \in Nat : \E d : \E w \in 0..n : PassTold(T!Turn(pass, i + 1), i + 1, d, n, w)
<1>1. /\ Lists(e, m, i) /\ Leads(e, m, v) /\ Cut(pass.output, e, m, v)
      /\ pass \in [output : Seq(T!Char), started : BOOLEAN, full : BOOLEAN] /\ Len(pass.output) <= i
  BY DEF PassTold
<1>2. T!Turn(pass, i + 1) = pass
  BY DEF T!Turn
<1>3. PICK g \in 1..limit :
        /\ g <= m - v
        /\ \A k \in 1..g : pass.output[k] = Unified(text[e[v + k]])
        /\ pass.output[g] \notin T!WhiteSpace
        /\ \A k \in g + 1..limit : pass.output[k] \in T!WhiteSpace
  BY <1>1 DEF Cut
<1>4. v + g \in 1..m /\ text[e[v + g]] # "blank"
  <2>1. v + g \in 1..m /\ g \in 1..g
    BY <1>3
  <2>2. Unified(text[e[v + g]]) \notin T!WhiteSpace
    BY <1>3, <2>1
  <2> QED BY <2>1, <2>2 DEF Unified, T!WhiteSpace
<1>5. ~(i + 1 <= limit)
  BY <1>1 DEF Cut
<1>6. ASSUME NEW n \in Nat, NEW d, Lists(d, n, i + 1), NEW t \in 0..m, t <= n, v + g <= t,
             \A k \in 1..t : d[k] = e[k]
      PROVE  PassTold(pass, i + 1, d, n, v) /\ v \in 0..n
  <2>1. v < n /\ v \in 0..n /\ v + 1 \in 1..t /\ v < m /\ 1..v \subseteq 1..t /\ g <= n - v
    BY <1>3, <1>6
  <2>2. Leads(d, n, v)
    BY <1>1, <1>6, <2>1 DEF Leads
  <2>3. \A k \in 1..g : v + k \in 1..t
    BY <1>3, <1>6
  <2>4. \A k \in 1..g : pass.output[k] = Unified(text[d[v + k]])
    BY <1>3, <1>6, <2>3
  <2>5. Cut(pass.output, d, n, v)
    BY <1>1, <1>3, <2>1, <2>4 DEF Cut
  <2>6. Len(pass.output) <= i + 1
    BY <1>1
  <2> QED BY <1>1, <1>5, <1>6, <2>1, <2>2, <2>5, <2>6 DEF PassTold
<1>7. PICK t \in 0..m :
           \/ /\ text[i + 1] = "control" \/ Follows(i + 1)
              /\ ~T!EndsLine(i + 1) /\ t = m /\ Lists(e, m, i + 1)
           \/ /\ T!EndsLine(i + 1)
              /\ BlanksAfter(e, m, t)
              /\ Lists(More(e, t, i), t + 1, i + 1)
           \/ /\ text[i + 1] \in {"x", "blank", "wide"} /\ ~T!EndsLine(i + 1)
              /\ t = m /\ Lists(More(e, m, i), m + 1, i + 1)
  BY <1>1, ListNext
<1>8. v + g <= t
  <2>1. CASE t = m
    BY <1>4, <2>1
  <2>2. CASE BlanksAfter(e, m, t)
    BY <1>3, <1>4, <2>2 DEF BlanksAfter
  <2> QED BY <1>7, <2>1, <2>2
<1>9. \A k \in 1..t : More(e, t, i)[k] = e[k]
  BY DEF More
<1>10. CASE Lists(e, m, i + 1)
  <2>1. PassTold(pass, i + 1, e, m, v) /\ v \in 0..m
    BY <1>6, <1>8, <1>10
  <2> QED BY <1>2, <2>1
<1>11. CASE Lists(More(e, t, i), t + 1, i + 1)
  <2>1. t + 1 \in Nat /\ t <= t + 1
    OBVIOUS
  <2>2. PassTold(pass, i + 1, More(e, t, i), t + 1, v) /\ v \in 0..t + 1
    BY <1>6, <1>8, <1>9, <1>11, <2>1
  <2> QED BY <1>2, <2>1, <2>2
<1> QED BY <1>7, <1>10, <1>11

\* While there is room: a character that goes, one inside a line, the end of a line.
LEMMA RoomKeeps ==
  ASSUME text \in Seq(T!Char), limit \in Nat \ {0}, NEW i \in 0..Len(text) - 1, NEW m \in Nat, NEW e,
         NEW v \in 0..m, NEW pass, PassTold(pass, i, e, m, v), ~pass.full
  PROVE  \E n \in Nat : \E d : \E w \in 0..n : PassTold(T!Turn(pass, i + 1), i + 1, d, n, w)
<1>1. /\ Lists(e, m, i) /\ Leads(e, m, v)
      /\ pass \in [output : Seq(T!Char), started : BOOLEAN, full : BOOLEAN] /\ Len(pass.output) <= i
      /\ pass.started <=> v < m
      /\ Exact(pass.output, e, m, v) /\ Len(pass.output) < limit
  BY DEF PassTold
<1>2. i \in Nat /\ i + 1 \in DOMAIN text /\ text[i + 1] \in T!Char
  OBVIOUS
<1>3. PICK t \in 0..m :
           \/ /\ text[i + 1] = "control" \/ Follows(i + 1)
              /\ ~T!EndsLine(i + 1) /\ t = m /\ Lists(e, m, i + 1)
           \/ /\ T!EndsLine(i + 1)
              /\ BlanksAfter(e, m, t)
              /\ Lists(More(e, t, i), t + 1, i + 1)
           \/ /\ text[i + 1] \in {"x", "blank", "wide"} /\ ~T!EndsLine(i + 1)
              /\ t = m /\ Lists(More(e, m, i), m + 1, i + 1)
  BY <1>1, ListNext
<1> DEFINE d == More(e, t, i)
<1>4. d[t + 1] = i + 1 /\ \A k \in 1..t : d[k] = e[k]
  BY DEF More
<1> HIDE DEF d
<1>5. t + 1 \in Nat /\ (t + 1) - 1 = t
  OBVIOUS
\* The text has not begun, and goes on with white space.
<1>6. ASSUME ~pass.started, t <= m, Lists(d, t + 1, i + 1), text[i + 1] \in T!WhiteSpace
      PROVE  PassTold(pass, i + 1, d, t + 1, t + 1)
  <2>1. v = m /\ t + 1 \in 0..t + 1 /\ ~(t + 1 < t + 1)
    BY <1>1, <1>6
  <2>2. ASSUME NEW k \in 1..t + 1 PROVE text[d[k]] \in T!WhiteSpace
    <3>1. k = t + 1 \/ k \in 1..t
      OBVIOUS
    <3>2. CASE k \in 1..t
      BY <1>1, <1>4, <2>1, <3>2 DEF Leads
    <3> QED BY <1>4, <1>6, <3>1, <3>2
  <2>3. Leads(d, t + 1, t + 1)
    BY <2>1, <2>2 DEF Leads
  <2>4. Exact(pass.output, d, t + 1, t + 1)
    <3>1. m - v = 0 /\ (t + 1) - (t + 1) = 0 /\ 1..0 = {}
      BY <2>1
    <3>2. pass.output = [k \in 1..0 |-> Unified(text[e[v + k]])]
      BY <1>1, <3>1 DEF Exact
    <3>3. pass.output = [k \in 1..0 |-> Unified(text[d[(t + 1) + k]])]
      BY <3>1, <3>2
    <3> QED BY <3>1, <3>3 DEF Exact
  <2>5. Len(pass.output) <= i + 1
    BY <1>1
  <2> QED BY <1>1, <1>6, <2>1, <2>3, <2>4, <2>5 DEF PassTold
\* The text has begun, or begins here.
<1>7. ASSUME Lists(d, t + 1, i + 1), v <= t, v < m => v < t,
             v = t => text[i + 1] \notin T!WhiteSpace,
             NEW chars, chars = [k \in 1..t - v |-> Unified(text[e[v + k]])], Len(chars) <= Len(pass.output)
      PROVE  PassTold([output |-> Append(chars, Unified(text[i + 1])), started |-> TRUE,
                       full |-> Len(chars) + 1 >= limit], i + 1, d, t + 1, v)
  <2>1. v \in 0..(t + 1) - 1 /\ 1..v \subseteq 1..t /\ v < t + 1
    BY <1>7
  <2>2. \A k \in 1..v : text[d[k]] \in T!WhiteSpace
    BY <1>1, <1>4, <2>1 DEF Leads
  <2>3. text[d[v + 1]] \notin T!WhiteSpace
    <3>1. CASE v = t
      BY <1>4, <1>7, <3>1
    <3>2. CASE v < t
      <4>1. v + 1 \in 1..t /\ v < m
        BY <3>2
      <4> QED BY <1>1, <1>4, <4>1 DEF Leads
    <3> QED BY <1>7, <3>1, <3>2
  <2>4. Leads(d, t + 1, v)
    BY <2>1, <2>2, <2>3 DEF Leads
  <2>5. Exact(chars, d, (t + 1) - 1, v)
    <3>1. \A k \in 1..t - v : v + k \in 1..t
      BY <1>7
    <3>2. \A k \in 1..t - v : Unified(text[e[v + k]]) = Unified(text[d[v + k]])
      BY <1>4, <3>1
    <3>3. chars = [k \in 1..t - v |-> Unified(text[d[v + k]])]
      BY <1>7, <3>2
    <3> QED BY <1>5, <3>3 DEF Exact
  <2>6. Len(chars) <= i /\ Len(chars) < limit
    <3>1. Len(chars) \in Nat /\ Len(pass.output) \in Nat
      <4>1. t - v \in Nat
        BY <1>7
      <4>2. Len(chars) = t - v
        BY <1>7, <4>1
      <4> QED BY <1>1, <4>1, <4>2
    <3> QED BY <1>1, <1>7, <3>1
  <2> QED BY <1>4, <1>5, <1>7, <2>1, <2>4, <2>5, <2>6, PutTold
<1>8. \A k \in 1..m - v : pass.output[k] = Unified(text[e[v + k]])
  BY <1>1 DEF Exact
<1>9. CASE ~T!EndsLine(i + 1) /\ Lists(e, m, i + 1) /\ (text[i + 1] = "control" \/ Follows(i + 1))
  <2>1. T!Turn(pass, i + 1) = pass
    BY <1>9 DEF T!Turn, Follows
  <2>2. Len(pass.output) <= i + 1
    BY <1>1
  <2>3. PassTold(pass, i + 1, e, m, v)
    BY <1>1, <1>9, <2>2 DEF PassTold
  <2> QED BY <2>1, <2>3
<1>10. CASE /\ T!EndsLine(i + 1)
            /\ BlanksAfter(e, m, t)
            /\ Lists(d, t + 1, i + 1)
  <2>1. text[i + 1] \in {"CR", "LF"} /\ Unified(text[i + 1]) = "LF"
    BY <1>10 DEF T!EndsLine, Unified
  <2>2. CASE ~pass.started
    <3>1. T!Turn(pass, i + 1) = pass
      BY <1>10, <2>2 DEF T!Turn
    <3>2. PassTold(pass, i + 1, d, t + 1, t + 1)
      BY <1>6, <1>10, <2>1, <2>2 DEF T!WhiteSpace
    <3>3. t + 1 \in 0..t + 1
      OBVIOUS
    <3> QED BY <1>5, <3>1, <3>2, <3>3
  <2>3. CASE pass.started
    <3>1. v < m /\ text[e[v + 1]] # "blank"
      BY <1>1, <2>3 DEF Leads, T!WhiteSpace
    <3>2. v < t
      BY <1>10, <3>1 DEF BlanksAfter
    <3>3. Len(pass.output) = m - v /\ t - v \in 0..Len(pass.output)
      <4>1. m - v \in Nat
        OBVIOUS
      <4>2. Len(pass.output) = m - v
        BY <1>1, <4>1 DEF Exact
      <4> QED BY <3>2, <4>2
    <3>4. ASSUME NEW k \in t - v + 1..m - v PROVE pass.output[k] \in {"blank"}
      <4>1. k \in 1..m - v /\ v + k \in t + 1..m
        BY <3>2
      <4> QED BY <1>8, <1>10, <4>1 DEF Unified, BlanksAfter
    <3>5. pass.output[t - v] \notin {"blank"}
      <4>1. t - v \in 1..m - v /\ v + (t - v) = t /\ t > 0
        BY <3>2
      <4> QED BY <1>8, <1>10, <4>1 DEF Unified, BlanksAfter
    <3> DEFINE chars == [k \in 1..t - v |-> pass.output[k]]
    <3>6. T!TrimRight(pass.output, {"blank"}) = chars
      <4>1. pass.output \in Seq(T!Char)
        BY <1>1
      <4> HIDE DEF chars
      <4>2. T!TrimRight(pass.output, {"blank"}) = [k \in 1..t - v |-> pass.output[k]]
        BY <3>3, <3>4, <3>5, <4>1, TrimRightTo
      <4> QED BY <4>2 DEF chars
    <3>7. chars = [k \in 1..t - v |-> Unified(text[e[v + k]])]
      <4>1. \A k \in 1..t - v : k \in 1..m - v
        BY <3>2
      <4> QED BY <1>8, <4>1
    <3>8. Len(chars) <= Len(pass.output)
      <4>1. t - v \in Nat
        BY <3>3
      <4>2. Len(chars) = t - v
        BY <4>1
      <4> HIDE DEF chars
      <4> QED BY <3>3, <4>2
    <3>9. T!Turn(pass, i + 1) = [output |-> Append(chars, Unified(text[i + 1])), started |-> TRUE,
                                 full |-> Len(chars) + 1 >= limit]
      <4>1. T!Turn(pass, i + 1) = T!Put(T!TrimRight(pass.output, {"blank"}), "LF")
        BY <1>10, <2>3 DEF T!Turn
      <4> HIDE DEF chars
      <4> QED BY <2>1, <3>6, <4>1 DEF T!Put
    <3> HIDE DEF chars
    <3>10. PassTold(T!Turn(pass, i + 1), i + 1, d, t + 1, v)
      <4>1. PassTold([output |-> Append(chars, Unified(text[i + 1])), started |-> TRUE,
                      full |-> Len(chars) + 1 >= limit], i + 1, d, t + 1, v)
        <5>1. v <= t /\ (v < m => v < t) /\ (v = t => text[i + 1] \notin T!WhiteSpace)
          BY <3>2
        <5> QED BY <1>7, <1>10, <3>7, <3>8, <5>1, Zenon
      <4> QED BY <3>9, <4>1
    <3>11. v \in 0..t + 1
      BY <3>2
    <3> QED BY <1>5, <3>10, <3>11
  <2> QED BY <1>1, <2>2, <2>3
<1>11. CASE text[i + 1] \in {"x", "blank", "wide"} /\ ~T!EndsLine(i + 1) /\ t = m /\ Lists(d, t + 1, i + 1)
  <2>1. CASE ~pass.started /\ text[i + 1] \in T!WhiteSpace
    <3>1. T!Turn(pass, i + 1) = pass
      BY <1>11, <2>1 DEF T!Turn
    <3>2. PassTold(pass, i + 1, d, t + 1, t + 1)
      BY <1>6, <1>11, <2>1
    <3>3. t + 1 \in 0..t + 1
      OBVIOUS
    <3> QED BY <1>5, <3>1, <3>2, <3>3
  <2>2. CASE ~(~pass.started /\ text[i + 1] \in T!WhiteSpace)
    <3>1. Unified(text[i + 1]) = text[i + 1]
      BY <1>11 DEF Unified
    <3>2. T!Turn(pass, i + 1) = T!Put(pass.output, text[i + 1])
      BY <1>11, <2>2 DEF T!Turn
    <3>3. T!Turn(pass, i + 1) = [output |-> Append(pass.output, Unified(text[i + 1])), started |-> TRUE,
                                 full |-> Len(pass.output) + 1 >= limit]
      BY <3>1, <3>2 DEF T!Put
    <3>4. pass.output = [k \in 1..t - v |-> Unified(text[e[v + k]])] /\ Len(pass.output) <= Len(pass.output)
      <4>1. Len(pass.output) \in Nat
        BY <1>1
      <4> QED BY <1>1, <1>11, <4>1 DEF Exact
    <3>5. v = t => text[i + 1] \notin T!WhiteSpace
      BY <1>1, <1>11, <2>2
    <3>6. PassTold(T!Turn(pass, i + 1), i + 1, d, t + 1, v)
      <4>1. PassTold([output |-> Append(pass.output, Unified(text[i + 1])), started |-> TRUE,
                      full |-> Len(pass.output) + 1 >= limit], i + 1, d, t + 1, v)
        <5>1. v <= t /\ (v < m => v < t)
          BY <1>11
        <5> QED BY <1>7, <1>11, <3>4, <3>5, <5>1, Zenon
      <4> QED BY <3>3, <4>1
    <3>7. v \in 0..t + 1
      BY <1>11
    <3> QED BY <1>5, <3>6, <3>7
  <2> QED BY <2>1, <2>2
<1> QED BY <1>3, <1>9, <1>10, <1>11 DEF d

\* The characters listed are those the definition leaves.
LEMMA CleanIs ==
  ASSUME text \in Seq(T!Char), NEW m \in Nat, NEW e, Lists(e, m, Len(text))
  PROVE  T!Clean = [k \in 1..m |-> text[e[k]]]
<1>0. Len(text) \in Nat /\ DOMAIN text = 1..Len(text)
  OBVIOUS
<1>1. PICK f : /\ f = [i \in 0..Len(text) |->
                         IF i = 0 THEN <<>>
                         ELSE IF i \in T!Kept THEN Append(f[i - 1], text[i]) ELSE f[i - 1]]
               /\ T!Clean = f[Len(text)]
  BY <1>0, CleanUnfolds
<1>2. \A i \in 0..Len(text) :
        f[i] = IF i = 0 THEN <<>>
               ELSE IF i \in T!Kept THEN Append(f[i - 1], text[i]) ELSE f[i - 1]
  BY <1>1
<1>3. T!Kept = {e[k] : k \in 1..m}
  BY <1>0, KeptToEnd DEF Lists
<1>4. \A k \in 1..m : e[k] \in 1..Len(text) /\ text[e[k]] \in T!Char
  <2>1. \A k \in 1..m : e[k] \in 1..Len(text)
    BY DEF Lists
  <2> QED BY <1>0, <2>1
<1> DEFINE Upto(n, q) == /\ \A k \in 1..q : e[k] <= n
                         /\ \A k \in q + 1..m : e[k] > n
                         /\ f[n] = [k \in 1..q |-> text[e[k]]]
           S == {n \in Nat : n <= Len(text) => \E q \in 0..m : Upto(n, q)}
<1>5. 0 \in S
  <2>1. f[0] = <<>>
    BY <1>0, <1>2
  <2>2. f[0] = [k \in 1..0 |-> text[e[k]]]
    BY <2>1
  <2>3. \A k \in 0 + 1..m : e[k] > 0
    BY <1>4
  <2>4. Upto(0, 0) /\ 0 \in 0..m
    BY <2>2, <2>3
  <2> HIDE DEF Upto
  <2> QED BY <2>4
<1>6. ASSUME NEW n \in S PROVE n + 1 \in S
  <2> SUFFICES ASSUME n + 1 <= Len(text) PROVE \E q \in 0..m : Upto(n + 1, q)
    <3> HIDE DEF Upto
    <3> QED OBVIOUS
  <2>1. n \in Nat /\ n <= Len(text)
    BY <1>0
  <2>2. PICK q \in 0..m : Upto(n, q)
    <3> HIDE DEF Upto
    <3> QED BY <2>1
  <2>3. f[n + 1] = IF n + 1 \in T!Kept THEN Append(f[n], text[n + 1]) ELSE f[n]
    <3>1. n + 1 \in 0..Len(text) /\ n + 1 # 0 /\ (n + 1) - 1 = n
      BY <2>1
    <3> QED BY <1>2, <3>1
  <2>4. CASE n + 1 \notin T!Kept
    <3>1. \A k \in 1..q : e[k] <= n + 1
      BY <1>4, <2>1, <2>2
    <3>2. ASSUME NEW k \in q + 1..m PROVE e[k] > n + 1
      <4>1. k \in 1..m /\ e[k] # n + 1
        BY <1>3, <2>4
      <4> QED BY <1>4, <2>1, <2>2, <4>1
    <3>3. Upto(n + 1, q)
      BY <2>2, <2>3, <2>4, <3>1, <3>2
    <3> QED BY <3>3
  <2>5. CASE n + 1 \in T!Kept
    <3>1. PICK l \in 1..m : e[l] = n + 1
      BY <1>3, <2>5
    <3>2. ~(l \in 1..q)
      BY <2>1, <2>2, <3>1
    <3>3. ~(q + 1 < l)
      <4> SUFFICES ASSUME q + 1 < l PROVE FALSE
        OBVIOUS
      <4>1. q + 1 \in 1..m /\ q + 1 \in q + 1..m
        OBVIOUS
      <4>2. e[q + 1] < e[l]
        BY <4>1 DEF Lists
      <4>3. e[q + 1] > n
        BY <2>2, <4>1
      <4> QED BY <1>4, <2>1, <3>1, <4>1, <4>2, <4>3
    <3>4. l = q + 1 /\ q + 1 \in 1..m /\ e[q + 1] = n + 1
      BY <3>1, <3>2, <3>3
    <3>5. ASSUME NEW k \in 1..q + 1 PROVE e[k] <= n + 1
      <4>1. k = q + 1 \/ k \in 1..q
        OBVIOUS
      <4>2. CASE k \in 1..q
        <5>1. e[k] <= n /\ k \in 1..m
          BY <2>2, <4>2
        <5> QED BY <1>4, <2>1, <5>1
      <4> QED BY <2>1, <3>4, <4>1, <4>2
    <3>6. ASSUME NEW k \in (q + 1) + 1..m PROVE e[k] > n + 1
      <4>1. k \in 1..m /\ q + 1 < k
        OBVIOUS
      <4> QED BY <3>4, <4>1 DEF Lists
    <3>7. f[n + 1] = [k \in 1..q + 1 |-> text[e[k]]]
      <4> DEFINE old == [k \in 1..q |-> text[e[k]]]
      <4>1. f[n + 1] = Append(old, text[n + 1])
        BY <2>2, <2>3, <2>5
      <4>2. \A k \in 1..q + 1 : text[e[k]] \in T!Char
        BY <1>4, <3>4
      <4>3. \A k \in 1..q : k \in 1..q + 1
        OBVIOUS
      <4>4. old \in Seq(T!Char) /\ Len(old) = q
        BY <4>2, <4>3
      <4>5. \A k \in 1..q : old[k] = text[e[k]]
        OBVIOUS
      <4>6. text[n + 1] = text[e[q + 1]] /\ text[n + 1] \in T!Char
        BY <3>4, <4>2
      <4> HIDE DEF old
      <4>7. Append(old, text[n + 1]) = [k \in 1..q + 1 |-> IF k = q + 1 THEN text[n + 1] ELSE old[k]]
        BY <4>4, <4>6
      <4>8. \A k \in 1..q + 1 : (IF k = q + 1 THEN text[n + 1] ELSE old[k]) = text[e[k]]
        <5> TAKE k \in 1..q + 1
        <5>1. k = q + 1 \/ k \in 1..q
          OBVIOUS
        <5> QED BY <4>5, <4>6, <5>1
      <4>9. Append(old, text[n + 1]) = [k \in 1..q + 1 |-> text[e[k]]]
        BY <4>7, <4>8
      <4> QED BY <4>1, <4>9
    <3>8. Upto(n + 1, q + 1) /\ q + 1 \in 0..m
      BY <3>4, <3>5, <3>6, <3>7
    <3> HIDE DEF Upto
    <3> QED BY <3>8
  <2> QED BY <2>4, <2>5
<1>7. S = Nat
  <2>1. S \subseteq Nat
    OBVIOUS
  <2> HIDE DEF S
  <2> QED BY <1>5, <1>6, <2>1, Induction
<1>8. PICK q \in 0..m : Upto(Len(text), q)
  <2>1. Len(text) \in S
    BY <1>0, <1>7
  <2> HIDE DEF Upto
  <2> QED BY <1>0, <2>1
<1>9. q = m
  <2> SUFFICES ASSUME q # m PROVE FALSE
    OBVIOUS
  <2>1. m \in q + 1..m /\ m \in 1..m
    OBVIOUS
  <2>2. e[m] > Len(text)
    BY <1>8, <2>1
  <2> QED BY <1>0, <1>4, <2>1, <2>2
<1> QED BY <1>1, <1>8, <1>9

\* The whole pass.
LEMMA PassIs ==
  ASSUME text \in Seq(T!Char), limit \in Nat \ {0}
  PROVE  \E pass, e : \E m \in Nat : \E v \in 0..m :
           PassTold(pass, Len(text), e, m, v) /\ T!Normalize = T!Trim(pass.output)
<1>0. Len(text) \in Nat
  OBVIOUS
<1>1. PICK f : /\ f = [i \in 0..Len(text) |->
                         IF i = 0 THEN [output |-> <<>>, started |-> FALSE, full |-> FALSE]
                         ELSE T!Turn(f[i - 1], i)]
               /\ T!Normalize = T!Trim(f[Len(text)].output)
  BY <1>0, PassUnfolds
<1>2. f[0] = [output |-> <<>>, started |-> FALSE, full |-> FALSE]
  BY <1>0, <1>1
<1>3. \A i \in 0..Len(text) - 1 : f[i + 1] = T!Turn(f[i], i + 1)
  <2> TAKE i \in 0..Len(text) - 1
  <2>1. i + 1 \in 0..Len(text) /\ i + 1 # 0 /\ (i + 1) - 1 = i
    OBVIOUS
  <2>2. f[i + 1] = IF i + 1 = 0 THEN [output |-> <<>>, started |-> FALSE, full |-> FALSE]
                   ELSE T!Turn(f[(i + 1) - 1], i + 1)
    BY <1>1, <2>1
  <2> QED BY <2>1, <2>2
<1> DEFINE Told(n) == \E m \in Nat : \E e : \E v \in 0..m : PassTold(f[n], n, e, m, v)
           S == {n \in Nat : n <= Len(text) => Told(n)}
<1>4. 0 \in S
  <2> DEFINE e == [k \in 1..0 |-> 0]
  <2>1. Lists(e, 0, 0)
    <3>1. 1..0 = {}
      OBVIOUS
    <3>2. KeptTo(0) = {}
      BY <3>1 DEF KeptTo
    <3>3. e \in [1..0 -> 1..0]
      BY <3>1
    <3> QED BY <3>1, <3>2, <3>3 DEF Lists
  <2>2. Leads(e, 0, 0)
    BY DEF Leads
  <2>3. Exact(<<>>, e, 0, 0)
    <3>1. 0 - 0 = 0 /\ 1..0 = {}
      OBVIOUS
    <3>2. <<>> = [k \in 1..0 |-> Unified(text[e[0 + k]])]
      BY <3>1
    <3> QED BY <3>1, <3>2 DEF Exact
  <2>4. /\ f[0].output = <<>> /\ f[0].started = FALSE /\ f[0].full = FALSE
        /\ f[0] \in [output : Seq(T!Char), started : BOOLEAN, full : BOOLEAN]
    BY <1>2
  <2>5. Len(f[0].output) = 0
    BY <2>4
  <2> HIDE DEF e
  <2>6. PassTold(f[0], 0, e, 0, 0)
    BY <2>1, <2>2, <2>3, <2>4, <2>5 DEF PassTold
  <2>7. 0 \in Nat /\ 0 \in 0..0
    OBVIOUS
  <2> QED BY <2>6, <2>7
<1>5. ASSUME NEW n \in S PROVE n + 1 \in S
  <2> SUFFICES ASSUME n + 1 <= Len(text) PROVE Told(n + 1)
    <3> HIDE DEF Told
    <3> QED OBVIOUS
  <2>1. n \in 0..Len(text) - 1 /\ n <= Len(text)
    BY <1>0
  <2>2. PICK m \in Nat : \E e : \E v \in 0..m : PassTold(f[n], n, e, m, v)
    BY <2>1
  <2>3. PICK e : \E v \in 0..m : PassTold(f[n], n, e, m, v)
    BY <2>2
  <2>4. PICK v \in 0..m : PassTold(f[n], n, e, m, v)
    BY <2>3
  <2>5. \E l \in Nat : \E d : \E w \in 0..l : PassTold(T!Turn(f[n], n + 1), n + 1, d, l, w)
    <3>1. CASE f[n].full
      BY <2>1, <2>4, <3>1, FullKeeps, Zenon
    <3>2. CASE ~f[n].full
      BY <2>1, <2>4, <3>2, RoomKeeps, Zenon
    <3> QED BY <3>1, <3>2
  <2> QED BY <1>3, <2>1, <2>5
<1>6. S = Nat
  <2>1. S \subseteq Nat
    OBVIOUS
  <2> HIDE DEF S
  <2> QED BY <1>4, <1>5, <2>1, Induction
<1>7. Told(Len(text))
  <2>1. Len(text) \in S
    BY <1>0, <1>6
  <2> HIDE DEF Told
  <2> QED BY <1>0, <2>1
<1>8. PICK m \in Nat : \E e : \E v \in 0..m : PassTold(f[Len(text)], Len(text), e, m, v)
  BY <1>7
<1>9. PICK e : \E v \in 0..m : PassTold(f[Len(text)], Len(text), e, m, v)
  BY <1>8
<1>10. PICK v \in 0..m : PassTold(f[Len(text)], Len(text), e, m, v)
  BY <1>9
<1>11. PICK pass : pass = f[Len(text)]
  OBVIOUS
<1>12. PassTold(pass, Len(text), e, m, v) /\ T!Normalize = T!Trim(pass.output)
  BY <1>1, <1>10, <1>11
<1> QED BY <1>12

\* Of white space nothing is left.
LEMMA TrimWhite ==
  ASSUME NEW s \in Seq(T!Char), \A k \in 1..Len(s) : s[k] \in T!WhiteSpace
  PROVE  T!Trim(s) = <<>>
<1>1. PICK r : r = 0
  OBVIOUS
<1>2. r \in 0..Len(s) /\ r \in 0..r /\ ~(r < r)
  BY <1>1
<1>3. (\A k \in 1..r : s[k] \in T!WhiteSpace) /\ \A k \in r + 1..Len(s) : s[k] \in T!WhiteSpace
  BY <1>1
<1>4. T!Trim(s) = [k \in 1..r - r |-> s[r + k]]
  BY <1>2, <1>3, TrimTo
<1> QED BY <1>1, <1>4

LEMMA BeginsWith ==
  ASSUME NEW s \in Seq(T!Char), NEW z \in Seq(T!Char), Len(s) <= Len(z), \A k \in 1..Len(s) : s[k] = z[k]
  PROVE  T!IsPrefix(s, z)
<1>1. SubSeq(s, 1, Len(s)) = [k \in 1..Len(s) |-> s[k]]
  OBVIOUS
<1>2. SubSeq(z, 1, Len(s)) = [k \in 1..Len(s) |-> z[k]]
  OBVIOUS
<1> QED BY <1>1, <1>2 DEF T!IsPrefix

LEMMA NormalizedGives ==
  ASSUME text \in Seq(T!Char), limit \in Nat \ {0}
  PROVE  T!NormalizedTrue
<1>1. PICK pass, e : \E m \in Nat : \E v \in 0..m :
        PassTold(pass, Len(text), e, m, v) /\ T!Normalize = T!Trim(pass.output)
  BY PassIs
<1>2. PICK m \in Nat : \E v \in 0..m :
        PassTold(pass, Len(text), e, m, v) /\ T!Normalize = T!Trim(pass.output)
  BY <1>1
<1>3. PICK v \in 0..m : PassTold(pass, Len(text), e, m, v) /\ T!Normalize = T!Trim(pass.output)
  BY <1>2
<1>4. PICK put : put = pass.output
  OBVIOUS
<1>5. /\ Lists(e, m, Len(text)) /\ Leads(e, m, v) /\ put \in Seq(T!Char)
      /\ pass.full \/ (Exact(put, e, m, v) /\ Len(put) < limit)
      /\ pass.full => Cut(put, e, m, v) /\ (Len(text) <= limit => Exact(put, e, m, v))
      /\ T!Normalize = T!Trim(put)
  BY <1>3, <1>4 DEF PassTold
<1> DEFINE u == [k \in 1..m |-> Unified(text[e[k]])]
<1>6. \A k \in 1..m : u[k] = Unified(text[e[k]]) /\ text[e[k]] \in T!Char /\ u[k] \in T!Char
  <2>1. \A k \in 1..m : e[k] \in 1..Len(text)
    BY <1>5 DEF Lists
  <2>2. \A j \in 1..Len(text) : text[j] \in T!Char
    OBVIOUS
  <2> QED BY <2>1, <2>2 DEF Unified, T!Char
<1>7. u \in Seq(T!Char) /\ Len(u) = m
  <2>1. u = [k \in 1..m |-> u[k]]
    OBVIOUS
  <2> HIDE DEF u
  <2> QED BY <1>6, <2>1
<1>8. T!Expected = T!Trim(u)
  <2>1. T!Clean = [k \in 1..m |-> text[e[k]]]
    BY <1>5, CleanIs
  <2>2. Len(T!Clean) = m
    BY <1>6, <2>1
  <2>3. \A k \in 1..m : (IF T!Clean[k] = "CR" THEN "LF" ELSE T!Clean[k]) = Unified(text[e[k]])
    BY <2>1 DEF Unified
  <2>4. T!ReplaceAll(T!Clean, "CR", "LF") = u
    BY <2>2, <2>3 DEF T!ReplaceAll
  <2> HIDE DEF u
  <2> QED BY <2>4 DEF T!Expected
<1>9. \A k \in 1..m : u[k] \in T!WhiteSpace <=> text[e[k]] \in T!WhiteSpace
  BY <1>6 DEF Unified, T!WhiteSpace
<1> HIDE DEF u
<1>10. \A k \in 1..v : u[k] \in T!WhiteSpace
  BY <1>5, <1>9 DEF Leads
<1>11. Exact(put, e, m, v) => put = [k \in 1..m - v |-> u[v + k]] /\ Len(put) = m - v
  <2> SUFFICES ASSUME Exact(put, e, m, v) PROVE put = [k \in 1..m - v |-> u[v + k]] /\ Len(put) = m - v
    OBVIOUS
  <2>1. \A k \in 1..m - v : v + k \in 1..m
    OBVIOUS
  <2>2. \A k \in 1..m - v : Unified(text[e[v + k]]) = u[v + k]
    BY <1>6, <2>1
  <2>3. put = [k \in 1..m - v |-> u[v + k]]
    BY <2>2 DEF Exact
  <2>4. m - v \in Nat
    OBVIOUS
  <2> QED BY <2>3, <2>4
\* Nothing but white space.
<1>12. CASE v = m
  <2>1. ~pass.full /\ Exact(put, e, m, v)
    BY <1>5, <1>12 DEF Cut
  <2>2. Len(put) = 0
    BY <1>11, <1>12, <2>1
  <2>3. \A k \in 1..Len(put) : put[k] \in T!WhiteSpace
    BY <2>2
  <2>4. T!Trim(put) = <<>>
    BY <1>5, <2>3, TrimWhite
  <2>5. T!Trim(u) = <<>>
    BY <1>7, <1>10, <1>12, TrimWhite
  <2>10. T!Normalize = <<>> /\ T!Expected = <<>>
    BY <1>5, <1>8, <2>4, <2>5
  <2>11. Len(<<>>) = 0 /\ T!IsPrefix(<<>>, <<>>) /\ 0 <= limit
    BY DEF T!IsPrefix
  <2> QED BY <2>10, <2>11 DEF T!NormalizedTrue
<1>13. CASE v < m
  <2> DEFINE I == {k \in 1..m : u[k] \notin T!WhiteSpace}
  <2>1. v + 1 \in I
    BY <1>5, <1>9, <1>13 DEF Leads
  <2>2. PICK r \in I : \A k \in I : k <= r
    <3>1. I \subseteq 1..m
      OBVIOUS
    <3> HIDE DEF I
    <3> QED BY <2>1, <3>1, LastOne
  <2>3. r \in 1..m /\ u[r] \notin T!WhiteSpace /\ v < r /\ u[v + 1] \notin T!WhiteSpace /\ v + 1 \in 1..m
    BY <2>1, <2>2
  <2>4. ASSUME NEW k \in r + 1..m PROVE u[k] \in T!WhiteSpace
    <3>1. k \in 1..m /\ ~(k <= r)
      BY <2>3
    <3> QED BY <2>2, <3>1
  <2> HIDE DEF I
  <2>5. T!Expected = [k \in 1..r - v |-> u[v + k]]
    <3>1. r \in 0..Len(u) /\ v \in 0..r
      BY <1>7, <2>3
    <3>2. \A k \in r + 1..Len(u) : u[k] \in T!WhiteSpace
      BY <1>7, <2>4
    <3> QED BY <1>7, <1>8, <1>10, <2>3, <3>1, <3>2, TrimTo
  <2>6. \A k \in 1..r - v : u[v + k] \in T!Char
    <3>1. \A k \in 1..r - v : v + k \in 1..m
      BY <2>3
    <3> QED BY <1>6, <3>1
  <2>7. r - v \in Nat /\ r - v \in 0..r - v
    BY <2>3
  \* All of it, but for white space at its end.
  <2>8. CASE Exact(put, e, m, v)
    <3>1. \A k \in 1..m - v : put[k] = u[v + k]
      BY <1>11, <2>8
    <3>2. r - v \in 0..Len(put) /\ 0 \in 0..r - v /\ r - v \in 1..m - v /\ 1 \in 1..m - v
      BY <1>11, <2>3, <2>8
    <3>3. ASSUME NEW k \in r - v + 1..Len(put) PROVE put[k] \in T!WhiteSpace
      <4>1. k \in 1..m - v /\ v + k \in r + 1..m
        BY <1>11, <2>3, <2>8
      <4> QED BY <2>4, <3>1, <4>1
    <3>4. put[0 + 1] \notin T!WhiteSpace /\ put[r - v] \notin T!WhiteSpace
      <4>1. put[1] = u[v + 1] /\ put[r - v] = u[v + (r - v)] /\ v + (r - v) = r
        BY <2>3, <3>1, <3>2
      <4> QED BY <2>3, <4>1
    <3>5. \A k \in 1..0 : put[k] \in T!WhiteSpace
      OBVIOUS
    <3>6. T!Trim(put) = [k \in 1..(r - v) - 0 |-> put[0 + k]]
      BY <1>5, <3>2, <3>3, <3>4, <3>5, TrimTo
    <3>7. [k \in 1..(r - v) - 0 |-> put[0 + k]] = [k \in 1..r - v |-> u[v + k]]
      <4>1. (r - v) - 0 = r - v
        BY <2>7
      <4>2. \A k \in 1..r - v : put[0 + k] = u[v + k]
        <5>1. \A k \in 1..r - v : k \in 1..m - v /\ 0 + k = k
          BY <2>3
        <5> QED BY <3>1, <5>1
      <4> QED BY <4>1, <4>2
    <3>8. T!Normalize = T!Expected
      BY <1>5, <2>5, <3>6, <3>7
    <3>9. Len(T!Normalize) = r - v /\ T!IsPrefix(T!Normalize, T!Expected)
      <4>1. PICK z : z = T!Expected
        OBVIOUS
      <4>2. z \in Seq(T!Char) /\ Len(z) = r - v
        BY <2>5, <2>6, <2>7, <4>1
      <4>3. T!IsPrefix(z, z)
        BY <4>2, BeginsWith
      <4> QED BY <3>8, <4>1, <4>2, <4>3
    <3>10. r - v <= limit
      <4>1. Len(put) = m - v /\ Len(put) <= limit
        BY <1>5, <1>11, <2>8 DEF Cut
      <4> QED BY <2>3, <4>1
    <3> QED BY <3>8, <3>9, <3>10 DEF T!NormalizedTrue
  \* A beginning of it.
  <2>9. CASE ~Exact(put, e, m, v)
    <3>1. Cut(put, e, m, v) /\ ~(Len(text) <= limit)
      BY <1>5, <2>9
    <3>2. PICK g \in 1..limit :
            /\ g <= m - v
            /\ \A k \in 1..g : put[k] = Unified(text[e[v + k]])
            /\ put[g] \notin T!WhiteSpace
            /\ \A k \in g + 1..limit : put[k] \in T!WhiteSpace
      BY <3>1 DEF Cut
    <3>3. \A k \in 1..g : v + k \in 1..m
      BY <3>2
    <3>4. \A k \in 1..g : put[k] = u[v + k]
      BY <1>6, <3>2, <3>3
    <3>5. Len(put) = limit /\ g \in 0..Len(put) /\ 0 \in 0..g
      BY <3>1, <3>2 DEF Cut
    <3>6. put[0 + 1] \notin T!WhiteSpace
      <4>1. put[1] = u[v + 1]
        BY <3>2, <3>4
      <4> QED BY <2>3, <4>1
    <3>7. \A k \in 1..0 : put[k] \in T!WhiteSpace
      OBVIOUS
    <3>8. \A k \in g + 1..Len(put) : put[k] \in T!WhiteSpace
      BY <3>2, <3>5
    <3>9. T!Trim(put) = [k \in 1..g - 0 |-> put[0 + k]]
      BY <1>5, <3>2, <3>5, <3>6, <3>7, <3>8, TrimTo
    <3>10. T!Trim(put) = [k \in 1..g |-> u[v + k]]
      <4>1. g - 0 = g /\ \A k \in 1..g : put[0 + k] = u[v + k]
        BY <3>4
      <4> QED BY <3>9, <4>1
    <3>11. g <= r - v
      <4>1. v + g \in 1..m /\ u[v + g] \notin T!WhiteSpace
        BY <3>2, <3>3, <3>4
      <4>2. v + g <= r
        BY <2>2, <4>1 DEF I
      <4> QED BY <2>3, <4>2
    <3>12. g \in 0..r - v
      BY <3>11
    <3>13. T!Normalize = [k \in 1..g |-> u[v + k]]
      BY <1>5, <3>10
    <3>14. Len(T!Normalize) = g /\ T!IsPrefix(T!Normalize, T!Expected)
      <4>1. PICK s, z : s = T!Normalize /\ z = T!Expected
        OBVIOUS
      <4>2. z \in Seq(T!Char) /\ Len(z) = r - v /\ \A k \in 1..r - v : z[k] = u[v + k]
        BY <2>5, <2>6, <2>7, <4>1
      <4>3. \A k \in 1..g : k \in 1..r - v /\ u[v + k] \in T!Char
        BY <2>6, <2>7, <3>12
      <4>4. s \in Seq(T!Char) /\ Len(s) = g /\ \A k \in 1..g : s[k] = u[v + k]
        <5>1. s = [k \in 1..g |-> u[v + k]] /\ g \in Nat /\ \A k \in 1..g : u[v + k] \in T!Char
          BY <3>13, <4>1, <4>3
        <5> QED BY <5>1
      <4>5. T!IsPrefix(s, z)
        <5>1. Len(s) <= Len(z)
          BY <3>11, <4>2, <4>4
        <5>2. \A k \in 1..Len(s) : s[k] = z[k]
          BY <4>2, <4>3, <4>4
        <5> QED BY <4>2, <4>4, <5>1, <5>2, BeginsWith
      <4> QED BY <4>1, <4>4, <4>5
    <3> QED BY <3>1, <3>14 DEF T!NormalizedTrue
  <2> QED BY <2>8, <2>9
<1> QED BY <1>12, <1>13

TextInv == text \in Seq(T!Char) /\ limit \in Limits

LEMMA TextInit ==
  ASSUME T!Init
  PROVE  TextInv
  BY DEF T!Init, TextInv

LEMMA TextStep ==
  ASSUME TextInv, T!Next \/ UNCHANGED tVars
  PROVE  TextInv'
<1>1. CASE T!Next
  BY <1>1 DEF T!Next, T!Extend, TextInv
<1>2. CASE UNCHANGED tVars
  BY <1>2 DEF tVars, TextInv
<1> QED BY <1>1, <1>2

-----------------------------------------------------------------------------
(* MtomParts: sequences.                                                    *)

Symbol == {"CR", "LF", "marker", "dashes", "header", "x"}

\* The recursion of FlattenSeq has a solution, and its last value is the concatenation.
LEMMA FlattenUnfolds ==
  ASSUME NEW ss, Len(ss) \in Nat \ {0}
  PROVE  \E f : /\ f = [i \in 1..Len(ss) |-> IF i = 1 THEN ss[i] ELSE f[i - 1] \o ss[i]]
                /\ M!FlattenSeq(ss) = f[Len(ss)]
<1> DEFINE Value(f, i) == IF i = 1 THEN ss[i] ELSE f[i - 1] \o ss[i]
           Rec(f) == [i \in 1..Len(ss) |-> Value(f, i)]
           S == {n \in Nat : \E f : f = [i \in 1..n |-> Value(f, i)]}
<1>1. 0 \in S
  <2>1. [i \in 1..0 |-> 0] = [i \in 1..0 |-> Value([j \in 1..0 |-> 0], i)]
    OBVIOUS
  <2> QED BY <2>1
<1>2. ASSUME NEW n \in S PROVE n + 1 \in S
  <2>1. n \in Nat
    OBVIOUS
  <2>2. PICK f : f = [i \in 1..n |-> Value(f, i)]
    OBVIOUS
  <2> DEFINE g == [i \in 1..n + 1 |-> IF i = n + 1 THEN Value(f, n + 1) ELSE f[i]]
  <2>3. \A i \in 1..n + 1 : g[i] = Value(g, i)
    <3> TAKE i \in 1..n + 1
    <3>1. CASE i = n + 1 /\ i # 1
      <4>1. i - 1 = n /\ g[n] = f[n]
        BY <2>1, <3>1
      <4> QED BY <2>1, <3>1, <4>1
    <3>2. CASE i \in 1..n /\ i # 1
      <4>1. i - 1 \in 1..n /\ g[i] = f[i] /\ g[i - 1] = f[i - 1]
        BY <2>1, <3>2
      <4>2. f[i] = Value(f, i)
        BY <2>2, <3>2
      <4> QED BY <3>2, <4>1, <4>2
    <3>3. CASE i = 1
      BY <2>1, <2>2, <3>3
    <3> QED BY <2>1, <3>1, <3>2, <3>3
  <2> HIDE DEF Value
  <2>4. g = [i \in 1..n + 1 |-> Value(g, i)]
    BY <2>3
  <2> HIDE DEF g
  <2>5. \E j : j = [i \in 1..n + 1 |-> Value(j, i)]
    <3> WITNESS g
    <3> QED BY <2>4
  <2> QED BY <2>1, <2>5
<1>3. PICK f : f = Rec(f)
  <2>1. S = Nat
    <3> HIDE DEF S
    <3>1. S \subseteq Nat
      BY DEF S
    <3> QED BY <1>1, <1>2, <3>1, Induction
  <2>2. Len(ss) \in S
    BY <2>1
  <2> QED BY <2>2
<1>4. M!FlattenSeq(ss) = (CHOOSE g : g = Rec(g))[Len(ss)]
  BY DEF M!FlattenSeq
<1>5. PICK h : h = (CHOOSE g : g = Rec(g))
  OBVIOUS
<1>6. h = Rec(h)
  <2> HIDE DEF Rec
  <2> QED BY <1>3, <1>5, Zenon
<1>7. M!FlattenSeq(ss) = h[Len(ss)]
  BY <1>4, <1>5
<1> WITNESS h
<1> QED BY <1>6, <1>7

\* Each of the sequences stands in their concatenation, from where those before it end.
LEMMA FlattenIs ==
  ASSUME NEW ss \in Seq(Seq(Symbol))
  PROVE  \E off \in [0..Len(ss) -> Nat] :
           /\ off[0] = 0
           /\ \A i \in 1..Len(ss) : off[i] = off[i - 1] + Len(ss[i])
           /\ M!FlattenSeq(ss) \in Seq(Symbol) /\ Len(M!FlattenSeq(ss)) = off[Len(ss)]
           /\ \A i \in 1..Len(ss) :
                /\ off[i] <= off[Len(ss)]
                /\ \A k \in 1..Len(ss[i]) : M!FlattenSeq(ss)[off[i - 1] + k] = ss[i][k]
<1>0. Len(ss) \in Nat /\ \A i \in 1..Len(ss) : ss[i] \in Seq(Symbol) /\ Len(ss[i]) \in Nat
  OBVIOUS
<1>1. CASE Len(ss) = 0
  <2>1. M!FlattenSeq(ss) = <<>>
    BY <1>1 DEF M!FlattenSeq
  <2> DEFINE off == [i \in 0..0 |-> 0]
  <2>2. off \in [0..0 -> Nat] /\ off[0] = 0 /\ 1..0 = {}
    OBVIOUS
  <2>3. <<>> \in Seq(Symbol) /\ Len(<<>>) = 0
    OBVIOUS
  <2> HIDE DEF off
  <2> QED BY <1>1, <2>1, <2>2, <2>3
<1>2. CASE Len(ss) # 0
  <2>1. PICK f : /\ f = [i \in 1..Len(ss) |-> IF i = 1 THEN ss[i] ELSE f[i - 1] \o ss[i]]
                 /\ M!FlattenSeq(ss) = f[Len(ss)]
    BY <1>0, <1>2, FlattenUnfolds
  <2> DEFINE g == [i \in 0..Len(ss) |-> IF i = 0 THEN <<>> ELSE f[i]]
  <2>2. g[0] = <<>> /\ g[Len(ss)] = M!FlattenSeq(ss)
    BY <1>0, <1>2, <2>1
  <2>3. \A i \in 1..Len(ss) : f[i] = IF i = 1 THEN ss[i] ELSE f[i - 1] \o ss[i]
    BY <2>1
  <2>4. \A i \in 1..Len(ss) : g[i] = g[i - 1] \o ss[i]
    <3> TAKE i \in 1..Len(ss)
    <3>1. i - 1 \in 0..Len(ss) /\ i \in 0..Len(ss) /\ i # 0
      BY <1>0
    <3>2. CASE i = 1
      <4>1. g[i] = ss[i] /\ g[i - 1] = <<>>
        BY <2>3, <3>1, <3>2
      <4>2. <<>> \o ss[i] = ss[i]
        BY <1>0
      <4> QED BY <4>1, <4>2
    <3>3. CASE i # 1
      <4>1. i - 1 # 0 /\ g[i] = f[i] /\ g[i - 1] = f[i - 1]
        BY <3>1, <3>3
      <4> QED BY <2>3, <3>3, <4>1
    <3> QED BY <3>2, <3>3
  <2> HIDE DEF g
  <2> DEFINE Told(n) == /\ g[n] \in Seq(Symbol)
                        /\ \A i \in 1..n :
                             /\ g[i - 1] \in Seq(Symbol) /\ Len(g[i]) = Len(g[i - 1]) + Len(ss[i])
                             /\ Len(g[i]) <= Len(g[n])
                             /\ \A k \in 1..Len(ss[i]) : g[n][Len(g[i - 1]) + k] = ss[i][k]
             S == {n \in Nat : n <= Len(ss) => Told(n)}
  <2>5. 0 \in S
    <3>1. Told(0)
      BY <2>2
    <3> QED BY <3>1
  <2>6. ASSUME NEW n \in S PROVE n + 1 \in S
    <3> SUFFICES ASSUME n + 1 <= Len(ss) PROVE Told(n + 1)
      <4> HIDE DEF Told
      <4> QED OBVIOUS
    <3>1. n \in Nat /\ n <= Len(ss) /\ n + 1 \in 1..Len(ss) /\ (n + 1) - 1 = n
      BY <1>0
    <3>2. Told(n)
      <4> HIDE DEF Told
      <4> QED BY <3>1
    <3>3. PICK a, b : a = g[n] /\ b = ss[n + 1]
      OBVIOUS
    <3>4. a \in Seq(Symbol) /\ b \in Seq(Symbol) /\ g[n + 1] = a \o b
      BY <1>0, <2>4, <3>1, <3>2, <3>3
    <3>5. /\ a \o b \in Seq(Symbol) /\ Len(a \o b) = Len(a) + Len(b) /\ Len(a) \in Nat /\ Len(b) \in Nat
          /\ \A k \in 1..Len(a) : (a \o b)[k] = a[k]
          /\ \A k \in 1..Len(b) : (a \o b)[Len(a) + k] = b[k]
      BY <3>4
    <3>6. ASSUME NEW i \in 1..n + 1
          PROVE  /\ g[i - 1] \in Seq(Symbol) /\ Len(g[i]) = Len(g[i - 1]) + Len(ss[i])
                 /\ Len(g[i]) <= Len(g[n + 1])
                 /\ \A k \in 1..Len(ss[i]) : g[n + 1][Len(g[i - 1]) + k] = ss[i][k]
      <4>1. i = n + 1 \/ i \in 1..n
        BY <3>1
      <4>2. CASE i = n + 1
        <5>1. g[i - 1] = a /\ ss[i] = b /\ g[i] = a \o b /\ g[n + 1] = a \o b
          BY <3>1, <3>3, <3>4, <4>2
        <5>2. Len(g[i]) <= Len(g[n + 1])
          BY <3>5, <5>1
        <5> QED BY <3>4, <3>5, <5>1, <5>2
      <4>3. CASE i \in 1..n
        <5>1. PICK p, q, r : p = g[i - 1] /\ q = ss[i] /\ r = g[i]
          OBVIOUS
        <5>2. p \in Seq(Symbol) /\ Len(r) = Len(p) + Len(q) /\ Len(r) <= Len(a)
          BY <3>2, <3>3, <4>3, <5>1
        <5>3. \A k \in 1..Len(q) : a[Len(p) + k] = q[k]
          BY <3>2, <3>3, <4>3, <5>1
        <5>4. Len(p) \in Nat /\ Len(q) \in Nat /\ Len(r) \in Nat
          <6>1. q \in Seq(Symbol)
            BY <1>0, <3>1, <4>3, <5>1
          <6> QED BY <5>2, <6>1
        <5>5. \A k \in 1..Len(q) : Len(p) + k \in 1..Len(a)
          BY <3>5, <5>2, <5>4
        <5>6. \A k \in 1..Len(q) : (a \o b)[Len(p) + k] = q[k]
          BY <3>5, <5>3, <5>5
        <5>7. Len(r) <= Len(a \o b)
          BY <3>5, <5>2, <5>4
        <5> QED BY <3>4, <5>1, <5>2, <5>6, <5>7
      <4> QED BY <4>1, <4>2, <4>3
    <3> QED BY <3>4, <3>5, <3>6
  <2>7. Told(Len(ss))
    <3>1. S = Nat
      <4>1. S \subseteq Nat
        OBVIOUS
      <4> HIDE DEF S
      <4> QED BY <2>5, <2>6, <4>1, Induction
    <3>2. Len(ss) \in S
      BY <1>0, <3>1
    <3> HIDE DEF Told
    <3> QED BY <1>0, <3>2
  <2> DEFINE off == [i \in 0..Len(ss) |-> Len(g[i])]
  <2>8. \A i \in 0..Len(ss) : off[i] = Len(g[i]) /\ Len(g[i]) \in Nat
    <3> TAKE i \in 0..Len(ss)
    <3>1. CASE i = Len(ss)
      BY <2>7, <3>1
    <3>2. CASE i # Len(ss)
      <4>1. i + 1 \in 1..Len(ss) /\ (i + 1) - 1 = i
        BY <1>0, <3>2
      <4>2. g[i] \in Seq(Symbol)
        BY <2>7, <4>1
      <4> QED BY <4>2
    <3> QED BY <3>1, <3>2
  <2>9. off \in [0..Len(ss) -> Nat]
    <3>1. \A i \in 0..Len(ss) : Len(g[i]) \in Nat
      BY <2>8
    <3> QED BY <3>1
  <2>10. 0 \in 0..Len(ss) /\ Len(ss) \in 0..Len(ss) /\ \A i \in 1..Len(ss) : i \in 0..Len(ss) /\ i - 1 \in 0..Len(ss)
    BY <1>0
  <2>11. off[0] = 0
    BY <2>2, <2>8, <2>10
  <2>12. Len(M!FlattenSeq(ss)) = off[Len(ss)] /\ M!FlattenSeq(ss) \in Seq(Symbol)
    BY <2>2, <2>7, <2>8, <2>10
  <2> HIDE DEF off
  <2>13. \A i \in 1..Len(ss) :
           /\ off[i] = off[i - 1] + Len(ss[i])
           /\ off[i] <= off[Len(ss)]
           /\ \A k \in 1..Len(ss[i]) : M!FlattenSeq(ss)[off[i - 1] + k] = ss[i][k]
    BY <2>2, <2>7, <2>8, <2>10
  <2> QED BY <2>9, <2>11, <2>12, <2>13
<1> QED BY <1>1, <1>2

\* What At says of two symbols, and of four.
LEMMA AtTwo ==
  ASSUME NEW s \in Seq(Symbol), NEW i \in Int, NEW a, NEW b
  PROVE  M!At(s, i, <<a, b>>) <=> i > 0 /\ i + 1 <= Len(s) /\ s[i] = a /\ s[i + 1] = b
<1>1. CASE i > 0 /\ i + 1 <= Len(s)
  <2>1. PICK q : q = SubSeq(s, i, i + 1)
    OBVIOUS
  <2>2. q \in Seq(Symbol) /\ Len(q) = 2
    BY <1>1, <2>1
  <2>3. \A k \in 1..2 : q[k] = s[i + k - 1]
    BY <1>1, <2>1
  <2>4. q[1] = s[i] /\ q[2] = s[i + 1]
    BY <2>3
  <2>5. q = <<q[1], q[2]>>
    BY <2>2
  <2>6. i + Len(<<a, b>>) - 1 = i + 1
    OBVIOUS
  <2>7. M!At(s, i, <<a, b>>) <=> q = <<a, b>>
    BY <1>1, <2>1, <2>6 DEF M!At
  <2> QED BY <1>1, <2>4, <2>5, <2>7
<1>2. CASE ~(i > 0 /\ i + 1 <= Len(s))
  BY <1>2 DEF M!At
<1> QED BY <1>1, <1>2

LEMMA AtFour ==
  ASSUME NEW s \in Seq(Symbol), NEW i \in Int, NEW a, NEW b, NEW c, NEW d
  PROVE  M!At(s, i, <<a, b, c, d>>) <=>
           i > 0 /\ i + 3 <= Len(s) /\ s[i] = a /\ s[i + 1] = b /\ s[i + 2] = c /\ s[i + 3] = d
<1>1. CASE i > 0 /\ i + 3 <= Len(s)
  <2>1. PICK q : q = SubSeq(s, i, i + 3)
    OBVIOUS
  <2>2. q \in Seq(Symbol) /\ Len(q) = 4
    BY <1>1, <2>1
  <2>3. \A k \in 1..4 : q[k] = s[i + k - 1]
    BY <1>1, <2>1
  <2>4. q[1] = s[i] /\ q[2] = s[i + 1] /\ q[3] = s[i + 2] /\ q[4] = s[i + 3]
    BY <2>3
  <2>5. q = <<q[1], q[2], q[3], q[4]>>
    BY <2>2
  <2>6. i + Len(<<a, b, c, d>>) - 1 = i + 3
    OBVIOUS
  <2>7. M!At(s, i, <<a, b, c, d>>) <=> q = <<a, b, c, d>>
    BY <1>1, <2>1, <2>6 DEF M!At
  <2> QED BY <1>1, <2>4, <2>5, <2>7
<1>2. CASE ~(i > 0 /\ i + 3 <= Len(s))
  BY <1>2 DEF M!At
<1> QED BY <1>1, <1>2

LEMMA AtFive ==
  ASSUME NEW s \in Seq(Symbol), NEW i \in Int, NEW a, NEW b, NEW c, NEW d, NEW e
  PROVE  M!At(s, i, <<a, b, c, d, e>>) <=>
           /\ i > 0 /\ i + 4 <= Len(s)
           /\ s[i] = a /\ s[i + 1] = b /\ s[i + 2] = c /\ s[i + 3] = d /\ s[i + 4] = e
<1>1. CASE i > 0 /\ i + 4 <= Len(s)
  <2>1. PICK q : q = SubSeq(s, i, i + 4)
    OBVIOUS
  <2>2. q \in Seq(Symbol) /\ Len(q) = 5
    BY <1>1, <2>1
  <2>3. \A k \in 1..5 : q[k] = s[i + k - 1]
    BY <1>1, <2>1
  <2>4. q[1] = s[i] /\ q[2] = s[i + 1] /\ q[3] = s[i + 2] /\ q[4] = s[i + 3] /\ q[5] = s[i + 4]
    BY <2>3
  <2>5. q = <<q[1], q[2], q[3], q[4], q[5]>>
    BY <2>2
  <2>6. i + Len(<<a, b, c, d, e>>) - 1 = i + 4
    OBVIOUS
  <2>7. M!At(s, i, <<a, b, c, d, e>>) <=> q = <<a, b, c, d, e>>
    BY <1>1, <2>1, <2>6 DEF M!At
  <2> QED BY <1>1, <2>4, <2>5, <2>7
<1>2. CASE ~(i > 0 /\ i + 4 <= Len(s))
  BY <1>2 DEF M!At
<1> QED BY <1>1, <1>2

\* indexOf finds the least.
LEMMA FirstIs ==
  ASSUME NEW I, I \subseteq Nat, NEW x \in I, \A y \in I : x <= y
  PROVE  M!First(I) = x
<1>1. I # {} /\ M!First(I) = M!Min(I)
  BY DEF M!First
<1>2. M!Min(I) = CHOOSE y \in I : \A z \in I : y <= z
  BY DEF M!Min
<1>3. M!Min(I) \in I /\ \A z \in I : M!Min(I) <= z
  BY <1>2, Zenon
<1>4. PICK m : m = M!Min(I)
  OBVIOUS
<1>5. m <= x /\ x <= m /\ m \in Nat /\ x \in Nat
  BY <1>3, <1>4
<1>6. m = x
  BY <1>5
<1> QED BY <1>1, <1>4, <1>6

-----------------------------------------------------------------------------
(* MtomParts: where what ArcSuite writes stands in the response.            *)

PartsInv ==
  /\ parts \in Seq(Seq(Symbol)) /\ frame \in M!Frames
  /\ frame.closed \/ frame.after = <<>>

\* A part from p on, up to the delimiter that follows it.
PartAt(msg, p, part) ==
  /\ p + Len(part) + 9 <= Len(msg)
  /\ msg[p] = "marker" /\ msg[p + 1] = "CR" /\ msg[p + 2] = "LF"
  /\ msg[p + 3] = "header" /\ msg[p + 4] = "CR" /\ msg[p + 5] = "LF"
  /\ msg[p + 6] = "CR" /\ msg[p + 7] = "LF"
  /\ \A k \in 1..Len(part) : msg[p + 7 + k] = part[k]
  /\ msg[p + Len(part) + 8] = "CR" /\ msg[p + Len(part) + 9] = "LF"

\* What stands behind the last part.
EndAt(msg, p) ==
  /\ frame.closed => /\ msg[p] = "marker" /\ msg[p + 1] = "dashes"
                     /\ Len(msg) = p + 1 + Len(frame.after)
                     /\ \A k \in 1..Len(frame.after) : msg[p + 1 + k] = frame.after[k]
  /\ ~frame.closed => Len(msg) = p - 1

\* pos names the places of the markers.
Layout(msg, pos) ==
  /\ msg \in Seq(Symbol) /\ pos \in [1..Len(parts) + 1 -> Nat]
  /\ pos[1] = Len(frame.before) + 1
  /\ \A k \in 1..Len(frame.before) : msg[k] = frame.before[k]
  /\ \A i \in 1..Len(parts) : PartAt(msg, pos[i], parts[i]) /\ pos[i + 1] = pos[i] + Len(parts[i]) + 10
  /\ EndAt(msg, pos[Len(parts) + 1])

LEMMA TwoTogether ==
  ASSUME NEW a \in Seq(Symbol), NEW b \in Seq(Symbol)
  PROVE  /\ a \o b \in Seq(Symbol) /\ Len(a \o b) = Len(a) + Len(b)
         /\ Len(a) \in Nat /\ Len(b) \in Nat
         /\ \A k \in 1..Len(a) : (a \o b)[k] = a[k]
         /\ \A k \in 1..Len(b) : (a \o b)[Len(a) + k] = b[k]
  OBVIOUS

\* c is one sequence with the other behind it.
Joined(a, b, c) ==
  /\ c \in Seq(Symbol) /\ Len(c) = Len(a) + Len(b) /\ Len(b) \in Nat
  /\ \A k \in 1..Len(a) : c[k] = a[k]
  /\ \A k \in 1..Len(b) : c[Len(a) + k] = b[k]

LEMMA JoinedIs ==
  ASSUME NEW a \in Seq(Symbol), NEW b \in Seq(Symbol), NEW c, c = a \o b
  PROVE  Joined(a, b, c)
BY TwoTogether DEF Joined

LEMMA WrittenIs ==
  ASSUME NEW part \in Seq(Symbol)
  PROVE  /\ M!Written(part) \in Seq(Symbol) /\ Len(M!Written(part)) = Len(part) + 10
         /\ M!Written(part)[1] = "marker" /\ M!Written(part)[2] = "CR" /\ M!Written(part)[3] = "LF"
         /\ M!Written(part)[4] = "header" /\ M!Written(part)[5] = "CR" /\ M!Written(part)[6] = "LF"
         /\ M!Written(part)[7] = "CR" /\ M!Written(part)[8] = "LF"
         /\ \A k \in 1..Len(part) : M!Written(part)[8 + k] = part[k]
         /\ M!Written(part)[Len(part) + 9] = "CR" /\ M!Written(part)[Len(part) + 10] = "LF"
<1> DEFINE head == <<"marker", "CR", "LF", "header", "CR", "LF", "CR", "LF">>
           crlf == <<"CR", "LF">>
<1>1. head \in Seq(Symbol) /\ Len(head) = 8 /\ crlf \in Seq(Symbol) /\ Len(crlf) = 2
  BY DEF Symbol
<1>2. M!Written(part) = head \o part \o crlf
  BY DEF M!Written, M!CRLF
<1>3. head[1] = "marker" /\ head[2] = "CR" /\ head[3] = "LF" /\ head[4] = "header"
  OBVIOUS
<1>4. head[5] = "CR" /\ head[6] = "LF" /\ head[7] = "CR" /\ head[8] = "LF" /\ crlf[1] = "CR" /\ crlf[2] = "LF"
  OBVIOUS
<1> HIDE DEF head, crlf
<1>5. PICK ab : ab = head \o part
  OBVIOUS
<1>6. /\ ab \in Seq(Symbol) /\ Len(ab) = 8 + Len(part) /\ Len(part) \in Nat
      /\ \A k \in 1..8 : ab[k] = head[k]
      /\ \A k \in 1..Len(part) : ab[8 + k] = part[k]
  <2>1. /\ ab \in Seq(Symbol) /\ Len(ab) = Len(head) + Len(part) /\ Len(part) \in Nat
        /\ \A k \in 1..Len(head) : ab[k] = head[k]
        /\ \A k \in 1..Len(part) : ab[Len(head) + k] = part[k]
    <3>1. head \in Seq(Symbol) /\ part \in Seq(Symbol)
      BY <1>1
    <3>2. Joined(head, part, ab)
      BY <3>1, <1>5, JoinedIs, Zenon
    <3> QED BY <3>2 DEF Joined
  <2> QED BY <1>1, <2>1
<1>7. PICK w : w = ab \o crlf
  OBVIOUS
<1>8. /\ w \in Seq(Symbol) /\ Len(w) = 8 + Len(part) + 2
      /\ \A k \in 1..8 + Len(part) : w[k] = ab[k]
      /\ \A k \in 1..2 : w[8 + Len(part) + k] = crlf[k]
  <2>1. /\ w \in Seq(Symbol) /\ Len(w) = Len(ab) + Len(crlf)
        /\ \A k \in 1..Len(ab) : w[k] = ab[k]
        /\ \A k \in 1..Len(crlf) : w[Len(ab) + k] = crlf[k]
    <3>1. ab \in Seq(Symbol) /\ crlf \in Seq(Symbol)
      BY <1>1, <1>6
    <3>2. Joined(ab, crlf, w)
      BY <3>1, <1>7, JoinedIs, Zenon
    <3> QED BY <3>2 DEF Joined
  <2> QED BY <1>1, <1>6, <2>1
<1>9. M!Written(part) = w
  BY <1>2, <1>5, <1>7
<1>10. \A k \in 1..8 : w[k] = head[k]
  <2>1. \A k \in 1..8 : k \in 1..8 + Len(part)
    BY <1>6
  <2> QED BY <1>6, <1>8, <2>1
<1>11. \A k \in 1..Len(part) : w[8 + k] = part[k]
  <2>1. \A k \in 1..Len(part) : 8 + k \in 1..8 + Len(part)
    BY <1>6
  <2> QED BY <1>6, <1>8, <2>1
<1>12. w[Len(part) + 9] = "CR" /\ w[Len(part) + 10] = "LF"
  <2>1. 8 + Len(part) + 1 = Len(part) + 9 /\ 8 + Len(part) + 2 = Len(part) + 10 /\ 1 \in 1..2 /\ 2 \in 1..2
    BY <1>6
  <2> QED BY <1>4, <1>8, <2>1
<1>13. Len(w) = Len(part) + 10
  BY <1>6, <1>8
<1>14. w[1] = head[1] /\ w[2] = head[2] /\ w[3] = head[3] /\ w[4] = head[4]
  BY <1>10
<1>15. w[5] = head[5] /\ w[6] = head[6] /\ w[7] = head[7] /\ w[8] = head[8]
  BY <1>10
<1> QED BY <1>3, <1>4, <1>8, <1>9, <1>11, <1>12, <1>13, <1>14, <1>15

LEMMA FrameIs ==
  ASSUME PartsInv
  PROVE  /\ frame.before \in Seq(Symbol) /\ frame.after \in Seq(Symbol)
         /\ frame.closed \in BOOLEAN
         /\ frame.before \in {<<>>, <<"CR", "LF">>, <<"x">>}
         /\ frame.after \in {<<>>, <<"CR", "LF">>, <<"x">>}
<1>1. /\ frame.before \in {<<>>, <<"CR", "LF">>, <<"x">>}
      /\ frame.after \in {<<>>, <<"CR", "LF">>, <<"x">>}
      /\ frame.closed \in BOOLEAN
  BY DEF PartsInv, M!Frames, M!CRLF
<1>2. <<>> \in Seq(Symbol) /\ <<"CR", "LF">> \in Seq(Symbol) /\ <<"x">> \in Seq(Symbol)
  BY DEF Symbol
<1> QED BY <1>1, <1>2

LEMMA BodyLayout ==
  ASSUME PartsInv
  PROVE  \E pos : Layout(M!Body, pos)
<1>0. parts \in Seq(Seq(Symbol)) /\ Len(parts) \in Nat /\ DOMAIN parts = 1..Len(parts)
  BY DEF PartsInv
<1>1. \A i \in 1..Len(parts) : parts[i] \in Seq(Symbol) /\ Len(parts[i]) \in Nat
  BY <1>0
<1> DEFINE ss == [i \in DOMAIN parts |-> M!Written(parts[i])]
           n == Len(parts)
<1>2. ss \in Seq(Seq(Symbol)) /\ Len(ss) = n
  <2>1. \A i \in 1..n : M!Written(parts[i]) \in Seq(Symbol)
    BY <1>1, WrittenIs
  <2>2. ss = [i \in 1..n |-> M!Written(parts[i])]
    BY <1>0
  <2> HIDE DEF ss
  <2> QED BY <1>0, <2>1, <2>2
<1>3. \A i \in 1..n : ss[i] = M!Written(parts[i])
  BY <1>0
<1>4. PICK all : all = M!FlattenSeq(ss)
  OBVIOUS
<1>5. PICK off \in [0..n -> Nat] :
           /\ off[0] = 0
           /\ \A i \in 1..n : off[i] = off[i - 1] + Len(ss[i])
           /\ all \in Seq(Symbol) /\ Len(all) = off[n]
           /\ \A i \in 1..n :
                /\ off[i] <= off[n]
                /\ \A k \in 1..Len(ss[i]) : all[off[i - 1] + k] = ss[i][k]
  <2> HIDE DEF ss
  <2> QED BY <1>2, <1>4, FlattenIs
<1> DEFINE tail == IF frame.closed THEN <<"marker", "dashes">> \o frame.after ELSE <<>>
<1>6. tail \in Seq(Symbol)
  <2>1. <<"marker", "dashes">> \in Seq(Symbol) /\ <<>> \in Seq(Symbol)
    BY DEF Symbol
  <2>2. <<"marker", "dashes">> \o frame.after \in Seq(Symbol)
    BY <2>1, FrameIs, TwoTogether
  <2> QED BY <2>1, <2>2
<1>7. M!Body = frame.before \o all \o tail
  BY <1>4 DEF M!Body
<1>8. frame.closed => /\ tail[1] = "marker" /\ tail[2] = "dashes" /\ Len(tail) = 2 + Len(frame.after)
                      /\ \A k \in 1..Len(frame.after) : tail[2 + k] = frame.after[k]
  <2> SUFFICES ASSUME frame.closed
               PROVE  /\ tail[1] = "marker" /\ tail[2] = "dashes" /\ Len(tail) = 2 + Len(frame.after)
                      /\ \A k \in 1..Len(frame.after) : tail[2 + k] = frame.after[k]
    OBVIOUS
  <2>1. PICK close : close = <<"marker", "dashes">>
    OBVIOUS
  <2>2. close \in Seq(Symbol) /\ Len(close) = 2 /\ close[1] = "marker" /\ close[2] = "dashes"
    BY <2>1 DEF Symbol
  <2>3. tail = close \o frame.after
    BY <2>1
  <2>4. /\ Len(tail) = 2 + Len(frame.after)
        /\ \A k \in 1..2 : tail[k] = close[k]
        /\ \A k \in 1..Len(frame.after) : tail[2 + k] = frame.after[k]
    <3> HIDE DEF tail
    <3>1. PICK rest : rest = frame.after
      OBVIOUS
    <3>2. rest \in Seq(Symbol)
      BY <3>1, FrameIs
    <3>3. /\ Len(tail) = Len(close) + Len(rest)
          /\ \A k \in 1..Len(close) : tail[k] = close[k]
          /\ \A k \in 1..Len(rest) : tail[Len(close) + k] = rest[k]
      BY <2>2, <2>3, <3>1, <3>2, TwoTogether
    <3> QED BY <2>2, <3>1, <3>3
  <2>5. tail[1] = close[1] /\ tail[2] = close[2]
    <3> HIDE DEF tail
    <3> QED BY <2>4
  <2> HIDE DEF tail
  <2> QED BY <2>2, <2>4, <2>5
<1>9. ~frame.closed => Len(tail) = 0
  OBVIOUS
<1> HIDE DEF tail, ss
<1>10. PICK pre : pre = frame.before
  OBVIOUS
<1>11. pre \in Seq(Symbol) /\ Len(pre) \in Nat
  BY <1>10, FrameIs
<1>12. PICK most : most = pre \o all
  OBVIOUS
<1>13. /\ most \in Seq(Symbol) /\ Len(most) = Len(pre) + off[n]
       /\ \A k \in 1..Len(pre) : most[k] = pre[k]
       /\ \A k \in 1..off[n] : most[Len(pre) + k] = all[k]
  BY <1>5, <1>11, <1>12, TwoTogether
<1>14. PICK msg : msg = most \o tail
  OBVIOUS
<1>15. off[n] \in Nat
  BY <1>0, <1>5
<1>16. /\ msg \in Seq(Symbol) /\ Len(msg) = Len(most) + Len(tail)
       /\ Len(most) \in Nat /\ Len(tail) \in Nat
       /\ \A k \in 1..Len(most) : msg[k] = most[k]
       /\ \A k \in 1..Len(tail) : msg[Len(most) + k] = tail[k]
  BY <1>6, <1>13, <1>14, TwoTogether
<1>17. \A k \in 1..Len(pre) : msg[k] = pre[k]
  <2>1. \A k \in 1..Len(pre) : k \in 1..Len(most)
    BY <1>11, <1>13, <1>15
  <2> QED BY <1>13, <1>16, <2>1
<1>18. \A k \in 1..off[n] : msg[Len(pre) + k] = all[k]
  <2>1. \A k \in 1..off[n] : Len(pre) + k \in 1..Len(most)
    BY <1>11, <1>13, <1>15
  <2> QED BY <1>13, <1>16, <2>1
<1> DEFINE pos == [i \in 1..n + 1 |-> Len(pre) + off[i - 1] + 1]
<1>19. \A i \in 1..n + 1 : pos[i] = Len(pre) + off[i - 1] + 1 /\ off[i - 1] \in Nat
  <2>1. \A i \in 1..n + 1 : i - 1 \in 0..n
    BY <1>0
  <2> QED BY <1>5, <2>1
<1>20. pos \in [1..n + 1 -> Nat]
  <2>1. \A i \in 1..n + 1 : Len(pre) + off[i - 1] + 1 \in Nat
    BY <1>11, <1>19
  <2> QED BY <2>1
<1>21. pos[1] = Len(pre) + 1
  <2>1. 1 \in 1..n + 1 /\ 1 - 1 = 0
    BY <1>0
  <2> QED BY <1>5, <1>11, <1>19, <2>1
<1> HIDE DEF pos
<1>22. ASSUME NEW i \in 1..n PROVE PartAt(msg, pos[i], parts[i]) /\ pos[i + 1] = pos[i] + Len(parts[i]) + 10
  <2>1. PICK part, w, o, p : part = parts[i] /\ w = ss[i] /\ o = off[i - 1] /\ p = pos[i]
    OBVIOUS
  <2>2. i \in 1..n + 1 /\ i + 1 \in 1..n + 1 /\ (i + 1) - 1 = i /\ i \in 0..n
    BY <1>0
  <2>3. part \in Seq(Symbol) /\ Len(part) \in Nat /\ w = M!Written(part)
    BY <1>1, <1>3, <2>1
  <2>4. /\ Len(w) = Len(part) + 10
        /\ w[1] = "marker" /\ w[2] = "CR" /\ w[3] = "LF"
        /\ w[4] = "header" /\ w[5] = "CR" /\ w[6] = "LF" /\ w[7] = "CR" /\ w[8] = "LF"
        /\ \A k \in 1..Len(part) : w[8 + k] = part[k]
        /\ w[Len(part) + 9] = "CR" /\ w[Len(part) + 10] = "LF"
    BY <2>3, WrittenIs
  <2>5. p = Len(pre) + o + 1 /\ o \in Nat
    BY <1>19, <2>1, <2>2
  <2>6. off[i] = o + Len(part) + 10 /\ off[i] <= off[n]
    <3>1. off[i] = o + Len(w) /\ off[i] <= off[n]
      BY <1>5, <2>1
    <3> QED BY <2>3, <2>4, <2>5, <3>1
  <2>7. \A k \in 1..Len(part) + 10 : msg[p + k - 1] = w[k]
    <3> TAKE k \in 1..Len(part) + 10
    <3>1. o + k \in 1..off[n]
      BY <1>15, <2>3, <2>5, <2>6
    <3>2. all[o + k] = w[k]
      BY <1>5, <2>1, <2>4
    <3>3. Len(pre) + (o + k) = p + k - 1
      BY <1>11, <2>5
    <3> QED BY <1>18, <3>1, <3>2, <3>3
  <2>8. pos[i + 1] = p + Len(part) + 10
    <3>1. pos[i + 1] = Len(pre) + off[i] + 1
      BY <1>19, <2>2
    <3> QED BY <1>11, <2>3, <2>5, <2>6, <3>1
  <2>9. p + Len(part) + 9 <= Len(msg)
    BY <1>11, <1>13, <1>15, <1>16, <2>3, <2>5, <2>6
  <2>10. p \in Nat
    BY <1>11, <2>5
  <2>11. msg[p] = w[1] /\ msg[p + 1] = w[2] /\ msg[p + 2] = w[3] /\ msg[p + 3] = w[4]
    <3>1. \A k \in 1..4 : k \in 1..Len(part) + 10
      BY <2>3
    <3>2. p + 1 - 1 = p /\ p + 2 - 1 = p + 1 /\ p + 3 - 1 = p + 2 /\ p + 4 - 1 = p + 3
      BY <2>10
    <3>3. \A k \in 1..4 : msg[p + k - 1] = w[k]
      BY <2>7, <3>1
    <3>4. msg[p + 1 - 1] = w[1] /\ msg[p + 2 - 1] = w[2] /\ msg[p + 3 - 1] = w[3] /\ msg[p + 4 - 1] = w[4]
      BY <3>3
    <3> QED BY <3>2, <3>4
  <2>12. msg[p + 4] = w[5] /\ msg[p + 5] = w[6] /\ msg[p + 6] = w[7] /\ msg[p + 7] = w[8]
    <3>1. \A k \in 5..8 : k \in 1..Len(part) + 10
      BY <2>3
    <3>2. p + 5 - 1 = p + 4 /\ p + 6 - 1 = p + 5 /\ p + 7 - 1 = p + 6 /\ p + 8 - 1 = p + 7
      BY <2>10
    <3>3. \A k \in 5..8 : msg[p + k - 1] = w[k]
      BY <2>7, <3>1
    <3>4. msg[p + 5 - 1] = w[5] /\ msg[p + 6 - 1] = w[6] /\ msg[p + 7 - 1] = w[7] /\ msg[p + 8 - 1] = w[8]
      BY <3>3
    <3> QED BY <3>2, <3>4
  <2>13. \A k \in 1..Len(part) : msg[p + 7 + k] = part[k]
    <3> TAKE k \in 1..Len(part)
    <3>1. 8 + k \in 1..Len(part) + 10 /\ p + (8 + k) - 1 = p + 7 + k
      BY <2>3, <2>10
    <3> QED BY <2>4, <2>7, <3>1
  <2>14. msg[p + Len(part) + 8] = "CR" /\ msg[p + Len(part) + 9] = "LF"
    <3>1. /\ Len(part) + 9 \in 1..Len(part) + 10 /\ p + (Len(part) + 9) - 1 = p + Len(part) + 8
          /\ Len(part) + 10 \in 1..Len(part) + 10 /\ p + (Len(part) + 10) - 1 = p + Len(part) + 9
      BY <2>3, <2>10
    <3> QED BY <2>4, <2>7, <3>1
  <2>15. PartAt(msg, p, part)
    BY <2>4, <2>9, <2>11, <2>12, <2>13, <2>14 DEF PartAt
  <2> QED BY <2>1, <2>8, <2>15
<1>23. EndAt(msg, pos[n + 1])
  <2>1. PICK p : p = pos[n + 1]
    OBVIOUS
  <2>2. n + 1 \in 1..n + 1 /\ (n + 1) - 1 = n
    BY <1>0
  <2>3. p = Len(most) + 1
    BY <1>11, <1>13, <1>15, <1>19, <2>1, <2>2
  <2>4. CASE frame.closed
    <3>1. Len(frame.after) \in Nat
      BY FrameIs
    <3>0. PICK l, q : l = Len(frame.after) /\ q = Len(most)
      OBVIOUS
    <3>7. Len(tail) = 2 + l /\ Len(msg) = q + Len(tail) /\ l \in Nat /\ q \in Nat /\ p = q + 1
      BY <1>8, <1>16, <2>3, <2>4, <3>0, <3>1
    <3>2. Len(msg) = p + 1 + Len(frame.after)
      <4>1. Len(msg) = p + 1 + l
        BY <3>7
      <4> QED BY <3>0, <4>1
    <3>3. msg[p] = "marker" /\ msg[p + 1] = "dashes"
      <4>1. 1 \in 1..Len(tail) /\ 2 \in 1..Len(tail) /\ Len(most) + 1 = p /\ Len(most) + 2 = p + 1
        BY <1>8, <1>16, <2>3, <2>4, <3>1
      <4> QED BY <1>8, <1>16, <2>4, <4>1
    <3>4. ASSUME NEW k \in 1..Len(frame.after) PROVE msg[p + 1 + k] = frame.after[k]
      <4>1. 2 + k \in 1..Len(tail) /\ Len(most) + (2 + k) = p + 1 + k
        <5>1. k \in 1..l
          BY <3>0
        <5>2. 2 + k \in 1..2 + l /\ q + (2 + k) = p + 1 + k
          BY <3>7, <5>1
        <5> QED BY <3>0, <3>7, <5>2
      <4> QED BY <1>8, <1>16, <2>4, <4>1
    <3> QED BY <2>1, <2>4, <3>2, <3>3, <3>4 DEF EndAt
  <2>5. CASE ~frame.closed
    <3>1. Len(msg) = p - 1
      BY <1>9, <1>16, <2>3, <2>5
    <3> QED BY <2>1, <2>5, <3>1 DEF EndAt
  <2> QED BY <2>4, <2>5
<1>24. M!Body = msg
  BY <1>7, <1>10, <1>12, <1>14
<1>25. Layout(msg, pos)
  BY <1>10, <1>16, <1>17, <1>20, <1>21, <1>22, <1>23 DEF Layout
<1> QED BY <1>24, <1>25

-----------------------------------------------------------------------------
(* MtomParts: the parser's turns.                                           *)

LEMMA AtOne ==
  ASSUME NEW s \in Seq(Symbol), NEW i \in Int, NEW a
  PROVE  M!At(s, i, <<a>>) <=> i > 0 /\ i <= Len(s) /\ s[i] = a
<1>1. CASE i > 0 /\ i <= Len(s)
  <2>1. PICK q : q = SubSeq(s, i, i)
    OBVIOUS
  <2>2. q \in Seq(Symbol) /\ Len(q) = 1
    BY <1>1, <2>1
  <2>3. q[1] = s[i]
    BY <1>1, <2>1
  <2>4. q = <<q[1]>>
    BY <2>2
  <2>5. i + Len(<<a>>) - 1 = i
    OBVIOUS
  <2>6. M!At(s, i, <<a>>) <=> q = <<a>>
    BY <1>1, <2>1, <2>5 DEF M!At
  <2> QED BY <1>1, <2>3, <2>4, <2>6
<1>2. CASE ~(i > 0 /\ i <= Len(s))
  BY <1>2 DEF M!At
<1> QED BY <1>1, <1>2

\* Line ends and a marker, put together.
LEMMA TwoLineEnds == M!CRLF \o M!CRLF = <<"CR", "LF", "CR", "LF">>
<1>1. PICK c : c = <<"CR", "LF">>
  OBVIOUS
<1>2. c \in Seq(Symbol) /\ Len(c) = 2 /\ c[1] = "CR" /\ c[2] = "LF"
  BY <1>1 DEF Symbol
<1>3. PICK s : s = c \o c
  OBVIOUS
<1>4. /\ s \in Seq(Symbol) /\ Len(s) = 4
      /\ \A k \in 1..2 : s[k] = c[k]
      /\ \A k \in 1..2 : s[2 + k] = c[k]
  <2>1. /\ s \in Seq(Symbol) /\ Len(s) = Len(c) + Len(c)
        /\ \A k \in 1..Len(c) : s[k] = c[k]
        /\ \A k \in 1..Len(c) : s[Len(c) + k] = c[k]
    BY <1>2, <1>3, TwoTogether
  <2> QED BY <1>2, <1>3, <2>1
<1>5. s[1] = "CR" /\ s[2] = "LF" /\ s[2 + 1] = "CR" /\ s[2 + 2] = "LF"
  BY <1>2, <1>4
<1>6. s = <<s[1], s[2], s[3], s[4]>>
  BY <1>4
<1>7. s = <<"CR", "LF", "CR", "LF">>
  BY <1>5, <1>6
<1> QED BY <1>1, <1>3, <1>7 DEF M!CRLF

LEMMA Delimiters ==
  /\ M!CRLF \o <<"marker">> \o <<"dashes">> = <<"CR", "LF", "marker", "dashes">>
  /\ M!CRLF \o <<"marker">> \o M!CRLF = <<"CR", "LF", "marker", "CR", "LF">>
<1>1. PICK c, m, d : c = <<"CR", "LF">> /\ m = <<"marker">> /\ d = <<"dashes">>
  OBVIOUS
<1>2. /\ c \in Seq(Symbol) /\ Len(c) = 2 /\ c[1] = "CR" /\ c[2] = "LF"
      /\ m \in Seq(Symbol) /\ Len(m) = 1 /\ m[1] = "marker"
      /\ d \in Seq(Symbol) /\ Len(d) = 1 /\ d[1] = "dashes"
  BY <1>1 DEF Symbol
<1>3. PICK s : s = c \o m
  OBVIOUS
<1>4. s \in Seq(Symbol) /\ Len(s) = 3 /\ s[1] = "CR" /\ s[2] = "LF" /\ s[3] = "marker"
  <2>1. /\ s \in Seq(Symbol) /\ Len(s) = 3
        /\ \A k \in 1..2 : s[k] = c[k]
        /\ \A k \in 1..1 : s[2 + k] = m[k]
    <3>1. /\ s \in Seq(Symbol) /\ Len(s) = Len(c) + Len(m)
          /\ \A k \in 1..Len(c) : s[k] = c[k]
          /\ \A k \in 1..Len(m) : s[Len(c) + k] = m[k]
      BY <1>2, <1>3, TwoTogether
    <3> QED BY <1>2, <1>3, <3>1
  <2>2. s[1] = c[1] /\ s[2] = c[2] /\ s[2 + 1] = m[1]
    BY <2>1
  <2> QED BY <1>2, <2>1, <2>2
<1>5. PICK x, y : x = s \o d /\ y = s \o c
  OBVIOUS
<1>6. x = <<"CR", "LF", "marker", "dashes">>
  <2>1. /\ x \in Seq(Symbol) /\ Len(x) = 4
        /\ \A k \in 1..3 : x[k] = s[k]
        /\ \A k \in 1..1 : x[3 + k] = d[k]
    <3>1. /\ x \in Seq(Symbol) /\ Len(x) = Len(s) + Len(d)
          /\ \A k \in 1..Len(s) : x[k] = s[k]
          /\ \A k \in 1..Len(d) : x[Len(s) + k] = d[k]
      BY <1>2, <1>4, <1>5, TwoTogether
    <3>2. Len(s) = 3 /\ Len(d) = 1
      BY <1>2, <1>4
    <3> QED BY <3>1, <3>2
  <2>2. x[1] = s[1] /\ x[2] = s[2] /\ x[3] = s[3] /\ x[3 + 1] = d[1]
    BY <2>1
  <2>3. x = <<x[1], x[2], x[3], x[4]>>
    BY <2>1
  <2>4. x[1] = "CR" /\ x[2] = "LF" /\ x[3] = "marker" /\ x[4] = "dashes"
    BY <1>2, <1>4, <2>2
  <2> QED BY <2>3, <2>4
<1>7. y = <<"CR", "LF", "marker", "CR", "LF">>
  <2>1. /\ y \in Seq(Symbol) /\ Len(y) = 5
        /\ \A k \in 1..3 : y[k] = s[k]
        /\ \A k \in 1..2 : y[3 + k] = c[k]
    <3>1. /\ y \in Seq(Symbol) /\ Len(y) = Len(s) + Len(c)
          /\ \A k \in 1..Len(s) : y[k] = s[k]
          /\ \A k \in 1..Len(c) : y[Len(s) + k] = c[k]
      BY <1>2, <1>4, <1>5, TwoTogether
    <3>2. Len(s) = 3 /\ Len(c) = 2
      BY <1>2, <1>4
    <3> QED BY <3>1, <3>2
  <2>2. y[1] = s[1] /\ y[2] = s[2] /\ y[3] = s[3] /\ y[3 + 1] = c[1] /\ y[3 + 2] = c[2]
    BY <2>1
  <2>3. y = <<y[1], y[2], y[3], y[4], y[5]>>
    BY <2>1
  <2>4. y[1] = "CR" /\ y[2] = "LF" /\ y[3] = "marker" /\ y[4] = "CR" /\ y[5] = "LF"
    BY <1>2, <1>4, <2>2
  <2> QED BY <2>3, <2>4
<1> QED BY <1>1, <1>3, <1>5, <1>6, <1>7 DEF M!CRLF

\* What indexOf returns is a place it was looking for.
LEMMA FirstFound ==
  ASSUME NEW I, I \subseteq Nat, M!First(I) # 0
  PROVE  M!First(I) \in I
<1>1. I # {}
  BY DEF M!First
<1>2. PICK x \in I : \A y \in I : x <= y
  BY <1>1, LeastOne
<1> QED BY <1>2, FirstIs

\* The header block of a part, the delimiter after it, and what else must hold of it.
HeaderEnd(msg, c) == M!First({i \in c + 2..Len(msg) : M!At(msg, i, M!CRLF \o M!CRLF)})

NextMarker(msg, c) == M!BoundaryAt(msg, HeaderEnd(msg, c) + 4)

Fits(msg, c) ==
  /\ M!At(msg, c, M!CRLF)
  /\ HeaderEnd(msg, c) > 0 /\ M!ValidHeaders(SubSeq(msg, c + 2, HeaderEnd(msg, c) - 1))
  /\ NextMarker(msg, c) >= HeaderEnd(msg, c) + 4 + 2 /\ M!At(msg, NextMarker(msg, c) - 2, M!CRLF)

\* What a turn of the loop returns.
Parts(rest, msg, c) ==
  IF M!At(msg, c, <<"dashes">>)
  THEN IF \A i \in c + 1..Len(msg) : msg[i] \in {"CR", "LF"} THEN {<<>>} ELSE {}
  ELSE IF Fits(msg, c)
       THEN {<<SubSeq(msg, HeaderEnd(msg, c) + 4, NextMarker(msg, c) - 3)>> \o later :
               later \in rest[NextMarker(msg, c) + 1]}
       ELSE {}

\* A turn goes forward.
LEMMA TurnForward ==
  ASSUME NEW msg \in Seq(Symbol), NEW c \in Nat, Fits(msg, c)
  PROVE  NextMarker(msg, c) \in Nat /\ NextMarker(msg, c) > c /\ NextMarker(msg, c) <= Len(msg)
<1> DEFINE I == {i \in c + 2..Len(msg) : M!At(msg, i, M!CRLF \o M!CRLF)}
<1>1. PICK h : h = HeaderEnd(msg, c)
  OBVIOUS
<1>2. h \in Nat /\ h >= c + 2
  <2>1. I \subseteq Nat /\ h = M!First(I)
    BY <1>1 DEF HeaderEnd
  <2>2. h # 0
    BY <1>1 DEF Fits
  <2>3. h \in I
    <3> HIDE DEF I
    <3> QED BY <2>1, <2>2, FirstFound
  <2> QED BY <2>3
<1> DEFINE J == {i \in h + 4..Len(msg) : M!IsDelimiter(msg, i)}
<1>3. NextMarker(msg, c) = M!First(J) /\ J \subseteq Nat
  BY <1>1, <1>2 DEF NextMarker, M!BoundaryAt
<1>4. NextMarker(msg, c) # 0
  <2>1. NextMarker(msg, c) >= h + 4 + 2
    BY <1>1 DEF Fits
  <2> QED BY <1>2, <2>1
<1>5. NextMarker(msg, c) \in J
  <2> HIDE DEF J
  <2> QED BY <1>3, <1>4, FirstFound
<1>6. PICK m : m = NextMarker(msg, c)
  OBVIOUS
<1>7. m \in h + 4..Len(msg)
  BY <1>5, <1>6
<1>8. m \in Nat /\ m > c /\ m <= Len(msg)
  BY <1>2, <1>7
<1> QED BY <1>6, <1>8

\* The recursion of Split has a solution.
LEMMA SplitUnfolds ==
  ASSUME NEW msg \in Seq(Symbol)
  PROVE  \E f : /\ f = [c \in 1..Len(msg) + 1 |-> Parts(f, msg, c)]
                /\ M!Split(msg) = LET first == M!BoundaryAt(msg, 1)
                                  IN  IF first = 1 \/ (first = 3 /\ M!At(msg, 1, M!CRLF)) THEN f[first + 1] ELSE {}
<1> DEFINE l == Len(msg) + 1
           Rec(f) == [c \in 1..l |-> Parts(f, msg, c)]
           S == {n \in Nat : n < l => \E f : f = [c \in l - n..l |-> Parts(f, msg, c)]}
<1>0. l \in Nat /\ l > 0
  OBVIOUS
\* A turn depends on later ones only.
<1>1. ASSUME NEW f, NEW g, NEW c \in 1..l, \A d \in c + 1..l : f[d] = g[d]
      PROVE  Parts(f, msg, c) = Parts(g, msg, c)
  <2>1. CASE Fits(msg, c)
    <3>1. NextMarker(msg, c) + 1 \in c + 1..l
      BY <2>1, TurnForward
    <3>2. f[NextMarker(msg, c) + 1] = g[NextMarker(msg, c) + 1]
      BY <1>1, <3>1
    <3> QED BY <3>2 DEF Parts
  <2>2. CASE ~Fits(msg, c)
    BY <2>2 DEF Parts
  <2> QED BY <2>1, <2>2
<1> HIDE DEF l
<1>2. 0 \in S
  <2> DEFINE f == [c \in l - 0..l |-> Parts([d \in {} |-> 0], msg, c)]
  <2>1. ASSUME NEW c \in l - 0..l PROVE f[c] = Parts(f, msg, c)
    <3>1. c \in 1..l /\ c + 1..l = {}
      BY <1>0
    <3>2. Parts([d \in {} |-> 0], msg, c) = Parts(f, msg, c)
      <4> HIDE DEF f
      <4> QED BY <1>1, <3>1
    <3> QED BY <3>2
  <2>2. f = [c \in l - 0..l |-> f[c]]
    OBVIOUS
  <2> HIDE DEF f
  <2>3. f = [c \in l - 0..l |-> Parts(f, msg, c)]
    BY <2>1, <2>2
  <2> QED BY <2>3
<1>3. ASSUME NEW n \in S PROVE n + 1 \in S
  <2> SUFFICES ASSUME n + 1 < l PROVE \E f : f = [c \in l - (n + 1)..l |-> Parts(f, msg, c)]
    OBVIOUS
  <2>1. n \in Nat /\ n < l
    BY <1>0
  <2>2. PICK f : f = [c \in l - n..l |-> Parts(f, msg, c)]
    BY <2>1
  <2> DEFINE k == l - (n + 1)
             g == [c \in k..l |-> IF c = k THEN Parts(f, msg, k) ELSE f[c]]
  <2>3. k \in 1..l /\ \A c \in k..l : c \in 1..l /\ (c = k \/ c \in l - n..l)
    BY <1>0, <2>1
  <2>4. \A c \in k + 1..l : c \in k..l /\ c # k /\ g[c] = f[c]
    BY <1>0, <2>1
  <2>5. ASSUME NEW c \in k..l PROVE g[c] = Parts(g, msg, c)
    <3>1. \A d \in c + 1..l : f[d] = g[d]
      <4>1. \A d \in c + 1..l : d \in k + 1..l
        BY <1>0, <2>1
      <4> QED BY <2>4, <4>1
    <3>2. Parts(f, msg, c) = Parts(g, msg, c)
      <4> HIDE DEF g
      <4> QED BY <1>1, <2>3, <3>1
    <3>3. g[c] = Parts(f, msg, c)
      BY <2>2, <2>3
    <3> QED BY <3>2, <3>3
  <2>6. g = [c \in k..l |-> g[c]]
    OBVIOUS
  <2> HIDE DEF g
  <2>7. g = [c \in k..l |-> Parts(g, msg, c)]
    BY <2>5, <2>6
  <2> QED BY <2>7
<1>4. PICK f : f = Rec(f)
  <2>1. S = Nat
    <3> HIDE DEF S
    <3>1. S \subseteq Nat
      BY DEF S
    <3> QED BY <1>2, <1>3, <3>1, Induction
  <2>2. PICK n : n = l - 1
    OBVIOUS
  <2>3. n \in Nat /\ n < l /\ l - n = 1
    BY <1>0, <2>2
  <2>4. n \in S
    BY <2>1, <2>3
  <2> QED BY <2>3, <2>4
<1>5. M!Split(msg) = LET first == M!BoundaryAt(msg, 1)
                     IN  IF first = 1 \/ (first = 3 /\ M!At(msg, 1, M!CRLF))
                         THEN (CHOOSE g : g = Rec(g))[first + 1] ELSE {}
  BY DEF M!Split, Parts, Fits, NextMarker, HeaderEnd, l
<1>6. PICK h : h = (CHOOSE g : g = Rec(g))
  OBVIOUS
<1>7. h = Rec(h)
  <2> HIDE DEF Rec
  <2> QED BY <1>4, <1>6, Zenon
<1>8. M!Split(msg) = LET first == M!BoundaryAt(msg, 1)
                     IN  IF first = 1 \/ (first = 3 /\ M!At(msg, 1, M!CRLF)) THEN h[first + 1] ELSE {}
  <2> HIDE DEF Rec
  <2> QED BY <1>5, <1>6
<1> WITNESS h
<1> QED BY <1>7, <1>8 DEF l

-----------------------------------------------------------------------------
(* MtomParts: the turn that meets a part, and the one that meets the end.   *)

LEMMA DelimiterIs ==
  ASSUME NEW msg \in Seq(Symbol), NEW i \in Nat
  PROVE  M!IsDelimiter(msg, i) <=>
           /\ msg[i] = "marker"
           /\ i = 1 \/ (i > 2 /\ i - 1 <= Len(msg) /\ msg[i - 2] = "CR" /\ msg[i - 1] = "LF")
           /\ \/ i + 1 <= Len(msg) /\ msg[i + 1] = "dashes"
              \/ i + 2 <= Len(msg) /\ msg[i + 1] = "CR" /\ msg[i + 2] = "LF"
<1>1. M!At(msg, i - 2, M!CRLF) <=> i > 2 /\ i - 1 <= Len(msg) /\ msg[i - 2] = "CR" /\ msg[i - 1] = "LF"
  <2>1. i - 2 \in Int /\ (i - 2) + 1 = i - 1 /\ (i - 2 > 0 <=> i > 2)
    OBVIOUS
  <2>2. M!At(msg, i - 2, <<"CR", "LF">>) <=>
          i - 2 > 0 /\ (i - 2) + 1 <= Len(msg) /\ msg[i - 2] = "CR" /\ msg[(i - 2) + 1] = "LF"
    BY <2>1, AtTwo
  <2> QED BY <2>1, <2>2 DEF M!CRLF
<1>2. M!At(msg, i + 1, M!CRLF) <=> i + 2 <= Len(msg) /\ msg[i + 1] = "CR" /\ msg[i + 2] = "LF"
  <2>1. i + 1 \in Int /\ (i + 1) + 1 = i + 2 /\ i + 1 > 0
    OBVIOUS
  <2>2. M!At(msg, i + 1, <<"CR", "LF">>) <=>
          i + 1 > 0 /\ (i + 1) + 1 <= Len(msg) /\ msg[i + 1] = "CR" /\ msg[(i + 1) + 1] = "LF"
    BY <2>1, AtTwo
  <2> QED BY <2>1, <2>2 DEF M!CRLF
<1>3. M!At(msg, i + 1, <<"dashes">>) <=> i + 1 <= Len(msg) /\ msg[i + 1] = "dashes"
  <2>1. i + 1 \in Int /\ i + 1 > 0
    OBVIOUS
  <2> QED BY <2>1, AtOne
<1> QED BY <1>1, <1>2, <1>3 DEF M!IsDelimiter

\* No line of a payload is a delimiter.
LineClear(part) ==
  LET lines == M!CRLF \o part \o M!CRLF
  IN  \A i \in DOMAIN lines, end \in {M!CRLF, <<"dashes">>} : ~M!At(lines, i, M!CRLF \o <<"marker">> \o end)

LEMMA NoDelimiterInside ==
  ASSUME NEW msg \in Seq(Symbol), NEW p \in Nat, NEW part \in Seq(Symbol), PartAt(msg, p, part), LineClear(part)
  PROVE  \A j \in p + 8..p + Len(part) + 9 : ~M!IsDelimiter(msg, j)
<1> SUFFICES ASSUME NEW j \in p + 8..p + Len(part) + 9, M!IsDelimiter(msg, j) PROVE FALSE
  OBVIOUS
<1>1. PICK crlf : crlf = M!CRLF
  OBVIOUS
<1>2. crlf \in Seq(Symbol) /\ Len(crlf) = 2 /\ crlf[1] = "CR" /\ crlf[2] = "LF"
  BY <1>1 DEF M!CRLF, Symbol
<1>3. PICK upto : upto = crlf \o part
  OBVIOUS
<1>4. PICK lines : lines = upto \o crlf
  OBVIOUS
<1>5. PICK l : l = Len(part)
  OBVIOUS
<1>6. /\ upto \in Seq(Symbol) /\ Len(upto) = 2 + l /\ l \in Nat
      /\ \A k \in 1..2 : upto[k] = crlf[k]
      /\ \A k \in 1..l : upto[2 + k] = part[k]
  <2>1. /\ upto \in Seq(Symbol) /\ Len(upto) = Len(crlf) + Len(part) /\ Len(part) \in Nat
        /\ \A k \in 1..Len(crlf) : upto[k] = crlf[k]
        /\ \A k \in 1..Len(part) : upto[Len(crlf) + k] = part[k]
    BY <1>2, <1>3, TwoTogether
  <2> QED BY <1>2, <1>5, <2>1
<1>7. l \in Nat /\ j \in p + 8..p + l + 9
  BY <1>5
<1>8. /\ lines \in Seq(Symbol) /\ Len(lines) = l + 4
      /\ \A k \in 1..2 + l : lines[k] = upto[k]
      /\ \A k \in 1..2 : lines[2 + l + k] = crlf[k]
  <2>1. /\ lines \in Seq(Symbol) /\ Len(lines) = Len(upto) + Len(crlf)
        /\ \A k \in 1..Len(upto) : lines[k] = upto[k]
        /\ \A k \in 1..Len(crlf) : lines[Len(upto) + k] = crlf[k]
    <3>1. upto \in Seq(Symbol) /\ crlf \in Seq(Symbol)
      BY <1>2, <1>6
    <3> QED BY <1>4, <3>1, TwoTogether
  <2>2. Len(lines) = l + 4
    BY <1>2, <1>6, <2>1
  <2> QED BY <1>2, <1>6, <2>1, <2>2
<1>9. /\ \A k \in 1..l : msg[p + 7 + k] = part[k]
      /\ msg[p + 6] = "CR" /\ msg[p + 7] = "LF" /\ msg[p + l + 8] = "CR" /\ msg[p + l + 9] = "LF"
      /\ p + l + 9 <= Len(msg)
  BY <1>5 DEF PartAt
<1>10. ASSUME NEW k \in 1..l + 4 PROVE lines[k] = msg[p + 5 + k]
  <2>1. k = 1 \/ k = 2 \/ k - 2 \in 1..l \/ k = l + 3 \/ k = l + 4
    BY <1>6
  <2>2. CASE k = 1 \/ k = 2
    <3>1. k \in 1..2 + l /\ k \in 1..2
      BY <1>6, <2>2
    <3>2. lines[k] = crlf[k]
      BY <1>6, <1>8, <3>1
    <3>3. p + 5 + 1 = p + 6 /\ p + 5 + 2 = p + 7
      OBVIOUS
    <3> QED BY <1>2, <1>9, <2>2, <3>2, <3>3
  <2>3. CASE k - 2 \in 1..l
    <3>1. PICK m : m = k - 2
      OBVIOUS
    <3>2. m \in 1..l /\ k = 2 + m /\ k \in 1..2 + l /\ p + 5 + k = p + 7 + m
      BY <1>7, <2>3, <3>1
    <3>3. lines[k] = upto[2 + m]
      BY <1>8, <3>2
    <3> QED BY <1>6, <1>9, <3>2, <3>3
  <2>4. CASE k = l + 3
    <3>1. k = 2 + l + 1 /\ p + 5 + k = p + l + 8 /\ 1 \in 1..2
      BY <1>7, <2>4
    <3>2. lines[k] = crlf[1]
      BY <1>8, <3>1
    <3> QED BY <1>2, <1>9, <3>1, <3>2
  <2>5. CASE k = l + 4
    <3>1. k = 2 + l + 2 /\ p + 5 + k = p + l + 9 /\ 2 \in 1..2
      BY <1>7, <2>5
    <3>2. lines[k] = crlf[2]
      BY <1>8, <3>1
    <3> QED BY <1>2, <1>9, <3>1, <3>2
  <2> QED BY <2>1, <2>2, <2>3, <2>4, <2>5
<1>11. /\ msg[j] = "marker"
       /\ msg[j - 2] = "CR" /\ msg[j - 1] = "LF"
       /\ \/ msg[j + 1] = "dashes"
          \/ msg[j + 1] = "CR" /\ msg[j + 2] = "LF"
  <2>1. j \in Nat /\ j # 1
    OBVIOUS
  <2> QED BY <2>1, DelimiterIs
<1>12. j # p + l + 8 /\ j # p + l + 9
  BY <1>9, <1>11
<1>13. PICK k : k = j - 7 - p
  OBVIOUS
<1>14. /\ k \in Nat /\ k \in 1..l + 4 /\ k + 1 \in 1..l + 4 /\ k + 2 \in 1..l + 4 /\ k + 3 \in 1..l + 4 /\ k + 4 \in 1..l + 4
       /\ p + 5 + k = j - 2 /\ p + 5 + (k + 1) = j - 1 /\ p + 5 + (k + 2) = j
       /\ p + 5 + (k + 3) = j + 1 /\ p + 5 + (k + 4) = j + 2
  <2>1. k \in Nat /\ k \in 1..l /\ p + 5 + k = j - 2
    BY <1>12, <1>13, <1>7
  <2>2. k + 1 \in 1..l + 4 /\ k + 2 \in 1..l + 4 /\ k + 3 \in 1..l + 4 /\ k + 4 \in 1..l + 4 /\ k \in 1..l + 4
    BY <1>7, <2>1
  <2>3. /\ p + 5 + (k + 1) = j - 1 /\ p + 5 + (k + 2) = j
        /\ p + 5 + (k + 3) = j + 1 /\ p + 5 + (k + 4) = j + 2
    BY <1>13, <1>7
  <2> QED BY <2>1, <2>2, <2>3
<1>15. lines[k] = "CR" /\ lines[k + 1] = "LF" /\ lines[k + 2] = "marker" /\ k > 0 /\ k \in Int
  <2>1. lines[k] = msg[p + 5 + k] /\ lines[k + 1] = msg[p + 5 + (k + 1)] /\ lines[k + 2] = msg[p + 5 + (k + 2)]
    BY <1>10, <1>14
  <2>2. k > 0 /\ k \in Int
    BY <1>14
  <2> QED BY <1>11, <1>14, <2>1, <2>2
<1>16. k \in DOMAIN lines /\ lines = M!CRLF \o part \o M!CRLF
  BY <1>1, <1>3, <1>4, <1>8, <1>14
<1>17. k + 3 <= Len(lines) /\ k + 4 <= Len(lines)
  BY <1>6, <1>8, <1>14
<1>18. CASE msg[j + 1] = "dashes"
  <2>1. lines[k + 3] = "dashes"
    BY <1>10, <1>14, <1>18
  <2>2. M!At(lines, k, <<"CR", "LF", "marker", "dashes">>)
    BY <1>8, <1>15, <1>17, <2>1, AtFour
  <2>3. ~M!At(lines, k, M!CRLF \o <<"marker">> \o <<"dashes">>)
    BY <1>16 DEF LineClear
  <2> QED BY <2>2, <2>3, Delimiters
<1>19. CASE msg[j + 1] = "CR" /\ msg[j + 2] = "LF"
  <2>1. lines[k + 3] = "CR" /\ lines[k + 4] = "LF"
    BY <1>10, <1>14, <1>19
  <2>2. M!At(lines, k, <<"CR", "LF", "marker", "CR", "LF">>)
    BY <1>8, <1>15, <1>17, <2>1, AtFive
  <2>3. ~M!At(lines, k, M!CRLF \o <<"marker">> \o M!CRLF)
    BY <1>16 DEF LineClear
  <2> QED BY <2>2, <2>3, Delimiters
<1> QED BY <1>11, <1>18, <1>19

\* The delimiter after a part, if one stands there.
LEMMA NextIs ==
  ASSUME NEW msg \in Seq(Symbol), NEW p \in Nat, NEW part \in Seq(Symbol), PartAt(msg, p, part), LineClear(part),
         NEW q, q = p + Len(part) + 10
  PROVE  /\ q <= Len(msg) /\ M!IsDelimiter(msg, q) => M!BoundaryAt(msg, p + 8) = q
         /\ Len(msg) = q - 1 => M!BoundaryAt(msg, p + 8) = 0
<1> DEFINE J == {i \in p + 8..Len(msg) : M!IsDelimiter(msg, i)}
<1>1. M!BoundaryAt(msg, p + 8) = M!First(J)
  BY DEF M!BoundaryAt
<1>2. q \in Nat /\ q > p + 8 /\ Len(part) \in Nat /\ Len(msg) \in Nat
  OBVIOUS
<1>3. \A j \in p + 8..q - 1 : ~M!IsDelimiter(msg, j)
  <2>1. q - 1 = p + Len(part) + 9
    BY <1>2
  <2> QED BY <2>1, NoDelimiterInside
<1>4. ASSUME q <= Len(msg), M!IsDelimiter(msg, q) PROVE M!BoundaryAt(msg, p + 8) = q
  <2>1. q \in J /\ J \subseteq Nat
    BY <1>2, <1>4
  <2>2. \A y \in J : q <= y
    BY <1>2, <1>3
  <2> HIDE DEF J
  <2> QED BY <1>1, <2>1, <2>2, FirstIs
<1>5. ASSUME Len(msg) = q - 1 PROVE M!BoundaryAt(msg, p + 8) = 0
  <2>1. J = {}
    BY <1>3, <1>5
  <2> HIDE DEF J
  <2> QED BY <1>1, <2>1 DEF M!First
<1> QED BY <1>4, <1>5

\* The header block of a part is the one ArcSuite wrote.
LEMMA HeadersAre ==
  ASSUME NEW msg \in Seq(Symbol), NEW p \in Nat, NEW part \in Seq(Symbol), PartAt(msg, p, part)
  PROVE  HeaderEnd(msg, p + 1) = p + 4 /\ M!ValidHeaders(SubSeq(msg, p + 3, p + 3))
<1>0. Len(part) \in Nat /\ p + Len(part) + 9 <= Len(msg) /\ Len(msg) \in Nat
  BY DEF PartAt
<1> DEFINE I == {i \in p + 3..Len(msg) : M!At(msg, i, M!CRLF \o M!CRLF)}
<1>1. HeaderEnd(msg, p + 1) = M!First(I)
  <2>1. (p + 1) + 2 = p + 3
    OBVIOUS
  <2> QED BY <2>1 DEF HeaderEnd
<1>2. p + 4 \in I
  <2>1. p + 4 \in p + 3..Len(msg) /\ p + 4 \in Int /\ (p + 4) + 3 <= Len(msg) /\ p + 4 > 0
    BY <1>0
  <2>2. (p + 4) + 1 = p + 5 /\ (p + 4) + 2 = p + 6 /\ (p + 4) + 3 = p + 7
    OBVIOUS
  <2>3. msg[p + 4] = "CR" /\ msg[(p + 4) + 1] = "LF" /\ msg[(p + 4) + 2] = "CR" /\ msg[(p + 4) + 3] = "LF"
    BY <2>2 DEF PartAt
  <2>4. M!At(msg, p + 4, <<"CR", "LF", "CR", "LF">>)
    BY <2>1, <2>3, AtFour
  <2> QED BY <2>1, <2>4, TwoLineEnds
<1>3. ASSUME NEW i \in I PROVE p + 4 <= i
  <2>1. M!At(msg, i, <<"CR", "LF", "CR", "LF">>) /\ i \in Int /\ i \in p + 3..Len(msg)
    BY TwoLineEnds
  <2>2. msg[i] = "CR"
    BY <2>1, AtFour
  <2>3. i # p + 3
    BY <2>2 DEF PartAt
  <2> QED BY <2>1, <2>3
<1>4. I \subseteq Nat
  OBVIOUS
<1>5. HeaderEnd(msg, p + 1) = p + 4
  <2> HIDE DEF I
  <2> QED BY <1>1, <1>2, <1>3, <1>4, FirstIs
<1>6. PICK block : block = SubSeq(msg, p + 3, p + 3)
  OBVIOUS
<1>7. block \in Seq(Symbol) /\ Len(block) = 1 /\ block[1] = "header"
  <2>1. p + 3 \in 1..Len(msg) /\ msg[p + 3] = "header"
    BY <1>0 DEF PartAt
  <2> QED BY <1>6, <2>1
<1>8. ASSUME NEW k \in Int PROVE ~M!At(block, k, M!CRLF)
  <2>1. ~(k > 0 /\ k + 1 <= 1)
    OBVIOUS
  <2> QED BY <1>7, <2>1, AtTwo DEF M!CRLF
<1>9. DOMAIN block = 1..1 /\ 1..Len(block) = 1..1
  BY <1>7
<1>10. {1} \cup {j + 2 : j \in {k \in DOMAIN block : M!At(block, k, M!CRLF)}} = {1}
  BY <1>8, <1>9
<1>11. \E j \in 1..Len(block) : block[j] = "header" /\ \A k \in 1..j : ~M!At(block, k, M!CRLF)
  <2>1. 1 \in 1..Len(block)
    BY <1>9
  <2> QED BY <1>7, <1>8, <2>1
<1>12. M!ValidHeaders(block)
  BY <1>10, <1>11 DEF M!ValidHeaders
<1> QED BY <1>5, <1>6, <1>12

\* A turn that meets a part returns it in front of what the later turns return,
\* and nothing if the response breaks off behind it.
MeetsPart(rest, msg, p, part, q) ==
  /\ q <= Len(msg) /\ M!IsDelimiter(msg, q) =>
       Parts(rest, msg, p + 1) = {<<part>> \o later : later \in rest[q + 1]}
  /\ Len(msg) = q - 1 => Parts(rest, msg, p + 1) = {}

LEMMA TurnIs ==
  ASSUME NEW msg \in Seq(Symbol), NEW p \in Nat, NEW part \in Seq(Symbol), PartAt(msg, p, part), LineClear(part),
         NEW q, q = p + Len(part) + 10, NEW rest
  PROVE  MeetsPart(rest, msg, p, part, q)
<1>0. q \in Nat /\ q > p + 9 /\ Len(part) \in Nat /\ Len(msg) \in Nat /\ q - 1 <= Len(msg)
  BY DEF PartAt
<1>1. HeaderEnd(msg, p + 1) = p + 4 /\ M!ValidHeaders(SubSeq(msg, p + 3, p + 3))
  BY HeadersAre
<1>2. NextMarker(msg, p + 1) = M!BoundaryAt(msg, p + 8)
  <2>1. (p + 4) + 4 = p + 8
    OBVIOUS
  <2> QED BY <1>1, <2>1 DEF NextMarker
<1>3. M!At(msg, p + 1, M!CRLF) /\ ~M!At(msg, p + 1, <<"dashes">>)
  <2>1. p + 1 \in Int /\ (p + 1) + 1 = p + 2 /\ p + 1 > 0 /\ p + 2 <= Len(msg)
    BY <1>0
  <2>2. msg[p + 1] = "CR" /\ msg[p + 2] = "LF"
    BY DEF PartAt
  <2>3. M!At(msg, p + 1, <<"CR", "LF">>)
    BY <2>1, <2>2, AtTwo
  <2>4. ~M!At(msg, p + 1, <<"dashes">>)
    BY <2>1, <2>2, AtOne
  <2> QED BY <2>3, <2>4 DEF M!CRLF
<1>4. ASSUME q <= Len(msg), M!IsDelimiter(msg, q)
      PROVE  Parts(rest, msg, p + 1) = {<<part>> \o later : later \in rest[q + 1]}
  <2>1. NextMarker(msg, p + 1) = q
    BY <1>2, <1>4, NextIs
  <2>2. M!At(msg, q - 2, M!CRLF)
    <3>1. q - 2 \in Int /\ (q - 2) + 1 = q - 1 /\ q - 2 > 0 /\ q - 2 = p + Len(part) + 8 /\ q - 1 = p + Len(part) + 9
      BY <1>0
    <3>2. msg[q - 2] = "CR" /\ msg[q - 1] = "LF"
      BY <3>1 DEF PartAt
    <3>3. M!At(msg, q - 2, <<"CR", "LF">>)
      BY <1>0, <3>1, <3>2, AtTwo
    <3> QED BY <3>3 DEF M!CRLF
  <2>3. Fits(msg, p + 1)
    <3>1. (p + 1) + 2 = p + 3 /\ (p + 4) - 1 = p + 3 /\ p + 4 > 0 /\ q >= (p + 4) + 4 + 2
      BY <1>0
    <3> QED BY <1>1, <1>3, <2>1, <2>2, <3>1 DEF Fits
  <2>4. SubSeq(msg, p + 8, q - 3) = part
    <3>1. PICK s : s = SubSeq(msg, p + 8, q - 3)
      OBVIOUS
    <3>2. p + 8 \in Nat /\ q - 3 \in Nat /\ q - 3 = p + Len(part) + 7 /\ p + 8 >= 1 /\ q - 3 <= Len(msg)
      BY <1>0
    <3>3. PICK l : l = Len(part)
      OBVIOUS
    <3>4. s \in Seq(Symbol) /\ Len(s) = l
      BY <1>0, <3>1, <3>2, <3>3
    <3>5. \A k \in 1..l : s[k] = part[k]
      <4> TAKE k \in 1..l
      <4>1. k \in 1..(q - 3) - (p + 8) + 1 /\ (p + 8) + k - 1 = p + 7 + k
        BY <1>0, <3>2, <3>3
      <4>2. s[k] = msg[(p + 8) + k - 1]
        BY <3>1, <3>2, <3>4, <4>1
      <4>3. msg[p + 7 + k] = part[k]
        BY <3>3 DEF PartAt
      <4> QED BY <4>1, <4>2, <4>3
    <3>6. s = part
      BY <3>3, <3>4, <3>5
    <3> QED BY <3>1, <3>6
  <2>5. (p + 4) + 4 = p + 8
    OBVIOUS
  <2> QED BY <1>1, <1>3, <2>1, <2>3, <2>4, <2>5 DEF Parts
<1>5. ASSUME Len(msg) = q - 1 PROVE Parts(rest, msg, p + 1) = {}
  <2>1. NextMarker(msg, p + 1) = 0
    BY <1>2, <1>5, NextIs
  <2>2. ~Fits(msg, p + 1)
    <3>1. ~(0 >= (p + 4) + 4 + 2)
      OBVIOUS
    <3> QED BY <1>1, <2>1, <3>1 DEF Fits
  <2> QED BY <1>3, <2>2 DEF Parts
<1> QED BY <1>4, <1>5 DEF MeetsPart

\* The turn behind the closing delimiter: nothing but line ends may follow.
LEMMA LastTurnIs ==
  ASSUME PartsInv, NEW msg \in Seq(Symbol), NEW q \in Nat \ {0}, EndAt(msg, q), frame.closed, NEW rest
  PROVE  Parts(rest, msg, q + 1) = IF frame.after = <<"x">> THEN {} ELSE {<<>>}
<1>1. PICK after : after = frame.after
  OBVIOUS
<1>2. after \in {<<>>, <<"CR", "LF">>, <<"x">>}
  BY <1>1, FrameIs
<1>3. /\ msg[q + 1] = "dashes" /\ Len(msg) = q + 1 + Len(after)
      /\ \A k \in 1..Len(after) : msg[q + 1 + k] = after[k]
  BY <1>1 DEF EndAt
<1>4. Len(after) \in Nat
  BY <1>2
<1>5. M!At(msg, q + 1, <<"dashes">>)
  <2>1. q + 1 \in Int /\ q + 1 > 0 /\ q + 1 <= Len(msg)
    BY <1>3, <1>4
  <2> QED BY <1>3, <2>1, AtOne
<1>6. (\A i \in (q + 1) + 1..Len(msg) : msg[i] \in {"CR", "LF"}) <=> after # <<"x">>
  <2>1. CASE after = <<>>
    <3>1. Len(after) = 0
      BY <2>1
    <3>2. (q + 1) + 1..Len(msg) = {}
      BY <1>3, <3>1
    <3> QED BY <2>1, <3>2
  <2>2. CASE after = <<"CR", "LF">>
    <3>1. Len(after) = 2 /\ after[1] = "CR" /\ after[2] = "LF"
      BY <2>2
    <3>2. msg[q + 1 + 1] = "CR" /\ msg[q + 1 + 2] = "LF" /\ Len(msg) = q + 3
      BY <1>3, <3>1
    <3>3. \A i \in (q + 1) + 1..Len(msg) : i = q + 1 + 1 \/ i = q + 1 + 2
      BY <3>2
    <3>4. \A i \in (q + 1) + 1..Len(msg) : msg[i] \in {"CR", "LF"}
      BY <3>2, <3>3
    <3>5. after # <<"x">>
      BY <2>2
    <3> QED BY <3>4, <3>5
  <2>3. CASE after = <<"x">>
    <3>1. Len(after) = 1 /\ after[1] = "x"
      BY <2>3
    <3>2. msg[q + 1 + 1] = "x" /\ Len(msg) = q + 2
      BY <1>3, <3>1
    <3>3. q + 1 + 1 \in (q + 1) + 1..Len(msg)
      BY <3>2
    <3> QED BY <2>3, <3>2, <3>3
  <2> QED BY <1>2, <2>1, <2>2, <2>3
<1> QED BY <1>1, <1>5, <1>6 DEF Parts

-----------------------------------------------------------------------------
(* MtomParts: all the turns.                                                *)

\* From part i on, the parser returns what is left of the list, or refuses.
RestIs(f, pos, i) ==
  i <= Len(parts) \/ frame.closed =>
    f[pos[i] + 1] = IF frame.closed /\ frame.after # <<"x">> THEN {SubSeq(parts, i, Len(parts))} ELSE {}

\* The markers stand in the response, and each one is a delimiter: not the first one if something else
\* is on its line, and none stands where a response breaks off.
LEMMA MarkersAre ==
  ASSUME PartsInv, NEW msg, NEW pos, Layout(msg, pos), NEW i \in 1..Len(parts) + 1,
         i = 1 => frame.before # <<"x">>
  PROVE  /\ pos[i] \in Nat \ {0}
         /\ i <= Len(parts) \/ frame.closed => pos[i] <= Len(msg) /\ M!IsDelimiter(msg, pos[i])
<1>0. /\ parts \in Seq(Seq(Symbol)) /\ Len(parts) \in Nat
      /\ msg \in Seq(Symbol) /\ Len(msg) \in Nat /\ pos \in [1..Len(parts) + 1 -> Nat]
  BY DEF PartsInv, Layout
<1>1. PICK p : p = pos[i]
  OBVIOUS
<1>2. p \in Nat
  BY <1>0, <1>1
\* What stands before a marker: the part before it, or what opens the response.
<1>3. p > 0 /\ (p = 1 \/ (p > 2 /\ p - 1 <= Len(msg) /\ msg[p - 2] = "CR" /\ msg[p - 1] = "LF"))
  <2>1. CASE i = 1
    <3>1. PICK before : before = frame.before
      OBVIOUS
    <3>2. p = Len(before) + 1 /\ \A k \in 1..Len(before) : msg[k] = before[k]
      BY <1>1, <2>1, <3>1 DEF Layout
    <3>3. before \in {<<>>, <<"CR", "LF">>, <<"x">>}
      BY <3>1, FrameIs
    <3>4. CASE before = <<>>
      BY <3>2, <3>4
    <3>5. CASE before = <<"CR", "LF">>
      <4>1. Len(before) = 2 /\ before[1] = "CR" /\ before[2] = "LF"
        BY <3>5
      <4>2. p = 3 /\ msg[1] = "CR" /\ msg[2] = "LF"
        BY <3>2, <4>1
      <4>3. p - 1 <= Len(msg)
        <5>1. CASE Len(parts) = 0
          <6>1. EndAt(msg, p)
            BY <1>1, <2>1, <5>1 DEF Layout
          <6>2. frame.closed \in BOOLEAN /\ Len(frame.after) \in Nat
            BY FrameIs
          <6> QED BY <1>0, <4>2, <6>1, <6>2 DEF EndAt
        <5>2. CASE Len(parts) # 0
          <6>1. 1 \in 1..Len(parts)
            BY <1>0, <5>2
          <6>2. PartAt(msg, p, parts[1]) /\ parts[1] \in Seq(Symbol)
            BY <1>0, <1>1, <2>1, <6>1 DEF Layout
          <6>3. p + Len(parts[1]) + 9 <= Len(msg) /\ Len(parts[1]) \in Nat
            BY <6>2 DEF PartAt
          <6> QED BY <1>0, <1>2, <6>3
        <5> QED BY <5>1, <5>2
      <4> QED BY <4>2, <4>3
    <3> QED BY <2>1, <3>1, <3>3, <3>4, <3>5
  <2>2. CASE i # 1
    <3>1. PICK j : j = i - 1
      OBVIOUS
    <3>2. j \in 1..Len(parts) /\ j + 1 = i /\ j \in 1..Len(parts) + 1
      BY <1>0, <2>2, <3>1
    <3>3. PartAt(msg, pos[j], parts[j]) /\ pos[j + 1] = pos[j] + Len(parts[j]) + 10
      BY <3>2 DEF Layout
    <3>4. PICK o, l : o = pos[j] /\ l = Len(parts[j])
      OBVIOUS
    <3>5. o \in Nat /\ l \in Nat /\ p = o + l + 10
      <4>1. o \in Nat
        BY <1>0, <3>2, <3>4
      <4>2. parts[j] \in Seq(Symbol)
        BY <1>0, <3>2
      <4>3. l \in Nat
        BY <3>4, <4>2
      <4>4. p = o + l + 10
        BY <1>1, <3>2, <3>3, <3>4
      <4> QED BY <4>1, <4>3, <4>4
    <3>6. o + l + 9 <= Len(msg) /\ msg[o + l + 8] = "CR" /\ msg[o + l + 9] = "LF"
      BY <3>3, <3>4 DEF PartAt
    <3>7. p - 2 = o + l + 8 /\ p - 1 = o + l + 9 /\ p > 2 /\ p > 0
      BY <3>5
    <3>8. p - 1 <= Len(msg) /\ msg[p - 2] = "CR" /\ msg[p - 1] = "LF"
      BY <3>6, <3>7
    <3> QED BY <3>7, <3>8
  <2> QED BY <2>1, <2>2
<1>4. CASE i <= Len(parts)
  <2>1. i \in 1..Len(parts)
    BY <1>0, <1>4
  <2>2. PartAt(msg, p, parts[i]) /\ parts[i] \in Seq(Symbol)
    BY <1>0, <1>1, <2>1 DEF Layout
  <2>3. /\ msg[p] = "marker" /\ msg[p + 1] = "CR" /\ msg[p + 2] = "LF"
        /\ p + Len(parts[i]) + 9 <= Len(msg) /\ Len(parts[i]) \in Nat
    BY <2>2 DEF PartAt
  <2>4. p <= Len(msg) /\ p + 2 <= Len(msg)
    BY <1>0, <1>2, <2>3
  <2>5. M!IsDelimiter(msg, p)
    BY <1>0, <1>2, <1>3, <2>3, <2>4, DelimiterIs
  <2> QED BY <1>1, <1>2, <1>3, <2>4, <2>5
<1>5. CASE i = Len(parts) + 1 /\ frame.closed
  <2>1. EndAt(msg, p)
    BY <1>1, <1>5 DEF Layout
  <2>2. /\ msg[p] = "marker" /\ msg[p + 1] = "dashes"
        /\ Len(msg) = p + 1 + Len(frame.after) /\ Len(frame.after) \in Nat
    BY <1>5, <2>1, FrameIs DEF EndAt
  <2>3. p <= Len(msg) /\ p + 1 <= Len(msg)
    <3>1. PICK m, a : m = Len(msg) /\ a = Len(frame.after)
      OBVIOUS
    <3>2. m = p + 1 + a /\ a \in Nat
      BY <2>2, <3>1
    <3>3. p <= m /\ p + 1 <= m
      BY <1>2, <3>2
    <3> QED BY <3>1, <3>3
  <2>4. M!IsDelimiter(msg, p)
    BY <1>0, <1>2, <1>3, <2>2, <2>3, DelimiterIs
  <2> QED BY <1>1, <1>2, <1>3, <2>3, <2>4
<1>6. i <= Len(parts) \/ i = Len(parts) + 1
  BY <1>0
<1> QED BY <1>1, <1>2, <1>3, <1>4, <1>5, <1>6

LEMMA ListGoesOn ==
  ASSUME NEW s \in Seq(Seq(Symbol)), NEW i \in 1..Len(s)
  PROVE  <<s[i]>> \o SubSeq(s, i + 1, Len(s)) = SubSeq(s, i, Len(s))
<1>1. PICK n : n = Len(s)
  OBVIOUS
<1>2. n \in Nat /\ i \in 1..n
  BY <1>1
<1>3. PICK one, later, whole : one = <<s[i]>> /\ later = SubSeq(s, i + 1, n) /\ whole = SubSeq(s, i, n)
  OBVIOUS
<1>4. /\ one \in Seq(Seq(Symbol)) /\ Len(one) = 1 /\ one[1] = s[i]
      /\ later \in Seq(Seq(Symbol)) /\ Len(later) = n - i
      /\ \A k \in 1..n - i : later[k] = s[i + k]
      /\ whole \in Seq(Seq(Symbol)) /\ Len(whole) = n - i + 1
      /\ \A k \in 1..n - i + 1 : whole[k] = s[i + k - 1]
  <2>1. one \in Seq(Seq(Symbol)) /\ Len(one) = 1 /\ one[1] = s[i]
    BY <1>3
  <2>2. /\ later \in Seq(Seq(Symbol)) /\ Len(later) = n - i
        /\ \A k \in 1..n - i : later[k] = s[i + k]
    BY <1>1, <1>2, <1>3
  <2>3. /\ whole \in Seq(Seq(Symbol)) /\ Len(whole) = n - i + 1
        /\ \A k \in 1..n - i + 1 : whole[k] = s[i + k - 1]
    BY <1>1, <1>2, <1>3
  <2> QED BY <2>1, <2>2, <2>3
<1>5. PICK both : both = one \o later
  OBVIOUS
<1>6. /\ both \in Seq(Seq(Symbol)) /\ Len(both) = n - i + 1
      /\ both[1] = one[1] /\ \A k \in 1..n - i : both[1 + k] = later[k]
  <2>1. /\ both \in Seq(Seq(Symbol)) /\ Len(both) = Len(one) + Len(later)
        /\ \A k \in 1..Len(one) : both[k] = one[k]
        /\ \A k \in 1..Len(later) : both[Len(one) + k] = later[k]
    <3>1. one \in Seq(Seq(Symbol)) /\ later \in Seq(Seq(Symbol))
      BY <1>4
    <3> QED BY <1>5, <3>1
  <2>2. Len(one) = 1 /\ Len(later) = n - i /\ 1 \in 1..1 /\ 1 + (n - i) = n - i + 1
    BY <1>2, <1>4
  <2> QED BY <2>1, <2>2
<1>7. \A k \in 1..n - i + 1 : both[k] = whole[k]
  <2> TAKE k \in 1..n - i + 1
  <2>1. CASE k = 1
    <3>1. both[k] = s[i] /\ i + 1 - 1 = i
      BY <1>2, <1>4, <1>6, <2>1
    <3> QED BY <1>2, <1>4, <2>1, <3>1
  <2>2. CASE k # 1
    <3>1. PICK m : m = k - 1
      OBVIOUS
    <3>2. m \in 1..n - i /\ 1 + m = k /\ i + k - 1 = i + m
      BY <1>2, <2>2, <3>1
    <3>3. both[k] = later[m] /\ later[m] = s[i + m]
      BY <1>4, <1>6, <3>2
    <3> QED BY <1>4, <3>2, <3>3
  <2> QED BY <2>1, <2>2
<1>8. both = whole
  BY <1>2, <1>4, <1>6, <1>7
<1> QED BY <1>1, <1>3, <1>5, <1>8

\* Part by part from the end of the list.
LEMMA AllTurns ==
  ASSUME PartsInv, M!Unambiguous, NEW msg, NEW pos, Layout(msg, pos),
         NEW f, f = [c \in 1..Len(msg) + 1 |-> Parts(f, msg, c)]
  PROVE  \A i \in 1..Len(parts) + 1 : RestIs(f, pos, i)
<1> DEFINE n == Len(parts)
           S == {d \in Nat : \A i \in 1..n + 1 : i + d = n + 1 => RestIs(f, pos, i)}
<1>1. /\ parts \in Seq(Seq(Symbol)) /\ n \in Nat
      /\ msg \in Seq(Symbol) /\ Len(msg) \in Nat /\ pos \in [1..n + 1 -> Nat]
  BY DEF PartsInv, Layout
<1>2. \A c \in 1..Len(msg) + 1 : f[c] = Parts(f, msg, c)
  BY Zenon
<1>3. \A i \in 1..n : parts[i] \in Seq(Symbol) /\ LineClear(parts[i])
  BY <1>1 DEF M!Unambiguous, LineClear
<1>4. PICK good : good = (frame.closed /\ frame.after # <<"x">>)
  OBVIOUS
<1>5. 0 \in S
  <2> SUFFICES ASSUME NEW i \in 1..n + 1, i = n + 1, frame.closed
               PROVE  f[pos[i] + 1] = IF frame.closed /\ frame.after # <<"x">> THEN {SubSeq(parts, i, n)} ELSE {}
    <3> SUFFICES ASSUME NEW i \in 1..n + 1, i + 0 = n + 1 PROVE RestIs(f, pos, i)
      OBVIOUS
    <3>1. i = n + 1 /\ ~(i <= n)
      BY <1>1
    <3> QED BY <3>1 DEF RestIs
  <2>1. PICK p : p = pos[n + 1]
    OBVIOUS
  <2>2. p \in Nat
    BY <1>1, <2>1
  <2>3. EndAt(msg, p)
    BY <2>1 DEF Layout
  <2>4. Len(msg) = p + 1 + Len(frame.after) /\ Len(frame.after) \in Nat
    BY <2>3, FrameIs DEF EndAt
  <2>5. p + 1 \in 1..Len(msg) + 1
    <3>1. PICK m, a : m = Len(msg) /\ a = Len(frame.after)
      OBVIOUS
    <3>2. m = p + 1 + a /\ a \in Nat
      BY <2>4, <3>1
    <3>3. p + 1 \in 1..m + 1
      BY <2>2, <3>2
    <3> QED BY <3>1, <3>3
  <2>6. p # 0
    <3>1. CASE n = 0
      <4>1. p = Len(frame.before) + 1 /\ Len(frame.before) \in Nat
        BY <2>1, <3>1, FrameIs DEF Layout
      <4> QED BY <4>1
    <3>2. CASE n # 0
      <4>1. n \in 1..n /\ n \in 1..n + 1
        BY <1>1, <3>2
      <4>2. PICK o, l : o = pos[n] /\ l = Len(parts[n])
        OBVIOUS
      <4>3. p = o + l + 10
        BY <2>1, <4>1, <4>2 DEF Layout
      <4>4. o \in Nat
        BY <1>1, <4>1, <4>2
      <4>5. parts[n] \in Seq(Symbol)
        BY <1>3, <4>1
      <4>6. l \in Nat
        BY <4>2, <4>5
      <4> QED BY <4>3, <4>4, <4>6
    <3> QED BY <3>1, <3>2
  <2>7. f[p + 1] = IF frame.after = <<"x">> THEN {} ELSE {<<>>}
    <3>1. f[p + 1] = Parts(f, msg, p + 1)
      BY <1>2, <2>5
    <3>2. p \in Nat \ {0}
      BY <2>2, <2>6
    <3> QED BY <1>1, <2>3, <3>1, <3>2, LastTurnIs
  <2>8. SubSeq(parts, n + 1, n) = <<>>
    BY <1>1
  <2> QED BY <2>1, <2>7, <2>8
<1>6. ASSUME NEW d \in S PROVE d + 1 \in S
  <2> SUFFICES ASSUME NEW i \in 1..n + 1, i + (d + 1) = n + 1 PROVE RestIs(f, pos, i)
    OBVIOUS
  <2>1. d \in Nat
    OBVIOUS
  <2>2. i \in 1..n /\ i + 1 \in 1..n + 1 /\ (i + 1) + d = n + 1 /\ i + 1 # 1
    BY <1>1, <2>1
  <2>3. RestIs(f, pos, i + 1)
    BY <2>2
  <2>4. PICK p, part, q : p = pos[i] /\ part = parts[i] /\ q = pos[i + 1]
    OBVIOUS
  <2>5. /\ p \in Nat /\ part \in Seq(Symbol) /\ LineClear(part)
        /\ PartAt(msg, p, part) /\ q = p + Len(part) + 10
    BY <1>1, <1>3, <2>2, <2>4 DEF Layout
  <2>6. p + 1 \in 1..Len(msg) + 1
    <3>1. p + Len(part) + 9 <= Len(msg) /\ Len(part) \in Nat
      BY <2>5 DEF PartAt
    <3> QED BY <1>1, <2>5, <3>1
  <2>7. f[p + 1] = Parts(f, msg, p + 1)
    BY <1>2, <2>6
  <2>8. MeetsPart(f, msg, p, part, q)
    <3>1. msg \in Seq(Symbol) /\ p \in Nat /\ part \in Seq(Symbol)
      BY <1>1, <2>5
    <3>2. PartAt(msg, p, part) /\ LineClear(part)
      BY <2>5
    <3>3. q = p + Len(part) + 10
      BY <2>5
    <3> QED BY <3>1, <3>2, <3>3, TurnIs
  <2>9. CASE i < n \/ frame.closed
    <3>1. i + 1 <= n \/ frame.closed
      BY <1>1, <2>2, <2>9
    <3>2. q <= Len(msg) /\ M!IsDelimiter(msg, q)
      BY <2>2, <2>4, <3>1, MarkersAre
    <3>3. f[p + 1] = {<<part>> \o later : later \in f[q + 1]}
      BY <2>7, <2>8, <3>2 DEF MeetsPart
    <3>4. f[q + 1] = IF frame.closed /\ frame.after # <<"x">> THEN {SubSeq(parts, i + 1, n)} ELSE {}
      BY <2>3, <2>4, <3>1 DEF RestIs
    <3>5. <<part>> \o SubSeq(parts, i + 1, n) = SubSeq(parts, i, n)
      BY <1>1, <2>2, <2>4, ListGoesOn
    <3>6. f[p + 1] = IF frame.closed /\ frame.after # <<"x">> THEN {SubSeq(parts, i, n)} ELSE {}
      BY <3>3, <3>4, <3>5
    <3> QED BY <2>4, <3>6 DEF RestIs
  <2>10. CASE i = n /\ ~frame.closed
    <3>1. EndAt(msg, q)
      BY <2>4, <2>10 DEF Layout
    <3>2. Len(msg) = q - 1
      BY <2>10, <3>1 DEF EndAt
    <3>3. f[p + 1] = {}
      BY <2>7, <2>8, <3>2 DEF MeetsPart
    <3> QED BY <2>4, <2>10, <3>3 DEF RestIs
  <2>11. i < n \/ i = n
    BY <1>1, <2>2
  <2> QED BY <2>9, <2>10, <2>11
<1>7. S = Nat
  <2>1. S \subseteq Nat
    OBVIOUS
  <2> HIDE DEF S
  <2> QED BY <1>5, <1>6, <2>1, Induction
<1>8. \A i \in 1..n + 1 : n + 1 - i \in Nat /\ i + (n + 1 - i) = n + 1
  BY <1>1
<1> QED BY <1>7, <1>8

-----------------------------------------------------------------------------
(* MtomParts: what is returned.                                             *)

\* The parser starts at the first marker of the response, and at none that something else stands before.
LEMMA StartsAt ==
  ASSUME PartsInv, NEW msg, NEW pos, Layout(msg, pos)
  PROVE  LET first == M!BoundaryAt(msg, 1)
             starts == first = 1 \/ (first = 3 /\ M!At(msg, 1, M!CRLF))
         IN  /\ frame.before = <<"x">> => ~starts
             /\ parts = <<>> /\ ~frame.closed => ~starts
             /\ (parts # <<>> \/ frame.closed) /\ frame.before # <<"x">> => starts /\ first = pos[1]
<1> DEFINE J == {i \in 1..Len(msg) : M!IsDelimiter(msg, i)}
<1>0. /\ parts \in Seq(Seq(Symbol)) /\ Len(parts) \in Nat
      /\ msg \in Seq(Symbol) /\ Len(msg) \in Nat /\ pos \in [1..Len(parts) + 1 -> Nat]
  BY DEF PartsInv, Layout
<1>1. PICK first : first = M!BoundaryAt(msg, 1)
  OBVIOUS
<1>2. first = M!First(J) /\ J \subseteq Nat
  BY <1>1 DEF M!BoundaryAt
<1>3. first # 0 => first \in 1..Len(msg) /\ msg[first] = "marker"
  <2>1. first # 0 => first \in J
    <3> HIDE DEF J
    <3> QED BY <1>2, FirstFound
  <2> QED BY <2>1 DEF M!IsDelimiter
<1>4. PICK before : before = frame.before
  OBVIOUS
<1>5. before \in {<<>>, <<"CR", "LF">>, <<"x">>}
  BY <1>4, FrameIs
<1>6. pos[1] = Len(before) + 1 /\ \A k \in 1..Len(before) : msg[k] = before[k]
  BY <1>4 DEF Layout
<1>7. M!At(msg, 1, M!CRLF) <=> 2 <= Len(msg) /\ msg[1] = "CR" /\ msg[2] = "LF"
  <2>1. M!At(msg, 1, <<"CR", "LF">>) <=> 1 > 0 /\ 1 + 1 <= Len(msg) /\ msg[1] = "CR" /\ msg[1 + 1] = "LF"
    BY <1>0, AtTwo
  <2> QED BY <2>1 DEF M!CRLF
<1>8. CASE before = <<"x">>
  <2>1. Len(before) = 1 /\ before[1] = "x"
    BY <1>8
  <2>2. msg[1] = "x"
    BY <1>6, <2>1
  <2>3. first # 1 /\ ~M!At(msg, 1, M!CRLF)
    BY <1>3, <1>7, <2>2
  <2> QED BY <1>1, <1>4, <1>8, <2>3
<1>9. CASE before # <<"x">> /\ parts = <<>> /\ ~frame.closed
  <2>1. Len(parts) = 0 /\ Len(parts) + 1 = 1
    BY <1>9
  <2>2. EndAt(msg, pos[1])
    BY <2>1 DEF Layout
  <2>3. Len(msg) = pos[1] - 1
    BY <1>9, <2>2 DEF EndAt
  <2>4. CASE before = <<>>
    <3>1. Len(msg) = 0
      BY <1>6, <2>3, <2>4
    <3>2. first = 0
      BY <1>3, <3>1
    <3> QED BY <1>1, <1>4, <1>9, <3>2
  <2>5. CASE before = <<"CR", "LF">>
    <3>1. Len(before) = 2 /\ before[1] = "CR"
      BY <2>5
    <3>2. Len(msg) = 2 /\ msg[1] = "CR"
      BY <1>6, <2>3, <3>1
    <3>3. first # 1 /\ first # 3
      BY <1>3, <3>2
    <3> QED BY <1>1, <1>4, <1>9, <3>3
  <2> QED BY <1>5, <1>9, <2>4, <2>5
<1>10. CASE before # <<"x">> /\ (parts # <<>> \/ frame.closed)
  <2>1. PICK p : p = pos[1]
    OBVIOUS
  <2>2. 1 \in 1..Len(parts) + 1 /\ (1 <= Len(parts) \/ frame.closed)
    <3>1. parts # <<>> => Len(parts) # 0
      BY <1>0
    <3> QED BY <1>0, <1>10, <3>1
  <2>3. p \in Nat \ {0} /\ p <= Len(msg) /\ M!IsDelimiter(msg, p)
    BY <1>4, <1>10, <2>1, <2>2, MarkersAre
  <2>4. p \in J
    BY <1>0, <2>3
  <2>5. CASE before = <<>>
    <3>1. p = 1
      BY <1>6, <2>1, <2>5
    <3>2. \A y \in J : p <= y
      BY <3>1
    <3>3. first = p
      <4> HIDE DEF J
      <4> QED BY <1>2, <2>4, <3>2, FirstIs
    <3> QED BY <1>1, <1>4, <1>10, <2>1, <3>1, <3>3
  <2>6. CASE before = <<"CR", "LF">>
    <3>1. Len(before) = 2 /\ before[1] = "CR" /\ before[2] = "LF"
      BY <2>6
    <3>2. p = 3 /\ msg[1] = "CR" /\ msg[2] = "LF"
      BY <1>6, <2>1, <3>1
    <3>3. ~M!IsDelimiter(msg, 1) /\ ~M!IsDelimiter(msg, 2)
      BY <3>2 DEF M!IsDelimiter
    <3>4. ASSUME NEW y \in J PROVE p <= y
      <4>1. y \in Nat /\ y # 0 /\ y # 1 /\ y # 2
        BY <3>3
      <4> QED BY <3>2, <4>1
    <3>5. first = p
      <4> HIDE DEF J
      <4> QED BY <1>2, <2>4, <3>4, FirstIs
    <3>6. M!At(msg, 1, M!CRLF)
      <4>1. 2 <= Len(msg)
        BY <1>0, <2>3, <3>2
      <4> QED BY <1>7, <3>2, <4>1
    <3> QED BY <1>1, <1>4, <1>10, <2>1, <3>2, <3>5, <3>6
  <2> QED BY <1>5, <1>10, <2>5, <2>6
<1> QED BY <1>8, <1>9, <1>10

\* The parts are returned as they were written, or none is.
LEMMA PartsGives ==
  ASSUME PartsInv
  PROVE  M!PartsExact
<1> SUFFICES ASSUME M!Unambiguous
             PROVE  M!Parse(M!Body) =
                      IF parts # <<>> /\ frame.closed /\ frame.before # <<"x">> /\ frame.after # <<"x">>
                      THEN {parts} ELSE {}
  BY DEF M!PartsExact
<1>1. PICK msg : msg = M!Body
  OBVIOUS
<1>2. PICK pos : Layout(msg, pos)
  BY <1>1, BodyLayout
<1>3. msg \in Seq(Symbol)
  BY <1>2 DEF Layout
<1>4. PICK f : /\ f = [c \in 1..Len(msg) + 1 |-> Parts(f, msg, c)]
               /\ M!Split(msg) = LET first == M!BoundaryAt(msg, 1)
                                 IN  IF first = 1 \/ (first = 3 /\ M!At(msg, 1, M!CRLF)) THEN f[first + 1] ELSE {}
  BY <1>3, SplitUnfolds
<1>5. \A i \in 1..Len(parts) + 1 : RestIs(f, pos, i)
  BY <1>2, <1>4, AllTurns
<1>6. PICK first : first = M!BoundaryAt(msg, 1)
  OBVIOUS
<1>7. PICK starts : starts = (first = 1 \/ (first = 3 /\ M!At(msg, 1, M!CRLF)))
  OBVIOUS
<1>8. M!Split(msg) = IF starts THEN f[first + 1] ELSE {}
  BY <1>4, <1>6, <1>7
<1>9. /\ frame.before = <<"x">> => ~starts
      /\ parts = <<>> /\ ~frame.closed => ~starts
      /\ (parts # <<>> \/ frame.closed) /\ frame.before # <<"x">> => starts /\ first = pos[1]
  BY <1>2, <1>6, <1>7, StartsAt
<1>10. M!Parse(M!Body) = M!Split(msg) \ {<<>>}
  BY <1>1 DEF M!Parse
<1>11. CASE frame.before = <<"x">> \/ (parts = <<>> /\ ~frame.closed)
  <2>1. M!Split(msg) = {}
    BY <1>8, <1>9, <1>11
  <2> QED BY <1>10, <1>11, <2>1
<1>12. CASE frame.before # <<"x">> /\ (parts # <<>> \/ frame.closed)
  <2>1. parts \in Seq(Seq(Symbol)) /\ Len(parts) \in Nat
    BY DEF PartsInv
  <2>2. 1 \in 1..Len(parts) + 1 /\ (1 <= Len(parts) \/ frame.closed)
    <3>1. parts # <<>> => Len(parts) # 0
      BY <2>1
    <3> QED BY <1>12, <2>1, <3>1
  <2>3. SubSeq(parts, 1, Len(parts)) = parts
    BY <2>1
  <2>4. f[pos[1] + 1] = IF frame.closed /\ frame.after # <<"x">> THEN {parts} ELSE {}
    BY <1>5, <2>2, <2>3 DEF RestIs
  <2>5. M!Split(msg) = IF frame.closed /\ frame.after # <<"x">> THEN {parts} ELSE {}
    BY <1>8, <1>9, <1>12, <2>4
  <2> QED BY <1>10, <1>12, <2>5
<1> QED BY <1>11, <1>12

LEMMA PartsInit ==
  ASSUME M!Init
  PROVE  PartsInv
<1>1. <<>> \in Seq(Seq(Symbol))
  OBVIOUS
<1> QED BY <1>1 DEF M!Init, PartsInv

LEMMA PartsStep ==
  ASSUME PartsInv, M!Next \/ UNCHANGED mVars
  PROVE  PartsInv'
<1>0. parts \in Seq(Seq(Symbol)) /\ Len(parts) \in Nat
  BY DEF PartsInv
<1>1. CASE M!WriteSymbol
  <2>1. PICK s \in {"CR", "LF", "marker", "dashes", "x"} : parts' = [parts EXCEPT ![Len(parts)] = Append(@, s)]
    BY <1>1 DEF M!WriteSymbol
  <2>2. Len(parts) \in 1..Len(parts) /\ UNCHANGED frame
    BY <1>0, <1>1 DEF M!WriteSymbol
  <2>3. PICK n, new : n = Len(parts) /\ new = Append(parts[n], s)
    OBVIOUS
  <2>4. new \in Seq(Symbol)
    <3>1. s \in Symbol /\ parts[n] \in Seq(Symbol)
      BY <1>0, <2>2, <2>3 DEF Symbol
    <3> QED BY <2>3, <3>1
  <2>5. parts' = [parts EXCEPT ![n] = new]
    BY <2>1, <2>3
  <2>6. parts' \in Seq(Seq(Symbol))
    BY <1>0, <2>2, <2>3, <2>4, <2>5
  <2> QED BY <2>2, <2>6 DEF PartsInv
<1>2. CASE M!WritePart
  <2>1. parts' = Append(parts, <<>>) /\ UNCHANGED frame
    BY <1>2 DEF M!WritePart
  <2>2. <<>> \in Seq(Symbol)
    OBVIOUS
  <2>3. parts' \in Seq(Seq(Symbol))
    BY <1>0, <2>1, <2>2
  <2> QED BY <2>1, <2>3 DEF PartsInv
<1>3. CASE UNCHANGED mVars
  BY <1>3 DEF mVars, PartsInv
<1> QED BY <1>1, <1>2, <1>3 DEF M!Next

-----------------------------------------------------------------------------
(* All of them together. *)

IInv ==
  ValidationInv /\ LimiterInv /\ StatusInv /\ ProcessInv /\ BodyInv /\ PermitsInv /\ TextInv /\ PartsInv

THEOREM Invariance == Spec => []IInv
<1>1. Init => IInv
  BY InitOfEach, ValidationInit, LimiterInit, StatusInit, ProcessInit, BodyInit, PermitsInit, TextInit,
     PartsInit
  DEF IInv
<1>2. IInv /\ [Next]_vars => IInv'
  BY StepOfEach, ValidationStep, LimiterStep, StatusStep, ProcessStep, BodyStep, PermitsStep, TextStep,
     PartsStep
  DEF IInv
<1> QED
  BY <1>1, <1>2, PTL DEF Spec

\* server.ts:71: for any number of scopes, attempts never overlap, and one is due or running
\* exactly as long as the gateway is not ready and not stopped.
THEOREM ValidationIsOne == Spec => []OneValidation
<1>1. IInv => OneValidation
  BY ValidationGives DEF IInv, OneValidation
<1> QED
  BY <1>1, Invariance, PTL

\* server.ts:71: a gateway that reports ready has its schemas, unless a caller's attempt replaces them.
THEOREM ReadyGateway == Spec => []ReadyHasSchemas
<1>1. IInv => ReadyHasSchemas
  BY ValidationGives DEF IInv, ReadyHasSchemas
<1> QED
  BY <1>1, Invariance, PTL

\* auth.ts, RateLimiter: for any burst and rate, and a clock set forth and back at will, no window
\* from any access on admits more than the burst and what the clock readings say has come back.
THEOREM RateBounded == Spec => RateBound
<1>1. IInv /\ [Next]_vars =>
        [R!Admit /\ window' # None => window'.count * Cost <= R!Max + (clock - window'.from)]_(R!vars)
  BY StepOfEach, LimiterStep DEF IInv
<1> QED
  BY <1>1, Invariance, PTL DEF Spec, RateBound, R!RateBound

\* protocol.ts, createMcpHttpServer: every request is answered with one status line, whatever the
\* limit on bodies and wherever it fails.
THEOREM StatusIsOne == Spec => []OneStatus
<1>1. IInv => OneStatus
  BY DEF IInv, StatusInv, OneStatus, H!OneStatus
<1> QED
  BY <1>1, Invariance, PTL

\* process.ts:23: for any limit on output and any amount of it, a resolved promise says truly what
\* the process wrote, and a settled one leaves no process running.
THEOREM ResultIsTrue == Spec => []SettledTruly
<1>1. IInv => SettledTruly
  BY DEF IInv, ProcessInv, SettledOnce, SettledTruly, P!SettledTruly
<1> QED
  BY <1>1, Invariance, PTL

\* BoundedHttpResponse.java:33: for any limit and any body, a response is returned whole or given up
\* with nothing held and nothing asked for.
THEOREM ResponseIsWhole == Spec => []WholeOrNothing
<1>1. IInv => WholeOrNothing
  BY DEF IInv, BodyInv, BodyNumbers, HeldTold, CallerTold, WholeOrNothing, B!WholeOrNothing
<1> QED
  BY <1>1, Invariance, PTL

\* InternalServer.java:73: for any number of requests, threads, places and permits, a permit is held
\* by exactly the admitted requests inside dispatch().
THEOREM PermitsComeBack == Spec => []PermitsReturned
<1>1. IInv => PermitsReturned
  BY SameCardinality DEF IInv, PermitsInv, AdmittedTold, PermitsReturned, A!PermitsReturned
<1> QED
  BY <1>1, Invariance, PTL

\* contentBridge.ts:346: for every text and every limit, the single pass gives the text with its line
\* ends unified, without control characters and without blanks at line ends, or a beginning of it
\* within the limit; and all of it when the text is no longer than the limit.
THEOREM TextIsNormalized == Spec => []NormalizedTrue
<1>1. IInv => NormalizedTrue
  BY NormalizedGives, LimitsAssumption DEF IInv, TextInv, NormalizedTrue, LimitsAssumption
<1> QED
  BY <1>1, Invariance, PTL

\* MtomParser.java:67: for any number of parts and any payloads none of whose lines is a delimiter,
\* the parser returns exactly the parts that were written, byte for byte and in order; and nothing of
\* a response that breaks off, has anything else before it than one CR LF, or bytes after it.
THEOREM PartsAreExact == Spec => []PartsExact
<1>1. IInv => PartsExact
  BY PartsGives DEF IInv, PartsExact
<1> QED
  BY <1>1, Invariance, PTL
=============================================================================
