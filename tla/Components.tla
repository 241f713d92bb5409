------------------------------ MODULE Components ------------------------------
(***************************************************************************)
(* The components that share no state with the rest, each checked on an    *)
(* instance of its own: a behaviour is one of the component that focus     *)
(* names, and the others stay in one of their initial states.              *)
(***************************************************************************)
EXTENDS Integers, FiniteSets

CONSTANTS
  Scope, Attempt, None,                       \* Validation
  Burst, Cost, MaxTime,                       \* RateLimiter
  MaxRequestBytes, NoLength, BadLength,       \* HttpRequests
  MaxStdout, MaxWritten,                      \* ProcessRun
  MaxResponseBytes, Sent,                     \* ResponseBody
  Business, Probe, Workers, Queue, Active,    \* AdapterRequests
  Limits, MaxLength,                          \* ExtractedText
  MaxParts, MaxPayload                        \* MtomParts

\* config.ts, BoundedHttpResponse.java and AdapterLimits.java: the limits are numbers, and positive
\* (contentBridge.ts:349 refuses another maxChars).
\* What stands for the absence of something is none of the things that may be there.
ASSUME LimitsAssumption ==
  /\ None \notin [tokens : Int, last : Int] /\ None \notin [from : Int, count : Int]
  /\ None \notin Attempt /\ NoLength \notin Int /\ BadLength \notin Int
  /\ {Burst, Cost, MaxRequestBytes, MaxStdout, MaxResponseBytes, Workers, Queue, Active} \subseteq Nat \ {0}
  /\ {MaxTime, MaxWritten, Sent} \subseteq Nat
  /\ Limits \subseteq Nat \ {0}

VARIABLES
  focus,
  onStartup, listening, ready, inFlight, timer, stopped, phase, left, asker, schemas, up,
  clock, bucket, window,
  wait, length, size, heads, closed,
  truncate, spawned, alive, code, written, read, kept, stdoutSize, stdoutTruncated, deadline, killed,
  ended, promise, run,
  late, body, caller, stream, arrived, output, received, subscription, terminal, response, cancelled,
  at, queue, permits, admitted, status,
  text, limit,
  parts, frame

V == INSTANCE Validation
R == INSTANCE RateLimiter WITH Never <- None
H == INSTANCE HttpRequests WITH MaxBytes <- MaxRequestBytes
P == INSTANCE ProcessRun WITH timer <- deadline, closed <- ended, result <- run
B == INSTANCE ResponseBody WITH MaxBytes <- MaxResponseBytes, length <- body, result <- response
A == INSTANCE AdapterRequests
T == INSTANCE ExtractedText
M == INSTANCE MtomParts

vVars == <<onStartup, listening, ready, inFlight, timer, stopped, phase, left, asker, schemas, up>>
rVars == <<clock, bucket, window>>
hVars == <<wait, length, size, heads, closed>>
pVars == <<truncate, spawned, alive, code, written, read, kept, stdoutSize, stdoutTruncated, deadline,
           killed, ended, promise, run>>
bVars == <<late, body, caller, stream, arrived, output, received, subscription, terminal, response, cancelled>>
aVars == <<at, queue, permits, admitted, status>>
tVars == <<text, limit>>
mVars == <<parts, frame>>

vars == <<focus, vVars, rVars, hVars, pVars, bVars, aVars, tVars, mVars>>

\* Where a component stays while another one is in focus.
NoV == V!Init /\ onStartup /\ up
NoR == R!Init
NoH == H!Init /\ length = NoLength
NoP == P!Init /\ truncate /\ spawned
NoB == B!Init /\ body = [bytes |-> 0, declared |-> FALSE]
NoA == A!Init
NoT == T!Init /\ limit = CHOOSE l \in Limits : TRUE
NoM == M!Init /\ frame = [before |-> <<>>, closed |-> TRUE, after |-> <<>>]

Init ==
  \/ focus = "Validation" /\ V!Init /\ NoR /\ NoH /\ NoP /\ NoB /\ NoA /\ NoT /\ NoM
  \/ focus = "RateLimiter" /\ R!Init /\ NoV /\ NoH /\ NoP /\ NoB /\ NoA /\ NoT /\ NoM
  \/ focus = "HttpRequests" /\ H!Init /\ NoV /\ NoR /\ NoP /\ NoB /\ NoA /\ NoT /\ NoM
  \/ focus = "ProcessRun" /\ P!Init /\ NoV /\ NoR /\ NoH /\ NoB /\ NoA /\ NoT /\ NoM
  \/ focus = "ResponseBody" /\ B!Init /\ NoV /\ NoR /\ NoH /\ NoP /\ NoA /\ NoT /\ NoM
  \/ focus = "AdapterRequests" /\ A!Init /\ NoV /\ NoR /\ NoH /\ NoP /\ NoB /\ NoT /\ NoM
  \/ focus = "ExtractedText" /\ T!Init /\ NoV /\ NoR /\ NoH /\ NoP /\ NoB /\ NoA /\ NoM
  \/ focus = "MtomParts" /\ M!Init /\ NoV /\ NoR /\ NoH /\ NoP /\ NoB /\ NoA /\ NoT

Next ==
  /\ UNCHANGED focus
  /\ \/ focus = "Validation" /\ V!Next
        /\ UNCHANGED <<rVars, hVars, pVars, bVars, aVars, tVars, mVars>>
     \/ focus = "RateLimiter" /\ R!Next
        /\ UNCHANGED <<vVars, hVars, pVars, bVars, aVars, tVars, mVars>>
     \/ focus = "HttpRequests" /\ H!Next
        /\ UNCHANGED <<vVars, rVars, pVars, bVars, aVars, tVars, mVars>>
     \/ focus = "ProcessRun" /\ P!Next
        /\ UNCHANGED <<vVars, rVars, hVars, bVars, aVars, tVars, mVars>>
     \/ focus = "ResponseBody" /\ B!Next
        /\ UNCHANGED <<vVars, rVars, hVars, pVars, aVars, tVars, mVars>>
     \/ focus = "AdapterRequests" /\ A!Next
        /\ UNCHANGED <<vVars, rVars, hVars, pVars, bVars, tVars, mVars>>
     \/ focus = "ExtractedText" /\ T!Next
        /\ UNCHANGED <<vVars, rVars, hVars, pVars, bVars, aVars, mVars>>
     \/ focus = "MtomParts" /\ M!Next
        /\ UNCHANGED <<vVars, rVars, hVars, pVars, bVars, aVars, tVars>>

Fairness ==
  /\ focus = "Validation" => V!Fairness
  /\ focus = "AdapterRequests" => A!Fairness

Spec == Init /\ [][Next]_vars /\ Fairness

-----------------------------------------------------------------------------
(* The properties of each component, where it is the one in focus. *)

\* Validation: one attempt at a time, and another due while the gateway is not ready.
OneValidation == focus = "Validation" => V!OneValidation

\* Validation: a gateway that reports ready has its schemas.
ReadyHasSchemas == focus = "Validation" => V!ReadyHasSchemas

\* Validation: a gateway whose adapter recovers becomes ready.
BecomesReady == focus = "Validation" => V!BecomesReady

\* RateLimiter: no more requests than burst and rate allow.
RateBound == R!RateBound

\* HttpRequests: one status line for each request.
OneStatus == focus = "HttpRequests" => H!OneStatus

\* ProcessRun: a result is what the process wrote, and no process outlives the wait for it.
SettledTruly == focus = "ProcessRun" => P!SettledTruly

\* ResponseBody: a response is returned whole, or given up and nothing of it held.
WholeOrNothing == focus = "ResponseBody" => B!WholeOrNothing

\* AdapterRequests: permits come back.
PermitsReturned == focus = "AdapterRequests" => A!PermitsReturned

\* AdapterRequests: health is answered while business hangs.
ProbeAnswered == focus = "AdapterRequests" => A!ProbeAnswered

\* ExtractedText: the single pass computes what the definition says.
NormalizedTrue == focus = "ExtractedText" => T!NormalizedTrue

\* MtomParts: parts are returned byte for byte or refused.
PartsExact == focus = "MtomParts" => M!PartsExact
=============================================================================
