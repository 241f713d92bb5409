---------------------------- MODULE HttpRequests ----------------------------
(***************************************************************************)
(* One HTTP request of the gateway, from the server callback to its status *)
(* (createMcpHttpServer in src/mcp/protocol.ts, readJsonBody in            *)
(* src/util/http.ts).                                                      *)
(*                                                                         *)
(* The callback runs to its first await in one step.  The handler is the   *)
(* SDK's: it may answer, begin to answer, or throw before or after that.   *)
(***************************************************************************)
EXTENDS Naturals

CONSTANTS
  MaxBytes,   \* maxRequestBytes
  NoLength,   \* no Content-Length header
  BadLength   \* one that is no number of bytes

VARIABLES
  wait,     \* what the request waits for
  length,   \* its Content-Length header
  size,     \* bytes of its body so far
  heads,    \* the status lines sent, in any order
  closed    \* the connection was destroyed, or left by the client

vars == <<wait, length, size, heads, closed>>

Lengths == {NoLength, BadLength} \cup 0..(MaxBytes + 1)

Init == wait = "callback" /\ length \in Lengths /\ size = 0 /\ heads = 0 /\ closed = FALSE

Answer == wait' = "done" /\ heads' = heads + 1

\* Faulty: the status is sent whether or not there has been one.
JsonRpcErrorAgain == wait' = "done" /\ heads' = heads + 1

\* sendJsonRpcError
JsonRpcError == wait' = "done" /\ heads' = IF heads = 0 THEN 1 ELSE heads

\* The callback: host, origin and target, the probes and unknown paths, the token, the rate; then
\* the body of a POST, unless its declared length forbids.
Receive ==
  /\ wait = "callback"
  /\ \/ Answer /\ UNCHANGED <<length, size, closed>>
     \/ wait' = "health" /\ UNCHANGED <<length, size, heads, closed>>
     \/ wait' = "handler" /\ UNCHANGED <<length, size, heads, closed>>
     \/ /\ length = BadLength \/ length = MaxBytes + 1
        /\ JsonRpcError /\ closed' = TRUE /\ UNCHANGED <<length, size>>
     \/ /\ length \in {NoLength} \cup 0..MaxBytes
        /\ wait' = "body" /\ UNCHANGED <<length, size, heads, closed>>

\* respondHealth: the adapter's health, or 503 if that cannot be known.
Health ==
  /\ wait = "health"
  /\ Answer
  /\ UNCHANGED <<length, size, closed>>

Fits(n) == n <= MaxBytes

\* A chunk of the body; no more of them than were declared.
Chunk ==
  /\ wait = "body"
  /\ \E n \in 1..2 :
     /\ length # NoLength => size + n <= length
     /\ size' = size + n
     /\ IF Fits(size') THEN UNCHANGED <<wait, heads, closed>> ELSE JsonRpcError /\ closed' = TRUE
  /\ UNCHANGED length

\* The end of the body: it is JSON, or empty, or it is not.
EndOfBody ==
  /\ wait = "body" /\ (length = NoLength \/ size = length)
  /\ \/ wait' = "handler" /\ UNCHANGED heads
     \/ size > 0 /\ JsonRpcError
  /\ UNCHANGED <<length, size, closed>>

\* The client leaves, or the server's request timeout ends the connection.
BodyBreaks ==
  /\ wait = "body"
  /\ JsonRpcError /\ closed' = TRUE
  /\ UNCHANGED <<length, size>>

HandlerBegins ==
  /\ wait = "handler" /\ heads = 0
  /\ heads' = 1
  /\ UNCHANGED <<wait, length, size, closed>>

HandlerEnds ==
  /\ wait = "handler"
  /\ wait' = "done" /\ heads' = IF heads = 0 THEN 1 ELSE heads
  /\ UNCHANGED <<length, size, closed>>

\* catch: also for an error that only looks like one of reading the body.
HandlerThrows ==
  /\ wait = "handler"
  /\ JsonRpcError
  /\ closed' \in {closed, TRUE}
  /\ UNCHANGED <<length, size>>

\* The next request of the client.
Another ==
  /\ wait = "done"
  /\ wait' = "callback" /\ length' \in Lengths /\ size' = 0 /\ heads' = 0 /\ closed' = FALSE

Next ==
  \/ Receive \/ Health \/ Chunk \/ EndOfBody \/ BodyBreaks
  \/ HandlerBegins \/ HandlerEnds \/ HandlerThrows \/ Another

Spec == Init /\ [][Next]_vars

-----------------------------------------------------------------------------
(* Properties. *)

\* A request gets one status line at most, whatever fails after which step, and exactly one by the
\* time it is done with; a second one would be an unhandled rejection and end the gateway.
OneStatus == heads <= 1 /\ (wait = "done" => heads = 1)

=============================================================================
