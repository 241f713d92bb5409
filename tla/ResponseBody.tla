---------------------------- MODULE ResponseBody ----------------------------
(***************************************************************************)
(* One SOAP response of the adapter (BoundedHttpResponse.java).            *)
(*                                                                         *)
(* The caller waits for the exchange no longer than its deadline; the      *)
(* threads of the HTTP client subscribe the body and deliver its bytes.    *)
(* The methods of Body are synchronized, and so one step each.  The        *)
(* deadline may pass at any moment.                                        *)
(***************************************************************************)
EXTENDS Naturals

CONSTANTS
  MaxBytes,  \* maxBytes
  Sent       \* bound: bytes the server sends at most

VARIABLES
  late,          \* the deadline has passed
  length,        \* the body is Sent bytes or fewer; a header may say how many
  caller,        \* "send", "get", "got", "returned", "failed"
  stream,        \* the HTTP client: "connect", "headers", "subscribe", "flow", "eof", "broken"
  arrived,       \* bytes the HTTP client has handed to onNext
  output,        \* bytes in output
  received,      \* received
  subscription,  \* "none", "active", "cancelled"
  terminal,
  result,        \* [state, bytes] of the body's future
  cancelled      \* exchange.cancel

vars == <<late, length, caller, stream, arrived, output, received, subscription, terminal, result, cancelled>>

Lengths == [bytes : 0..Sent, declared : BOOLEAN]

Init ==
  /\ late = FALSE /\ length \in Lengths /\ caller = "send" /\ stream = "connect"
  /\ arrived = 0 /\ output = 0 /\ received = 0 /\ subscription = "none" /\ terminal = FALSE
  /\ result = [state |-> "pending", bytes |-> 0] /\ cancelled = FALSE

\* fail()
Fail ==
  IF terminal THEN UNCHANGED <<output, subscription, terminal, result>>
  ELSE /\ terminal' = TRUE /\ output' = 0
       /\ result' = [state |-> "failed", bytes |-> 0]
       /\ subscription' = IF subscription = "active" THEN "cancelled" ELSE subscription

DeadlinePasses ==
  /\ ~late /\ late' = TRUE
  /\ UNCHANGED <<length, caller, stream, arrived, output, received, subscription, terminal, result, cancelled>>

\* The end of a failed send: nothing is left to wait for, or to fill.
GiveUp ==
  /\ caller' = "failed" /\ Fail
  /\ cancelled' = (caller # "send")

Send ==
  /\ caller = "send"
  /\ IF late THEN GiveUp /\ UNCHANGED stream
     ELSE /\ caller' = "get" /\ stream' = "headers"
          /\ UNCHANGED <<output, subscription, terminal, result, cancelled>>
  /\ UNCHANGED <<late, length, arrived, received>>

\* exchange.get: the body is complete; or it failed, the time is up, or the thread is interrupted.
Get ==
  /\ caller = "get"
  /\ \/ /\ result.state = "complete" /\ caller' = "got"
        /\ UNCHANGED <<output, subscription, terminal, result, cancelled>>
     \/ GiveUp
  /\ UNCHANGED <<late, length, stream, arrived, received>>

\* The deadline is checked once more before the response is returned.
Return ==
  /\ caller = "got"
  /\ \/ GiveUp
     \/ /\ ~late /\ caller' = "returned"
        /\ UNCHANGED <<output, subscription, terminal, result, cancelled>>
  /\ UNCHANGED <<late, length, stream, arrived, received>>

\* The headers: a declared length beyond the limit fails the body before it is subscribed.
Headers ==
  /\ stream = "headers"
  /\ stream' = "subscribe"
  /\ IF length.declared /\ length.bytes > MaxBytes THEN Fail
     ELSE UNCHANGED <<output, subscription, terminal, result>>
  /\ UNCHANGED <<late, length, caller, arrived, received, cancelled>>

\* Faulty: a body that has ended accepts its subscription.
AcceptsAlways == subscription = "none"

Accepts == ~terminal /\ subscription = "none"

OnSubscribe ==
  /\ stream = "subscribe"
  /\ stream' = "flow"
  /\ subscription' = IF Accepts THEN "active" ELSE "cancelled"
  /\ UNCHANGED <<late, length, caller, arrived, output, received, terminal, result, cancelled>>

\* onNext: buffers already on their way come after a cancellation too.
OnNext ==
  /\ stream = "flow" /\ arrived < length.bytes
  /\ \E n \in 1..(length.bytes - arrived) :
     /\ arrived' = arrived + n
     /\ IF terminal THEN UNCHANGED <<output, received, subscription, terminal, result>>
        ELSE IF late \/ n > MaxBytes - received THEN Fail /\ UNCHANGED received
        ELSE /\ output' = output + n /\ received' = received + n
             /\ UNCHANGED <<subscription, terminal, result>>
  /\ UNCHANGED <<late, length, caller, stream, cancelled>>

OnComplete ==
  /\ stream = "flow" /\ arrived = length.bytes
  /\ stream' = "eof"
  /\ IF terminal THEN UNCHANGED <<output, subscription, terminal, result>>
     ELSE IF late THEN Fail
     ELSE /\ terminal' = TRUE /\ output' = 0
          /\ result' = [state |-> "complete", bytes |-> output]
          /\ UNCHANGED subscription
  /\ UNCHANGED <<late, length, caller, arrived, received, cancelled>>

\* The connection breaks; once the body is subscribed, onError.
Breaks ==
  /\ stream \in {"headers", "flow"}
  /\ stream' = "broken"
  /\ IF stream = "flow" THEN Fail ELSE UNCHANGED <<output, subscription, terminal, result>>
  /\ UNCHANGED <<late, length, caller, arrived, received, cancelled>>

Next ==
  \/ DeadlinePasses \/ Send \/ Get \/ Return
  \/ Headers \/ OnSubscribe \/ OnNext \/ OnComplete \/ Breaks

Spec == Init /\ [][Next]_vars

-----------------------------------------------------------------------------
(* Properties. *)

\* BoundedHttpResponse.java:33: a response that is returned is whole and within the limit, however it
\* was cut into batches and whatever its header said.  Once the caller has given up, on whichever side
\* of the last byte the deadline passed, no bytes are held and none are asked for, even if the body is
\* subscribed only then.
WholeOrNothing ==
  /\ caller = "returned" => result.state = "complete" /\ result.bytes = length.bytes /\ length.bytes <= MaxBytes
  /\ caller = "failed" => output = 0 /\ (subscription = "active" => stream = "eof")
=============================================================================
