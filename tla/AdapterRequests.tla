-------------------------- MODULE AdapterRequests --------------------------
(***************************************************************************)
(* The adapter's HTTP server (InternalServer.java): a bounded pool of      *)
(* threads with a bounded queue, and fewer permits than threads for the    *)
(* requests that do business.                                              *)
(*                                                                         *)
(* A request keeps its thread until the end of dispatch().  A business     *)
(* handler may never end, and a client may go away at any time.            *)
(***************************************************************************)
EXTENDS Integers, FiniteSets, Sequences

CONSTANTS
  Business,  \* requests for anything but the health of the adapter
  Probe,     \* requests for its health
  Workers,   \* AdapterLimits.httpWorkers
  Queue,     \* AdapterLimits.httpQueue
  Active     \* AdapterLimits.activeRequests

Request == Business \cup Probe

VARIABLES
  at,         \* where the thread of each request is, or why it has none
  queue,      \* requests that wait for a thread
  permits,    \* admission
  admitted,   \* requests whose local admitted is true
  status      \* what each request was answered

vars == <<at, queue, permits, admitted, status>>

Threads == {r \in Request : at[r] \notin {"none", "queued"}}

Init ==
  /\ at = [r \in Request |-> "none"] /\ queue = <<>>
  /\ permits = Active /\ admitted = {} /\ status = [r \in Request |-> "none"]

\* The pool starts or has a thread for the request, or has a place, or rejects it: its connection
\* is closed.  No request overtakes those that wait.
Arrive(r) ==
  /\ at[r] = "none"
  /\ status' = [status EXCEPT ![r] = "none"]
  /\ IF Cardinality(Threads) < Workers /\ queue = <<>>
     THEN at' = [at EXCEPT ![r] = "start"] /\ UNCHANGED queue
     ELSE /\ Len(queue) < Queue
          /\ at' = [at EXCEPT ![r] = "queued"] /\ queue' = Append(queue, r)
  /\ UNCHANGED <<permits, admitted>>

Dequeue ==
  /\ queue # <<>> /\ Cardinality(Threads) < Workers
  /\ at' = [at EXCEPT ![Head(queue)] = "start"] /\ queue' = Tail(queue)
  /\ UNCHANGED <<permits, admitted, status>>

\* send(): the status leaves the adapter unless the client has gone.
Answer(r, s) ==
  /\ status' = [status EXCEPT ![r] = s]
  /\ at' = [at EXCEPT ![r] = "finally"]

\* The token of a business request and the method of any are checked first.  Sending the refusal
\* may fail, which is an exception.
Start(r) ==
  /\ at[r] = "start"
  /\ \/ Answer(r, "refused")
     \/ at' = [at EXCEPT ![r] = "caught"] /\ UNCHANGED status
     \/ /\ at' = [at EXCEPT ![r] = IF r \in Business THEN "acquire" ELSE "handler"]
        /\ UNCHANGED status
  /\ UNCHANGED <<queue, permits, admitted>>

\* Faulty: a request waits for its permit, as acquire() would.
AcquireWaiting(r) ==
  /\ at[r] = "acquire" /\ permits > 0
  /\ permits' = permits - 1 /\ admitted' = admitted \cup {r}
  /\ at' = [at EXCEPT ![r] = "handler"]
  /\ UNCHANGED <<queue, status>>

\* tryAcquire, or 503, which may not be sent either.
Acquire(r) ==
  /\ at[r] = "acquire" /\ UNCHANGED queue
  /\ \/ /\ permits > 0
        /\ permits' = permits - 1 /\ admitted' = admitted \cup {r}
        /\ at' = [at EXCEPT ![r] = "handler"]
        /\ UNCHANGED status
     \/ /\ permits = 0
        /\ Answer(r, "busy") \/ (at' = [at EXCEPT ![r] = "caught"] /\ UNCHANGED status)
        /\ UNCHANGED <<permits, admitted>>

\* The handler returns and its result is sent, or it throws: an exception, or an Error that nothing
\* catches.  A failed send is an exception too.
Handler(r) ==
  /\ at[r] = "handler"
  /\ \/ Answer(r, "ok")
     \/ at' = [at EXCEPT ![r] = "caught"] /\ UNCHANGED status
     \/ r \in Business /\ at' = [at EXCEPT ![r] = "finally"] /\ UNCHANGED status
  /\ UNCHANGED <<queue, permits, admitted>>

\* catch: an error is sent, or that fails as well.
Caught(r) ==
  /\ at[r] = "caught"
  /\ \/ Answer(r, "error")
     \/ at' = [at EXCEPT ![r] = "finally"] /\ UNCHANGED status
  /\ UNCHANGED <<queue, permits, admitted>>

\* Faulty: the permit goes back with the answer, and without one it does not.
FinallyIfAnswered(r) ==
  /\ at[r] = "finally" /\ at' = [at EXCEPT ![r] = "none"]
  /\ permits' = IF r \in admitted /\ status[r] # "none" THEN permits + 1 ELSE permits
  /\ admitted' = admitted \ {r}
  /\ UNCHANGED <<queue, status>>

Finally(r) ==
  /\ at[r] = "finally" /\ at' = [at EXCEPT ![r] = "none"]
  /\ permits' = IF r \in admitted THEN permits + 1 ELSE permits
  /\ admitted' = admitted \ {r}
  /\ UNCHANGED <<queue, status>>

Thread(r) == Start(r) \/ Acquire(r) \/ Handler(r) \/ Caught(r) \/ Finally(r)

Next == Dequeue \/ \E r \in Request : Arrive(r) \/ Thread(r)

\* Threads run, but a business handler need not end.
Fairness ==
  /\ WF_vars(Dequeue)
  /\ \A r \in Request : WF_vars(Start(r) \/ Acquire(r) \/ Caught(r) \/ Finally(r))
  /\ \A r \in Probe : WF_vars(Handler(r))

Spec == Init /\ [][Next]_vars /\ Fairness

-----------------------------------------------------------------------------
(* Properties. *)

\* InternalServer.java:73: a permit is held by exactly the admitted requests whose thread is inside
\* dispatch(), and comes back however that ends.
PermitsReturned ==
  /\ permits = Active - Cardinality(admitted)
  /\ \A r \in admitted : at[r] \in {"handler", "caught", "finally"}
  /\ \A r \in Business : at[r] = "handler" => r \in admitted

\* A request for the adapter's health that found a thread or a place in the queue is dealt with,
\* even if every admitted request hangs for ever.
ProbeAnswered == \A r \in Probe : at[r] = "queued" \/ at[r] = "start" ~> at[r] = "none"
=============================================================================
