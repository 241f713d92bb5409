---------------------------- MODULE BoundedParser ----------------------------
(***************************************************************************)
(* The response parser of the Java SOAP adapter (BoundedParser.java).      *)
(*                                                                         *)
(* HTTP dispatch threads call parse(deadline, operation).  A call takes    *)
(* one of Workers permits, records its FutureTask in the map "tasks",      *)
(* hands a runnable to a ThreadPoolExecutor and waits for the result until *)
(* its deadline.  The runnable gives the permit back when the operation    *)
(* has really ended, even if the caller left long before, and only then    *)
(* publishes the result.  close() runs concurrently with all of them.      *)
(*                                                                         *)
(* A Task is one invocation of parse together with its FutureTask, result  *)
(* and runnable; it is reused once nothing in the program refers to it.    *)
(* The executor's queue is a set: its order is abstracted, its capacity    *)
(* and the number of worker threads are not.                               *)
(***************************************************************************)
EXTENDS Integers, FiniteSets

CONSTANTS
  Task,      \* invocations of parse that may be in progress at once
  Workers    \* AdapterLimits.parserWorkers

ASSUME ParserAssumption ==
  /\ IsFiniteSet(Task)
  /\ Workers \in Nat \ {0}

VARIABLES
  call,       \* where the calling thread is in parse()
  run,        \* where the runnable is: not submitted, queued, on a worker...
  fut,        \* the state of the FutureTask "work"
  result,     \* the CompletableFuture "result"
  got,        \* the invocations that returned a value (the others threw)
  expired,    \* the tasks whose RequestDeadline has passed
  tasks,      \* the keys of the map "tasks"
  permits,    \* admission.availablePermits()
  stop,       \* the shutdown hook: HTTP stopped, executor stopped, closed
  toStop      \* the entries of "tasks" the forEach of close() has not reached

vars == <<call, run, fut, result, got, expired, tasks, permits, stop, toStop>>

CallState == {"idle", "admitted", "registered", "waiting"}
RunState  == {"none", "queued", "running", "released", "dropped"}
FutState  == {"new", "done", "failed", "cancelled"}
Result    == {"pending", "value", "error", "stopped"}
StopState == {"open", "httpStopped", "stopping", "closed"}

TypeOK ==
  /\ call    \in [Task -> CallState]
  /\ run     \in [Task -> RunState]
  /\ fut     \in [Task -> FutState]
  /\ result  \in [Task -> Result]
  /\ got     \subseteq Task
  /\ expired \subseteq Task
  /\ tasks   \subseteq Task
  /\ permits \in 0..Workers
  /\ stop    \in StopState
  /\ toStop  \subseteq Task

Init ==
  /\ call    = [t \in Task |-> "idle"]
  /\ run     = [t \in Task |-> "none"]
  /\ fut     = [t \in Task |-> "new"]
  /\ result  = [t \in Task |-> "pending"]
  /\ got     = {}
  /\ expired = {}
  /\ tasks   = {}
  /\ permits = Workers
  /\ stop    = "open"
  /\ toStop  = {}

(***************************************************************************)
(* The executor: at most Workers threads, each busy from the moment it     *)
(* takes a runnable until the runnable's last statement, and a queue of    *)
(* capacity Workers.                                                       *)
(***************************************************************************)
Queued  == {t \in Task : run[t] = "queued"}
Busy    == {t \in Task : run[t] \in {"running", "released"}}
Shut    == stop \in {"stopping", "closed"}
Accepts == ~Shut /\ Cardinality(Queued) < Workers

\* The invocations that hold a permit.  A queued task that shutdownNow() drops
\* never runs, so its permit is never given back.
Holders ==
  {t \in Task : \/ call[t] \in {"admitted", "registered"}
                \/ run[t] \in {"queued", "running", "dropped"}}

Unused(t) == call[t] = "idle" /\ run[t] = "none"

\* FutureTask.cancel(true): no effect on a task that has already completed.
Cancelled(t) ==
  IF fut[t] = "new" THEN "cancelled" ELSE fut[t]

\* The new values of the task and the result of t, which are gone (as before the
\* invocation) once neither a caller nor a runnable refers to t.
Leave(t, f, r) ==
  LET over == call'[t] = "idle" /\ run'[t] = "none" IN
  /\ fut'     = [fut EXCEPT ![t] = IF over THEN "new" ELSE f]
  /\ result'  = [result EXCEPT ![t] = IF over THEN "pending" ELSE r]
  /\ expired' = IF over THEN expired \ {t} ELSE expired

-----------------------------------------------------------------------------
(* The caller's thread.                                                    *)

\* deadline.check() and tryAcquire() succeed.  A call they refuse changes nothing.
Admit(t) ==
  /\ Unused(t)
  /\ permits > 0
  /\ permits' = permits - 1
  /\ call'    = [call EXCEPT ![t] = "admitted"]
  /\ got'     = got \ {t}
  /\ UNCHANGED <<run, fut, result, expired, tasks, stop, toStop>>

\* tasks.put(work, result)
Register(t) ==
  /\ call[t] = "admitted"
  /\ call'  = [call EXCEPT ![t] = "registered"]
  /\ tasks' = tasks \cup {t}
  /\ UNCHANGED <<run, fut, result, got, expired, permits, stop, toStop>>

\* executor.execute(...) takes the runnable.
Execute(t) ==
  /\ call[t] = "registered"
  /\ Accepts
  /\ call' = [call EXCEPT ![t] = "waiting"]
  /\ run'  = [run EXCEPT ![t] = "queued"]
  /\ UNCHANGED <<fut, result, got, expired, tasks, permits, stop, toStop>>

\* executor.execute(...) throws RejectedExecutionException: the finally block
\* cancels the task, gives the permit back and forgets the task.
Reject(t) ==
  /\ call[t] = "registered"
  /\ ~Accepts
  /\ call'    = [call EXCEPT ![t] = "idle"]
  /\ permits' = permits + 1
  /\ tasks'   = tasks \ {t}
  /\ UNCHANGED <<run, got, stop, toStop>>
  /\ Leave(t, Cancelled(t), result[t])

\* Faulty: the deadline is not checked again after get().
ReturnUnchecked(t) ==
  /\ call[t] = "waiting"
  /\ result[t] = "value"
  /\ call'    = [call EXCEPT ![t] = "idle"]
  /\ got'     = got \cup {t}
  /\ UNCHANGED <<run, tasks, permits, stop, toStop>>
  /\ Leave(t, fut[t], result[t])

\* result.get(...) returns in time and the last deadline.check() passes.
ReturnValue(t) ==
  /\ call[t] = "waiting"
  /\ result[t] = "value"
  /\ t \notin expired
  /\ call'    = [call EXCEPT ![t] = "idle"]
  /\ got'     = got \cup {t}
  /\ UNCHANGED <<run, tasks, permits, stop, toStop>>
  /\ Leave(t, fut[t], result[t])

\* Faulty: a caller that gives up returns the permit of work still scheduled.
AbandonReleases(t) ==
  /\ call[t] = "waiting"
  /\ t \in expired \/ result[t] \in {"error", "stopped"} \/ stop # "open"
  /\ call'    = [call EXCEPT ![t] = "idle"]
  /\ permits' = permits + 1
  /\ UNCHANGED <<run, got, tasks, stop, toStop>>
  /\ Leave(t, Cancelled(t), result[t])

\* Faulty: get() without a timeout.
AbandonUntimed(t) ==
  /\ call[t] = "waiting"
  /\ result[t] \in {"error", "stopped"} \/ stop # "open"
  /\ call' = [call EXCEPT ![t] = "idle"]
  /\ UNCHANGED <<run, got, tasks, permits, stop, toStop>>
  /\ Leave(t, Cancelled(t), result[t])

\* get() times out, remainingNanos() or the last check() finds the deadline
\* passed, the result is exceptional, or the caller's thread was interrupted by
\* the shutdown of the HTTP executor.  The finally block cancels the task and
\* leaves its permit to the runnable.
Abandon(t) ==
  /\ call[t] = "waiting"
  /\ t \in expired \/ result[t] \in {"error", "stopped"} \/ stop # "open"
  /\ call' = [call EXCEPT ![t] = "idle"]
  /\ UNCHANGED <<run, got, tasks, permits, stop, toStop>>
  /\ Leave(t, Cancelled(t), result[t])

\* The monotonic budget of the invocation runs out, as long as anything can notice.
Expire(t) ==
  /\ call[t] # "idle" \/ run[t] \in {"queued", "running"}
  /\ t \notin expired
  /\ expired' = expired \cup {t}
  /\ UNCHANGED <<call, run, fut, result, got, tasks, permits, stop, toStop>>

-----------------------------------------------------------------------------
(* The worker threads.                                                     *)

Start(t) ==
  /\ run[t] = "queued"
  /\ Cardinality(Busy) < Workers
  /\ run' = [run EXCEPT ![t] = "running"]
  /\ UNCHANGED <<call, fut, result, got, expired, tasks, permits, stop, toStop>>

\* Faulty: only work that was not cancelled gives its permit back.
FinishKeepsPermit(t) ==
  /\ run[t] = "running"
  /\ \/ fut[t] = "new" /\ t \notin expired /\ fut' = [fut EXCEPT ![t] = "done"]
     \/ fut[t] = "new" /\ fut' = [fut EXCEPT ![t] = "failed"]
     \/ fut[t] = "cancelled" /\ UNCHANGED fut
  /\ run'     = [run EXCEPT ![t] = "released"]
  /\ permits' = IF fut[t] = "cancelled" THEN permits ELSE permits + 1
  /\ UNCHANGED <<call, result, got, expired, tasks, stop, toStop>>

\* work.run() returns and the finally block gives the permit back: the operation
\* succeeded before the deadline, failed, or the task had been cancelled (before
\* the operation started, or while it was executing).
Finish(t) ==
  /\ run[t] = "running"
  /\ \/ fut[t] = "new" /\ t \notin expired /\ fut' = [fut EXCEPT ![t] = "done"]
     \/ fut[t] = "new" /\ fut' = [fut EXCEPT ![t] = "failed"]
     \/ fut[t] = "cancelled" /\ UNCHANGED fut
  /\ run'     = [run EXCEPT ![t] = "released"]
  /\ permits' = permits + 1
  /\ UNCHANGED <<call, result, got, expired, tasks, stop, toStop>>

\* The runnable's tail: publish what work.get() gives, unless close() completed
\* the result first, and forget the task.  The worker thread is free again.
Publish(t) ==
  /\ run[t] = "released"
  /\ run'   = [run EXCEPT ![t] = "none"]
  /\ tasks' = tasks \ {t}
  /\ UNCHANGED <<call, got, permits, stop, toStop>>
  /\ Leave(t, fut[t], IF result[t] # "pending" THEN result[t]
                      ELSE IF fut[t] = "done" THEN "value" ELSE "error")

-----------------------------------------------------------------------------
(* The shutdown hook of Main: server.close() interrupts the callers, then    *)
(* soap.close() closes the parser.                                          *)

StopHttp ==
  /\ stop = "open"
  /\ stop' = "httpStopped"
  /\ UNCHANGED <<call, run, fut, result, got, expired, tasks, permits, toStop>>

\* executor.shutdownNow(): queued runnables are dropped, nothing more is accepted.
ShutdownNow ==
  /\ stop = "httpStopped"
  /\ stop'   = "stopping"
  /\ run'    = [t \in Task |-> IF run[t] = "queued" THEN "dropped" ELSE run[t]]
  /\ toStop' = tasks
  /\ UNCHANGED <<call, fut, result, got, expired, tasks, permits>>

\* One entry of tasks.forEach(...).  The iteration is weakly consistent: it meets
\* every entry that was there when it began and stays, and may meet others.
StopTask(t) ==
  /\ stop = "stopping"
  /\ t \in tasks
  /\ fut'    = [fut EXCEPT ![t] = Cancelled(t)]
  /\ result' = [result EXCEPT ![t] = IF @ = "pending" THEN "stopped" ELSE @]
  /\ toStop' = toStop \ {t}
  /\ UNCHANGED <<call, run, got, expired, tasks, permits, stop>>

\* Faulty: the map is cleared without completing what it holds.
ClearUnswept ==
  /\ stop = "stopping"
  /\ stop'  = "closed"
  /\ tasks' = {}
  /\ toStop' = {}
  /\ UNCHANGED <<call, run, fut, result, got, expired, permits>>

\* The iteration is over: tasks.clear().
ClearTasks ==
  /\ stop = "stopping"
  /\ toStop \cap tasks = {}
  /\ stop'  = "closed"
  /\ tasks' = {}
  /\ toStop' = {}
  /\ UNCHANGED <<call, run, fut, result, got, expired, permits>>

-----------------------------------------------------------------------------
Caller(t) ==
  \/ Admit(t)   \/ Register(t) \/ Execute(t) \/ Reject(t)
  \/ ReturnValue(t) \/ Abandon(t)

Worker(t) == Start(t) \/ Finish(t) \/ Publish(t)

Close == StopHttp \/ ShutdownNow \/ (\E t \in Task : StopTask(t)) \/ ClearTasks

Next ==
  \/ \E t \in Task : Caller(t) \/ Worker(t) \/ Expire(t)
  \/ Close

Spec == Init /\ [][Next]_vars

\* Threads inside parse() keep running and time passes.  Nothing is assumed of
\* the parsing operation itself: Finish is not fair.
CallerFairness ==
  \A t \in Task :
    /\ WF_vars(Register(t) \/ Execute(t) \/ Reject(t) \/ ReturnValue(t) \/ Abandon(t))
    /\ WF_vars(Expire(t))

\* The operations end: they check the deadline and their input is bounded.
WorkerFairness == \A t \in Task : WF_vars(Worker(t))

FairSpec == Spec /\ CallerFairness

-----------------------------------------------------------------------------
(* Properties.                                                              *)

\* Every permit is accounted for: a permit is out exactly while an invocation is
\* on its way to the executor or its operation is scheduled or executing, also
\* after its caller gave up; no path gives one back twice or keeps it.
PermitAccounting == permits + Cardinality(Holders) = Workers

\* "Admission includes running and scheduled work, with no additional response
\* backlog": a caller that got a permit is never turned away by the executor
\* before shutdown, although workers still run the tail of a task whose permit
\* has already been reused.
AdmittedIsAccepted ==
  \A t \in Task : call[t] = "registered" /\ ~Shut => Cardinality(Queued) < Workers

\* An invocation that is over, for its caller and for its worker, has left no
\* entry in the map "tasks", whichever of the removals (tail, rejection, close) ran.
NoTaskLeak ==
  \A t \in tasks : call[t] # "idle" \/ run[t] \notin {"none", "dropped"} \/ stop = "stopping"

\* Once close() has finished its sweep nobody is left waiting for a result that
\* no one will complete: tasks.put precedes execute and shutdownNow precedes the
\* sweep, so a task is either swept or rejected.
CloseWakesCallers ==
  stop = "closed" => \A t \in Task : call[t] = "waiting" => result[t] # "pending"

\* A value reaches its caller only if the operation finished and was never
\* cancelled, and the deadline has not passed: late results are discarded.
NoLateValue ==
  [][\A t \in Task :
       t \notin got /\ t \in got' => fut[t] = "done" /\ t \notin expired]_vars

\* Every invocation of parse() returns, even if its operation never ends.
EveryCallReturns == \A t \in Task : call[t] # "idle" ~> call[t] = "idle"

\* While the parser is open and the operations themselves end, an exhausted parser
\* admits again: the permits of abandoned invocations come back too.
CapacityReturns ==
  WorkerFairness => (permits = 0 ~> permits > 0 \/ stop # "open")
==============================================================================
