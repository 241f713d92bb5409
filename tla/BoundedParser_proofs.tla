------------------------- MODULE BoundedParser_proofs -------------------------
(***************************************************************************)
(* Safety of BoundedParser for every set of invocations and every number   *)
(* of parser workers.                                                      *)
(*                                                                         *)
(* The permits are counted through the set Holders: every action adds one  *)
(* invocation to it and takes a permit, removes one and returns a permit,  *)
(* or leaves both.  That an action really adds or removes its invocation   *)
(* is what Phases is for; Entries and Sweep say where the map "tasks" can  *)
(* still hold an entry, and Values where a value can come from.            *)
(***************************************************************************)
EXTENDS BoundedParser, FiniteSetTheorems, TLAPS

\* An invocation on its way to the executor has no runnable yet.
Phases ==
  \A t \in Task : call[t] \in {"admitted", "registered"} => run[t] = "none"

\* Who has an entry in "tasks": an invocation about to execute or with a runnable
\* that has not ended; after close() only one that is about to be rejected.
Entries ==
  /\ \A t \in tasks : call[t] = "registered" \/ run[t] # "none"
  /\ \A t \in Task : run[t] = "dropped" => Shut
  /\ stop = "closed" => \A t \in tasks : call[t] = "registered"

\* A caller without a result has an entry until close() has completed every entry,
\* and the sweep of close() still has that entry before it.
Sweep ==
  \A t \in Task :
    /\ call[t] = "registered" /\ stop # "closed" => t \in tasks
    /\ call[t] = "waiting" /\ result[t] = "pending" =>
         /\ stop # "closed"
         /\ t \in tasks
         /\ stop = "stopping" => t \in toStop

\* Values come from operations that finished and were never cancelled.
Values == \A t \in Task : result[t] = "value" => fut[t] = "done"

IInv == TypeOK /\ PermitAccounting /\ Phases /\ Entries /\ Sweep /\ Values

-----------------------------------------------------------------------------
(* The permits.                                                             *)

\* What the provers need about sets of invocations: they are finite, and adding or
\* removing one invocation changes their number by one.
LEMMA HoldersCount ==
  ASSUME NEW H \in SUBSET Task, NEW t \in Task
  PROVE  /\ IsFiniteSet(H)
         /\ Cardinality(H) \in Nat
         /\ t \notin H => Cardinality(H \cup {t}) = Cardinality(H) + 1
         /\ t \in H => Cardinality(H \ {t}) = Cardinality(H) - 1
<1>1. IsFiniteSet(H)
  BY FS_Subset, ParserAssumption
<1>2. Cardinality(H) \in Nat
  BY <1>1, FS_CardinalityType
<1>3. t \notin H => Cardinality(H \cup {t}) = Cardinality(H) + 1
  BY <1>1, FS_AddElement
<1>4. t \in H => Cardinality(H \ {t}) = Cardinality(H) - 1
  BY <1>1, FS_RemoveElement
<1> QED
  BY <1>1, <1>2, <1>3, <1>4

\* Admission makes an invocation a holder of the permit it takes.
LEMMA AdmitTakes ==
  ASSUME TypeOK, NEW t \in Task, Admit(t)
  PROVE  t \notin Holders /\ Holders' = Holders \cup {t} /\ permits' = permits - 1
BY DEF TypeOK, CallState, RunState, Admit, Unused, Holders

\* An invocation that the executor rejects stops being a holder.
LEMMA RejectReturns ==
  ASSUME TypeOK, Phases, NEW t \in Task, Reject(t)
  PROVE  t \in Holders /\ Holders' = Holders \ {t} /\ permits' = permits + 1
BY DEF TypeOK, CallState, RunState, Phases, Reject, Holders

\* The finally block of the runnable returns the permit when work.run() is over.
LEMMA FinishReturns ==
  ASSUME TypeOK, Phases, NEW t \in Task, Finish(t)
  PROVE  t \in Holders /\ Holders' = Holders \ {t} /\ permits' = permits + 1
BY DEF TypeOK, CallState, RunState, Phases, Finish, Holders

\* Every other step leaves the permits and their holders alone: in particular a
\* caller that gives up, the tail of a runnable, and close().
LEMMA OthersKeep ==
  ASSUME TypeOK, [Next]_vars,
         \A t \in Task : ~Admit(t) /\ ~Reject(t) /\ ~Finish(t)
  PROVE  Holders' = Holders /\ permits' = permits
<1>1. CASE \E t \in Task : Register(t) \/ Execute(t)
  BY <1>1 DEF TypeOK, CallState, RunState, Register, Execute, Holders
<1>2. CASE \E t \in Task : ReturnValue(t) \/ Abandon(t)
  BY <1>2 DEF TypeOK, CallState, RunState, ReturnValue, Abandon, Holders
<1>3. CASE \E t \in Task : Start(t) \/ Publish(t) \/ Expire(t)
  BY <1>3 DEF TypeOK, CallState, RunState, Start, Publish, Expire, Holders
<1>4. CASE Close
  <2>1. CASE ShutdownNow
    BY <2>1 DEF TypeOK, CallState, RunState, ShutdownNow, Holders
  <2>2. CASE StopHttp \/ ClearTasks \/ \E t \in Task : StopTask(t)
    BY <2>2 DEF StopHttp, ClearTasks, StopTask, Holders
  <2> QED
    BY <1>4, <2>1, <2>2 DEF Close
<1>5. CASE UNCHANGED vars
  BY <1>5 DEF vars, Holders
<1> QED
  BY <1>1, <1>2, <1>3, <1>4, <1>5 DEF Next, Caller, Worker

\* A step keeps the permits accounted for.
LEMMA AccountingStep ==
  ASSUME TypeOK, PermitAccounting, Phases, [Next]_vars
  PROVE  PermitAccounting'
<1> Holders \in SUBSET Task /\ permits \in Int /\ Workers \in Int
  BY ParserAssumption DEF Holders, TypeOK
<1>1. ASSUME NEW t \in Task, Admit(t)
      PROVE  PermitAccounting'
  <2>1. Cardinality(Holders') = Cardinality(Holders) + 1 /\ Cardinality(Holders) \in Nat
    BY <1>1, AdmitTakes, HoldersCount
  <2> QED
    BY <1>1, <2>1, AdmitTakes DEF PermitAccounting
<1>2. ASSUME NEW t \in Task, Reject(t) \/ Finish(t)
      PROVE  PermitAccounting'
  <2>1. t \in Holders /\ Holders' = Holders \ {t} /\ permits' = permits + 1
    BY <1>2, RejectReturns, FinishReturns
  <2>2. Cardinality(Holders') = Cardinality(Holders) - 1 /\ Cardinality(Holders) \in Nat
    BY <2>1, HoldersCount
  <2> QED
    BY <2>1, <2>2 DEF PermitAccounting
<1>3. CASE \A t \in Task : ~Admit(t) /\ ~Reject(t) /\ ~Finish(t)
  BY <1>3, OthersKeep DEF PermitAccounting
<1> QED
  BY <1>1, <1>2, <1>3

-----------------------------------------------------------------------------
(* The remaining parts of the inductive invariant.                          *)

\* The variables of one invocation keep their types when it is left.
LEMMA LeaveType ==
  ASSUME TypeOK, NEW t \in Task, NEW f \in FutState, NEW r \in Result, Leave(t, f, r)
  PROVE  /\ fut' \in [Task -> FutState]
         /\ result' \in [Task -> Result]
         /\ expired' \subseteq Task
BY DEF TypeOK, Leave, FutState, Result

\* FutureTask.cancel leaves a task in one of its four states.
LEMMA CancelledType ==
  ASSUME TypeOK, NEW t \in Task
  PROVE  Cancelled(t) \in FutState
BY DEF TypeOK, Cancelled, FutState

\* Every action of parse(), of the workers and of close() keeps the types; the bound
\* of the permits is what PermitAccounting gives.
LEMMA TypeStep ==
  ASSUME TypeOK, PermitAccounting', [Next]_vars
  PROVE  TypeOK'
<1> USE DEF TypeOK, CallState, RunState
<1> Workers \in Nat
  BY ParserAssumption
<1>0. permits' \in Int => permits' <= Workers
  <2>1. Holders' \in SUBSET Task
    <3>1. Holders' = {t \in Task : \/ call'[t] \in {"admitted", "registered"}
                                   \/ run'[t] \in {"queued", "running", "dropped"}}
      BY DEF Holders
    <3> QED
      BY <3>1
  <2>2. Cardinality(Holders') \in Nat
    BY <2>1, FS_Subset, FS_CardinalityType, ParserAssumption
  <2> QED
    BY <2>2 DEF PermitAccounting
<1>1. ASSUME NEW t \in Task, Admit(t)
      PROVE  TypeOK'
  BY <1>0, <1>1 DEF Admit
<1>2. ASSUME NEW t \in Task, Register(t) \/ Execute(t)
      PROVE  TypeOK'
  BY <1>2 DEF Register, Execute
<1>3. ASSUME NEW t \in Task, Reject(t)
      PROVE  TypeOK'
  BY <1>0, <1>3, LeaveType, CancelledType DEF Reject
<1>4. ASSUME NEW t \in Task, ReturnValue(t)
      PROVE  TypeOK'
  BY <1>4, LeaveType DEF ReturnValue
<1>5. ASSUME NEW t \in Task, Abandon(t)
      PROVE  TypeOK'
  BY <1>5, LeaveType, CancelledType DEF Abandon
<1>6. ASSUME NEW t \in Task, Start(t) \/ Expire(t)
      PROVE  TypeOK'
  BY <1>6 DEF Start, Expire
<1>7. ASSUME NEW t \in Task, Finish(t)
      PROVE  TypeOK'
  BY <1>0, <1>7 DEF Finish, FutState
<1>8. ASSUME NEW t \in Task, Publish(t)
      PROVE  TypeOK'
  <2> DEFINE r == IF result[t] # "pending" THEN result[t]
                  ELSE IF fut[t] = "done" THEN "value" ELSE "error"
  <2>1. r \in Result
    BY DEF Result
  <2>2. Leave(t, fut[t], r)
    BY <1>8 DEF Publish
  <2>3. fut' \in [Task -> FutState] /\ result' \in [Task -> Result] /\ expired' \subseteq Task
    <3> HIDE DEF r
    <3> QED
      BY <2>1, <2>2, LeaveType
  <2> QED
    BY <1>8, <2>3 DEF Publish
<1>9. CASE Close
  <2>1. CASE StopHttp \/ ShutdownNow \/ ClearTasks
    BY <2>1 DEF StopHttp, ShutdownNow, ClearTasks, StopState
  <2>2. ASSUME NEW t \in Task, StopTask(t)
        PROVE  TypeOK'
    BY <2>2, CancelledType DEF StopTask, Result
  <2> QED
    BY <1>9, <2>1, <2>2 DEF Close
<1>10. CASE UNCHANGED vars
  BY <1>10 DEF vars
<1> QED
  BY <1>1, <1>2, <1>3, <1>4, <1>5, <1>6, <1>7, <1>8, <1>9, <1>10 DEF Next, Caller, Worker

\* Only a waiting caller's invocation is ever given a runnable.
LEMMA PhasesStep ==
  ASSUME TypeOK, Phases, [Next]_vars
  PROVE  Phases'
<1> USE DEF TypeOK, CallState, RunState, Phases
<1>1. CASE \E t \in Task : Admit(t) \/ Register(t) \/ Execute(t) \/ Reject(t)
  BY <1>1 DEF Admit, Unused, Register, Execute, Reject
<1>2. CASE \E t \in Task : ReturnValue(t) \/ Abandon(t) \/ Expire(t)
  BY <1>2 DEF ReturnValue, Abandon, Expire
<1>3. CASE \E t \in Task : Start(t) \/ Finish(t) \/ Publish(t)
  BY <1>3 DEF Start, Finish, Publish
<1>4. CASE Close
  BY <1>4 DEF Close, StopHttp, ShutdownNow, StopTask, ClearTasks
<1>5. CASE UNCHANGED vars
  BY <1>5 DEF vars
<1> QED
  BY <1>1, <1>2, <1>3, <1>4, <1>5 DEF Next, Caller, Worker

\* Each removal from "tasks" (tail, rejection, close) comes no later than the end of
\* the runnable, and nothing is executed after shutdownNow().
LEMMA EntriesStep ==
  ASSUME TypeOK, Phases, Entries, [Next]_vars
  PROVE  Entries'
<1> USE DEF TypeOK, CallState, RunState, Entries, Shut
<1>1. ASSUME NEW t \in Task, Admit(t) \/ Register(t)
      PROVE  Entries'
  BY <1>1 DEF Admit, Unused, Register
<1>2. ASSUME NEW t \in Task, Execute(t)
      PROVE  Entries'
  BY <1>2 DEF Execute, Accepts
<1>3. ASSUME NEW t \in Task, Reject(t)
      PROVE  Entries'
  BY <1>3 DEF Reject
<1>4. ASSUME NEW t \in Task, ReturnValue(t) \/ Abandon(t) \/ Expire(t)
      PROVE  Entries'
  BY <1>4 DEF ReturnValue, Abandon, Expire
<1>5. ASSUME NEW t \in Task, Start(t) \/ Finish(t)
      PROVE  Entries'
  BY <1>5 DEF Start, Finish
<1>6. ASSUME NEW t \in Task, Publish(t)
      PROVE  Entries'
  BY <1>6 DEF Publish
<1>7. CASE Close
  <2>1. CASE StopHttp
    BY <2>1 DEF StopHttp
  <2>2. CASE ShutdownNow
    BY <2>2 DEF ShutdownNow
  <2>3. CASE ClearTasks \/ \E t \in Task : StopTask(t)
    BY <2>3 DEF ClearTasks, StopTask
  <2> QED
    BY <1>7, <2>1, <2>2, <2>3 DEF Close
<1>8. CASE UNCHANGED vars
  BY <1>8 DEF vars
<1> QED
  BY <1>1, <1>2, <1>3, <1>4, <1>5, <1>6, <1>7, <1>8 DEF Next, Caller, Worker

\* put before execute, and shutdownNow before the iteration: a caller that waits is
\* in the map until its result is completed.
LEMMA SweepStep ==
  ASSUME TypeOK, Phases, Sweep, [Next]_vars
  PROVE  Sweep'
<1> USE DEF TypeOK, CallState, RunState, Sweep, Shut
<1>1. ASSUME NEW t \in Task, Admit(t) \/ Register(t)
      PROVE  Sweep'
  BY <1>1 DEF Admit, Unused, Register
<1>2. ASSUME NEW t \in Task, Execute(t)
      PROVE  Sweep'
  BY <1>2 DEF Execute, Accepts
<1>3. ASSUME NEW t \in Task, Reject(t)
      PROVE  Sweep'
  BY <1>3 DEF Reject, Leave
<1>4. ASSUME NEW t \in Task, ReturnValue(t) \/ Abandon(t)
      PROVE  Sweep'
  BY <1>4 DEF ReturnValue, Abandon, Leave
<1>5. ASSUME NEW t \in Task, Start(t) \/ Finish(t) \/ Expire(t)
      PROVE  Sweep'
  BY <1>5 DEF Start, Finish, Expire
<1>6. ASSUME NEW t \in Task, Publish(t)
      PROVE  Sweep'
  <2>1. call[t] # "registered"
    BY <1>6 DEF Publish, Phases
  <2>2. call[t] = "waiting" => result'[t] # "pending"
    BY <1>6 DEF Publish, Leave
  <2>3. \A u \in Task \ {t} : result'[u] = result[u] /\ (u \in tasks' <=> u \in tasks)
    BY <1>6 DEF Publish, Leave
  <2> QED
    BY <1>6, <2>1, <2>2, <2>3 DEF Publish
<1>7. CASE Close
  <2>1. CASE StopHttp \/ ShutdownNow
    BY <2>1 DEF StopHttp, ShutdownNow
  <2>2. ASSUME NEW t \in Task, StopTask(t)
        PROVE  Sweep'
    BY <2>2 DEF StopTask
  <2>3. CASE ClearTasks
    BY <2>3 DEF ClearTasks
  <2> QED
    BY <1>7, <2>1, <2>2, <2>3 DEF Close
<1>8. CASE UNCHANGED vars
  BY <1>8 DEF vars
<1> QED
  BY <1>1, <1>2, <1>3, <1>4, <1>5, <1>6, <1>7, <1>8 DEF Next, Caller, Worker

\* Only the runnable's tail completes a result with a value, from a task that is done.
LEMMA ValuesStep ==
  ASSUME TypeOK, Values, [Next]_vars
  PROVE  Values'
<1> USE DEF TypeOK, Values
<1>1. ASSUME NEW t \in Task, Admit(t) \/ Register(t) \/ Execute(t)
      PROVE  Values'
  BY <1>1 DEF Admit, Register, Execute
<1>2. ASSUME NEW t \in Task, Reject(t) \/ ReturnValue(t) \/ Abandon(t)
      PROVE  Values'
  BY <1>2 DEF Reject, ReturnValue, Abandon, Leave, Cancelled
<1>3. ASSUME NEW t \in Task, Start(t) \/ Expire(t)
      PROVE  Values'
  BY <1>3 DEF Start, Expire
<1>4. ASSUME NEW t \in Task, Finish(t)
      PROVE  Values'
  BY <1>4 DEF Finish
<1>5. ASSUME NEW t \in Task, Publish(t)
      PROVE  Values'
  BY <1>5 DEF Publish, Leave
<1>6. CASE Close
  BY <1>6 DEF Close, StopHttp, ShutdownNow, StopTask, ClearTasks, Cancelled
<1>7. CASE UNCHANGED vars
  BY <1>7 DEF vars
<1> QED
  BY <1>1, <1>2, <1>3, <1>4, <1>5, <1>6, <1>7 DEF Next, Caller, Worker

-----------------------------------------------------------------------------
(* The theorems.                                                            *)

\* A new BoundedParser satisfies the invariant.
LEMMA InitIInv == Init => IInv
<1> SUFFICES ASSUME Init PROVE IInv
  OBVIOUS
<1>1. TypeOK
  BY ParserAssumption DEF Init, TypeOK, CallState, RunState, FutState, Result, StopState
<1>2. PermitAccounting
  <2>1. Holders = {}
    BY DEF Init, Holders
  <2> QED
    BY <2>1, FS_EmptySet, ParserAssumption DEF Init, PermitAccounting
<1>3. Phases /\ Entries /\ Sweep /\ Values
  BY DEF Init, Phases, Entries, Sweep, Values
<1> QED
  BY <1>1, <1>2, <1>3 DEF IInv

\* Every step keeps the invariant.
LEMMA IInvStep == IInv /\ [Next]_vars => IInv'
<1> SUFFICES ASSUME IInv, [Next]_vars PROVE IInv'
  OBVIOUS
<1>1. PermitAccounting'
  BY AccountingStep DEF IInv
<1>2. TypeOK'
  BY <1>1, TypeStep DEF IInv
<1>3. Phases' /\ Entries' /\ Sweep' /\ Values'
  BY PhasesStep, EntriesStep, SweepStep, ValuesStep DEF IInv
<1> QED
  BY <1>1, <1>2, <1>3 DEF IInv

\* The strengthened invariant holds in every reachable state of the parser.
THEOREM Invariance == Spec => []IInv
BY InitIInv, IInvStep, PTL DEF Spec

\* Every variable keeps its type; in particular the semaphore never holds more than
\* Workers permits (AdapterLimits.parserWorkers).
THEOREM TypeCorrect == Spec => []TypeOK
<1>1. IInv => TypeOK
  BY DEF IInv
<1> QED
  BY <1>1, Invariance, PTL

\* BoundedParser never loses a permit and never gives one back twice: the permits that
\* are out are those of invocations on their way to the executor or scheduled there.
THEOREM PermitsAccounted == Spec => []PermitAccounting
<1>1. IInv => PermitAccounting
  BY DEF IInv
<1> QED
  BY <1>1, Invariance, PTL

\* "No additional response backlog": while the parser is open, execute() takes every
\* runnable that was admitted, so AbortPolicy is never the reason of a busy answer.
THEOREM AdmittedAccepted == Spec => []AdmittedIsAccepted
<1>1. IInv => AdmittedIsAccepted
  <2> SUFFICES ASSUME IInv, NEW t \in Task, call[t] = "registered"
               PROVE  Cardinality(Queued) < Workers
    BY DEF AdmittedIsAccepted
  <2>1. Queued \in SUBSET Task /\ Holders \in SUBSET Task
    BY DEF Queued, Holders
  <2>2. t \notin Queued
    BY DEF IInv, Phases, Queued
  <2>3. Queued \cup {t} \in SUBSET Holders
    BY DEF Queued, Holders
  <2>4. Cardinality(Queued \cup {t}) = Cardinality(Queued) + 1 /\ Cardinality(Queued) \in Nat
    BY <2>1, <2>2, HoldersCount
  <2>5. Cardinality(Queued \cup {t}) <= Cardinality(Holders) /\ Cardinality(Holders) \in Nat
    BY <2>1, <2>3, HoldersCount, FS_Subset
  <2>6. permits >= 0 /\ permits \in Int /\ permits + Cardinality(Holders) = Workers
    BY ParserAssumption DEF IInv, TypeOK, PermitAccounting
  <2> QED
    BY <2>4, <2>5, <2>6, ParserAssumption
<1> QED
  BY <1>1, Invariance, PTL

\* No path of parse(), of the runnable or of close() leaves an entry of a finished
\* invocation in the map "tasks".
THEOREM TasksForgotten == Spec => []NoTaskLeak
<1>1. IInv => NoTaskLeak
  BY DEF IInv, TypeOK, StopState, Entries, Shut, NoTaskLeak
<1> QED
  BY <1>1, Invariance, PTL

\* Whatever the order of put, execute, shutdownNow and the sweep, close() leaves no
\* caller waiting for a result that nobody will complete.
THEOREM CallersWoken == Spec => []CloseWakesCallers
<1>1. IInv => CloseWakesCallers
  BY DEF IInv, Sweep, CloseWakesCallers
<1> QED
  BY <1>1, Invariance, PTL

\* parse() returns no late value and no value of a cancelled task.
THEOREM LateValuesDropped == Spec => NoLateValue
<1>1. IInv /\ [Next]_vars =>
        [\A t \in Task : t \notin got /\ t \in got' => fut[t] = "done" /\ t \notin expired]_vars
  <2> SUFFICES ASSUME IInv, Next, NEW u \in Task, u \notin got, u \in got'
               PROVE  fut[u] = "done" /\ u \notin expired
    OBVIOUS
  <2>1. ReturnValue(u)
    <3>1. ASSUME NEW t \in Task, Caller(t) \/ Worker(t) \/ Expire(t)
          PROVE  t = u /\ ReturnValue(t)
      BY <3>1 DEF Caller, Worker, Admit, Register, Execute, Reject, ReturnValue, Abandon,
                  Start, Finish, Publish, Expire
    <3>2. ~Close
      BY DEF Close, StopHttp, ShutdownNow, StopTask, ClearTasks
    <3> QED
      BY <3>1, <3>2 DEF Next
  <2> QED
    BY <2>1 DEF ReturnValue, IInv, Values
<1> QED
  BY <1>1, Invariance, PTL DEF Spec, NoLateValue
==============================================================================
