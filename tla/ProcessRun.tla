----------------------------- MODULE ProcessRun -----------------------------
(***************************************************************************)
(* One child process of an extractor (runProcess in src/util/process.ts).  *)
(*                                                                         *)
(* Its output arrives in chunks; timer, output, "error" and "close" are    *)
(* events of the event loop, in any order the operating system allows.     *)
(***************************************************************************)
EXTENDS Naturals

CONSTANTS
  MaxStdout,  \* options.maxStdoutBytes
  MaxWritten  \* bound: what a process writes at most

VARIABLES
  truncate,   \* options.truncateStdout
  spawned,    \* FALSE: the command could not be started
  alive,      \* the process runs
  code,       \* its exit code, 137 standing for a kill
  written,    \* bytes it has written
  read,       \* bytes of them that "data" events have delivered
  kept,       \* bytes in stdout
  stdoutSize, stdoutTruncated,
  timer,      \* the timer is set
  killed,     \* a kill has been issued
  closed,     \* "close" has happened
  promise,    \* "pending", "resolved", "rejected"
  result      \* [kept, code, whole] of a resolved promise

vars == <<truncate, spawned, alive, code, written, read, kept, stdoutSize, stdoutTruncated, timer,
          killed, closed, promise, result>>

Init ==
  /\ truncate \in BOOLEAN /\ spawned \in BOOLEAN /\ alive = spawned /\ code = 0
  /\ written = 0 /\ read = 0 /\ kept = 0 /\ stdoutSize = 0 /\ stdoutTruncated = FALSE
  /\ timer = TRUE /\ killed = FALSE /\ closed = FALSE
  /\ promise = "pending" /\ result = [kept |-> 0, code |-> 0, whole |-> FALSE]

\* The process: it writes, and exits with success or failure, or is killed.
Write ==
  /\ alive /\ written < MaxWritten
  /\ written' = written + 1
  /\ UNCHANGED <<truncate, spawned, alive, code, read, kept, stdoutSize, stdoutTruncated, timer,
                 killed, closed, promise, result>>

Exit ==
  /\ alive /\ alive' = FALSE /\ code' \in {0, 1, 137}
  /\ UNCHANGED <<truncate, spawned, written, read, kept, stdoutSize, stdoutTruncated, timer,
                 killed, closed, promise, result>>

\* A kill ends a process that still runs.
KillStops == alive' = FALSE /\ code' = IF alive THEN 137 ELSE code

Reject == promise' = IF promise = "pending" THEN "rejected" ELSE promise

Timeout ==
  /\ timer /\ timer' = FALSE
  /\ killed' = TRUE /\ KillStops /\ Reject
  /\ UNCHANGED <<truncate, spawned, written, read, kept, stdoutSize, stdoutTruncated, closed, result>>

\* Without truncation, output beyond the limit is an error.
TooMuch ==
  /\ stdoutSize' = stdoutSize + (written - read)
  /\ killed' = TRUE /\ KillStops
  /\ timer' = (timer /\ promise # "pending") /\ Reject
  /\ UNCHANGED <<kept, stdoutTruncated>>

\* Faulty: the chunk that crosses the limit is kept whole.
TruncateAfter ==
  /\ kept' = kept + (written - read) /\ stdoutSize' = kept' /\ stdoutTruncated' = TRUE
  /\ killed' = TRUE /\ KillStops
  /\ UNCHANGED <<timer, promise>>

\* With it, the chunk is cut to what is left.
Truncate ==
  /\ kept' = MaxStdout /\ stdoutSize' = MaxStdout /\ stdoutTruncated' = TRUE
  /\ killed' = TRUE /\ KillStops
  /\ UNCHANGED <<timer, promise>>

\* "data": whatever has been written since the last chunk.
Data ==
  /\ read < written /\ ~closed
  /\ read' = written
  /\ IF stdoutTruncated THEN UNCHANGED <<alive, code, kept, stdoutSize, stdoutTruncated, timer, killed, promise>>
     ELSE IF stdoutSize + (written - read) > MaxStdout THEN (IF truncate THEN Truncate ELSE TooMuch)
     ELSE /\ kept' = kept + (written - read) /\ stdoutSize' = stdoutSize + (written - read)
          /\ UNCHANGED <<alive, code, stdoutTruncated, timer, killed, promise>>
  /\ UNCHANGED <<truncate, spawned, written, closed, result>>

\* "error": the command could not be started.
SpawnError ==
  /\ ~spawned /\ timer
  /\ timer' = FALSE /\ Reject
  /\ UNCHANGED <<truncate, spawned, alive, code, written, read, kept, stdoutSize, stdoutTruncated,
                 killed, closed, result>>

\* "close": the process has ended and its output is read to the end.
Close ==
  /\ spawned /\ ~alive /\ read = written /\ ~closed
  /\ closed' = TRUE /\ timer' = FALSE
  /\ IF promise # "pending" THEN UNCHANGED <<promise, result>>
     ELSE IF code # 0 /\ ~stdoutTruncated THEN promise' = "rejected" /\ UNCHANGED result
     ELSE /\ promise' = "resolved"
          /\ result' = [kept |-> kept, code |-> code, whole |-> ~stdoutTruncated]
  /\ UNCHANGED <<truncate, spawned, alive, code, written, read, kept, stdoutSize, stdoutTruncated, killed>>

Next == Write \/ Exit \/ Timeout \/ Data \/ SpawnError \/ Close

Spec == Init /\ [][Next]_vars

-----------------------------------------------------------------------------
(* Properties. *)

\* The result is all of the output of a process that succeeded, or exactly its beginning if it was cut.
ResultTrue ==
  IF result.whole THEN result.code = 0 /\ result.kept = written
  ELSE truncate /\ result.kept = MaxStdout /\ written > MaxStdout

\* process.ts:23: whichever of timer, output, error and close comes first settles the promise.  A
\* result is then never a part of the output that the caller takes for the whole; and a process whose
\* caller has gone on is dead or never started.
SettledTruly ==
  /\ promise = "resolved" => ResultTrue
  /\ promise # "pending" => ~alive
=============================================================================
