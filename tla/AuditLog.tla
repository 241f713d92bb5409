------------------------------ MODULE AuditLog ------------------------------
(***************************************************************************)
(* The audit log: the bounded queue of auditLogger.ts in front of the      *)
(* rotating file of rotatingAuditFile.ts.                                  *)
(*                                                                         *)
(* write() and maintain() append to a queue that is worked off one         *)
(* operation after the other.  A sweep looks at every file and removes     *)
(* those whose first record has reached its age; a write sweeps, rotates   *)
(* the files if its record must not or does not fit the active one, and    *)
(* appends.  Every call into the file system is a step that may fail, and  *)
(* the process may crash between any two.  The clock may be set back.      *)
(*                                                                         *)
(* All records are of one size, and so are partial ones.  One that fails   *)
(* its checks, or meets a full queue, is counted as dropped and changes    *)
(* nothing here.  One process owns the files, and their number is the same *)
(* in every run of it.                                                     *)
(***************************************************************************)
EXTENDS Integers, Sequences, FiniteSets, FiniteSetsExt, SequencesExt

CONSTANTS
  Absent,
  MaxFiles, MaxFileBytes, MaxAge, MaxPending,  \* AuditRetention
  RecordBytes,                            \* a record's size; a partial one has 1
  MaxRecords, MaxTime                     \* where records and the clock stop (bounds)

\* What validateAuditRetention() accepts.
ASSUME AuditAssumption ==
  /\ {MaxFiles, MaxFileBytes, MaxAge, MaxPending} \subseteq Nat \ {0}
  /\ RecordBytes \in 2..MaxFileBytes
  /\ {MaxRecords, MaxTime} \subseteq Nat

VARIABLES
  disk,     \* the file in each slot; slot 0 is the active one
  queue,    \* the operations pending, the one in progress first
  op,       \* how far that one is
  now,      \* Date.now()
  next,     \* the number of the next record
  last,     \* history: the latest record that was completely stored
  latest    \* history: the latest time the clock has shown

vars == <<disk, queue, op, now, next, last, latest>>

Slot   == 0..MaxFiles - 1
Time   == 0..MaxTime
Record == [n : 1..MaxRecords, ts : Time]

\* A line of a file: a record, all of it or only its beginning.
Line   == [record : Record, whole : BOOLEAN]
\* mtime is read of empty files only, and is 0 of others here.
File   == [lines : Seq(Line), mtime : Time]
ASSUME AbsentAssumption == Absent \notin File

Sweep  == [sweep |-> TRUE]
Work   == {Sweep} \cup Record
Op     == [at : {"rest", "opening", "writing", "midway"}]
            \cup [at : {"sweeping"}, doomed : SUBSET Slot]
            \cup [at : {"rotating"}, slot : Slot]

TypeOK ==
  /\ disk   \in [Slot -> File \cup {Absent}]
  /\ queue  \in Seq(Work) /\ Len(queue) <= MaxPending
  /\ op     \in Op
  /\ now    \in Time
  /\ next   \in 1..MaxRecords + 1
  /\ last   \in 0..MaxRecords
  /\ latest \in Time
  /\ op.at # "rest" => queue # <<>>
  /\ op.at \notin {"rest", "sweeping"} => Head(queue) # Sweep

Rest == [at |-> "rest"]

Init ==
  /\ disk = [s \in Slot |-> Absent]
  /\ queue = <<>> /\ op = Rest
  /\ now = 0 /\ next = 1
  /\ last = 0 /\ latest = 0

-----------------------------------------------------------------------------
(* The queue.                                                               *)

\* write(): the record is stamped and joins the queue if there is room.
Write ==
  /\ next <= MaxRecords
  /\ Len(queue) < MaxPending
  /\ queue' = Append(queue, [n |-> next, ts |-> now])
  /\ next' = next + 1
  /\ UNCHANGED <<disk, op, now, last, latest>>

\* maintain(), by the timer or at startup: one sweep is pending at most.
Maintain ==
  /\ Sweep \notin Range(queue)
  /\ Len(queue) < MaxPending
  /\ queue' = Append(queue, Sweep)
  /\ UNCHANGED <<disk, op, now, next, last, latest>>

\* The operation in progress ends, and the next may begin.
End == queue' = Tail(queue) /\ op' = Rest

-----------------------------------------------------------------------------
(* The files.                                                               *)

Present == {s \in Slot : disk[s] # Absent}

Empty(f) == f.lines = <<>>

\* The records of which a file holds all.
Whole(f) ==
  FlattenSeq([i \in DOMAIN f.lines |-> IF f.lines[i].whole THEN <<f.lines[i].record>> ELSE <<>>])

Bytes(f) == RecordBytes * Len(Whole(f)) + Len(f.lines) - Len(Whole(f))

\* inspect() throws on a file that begins with an incomplete record.
Readable(f) == Empty(f) \/ Head(f.lines).whole

Oldest(f) == IF Empty(f) THEN f.mtime ELSE Head(f.lines).record.ts

Complete(f) == Empty(f) \/ Last(f.lines).whole

\* The files that have reached their age.
Aged == {s \in Present : now - Oldest(disk[s]) >= MaxAge}

\* Faulty: a file that cannot be read is waited for.
BeginRetrying ==
  /\ op = Rest /\ queue # <<>>
  /\ {s \in Present : ~Readable(disk[s])} = {}
  /\ op' = [at |-> "sweeping", doomed |-> Aged]
  /\ UNCHANGED <<disk, queue, now, next, last, latest>>

\* sweep(): every file is inspected before any is removed.  A file that cannot be
\* read ends the operation.
Begin ==
  /\ op = Rest /\ queue # <<>>
  /\ IF \A s \in Present : Readable(disk[s])
     THEN op' = [at |-> "sweeping", doomed |-> Aged] /\ UNCHANGED queue
     ELSE End
  /\ UNCHANGED <<disk, now, next, last, latest>>

Unlink ==
  /\ op.at = "sweeping" /\ op.doomed # {}
  /\ LET s == Min(op.doomed) IN
       /\ disk' = [disk EXCEPT ![s] = Absent]
       /\ op' = [op EXCEPT !.doomed = @ \ {s}]
  /\ UNCHANGED <<queue, now, next, last, latest>>

Swept == op.at = "sweeping" /\ op.doomed = {}

EndSweep ==
  /\ Swept /\ Head(queue) = Sweep
  /\ End
  /\ UNCHANGED <<disk, now, next, last, latest>>

\* Faulty: an incomplete last line is not looked for.
MustRotateIfFull(f, record) ==
  ~Empty(f) /\ (record.ts < Oldest(f) \/ Bytes(f) + RecordBytes > MaxFileBytes)

\* append(): a record goes into a file of its own after an incomplete line, if it is
\* older than the first one, or for want of room.
MustRotate(f, record) ==
  ~Empty(f) /\ (~Complete(f) \/ record.ts < Oldest(f) \/ Bytes(f) + RecordBytes > MaxFileBytes)

Prepare ==
  /\ Swept /\ Head(queue) # Sweep
  /\ op' = IF disk[0] # Absent /\ MustRotate(disk[0], Head(queue))
           THEN [at |-> "rotating", slot |-> MaxFiles - 1]
           ELSE [at |-> "opening"]
  /\ UNCHANGED <<disk, queue, now, next, last, latest>>

\* rotate(): the last slot is emptied, then each file moves up by one, the oldest first.
Moved(s) ==
  IF s = MaxFiles - 1 THEN [disk EXCEPT ![s] = Absent]
  ELSE IF disk[s] = Absent THEN disk
  ELSE [disk EXCEPT ![s + 1] = disk[s], ![s] = Absent]

Rotate ==
  /\ op.at = "rotating"
  /\ disk' = Moved(op.slot)
  /\ op' = IF op.slot = 0 THEN [at |-> "opening"] ELSE [op EXCEPT !.slot = @ - 1]
  /\ UNCHANGED <<queue, now, next, last, latest>>

\* The active file is opened, and created if it is not there.
Open ==
  /\ op.at = "opening"
  /\ disk' = IF disk[0] = Absent THEN [disk EXCEPT ![0] = [lines |-> <<>>, mtime |-> now]]
             ELSE disk
  /\ op' = [at |-> "writing"]
  /\ UNCHANGED <<queue, now, next, last, latest>>

\* The active file with the lines ls.
Active(ls) == [disk EXCEPT ![0] = [lines |-> ls, mtime |-> IF ls = <<>> THEN now ELSE 0]]

Put(whole) == Active(Append(disk[0].lines, [record |-> Head(queue), whole |-> whole]))

\* A write of less than all of the record.
WriteSome ==
  /\ op.at = "writing"
  /\ disk' = Put(FALSE)
  /\ op' = [at |-> "midway"]
  /\ UNCHANGED <<queue, now, next, last, latest>>

\* The record is complete.
WriteAll ==
  /\ op.at \in {"writing", "midway"}
  /\ disk' = IF op.at = "writing" THEN Put(TRUE)
             ELSE Active([disk[0].lines EXCEPT ![Len(disk[0].lines)].whole = TRUE])
  /\ last' = Head(queue).n
  /\ End
  /\ UNCHANGED <<now, next, latest>>

\* Faulty: the file is truncated to nothing.
RollbackToEmpty ==
  /\ op.at = "midway"
  /\ disk' = Active(<<>>)
  /\ End
  /\ UNCHANGED <<now, next, last, latest>>

\* The write fails and the file is truncated to what it was.
Rollback ==
  /\ op.at = "midway"
  /\ disk' = Active(Front(disk[0].lines))
  /\ End
  /\ UNCHANGED <<now, next, last, latest>>

\* A call into the file system fails, also the one that should truncate: the operation
\* is given up, its record dropped, and the files stay as they are.
Fail ==
  /\ op # Rest
  /\ End
  /\ UNCHANGED <<disk, now, next, last, latest>>

-----------------------------------------------------------------------------
(* The environment.                                                         *)

\* The process crashes and is started again.
Crash ==
  /\ queue' = <<>> /\ op' = Rest
  /\ UNCHANGED <<disk, now, next, last, latest>>

\* The clock advances, or is set back.
SetClock ==
  \E t \in {now - 1, now + 1} \cap Time :
    /\ now' = t
    /\ latest' = Max({latest, t})
    /\ UNCHANGED <<disk, queue, op, next, last>>

Step == Begin \/ Unlink \/ EndSweep \/ Prepare \/ Rotate \/ Open \/ WriteSome \/ WriteAll
          \/ Rollback \/ Fail

Next == Write \/ Maintain \/ Step \/ Crash \/ SetClock

\* Every call into the file system returns.
Fairness == WF_vars(Step)

Spec == Init /\ [][Next]_vars /\ Fairness
-----------------------------------------------------------------------------
(* Properties.                                                              *)

\* A partial record is the last line of its file for ever: whatever crashes, failed
\* writes and failed truncations left behind, no record is joined to it, and no file
\* grows past its limit.
SegmentsWhole ==
  \A s \in Present : LET ls == disk[s].lines IN
    /\ Bytes(disk[s]) <= MaxFileBytes
    /\ \A i \in DOMAIN ls : i < Len(ls) => ls[i].whole

Held(s) == IF disk[s] = Absent THEN <<>> ELSE Whole(disk[s])

\* The complete records of the files, from the last slot to the active one.
Trail == FlattenSeq([i \in 1..MaxFiles |-> Held(MaxFiles - i)])

AuditTrail == INSTANCE AuditTrail
  WITH trail <- Trail, PerFile <- MaxFileBytes \div RecordBytes

\* Through rotations, failures and crashes between any two steps of one, the files
\* hold what the trail promises.
TrailKept == AuditTrail!Spec

\* A tool call waits for its audit record: every record leaves the queue, stored or not.
WritesEnd ==
  \A n \in 1..MaxRecords :
    (\E i \in DOMAIN queue : queue[i] # Sweep /\ queue[i].n = n)
      ~> ~(\E i \in DOMAIN queue : queue[i] # Sweep /\ queue[i].n = n)
=============================================================================
