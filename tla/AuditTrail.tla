----------------------------- MODULE AuditTrail -----------------------------
(***************************************************************************)
(* What the rotating audit file promises (docs/audit-retention.md),        *)
(* without files, rotation or crashes.                                     *)
(*                                                                         *)
(* The trail is the sequence of complete records that can be read back,    *)
(* oldest first.  It grows at its end only and each record enters it at    *)
(* most once: records are never replayed, reordered or altered.  History   *)
(* is given up for room from the front, and for its age together with what *)
(* was stored in the same file; at most one file's worth at a time.        *)
(***************************************************************************)
EXTENDS Integers, Sequences

CONSTANTS
  MaxFiles,              \* files, the active one included
  PerFile,               \* records that fit one file
  MaxAge,                \* maxAgeSeconds
  MaxRecords, MaxTime    \* where records and the clock stop (bounds)

VARIABLES
  trail,    \* the complete records, in the order they were stored
  last,     \* the number of the latest record that was ever stored
  latest    \* the latest time the clock has shown

vars == <<trail, last, latest>>

Init ==
  /\ trail  = <<>>
  /\ last   = 0
  /\ latest = 0

Store ==
  /\ last' \in last + 1 .. MaxRecords
  /\ \E ts \in 0..latest : trail' = Append(trail, [n |-> last', ts |-> ts])
  /\ UNCHANGED latest

\* The records from place i to place j go, one file's worth at most.
Cut(i, j) ==
  /\ i <= j /\ j < i + PerFile
  /\ trail' = SubSeq(trail, 1, i - 1) \o SubSeq(trail, j + 1, Len(trail))

\* Unless there is but one file, the latest records stay.
MakeRoom ==
  /\ UNCHANGED <<last, latest>>
  /\ \E j \in DOMAIN trail : (MaxFiles > 1 => j < Len(trail)) /\ Cut(1, j)

Expire ==
  /\ UNCHANGED <<last, latest>>
  /\ \E i, j \in DOMAIN trail : trail[i].ts + MaxAge <= latest /\ Cut(i, j)

Clock ==
  /\ latest' \in latest + 1 .. MaxTime
  /\ UNCHANGED <<trail, last>>

Next == Store \/ MakeRoom \/ Expire \/ Clock

Spec == Init /\ [][Next]_vars
-----------------------------------------------------------------------------
(* What follows from it.                                                    *)

\* The records stand in the order in which they were made, each of them once, and none is
\* newer than the last that was stored.
InOrder ==
  /\ \A i, j \in DOMAIN trail : i < j => trail[i].n < trail[j].n
  /\ \A i \in DOMAIN trail : trail[i].n <= last

\* docs/audit-retention.md:75: "Records are never replayed."  What enters the trail is newer
\* than everything that ever was in it; so a record that has left does not come back.
NeverReplayed ==
  [][\A j \in DOMAIN trail' :
       (\E i \in DOMAIN trail : trail[i] = trail'[j]) \/ trail'[j].n > last]_vars
=============================================================================
