----------------------------- MODULE PagingStore -----------------------------
(***************************************************************************)
(* The bounded in-memory store behind page cursors (src/mcp/paging.ts).    *)
(*                                                                         *)
(* create() keeps the ordered id list of a search, folder or hard          *)
(* reference result and returns its first page with a signed cursor;       *)
(* next() returns the page at a cursor.  For searches answered with opaque *)
(* references, continuationAuthority() copies the list at a cursor into a  *)
(* second, "retained" pool under an authority that stays on the server,    *)
(* and resolveContinuationAuthority() reads pages there without consuming  *)
(* them.  Both pools share four limits and one eviction order.             *)
(*                                                                         *)
(* Every operation is synchronous JavaScript, so it is one step at one     *)
(* instant of the clock.  An id list is its length: a page is the set of   *)
(* positions it shows.  The HMAC keeps clients to the cursors they were    *)
(* given.  An operation that throws has only pruned: that is Prune.        *)
(***************************************************************************)
EXTENDS Integers, FiniteSets, FiniteSetsExt

CONSTANTS
  Client,                 \* client profiles
  SnapshotId,             \* random UUIDs; each is drawn once (a bound)
  Listing,                \* what can be listed: [scope, kind, target]
  Absent,                 \* no snapshot under this id
  ListLengths,            \* lengths of the id lists given to create()
  PageSizes,              \* page sizes asked for
  MaxIdsPerSnapshot, MaxSnapshots, MaxSnapshotsPerClient,
  MaxTotalIds, MaxTotalIdsPerClient,
  Ttl,                    \* ttlSeconds * 1000, in clock ticks
  TicksPerSecond,         \* cursors carry whole seconds
  MaxTime                 \* where the clock stops (a bound)

ASSUME PagingAssumption ==
  /\ IsFiniteSet(SnapshotId)
  /\ ListLengths \subseteq Nat
  /\ PageSizes \subseteq Nat \ {0}
  /\ {MaxIdsPerSnapshot, MaxSnapshots, MaxSnapshotsPerClient, MaxTotalIds,
      MaxTotalIdsPerClient, Ttl, TicksPerSecond} \subseteq Nat \ {0}
  /\ MaxTime \in Nat
  /\ MaxSnapshotsPerClient <= MaxSnapshots
  /\ MaxIdsPerSnapshot <= MaxTotalIdsPerClient
  /\ MaxTotalIdsPerClient <= MaxTotalIds

VARIABLES
  now,          \* Date.now()
  entries,      \* "snapshots" and "retainedSearchSnapshots", told apart by pool
  totalIds,     \* the counters totalIds and retainedSearchTotalIds
  cursors,      \* cursors handed to clients
  authorities,  \* continuation authorities kept with result handles
  delivered     \* history: the positions of each snapshot that have been shown

vars == <<now, entries, totalIds, cursors, authorities, delivered>>

Pool == {"normal", "retained"}

Snapshot ==
  [pool : Pool, client : Client, listing : Listing, refs : BOOLEAN, size : Nat,
   pageSize : Nat, createdAt : Nat, expiresAt : Nat, lastAccessAt : Nat]

ASSUME AbsentAssumption == Absent \notin Snapshot

Cursor ==
  [snapshot : SnapshotId, client : Client, listing : Listing, offset : Nat,
   pageSize : Nat, expires : Nat]

Authority == [id : SnapshotId, offset : Nat, expires : Nat]

TypeOK ==
  /\ now         \in Nat
  /\ entries     \in [SnapshotId -> Snapshot \cup {Absent}]
  /\ totalIds    \in [Pool -> Nat]
  /\ cursors     \subseteq Cursor
  /\ authorities \subseteq Authority
  /\ delivered   \in [SnapshotId -> SUBSET Nat]

EmptyStore ==
  /\ entries     = [s \in SnapshotId |-> Absent]
  /\ totalIds    = [q \in Pool |-> 0]

Init ==
  /\ now = 0
  /\ EmptyStore
  /\ cursors     = {}
  /\ authorities = {}
  /\ delivered   = [s \in SnapshotId |-> {}]

-----------------------------------------------------------------------------
(* The entries and the counters.                                            *)

Present  == {s \in SnapshotId : entries[s] # Absent}
\* Faulty: an entry is kept for the instant it expires at.
ExpiredAfter == {s \in Present : entries[s].expiresAt < now}
Expired  == {s \in Present : entries[s].expiresAt <= now}
Live     == Present \ Expired
\* Faulty: eviction looks at the lists of every client.
OfAnyone(c) == Live
Of(c)    == {s \in Live : entries[s].client = c}
InPool(q, S) == {s \in S : entries[s].pool = q}

IdsIn(S) == MapThenSumSet(LAMBDA s : entries[s].size, S)

\* A UUID nothing refers to.
Unused ==
  {s \in SnapshotId : /\ s \notin Present
                      /\ \A k \in cursors : k.snapshot # s
                      /\ \A a \in authorities : a.id # s}

\* remove() and removeRetainedSearch() of the entries R.
Without(R) == [s \in SnapshotId |-> IF s \in R THEN Absent ELSE entries[s]]
CountWithout(R) == [q \in Pool |-> totalIds[q] - IdsIn(InPool(q, R))]

-----------------------------------------------------------------------------
(* makeCombinedRoom(): only entries of the same client are ever victims, the *)
(* least recently used first, no more of them than needed, and none at all   *)
(* if that would not be enough.                                             *)

\* Faulty: the retained pool is not counted.
FitsNormal(c, n, V) ==
  /\ Cardinality(Live \ V) + 1 <= MaxSnapshots
  /\ Cardinality(Of(c) \ V) + 1 <= MaxSnapshotsPerClient
  /\ totalIds["normal"] - IdsIn(InPool("normal", Expired \cup V)) + n <= MaxTotalIds
  /\ IdsIn(InPool("normal", Of(c) \ V)) + n <= MaxTotalIdsPerClient

Fits(c, n, V) ==
  /\ Cardinality(Live \ V) + 1 <= MaxSnapshots
  /\ Cardinality(Of(c) \ V) + 1 <= MaxSnapshotsPerClient
  /\ totalIds["normal"] + totalIds["retained"] - IdsIn(Expired \cup V) + n <= MaxTotalIds
  /\ IdsIn(Of(c) \ V) + n <= MaxTotalIdsPerClient

\* The order of eviction, up to the order of the random ids.
Before(s, t) ==
  LET a == entries[s]
      b == entries[t]
  IN \/ a.lastAccessAt < b.lastAccessAt
     \/ /\ a.lastAccessAt = b.lastAccessAt
        /\ \/ a.createdAt < b.createdAt
           \/ a.createdAt = b.createdAt /\ a.pool = "normal" /\ b.pool = "retained"

\* The sets of victims that make room for n ids of client c and spare "protected".
Victims(c, n, protected) ==
  LET eligible == Of(c) \ protected IN
  {V \in SUBSET eligible :
     /\ Fits(c, n, V)
     /\ \A v \in V, w \in eligible \ V : ~Before(w, v)
     /\ V # {} => \E last \in V : /\ ~Fits(c, n, V \ {last})
                                  /\ \A v \in V : ~Before(last, v)}

-----------------------------------------------------------------------------
(* The operations.                                                          *)

PageEnd(s, offset) ==
  IF offset + entries[s].pageSize < entries[s].size
  THEN offset + entries[s].pageSize ELSE entries[s].size

\* create(): a list that does not fit one page is cut to the id limit and kept.
Create(c, l, refs, n, z) ==
  LET size == IF n <= MaxIdsPerSnapshot THEN n ELSE MaxIdsPerSnapshot IN
  /\ z <= MaxIdsPerSnapshot
  /\ z < size
  /\ refs => l.kind = "search"
  /\ \E s \in Unused, V \in Victims(c, size, {}) :
       /\ entries' = [Without(Expired \cup V) EXCEPT ![s] =
            [pool |-> "normal", client |-> c, listing |-> l, refs |-> refs, size |-> size,
             pageSize |-> z, createdAt |-> now, expiresAt |-> now + Ttl,
             lastAccessAt |-> now]]
       /\ totalIds' = [CountWithout(Expired \cup V) EXCEPT !["normal"] = @ + size]
       /\ cursors' = cursors \cup
            {[snapshot |-> s, client |-> c, listing |-> l, offset |-> z, pageSize |-> z,
              expires |-> (now + Ttl) \div TicksPerSecond]}
       /\ delivered' = [delivered EXCEPT ![s] = 1..z]
  /\ UNCHANGED <<now, authorities>>

\* What next() and continuationAuthority() require of a cursor and its snapshot.
CursorHolds(k, c, scope, kind) ==
  LET s == k.snapshot IN
  /\ k.expires >= now \div TicksPerSecond
  /\ k.client = c /\ k.listing.scope = scope /\ k.listing.kind = kind
  /\ s \in Live
  /\ entries[s].pool = "normal"
  /\ entries[s].client = c
  /\ entries[s].listing.scope = scope /\ entries[s].listing.kind = kind
  /\ k.pageSize = entries[s].pageSize
  /\ k.offset < entries[s].size

\* next(): client c asks for the page at cursor k of listing l.  The last page
\* removes the snapshot.
NextPage(c, l, k) ==
  LET s   == k.snapshot
      end == PageEnd(s, k.offset)
  IN
  /\ CursorHolds(k, c, l.scope, l.kind)
  /\ l.kind = "hard_reference" => entries[s].listing.target = l.target
  /\ IF end < entries[s].size
     THEN /\ entries'  = [Without(Expired) EXCEPT ![s].lastAccessAt = now]
          /\ totalIds' = CountWithout(Expired)
          /\ cursors'  = cursors \cup {[k EXCEPT !.offset = end]}
     ELSE /\ entries'  = Without(Expired \cup {s})
          /\ totalIds' = CountWithout(Expired \cup {s})
          /\ UNCHANGED cursors
  /\ delivered' = [delivered EXCEPT ![s] = @ \cup ((k.offset + 1)..end)]
  /\ UNCHANGED <<now, authorities>>

\* continuationAuthority(): the list behind cursor k is copied to the retained pool,
\* where it keeps the expiry it had; its source is not a victim.
ContinuationAuthority(c, scope, k) ==
  LET s == k.snapshot IN
  /\ CursorHolds(k, c, scope, "search")
  /\ entries[s].refs
  /\ \E a \in Unused, V \in Victims(c, entries[s].size, {s}) :
       /\ entries' = [Without(Expired \cup V) EXCEPT ![a] =
            [entries[s] EXCEPT !.pool = "retained", !.lastAccessAt = now]]
       /\ totalIds' = [CountWithout(Expired \cup V) EXCEPT !["retained"] =
            @ + entries[s].size]
       /\ authorities' = authorities \cup
            {[id |-> a, offset |-> k.offset,
              expires |-> entries[s].expiresAt \div TicksPerSecond]}
       /\ delivered' = [delivered EXCEPT ![a] = {i \in delivered[s] : i <= k.offset}]
  /\ UNCHANGED <<now, cursors>>

\* Faulty: the authority of the following page skips one.
ResolveSkipping(c, scope, a) ==
  LET s   == a.id
      end == PageEnd(s, a.offset)
  IN
  /\ s \in Live
  /\ entries[s].pool = "retained"
  /\ entries[s].client = c
  /\ entries[s].listing.scope = scope /\ entries[s].listing.kind = "search"
  /\ entries[s].expiresAt \div TicksPerSecond = a.expires
  /\ a.offset < entries[s].size
  /\ entries'  = [Without(Expired) EXCEPT ![s].lastAccessAt = now]
  /\ totalIds' = CountWithout(Expired)
  /\ authorities' = authorities \cup {[a EXCEPT !.offset = PageEnd(s, end)]}
  /\ delivered' = [delivered EXCEPT ![s] = @ \cup ((a.offset + 1)..end)]
  /\ UNCHANGED <<now, cursors>>

\* resolveContinuationAuthority(): the page at an authority, which stays usable.
ResolveContinuation(c, scope, a) ==
  LET s   == a.id
      end == PageEnd(s, a.offset)
  IN
  /\ s \in Live
  /\ entries[s].pool = "retained"
  /\ entries[s].client = c
  /\ entries[s].listing.scope = scope /\ entries[s].listing.kind = "search"
  /\ entries[s].expiresAt \div TicksPerSecond = a.expires
  /\ a.offset < entries[s].size
  /\ entries'  = [Without(Expired) EXCEPT ![s].lastAccessAt = now]
  /\ totalIds' = CountWithout(Expired)
  /\ authorities' =
       IF end < entries[s].size THEN authorities \cup {[a EXCEPT !.offset = end]}
                                ELSE authorities
  /\ delivered' = [delivered EXCEPT ![s] = @ \cup ((a.offset + 1)..end)]
  /\ UNCHANGED <<now, cursors>>

\* pruneExpired(), and every operation that throws after it: a refused cursor or
\* authority, or a list for which there is no room.
Prune ==
  /\ Expired # {}
  /\ entries'  = Without(Expired)
  /\ totalIds' = CountWithout(Expired)
  /\ UNCHANGED <<now, cursors, authorities, delivered>>

Tick ==
  /\ now < MaxTime
  /\ now' = now + 1
  /\ UNCHANGED <<entries, totalIds, cursors, authorities, delivered>>

\* The process restarts, or clear(): the store is empty and cursors are still signed.
Restart ==
  /\ entries'  = [s \in SnapshotId |-> Absent]
  /\ totalIds' = [q \in Pool |-> 0]
  /\ UNCHANGED <<now, cursors, authorities, delivered>>

Next ==
  \/ \E c \in Client, l \in Listing, refs \in BOOLEAN, n \in ListLengths, z \in PageSizes :
       Create(c, l, refs, n, z)
  \/ \E c \in Client, l \in Listing, k \in cursors : NextPage(c, l, k)
  \/ \E c \in Client, l \in Listing, k \in cursors : ContinuationAuthority(c, l.scope, k)
  \/ \E c \in Client, l \in Listing, a \in authorities : ResolveContinuation(c, l.scope, a)
  \/ Prune \/ Tick \/ Restart

Spec == Init /\ [][Next]_vars

-----------------------------------------------------------------------------
(* Properties.                                                              *)

\* The counters, changed by increments on eight paths, agree with the lists that are
\* there, and the two pools together stay within the global and per-client limits.
LimitsHold ==
  /\ \A q \in Pool : totalIds[q] = IdsIn(InPool(q, Present))
  /\ Cardinality(Present) <= MaxSnapshots
  /\ IdsIn(Present) <= MaxTotalIds
  /\ \A c \in Client :
       LET mine == {s \in Present : entries[s].client = c} IN
       /\ Cardinality(mine) <= MaxSnapshotsPerClient
       /\ IdsIn(mine) <= MaxTotalIdsPerClient

\* A list is read without gaps, in whatever order cursors and authorities are used,
\* reused and retained: whoever holds a cursor or an authority has been shown
\* everything before it.
NoGap ==
  /\ \A k \in cursors : 1..k.offset \subseteq delivered[k.snapshot]
  /\ \A a \in authorities : 1..a.offset \subseteq delivered[a.id]

\* No page is shown Ttl after its list was made: neither paging on nor retaining a
\* list, nor retaining it again, renews it.
ExpiryHolds ==
  [][\A s \in Present :
       delivered'[s] # delivered[s] => now < entries[s].createdAt + Ttl]_vars

\* A list that has not expired disappears only because its last page was shown, the
\* process restarted, or the same client stored another list.
OnlyOwnerDisplaces ==
  [][\A s \in Live :
       entries'[s] = Absent =>
         \/ entries[s].size \in delivered'[s]
         \/ \A t \in SnapshotId : entries'[t] = Absent
         \/ \E t \in SnapshotId \ Present :
              entries'[t] # Absent /\ entries'[t].client = entries[s].client]_vars

==============================================================================
