---------------------------- MODULE OpaqueHandles ----------------------------
(***************************************************************************)
(* Opaque references (src/mcp/opaqueHandles.ts) and the search tools that  *)
(* issue and use them (src/mcp/tools.ts).                                  *)
(*                                                                         *)
(* A search answers with one batch of handles: a result handle per         *)
(* document, a search handle that replays the search, and a continuation   *)
(* handle when there is another page.  The handles are records in a        *)
(* bounded store that evicts, per owner, the least recently used.          *)
(* continue_search and replay_search resolve a handle, wait for the        *)
(* adapter and then issue a batch of their own; in between other calls     *)
(* run, time passes and the handle they resolved may be gone.              *)
(*                                                                         *)
(* Resolving and issuing are synchronous: one step each.  Time is whole    *)
(* seconds, which is exact: handles expire on whole seconds.  References   *)
(* are unforgeable; one that is not in the store is refused and changes    *)
(* nothing.  The store is kept per owner, least recently used first, since *)
(* eviction compares only the handles of one owner; a handle is named by   *)
(* its place there, since its locator is random and means nothing.         *)
(***************************************************************************)
EXTENDS Integers, Sequences, FiniteSets, FiniteSetsExt, SequencesExt

CONSTANTS
  Client,              \* the profiles that may search ("eligible" profiles)
  Call,                \* tool calls that may be in progress at once
  None,
  Capacity, CapacityPerProfile,
  MaxResults,          \* searchMaxLimit
  Ttl,                 \* handle lifetime in seconds
  PagingTtl,           \* lifetime of a paging snapshot in seconds
  MaxTime              \* where the clock stops (a bound)

\* What loadOpaqueRefConfig accepts.
ASSUME HandleAssumption ==
  /\ IsFiniteSet(Client)
  /\ {Capacity, CapacityPerProfile, MaxResults, Ttl, PagingTtl} \subseteq Nat \ {0}
  /\ MaxTime \in Nat
  /\ None \notin Nat
  /\ CapacityPerProfile >= MaxResults + 2
  /\ Cardinality(Client) * CapacityPerProfile <= Capacity

VARIABLES
  now,      \* the clock
  store,    \* InMemoryHandleStore: each owner's handles, least recently used first
  calls     \* the search tool calls in progress

vars == <<now, store, calls>>

Kind == {"search", "continuation", "result"}

\* list: the expiry of the page list a continuation names (pageAuthority.expiresAt).
Handle == [kind : Kind, expires : Nat, list : Nat \cup {None}]

\* listing: a replay waiting for the ids; fetching: waiting for the objects of the first
\* page; continuing: waiting for those of a later page.  bound is the lineage of the
\* results and of the search handle, list that of the continuation.
Idle == [pc |-> "idle"]

CallRecord ==
  {Idle}
    \cup [pc : {"listing"}, client : Client]
    \cup [pc : {"fetching"}, client : Client, bound : Nat \cup {None}, list : Nat \cup {None}]
    \cup [pc : {"continuing"}, client : Client, expires : Nat, list : Nat]

TypeOK ==
  /\ now   \in Nat
  /\ store \in [Client -> Seq(Handle)]
  /\ calls \in [Call -> CallRecord]

Init ==
  /\ now   = 0
  /\ store = [c \in Client |-> <<>>]
  /\ calls = [k \in Call |-> Idle]

-----------------------------------------------------------------------------
(* The store.                                                               *)

Handles(c) == ToSet(store[c])

\* prune(): the handles of s that live past t.
Kept(s, t) ==
  LET kept[n \in 0..Len(s)] ==
        IF n = 0 THEN <<>>
        ELSE IF s[n].expires > t THEN Append(kept[n - 1], s[n]) ELSE kept[n - 1]
  IN kept[Len(s)]

Unexpired(c) == Kept(store[c], now)
Pruned       == [c \in Client |-> Unexpired(c)]
Size         == MapThenSumSet(LAMBDA c : Len(Pruned[c]), Client)

\* Faulty: a global overflow alone decides.
EvictionsGlobal(c, n) == Max({0, Size + n - Capacity})

\* How many handles of owner c make room for n more.
Evictions(c, n) ==
  Max({0, Len(Unexpired(c)) + n - CapacityPerProfile, Size + n - Capacity})

HasRoom(c, n) == Evictions(c, n) <= Len(Unexpired(c))

\* putMany(): expired handles go, then the least recently used of the owner.
Put(c, batch) ==
  [Pruned EXCEPT ![c] =
     SubSeq(@, Evictions(c, Len(batch)) + 1, Len(@)) \o batch]

\* get() moves a handle to the end of the order.
Touched(c, i) == [store EXCEPT ![c] = Append(RemoveAt(@, i), @[i])]

-----------------------------------------------------------------------------
(* Issuing.                                                                 *)

\* prepareIssue(): the expiry of a handle whose lineage ends at bound.
Expires(bound) == IF bound = None THEN now + Ttl ELSE Min({now + Ttl, bound})

\* issueSearchAuthoritySet(): handles for n results and the search, with lineage
\* bound, and for the next page of the list, with lineage nextBound.
Batch(n, bound, list, nextBound) ==
  LET size == n + IF list = None THEN 1 ELSE 2
      kind(i) == IF i <= n THEN "result" ELSE IF i = n + 1 THEN "search" ELSE "continuation"
  IN [i \in 1..size |->
        [kind    |-> kind(i),
         expires |-> Expires(IF i = n + 2 THEN nextBound ELSE bound),
         list    |-> IF i = n + 2 THEN list ELSE None]]

\* issueMany(): the whole batch or, when a lineage is over or there is no room, none.
IssueMany(c, n, bound, list, nextBound) ==
  LET batch == Batch(n, bound, list, nextBound) IN
  /\ \A i \in DOMAIN batch : batch[i].expires > now
  /\ HasRoom(c, Len(batch))
  /\ store' = Put(c, batch)

\* resolveInternal(): the i-th handle of c may be used as this kind.
Serves(c, i, kind) == store[c][i].kind = kind /\ store[c][i].expires > now

Become(k, r) == calls' = [calls EXCEPT ![k] = r]

-----------------------------------------------------------------------------
(* The tools.                                                               *)

\* The ids are there; a list longer than a page is a paging snapshot.  Under contract
\* opaque_refs_v1 the results and the search handle do not share its lineage.
Fetch(k, c, contract, list) ==
  /\ Become(k, [pc |-> "fetching", client |-> c, list |-> list,
                bound |-> IF contract = "opaque_refs_v1" THEN None ELSE list])
  /\ UNCHANGED <<now, store>>

\* search_documents: a new list, or by cursor a further page of an earlier one.  It
\* holds nothing while it waits for ids, so that it begins here with the ids.
Search(k, c) ==
  /\ calls[k] = Idle
  /\ \/ \E contract \in {"opaque_refs_v1", "opaque_refs_v2"}, list \in {None, now + PagingTtl} :
          Fetch(k, c, contract, list)
     \/ \E list \in (now + 1)..(now + PagingTtl) : Fetch(k, c, "opaque_refs_v1", list)

\* replay_search resolves a search handle and waits for the ids.
Replay(k, c, i) ==
  /\ calls[k] = Idle
  /\ Serves(c, i, "search")
  /\ store' = Touched(c, i)
  /\ Become(k, [pc |-> "listing", client |-> c])
  /\ UNCHANGED now

\* Under either contract its answer shares the lineage of the list.
ListIds(k) ==
  /\ calls[k].pc = "listing"
  /\ \E list \in {None, now + PagingTtl} :
       Fetch(k, calls[k].client, "opaque_refs_v2", list)

\* Faulty: the batch is issued although its list ran out during the wait.
AnswerStale(k, n) ==
  LET r == calls[k] IN
  /\ r.pc = "fetching"
  /\ IssueMany(r.client, n, None, r.list, None)
  /\ Become(k, Idle)
  /\ UNCHANGED now

\* The objects are there: continuationAuthority() finds the snapshot alive, and the
\* batch is issued.
Answer(k, n) ==
  LET r == calls[k] IN
  /\ r.pc = "fetching"
  /\ IssueMany(r.client, n, r.bound, r.list, r.list)
  /\ Become(k, Idle)
  /\ UNCHANGED now

\* continue_search resolves a continuation handle and the page it names, and waits
\* for its objects with the record it resolved.
Continue(k, c, i) ==
  /\ calls[k] = Idle
  /\ Serves(c, i, "continuation")
  /\ store' = Touched(c, i)
  /\ Become(k, [pc |-> "continuing", client |-> c, 
                  expires |-> store[c][i].expires, list |-> store[c][i].list])
  /\ UNCHANGED now

\* Faulty: the lineage of the page list alone.
AnswerContinuedByList(k, n) ==
  LET r == calls[k] IN
  /\ r.pc = "continuing"
  /\ \E list \in {None, r.list} : IssueMany(r.client, n, r.list, list, r.list)
  /\ Become(k, Idle)
  /\ UNCHANGED now

\* The handles of a further page inherit the lineage of the handle continued and of
\* its page list.  The last page has no continuation.
AnswerContinued(k, n) ==
  LET r     == calls[k]
      bound == Min({r.expires, r.list})
  IN
  /\ r.pc = "continuing"
  /\ \E list \in {None, r.list} : IssueMany(r.client, n, bound, list, bound)
  /\ Become(k, Idle)
  /\ UNCHANGED now

\* The tools that take a result handle resolve it first; they issue nothing.
UseResult(c, i) ==
  /\ Serves(c, i, "result")
  /\ store' = Touched(c, i)
  /\ UNCHANGED <<now, calls>>

\* Another client presents a handle: the record is looked up before its policy
\* fingerprint is compared, so the handle counts as used.
RefuseForeign(c, i) ==
  /\ store[c][i].expires > now
  /\ Cardinality(Client) > 1
  /\ store' = Touched(c, i)
  /\ UNCHANGED <<now, calls>>

\* The adapter fails, the list or the lineage is over, or the batch is refused.
Fail(k) ==
  /\ calls[k] # Idle
  /\ Become(k, Idle)
  /\ store' \in {store, Pruned}
  /\ UNCHANGED now

Tick ==
  /\ now < MaxTime
  /\ now' = now + 1
  /\ UNCHANGED <<store, calls>>

\* A restart forgets every handle.
Restart ==
  /\ store' = [c \in Client |-> <<>>]
  /\ calls' = [k \in Call |-> Idle]
  /\ UNCHANGED now

Next ==
  \/ \E k \in Call, c \in Client :
       \/ Search(k, c)
       \/ \E i \in DOMAIN store[c] : Replay(k, c, i) \/ Continue(k, c, i)
  \/ \E k \in Call : ListIds(k) \/ Fail(k)
  \/ \E k \in Call, n \in 0..MaxResults : Answer(k, n) \/ AnswerContinued(k, n)
  \/ \E c \in Client : \E i \in DOMAIN store[c] : UseResult(c, i) \/ RefuseForeign(c, i)
  \/ Tick \/ Restart

Spec == Init /\ [][Next]_vars
-----------------------------------------------------------------------------
(* Properties.                                                              *)

\* "Each share must fit one maximum initial authority set": whatever the others
\* hold, no client's search is ever refused for lack of room, although nobody's
\* handles but its own are evicted for it.
ShareReserved == \A c \in Client : HasRoom(c, MaxResults + 2)

Count(s, h) == Cardinality({i \in DOMAIN s : s[i] = h})

\* Going from page to page never buys time: whatever a further page issues expires
\* no later than the handle that was presented for it, even when that handle has been
\* evicted, or has been used twice, while the adapter was fetching the page.
DerivedNeverOutlives ==
  [][\A k \in Call, n \in 0..MaxResults : AnswerContinued(k, n) =>
       LET c == calls[k].client IN
       \A h \in ToSet(store'[c]) :
         Count(store'[c], h) > Count(store[c], h) => h.expires <= calls[k].expires]_vars

\* A continuation handle never outlives the page list it names.
ContinuationBacked ==
  \A c \in Client : \A h \in Handles(c) : h.kind = "continuation" => h.expires <= h.list
==============================================================================
