---------------------------- MODULE ContentReads ----------------------------
(***************************************************************************)
(* Reading document content (src/content/contentBridge.ts, snapshotCache.ts*)
(* and cursor.ts, called from src/mcp/tools.ts).                           *)
(*                                                                         *)
(* A call first proves which revision of the document is current.  It then *)
(* looks into a private cache of extracted texts; on a miss the adapter    *)
(* writes the content to a file in a shared directory, the gateway checks  *)
(* the identity of what it got, extracts the text, removes the file if the *)
(* file system lets it, and stores the text.  A truncated answer carries a *)
(* cursor, which a later call presents to go on in the same text.          *)
(*                                                                         *)
(* Whatever runs between two awaits is one step.  Documents are revised at *)
(* any time, and two loads of one revision may give different texts.  A    *)
(* Document is one a client may name: a document, or one with an explicit  *)
(* revision.  The hash of a text is the text: no two texts collide.        *)
(***************************************************************************)
EXTENDS Integers, Sequences, FiniteSets, FiniteSetsExt

CONSTANTS
  Client, Document,
  Call,                \* tool calls that may be in progress at once
  None,
  Version,             \* the texts that loads of one revision may give
  Size,                \* bytes of the text of a whole document and of some pages
  Length,              \* characters of the two
  MaxChars,            \* the most characters a call may ask for
  MaxEntries, MaxEntriesPerClient, MaxBytes,
  Ttl,                 \* lifetime of a cached text
  CursorTtl,           \* lifetime of a cursor
  MaxRevision,         \* where revisions stop (bound)
  MaxTime,             \* where the clock stops (bound)
  MaxSetBack           \* how far the clock may be set back at once (bound)

Variant == {"full", "pages"}

\* What the constructor of ContentSnapshotCache accepts.
ASSUME CacheAssumption ==
  /\ Size \in [Variant -> Nat \ {0}]
  /\ {MaxEntries, MaxEntriesPerClient, MaxBytes, Ttl, MaxRevision} \subseteq Nat \ {0}
  /\ MaxEntriesPerClient <= MaxEntries
  /\ Length \in [Variant -> Nat]
  /\ MaxChars \in Nat \ {0}
  /\ {CursorTtl, MaxTime, MaxSetBack} \subseteq Nat

VARIABLES
  now,        \* the clock
  revision,   \* upstream: the current revision of each document
  cache,      \* ContentSnapshotCache: entries, locatorIndex, totalBytes
  files,      \* whose content is in the shared directory: a call's, or of none any more
  calls,      \* the calls in progress
  cursor      \* a cursor each client keeps (any of those it was given)

vars == <<now, revision, cache, files, calls, cursor>>

Text    == [doc : Document, rev : 1..MaxRevision, variant : Variant, version : Version]
Locator == [client : Client, doc : Document, rev : 1..MaxRevision, variant : Variant]
Entry   == [client : Client, locator : Locator, text : Text,
            stored : Nat, expires : Nat, access : Nat]

\* A chunk is the characters of a text behind "from", up to "to".
Chunk   == [text : Text, from : Nat, to : Nat]

\* "chunks" is history: the chunks the client has received to come by the cursor.
Cursor  == [client : Client, doc : Document, rev : 1..MaxRevision, variant : Variant,
            text : Text, offset : Nat, expires : Nat, chunks : Seq(Chunk)]

ASSUME NoneAssumption == None \notin Text /\ None \notin Cursor /\ None \notin Call

\* loading: waiting for the adapter; extracting: the file has been accepted; answered:
\* an answer to a read is on its way, with its chunk and the cursor to more of the text.
Idle == [pc |-> "idle"]
Authority == [client : Client, doc : Document, rev : 1..MaxRevision, variant : Variant,
              kind : {"read", "info"}, cursor : Cursor \cup {None}]
CallRecord ==
  {Idle}
    \cup [pc : {"loading", "extracting"}, authority : Authority]
    \cup [pc : {"answered"}, authority : Authority, chunk : Chunk, next : Cursor \cup {None}]

TypeOK ==
  /\ now      \in Nat
  /\ revision \in [Document -> 1..MaxRevision]
  /\ cache    \in [entries : SUBSET Entry, index : [Locator -> Text \cup {None}], bytes : Nat]
  /\ files    \subseteq Call \cup {None}
  /\ calls    \in [Call -> CallRecord]
  /\ cursor   \in [Client -> Cursor \cup {None}]

EmptyCache == [entries |-> {}, index |-> [l \in Locator |-> None], bytes |-> 0]

Init ==
  /\ now      = 0
  /\ revision = [d \in Document |-> 1]
  /\ cache    = EmptyCache
  /\ files    = {}
  /\ calls    = [k \in Call |-> Idle]
  /\ cursor   = [c \in Client |-> None]

-----------------------------------------------------------------------------
(* The cache.                                                               *)

Bytes(text) == Size[text.variant]

\* Faulty: the revision is not part of the key.
KeyUnrevised(a) == [client |-> a.client, doc |-> a.doc, rev |-> 1, variant |-> a.variant]

\* locatorKey(): what a text is stored under.
Key(a) == [client |-> a.client, doc |-> a.doc, rev |-> a.rev, variant |-> a.variant]

BytesIn(S) == MapThenSumSet(LAMBDA e : Bytes(e.text), S)

\* remove() of some entries.
Without(c, gone) ==
  [entries |-> c.entries \ gone,
   index   |-> [l \in Locator |->
                 IF \E e \in gone : e.locator = l /\ e.text = c.index[l] THEN None ELSE c.index[l]],
   bytes   |-> c.bytes - BytesIn(gone)]

\* Faulty: an entry is good for the whole second in which it expires.
PrunedAfter(c) == Without(c, {e \in c.entries : e.expires < now})

\* pruneExpired()
Pruned(c) == Without(c, {e \in c.entries : e.expires <= now})

\* V may go before the rest of S: its entries were used longest ago.  Among entries last
\* used at the same instant, any may be the first.
Oldest(S, V) == \A v \in V, e \in S \ V : v.access <= e.access

\* Faulty: only the number of entries makes room.
FitsCount(c, size) == Cardinality(c.entries) < MaxEntries

Fits(c, size) == Cardinality(c.entries) < MaxEntries /\ c.bytes + size <= MaxBytes

\* makeRoom() first takes the client's own entries, down to one less than its limit, ...
OwnVictims(c, client) ==
  LET own == {e \in c.entries : e.client = client} IN
  {V \in SUBSET own :
     /\ Oldest(own, V)
     /\ Cardinality(own \ V) = Min({Cardinality(own), MaxEntriesPerClient - 1})}

\* ... then anybody's, until there is room.
Victims(c, size) ==
  {V \in SUBSET c.entries :
     /\ Oldest(c.entries, V)
     /\ Fits(Without(c, V), size)
     /\ V # {} => \E last \in V : /\ Oldest(V, V \ {last})
                                  /\ ~Fits(Without(c, V \ {last}), size)}

Stored(client, key, text) ==
  [client |-> client, locator |-> key, text |-> text,
   stored |-> now, expires |-> now + Ttl, access |-> now]

\* put(), which leaves the cache d: a text too large is not stored, another text under the
\* same key is replaced, the same text lives on, and a new one finds room.
Put(c, client, key, text, d) ==
  LET c0  == Pruned(c)
      c1  == Without(c0, {e \in c0.entries : e.locator = key /\ e.text # text})
      new == Stored(client, key, text)
  IN IF Bytes(text) > MaxBytes THEN d = c0
     ELSE IF c1.index[key] = text
     THEN d = [c1 EXCEPT !.entries = {IF e.locator = key THEN new ELSE e : e \in @}]
     ELSE \E V \in OwnVictims(c1, client) : \E W \in Victims(Without(c1, V), Bytes(text)) :
            LET c2 == Without(Without(c1, V), W) IN
            d = [entries |-> c2.entries \cup {new},
                 index   |-> [c2.index EXCEPT ![key] = text],
                 bytes   |-> c2.bytes + Bytes(text)]

\* get() marks the entry as used.
Touched(c, key) ==
  [c EXCEPT !.entries = {IF e.locator = key THEN [e EXCEPT !.access = now] ELSE e : e \in @}]

-----------------------------------------------------------------------------
(* The calls.                                                               *)

Become(k, r) == calls' = [calls EXCEPT ![k] = r]

\* The call ends with an error, or with a content-info answer.
Leave(k) == Become(k, Idle)

Characters(text) == Length[text.variant]

\* Faulty: the revision is taken to determine the text.
ContinuesRevision(a, text) == a.cursor # None => a.cursor.rev = text.rev

\* sliceSnapshot(): a cursor goes on only in the text it was cut from.
Continues(a, text) ==
  a.cursor # None => a.cursor.text = text /\ a.cursor.offset <= Characters(text)

\* The chunks a client has with the next one, along its cursors.
Received(a, chunk) == Append(IF a.cursor = None THEN <<>> ELSE a.cursor.chunks, chunk)

\* create(): a cursor to what is left, if anything is.
NextCursor(a, chunk) ==
  IF chunk.to < Characters(chunk.text)
  THEN [client |-> a.client, doc |-> a.doc, rev |-> a.rev, variant |-> a.variant,
        text |-> chunk.text, offset |-> chunk.to, expires |-> now + CursorTtl,
        chunks |-> Received(a, chunk)]
  ELSE None

\* sliceSnapshot(): as many characters as the call asked for, if there are as many.
Answer(k, a, text) ==
  LET from == IF a.cursor = None THEN 0 ELSE a.cursor.offset IN
  IF a.kind = "read" /\ Continues(a, text)
  THEN \E to \in {Min({Characters(text), from + n}) : n \in 1..MaxChars} :
         LET chunk == [text |-> text, from |-> from, to |-> to] IN
         Become(k, [pc |-> "answered", authority |-> a, chunk |-> chunk,
                    next |-> NextCursor(a, chunk)])
  ELSE Leave(k)

\* parse() and validateCursorIdentity(): the cursor is alive and bound to exactly the
\* authority that has just been proved.
CursorServes(cur, a) ==
  /\ cur.expires >= now
  /\ Key(cur) = Key(a)

\* The proof of the current revision has come back: everything up to the next await.
Begin(k, a) ==
  LET c == Pruned(cache)
      t == c.index[Key(a)]
  IN
  /\ calls[k] = Idle
  /\ a.cursor # None => CursorServes(a.cursor, a)
  /\ IF t # None
     THEN /\ cache' = Touched(c, Key(a))
          /\ Answer(k, a, t)
     ELSE /\ cache' = c
          /\ Become(k, [pc |-> "loading", authority |-> a])
  /\ UNCHANGED <<now, revision, files, cursor>>

\* readCachedOrLoad(): a first read of a variant, or with a cursor, which names it.  The
\* revision that was proved may have been replaced while the proof was on its way.
Read(k, client, doc) ==
  \E cur \in {None, cursor[client]}, variant \in Variant, rev \in 1..revision[doc] :
    /\ cur # None => variant = cur.variant
    /\ Begin(k, [client |-> client, doc |-> doc, rev |-> rev,
                 variant |-> variant, kind |-> "read", cursor |-> cur])

\* infoCachedOrLoad(): always the whole document.
Info(k, client, doc) ==
  \E rev \in 1..revision[doc] :
    Begin(k, [client |-> client, doc |-> doc, rev |-> rev,
              variant |-> "full", kind |-> "info", cursor |-> None])

\* The adapter materializes the content.
Materialize(k) ==
  /\ calls[k].pc = "loading"
  /\ k \notin files
  /\ files' = files \cup {k}
  /\ UNCHANGED <<now, revision, cache, calls, cursor>>

\* Faulty: content of the wrong identity is refused but not discarded.
RefuseKeeping(k) ==
  /\ calls[k].pc = "loading"
  /\ k \in files
  /\ Leave(k)
  /\ UNCHANGED <<now, revision, cache, files, cursor>>

\* discard(), and how extractSnapshot() ends: the file is removed.  If its path cannot be
\* resolved any more, or unlink() fails, it stays, and nobody tries again.
Discard(k) == files' \in {files \ {k}, (files \ {k}) \cup {None}}

\* loadContent() refuses and discards what is not the proven revision and label; or
\* infoCachedOrLoad() discards what no extractor takes and, unless the path is refused,
\* answers without it.
Refuse(k) ==
  /\ calls[k].pc = "loading"
  /\ k \in files
  /\ Discard(k)
  /\ Leave(k)
  /\ UNCHANGED <<now, revision, cache, cursor>>

\* It is accepted, and the extractor runs.
Accept(k) ==
  /\ calls[k].pc = "loading"
  /\ k \in files
  /\ Become(k, [calls[k] EXCEPT !.pc = "extracting"])
  /\ UNCHANGED <<now, revision, cache, files, cursor>>

\* The adapter reports an error, or its answer does not come, in time or at all.  What it
\* has written by then nobody will remove.
LoadFails(k) ==
  /\ calls[k].pc = "loading"
  /\ Leave(k)
  /\ files' = IF k \in files THEN (files \ {k}) \cup {None} ELSE files
  /\ UNCHANGED <<now, revision, cache, cursor>>

\* The path of the file is refused, before anything is read or removed; or
\* extractSnapshot() fails after it has discarded the file, and content-info answers all
\* the same.
ExtractFails(k) ==
  /\ calls[k].pc = "extracting"
  /\ Discard(k)
  /\ Leave(k)
  /\ UNCHANGED <<now, revision, cache, cursor>>

\* It succeeds: the file is discarded, the text stored whether or not that has worked, and
\* answered unless the cursor was cut from another text.
Extract(k, version) ==
  LET a == calls[k].authority
      t == [doc |-> a.doc, rev |-> a.rev, variant |-> a.variant, version |-> version]
  IN
  /\ calls[k].pc = "extracting"
  /\ Discard(k)
  /\ Put(cache, a.client, Key(a), t, cache')
  /\ Answer(k, a, t)
  /\ UNCHANGED <<now, revision, cursor>>

\* The client has the answer; if there is more text it may keep the new cursor.
Receive(k) ==
  /\ calls[k].pc = "answered"
  /\ Leave(k)
  /\ \/ UNCHANGED cursor
     \/ /\ calls[k].next # None
        /\ cursor' = [cursor EXCEPT ![calls[k].authority.client] = calls[k].next]
  /\ UNCHANGED <<now, revision, cache, files>>

Revise(d) ==
  /\ revision[d] < MaxRevision
  /\ revision' = [revision EXCEPT ![d] = @ + 1]
  /\ UNCHANGED <<now, cache, files, calls, cursor>>

\* The wall clock goes on, or is set back.
Tick ==
  /\ now' \in {t \in 0..MaxTime : t # now /\ t \in now - MaxSetBack .. now + 1}
  /\ UNCHANGED <<revision, cache, files, calls, cursor>>

Next ==
  \/ \E k \in Call, c \in Client, d \in Document : Read(k, c, d) \/ Info(k, c, d)
  \/ \E k \in Call :
       \/ Materialize(k) \/ Refuse(k) \/ Accept(k) \/ LoadFails(k)
       \/ ExtractFails(k) \/ Receive(k)
       \/ \E version \in Version : Extract(k, version)
  \/ \E d \in Document : Revise(d)
  \/ Tick

Spec == Init /\ [][Next]_vars
-----------------------------------------------------------------------------
(* Properties.                                                              *)

\* The limits hold, for each client and in total, and the index, the entries and the
\* running total of bytes agree, however replacements, expiries and evictions follow
\* one another.
CacheLimits ==
  /\ Cardinality(cache.entries) <= MaxEntries
  /\ \A c \in Client :
       Cardinality({e \in cache.entries : e.client = c}) <= MaxEntriesPerClient
  /\ cache.bytes <= MaxBytes
  /\ cache.bytes = BytesIn(cache.entries)
  /\ \A e, f \in cache.entries : e.locator = f.locator => e = f
  /\ \A l \in Locator :
       cache.index[l] # None <=> \E e \in cache.entries : e.locator = l /\ e.text = cache.index[l]

\* Whoever loaded a text and whenever, an answer is cut from the document and revision
\* that were proved for this call, and from the pages it asked for.
ServedIsProven ==
  \A k \in Call : calls[k].pc = "answered" =>
    LET a == calls[k].authority
        t == calls[k].chunk.text
    IN [doc |-> a.doc, rev |-> a.rev, variant |-> a.variant]
         = [doc |-> t.doc, rev |-> t.rev, variant |-> t.variant]

\* The chunks a client receives along a chain of cursors, put together, are a beginning of
\* one text without a gap or an overlap, and all of it when the last answer has no cursor.
\* If the cached text expired, was evicted or replaced between two chunks and the document
\* now gives another text, the chain breaks off instead of going on in it.
ChunksAddUp ==
  \A k \in Call : calls[k].pc = "answered" =>
    LET chain == Received(calls[k].authority, calls[k].chunk)
        text  == calls[k].chunk.text
    IN
    /\ \A i \in 1..Len(chain) :
         /\ chain[i].text = text
         /\ chain[i].from = IF i = 1 THEN 0 ELSE chain[i - 1].to
    /\ calls[k].next = None <=> calls[k].chunk.to = Characters(text)

\* An answer from the cache comes from a text this same client's call has stored less
\* than a lifetime ago: reading a text does not keep it, and nobody sees another
\* client's entry.
HitIsOwnAndFresh ==
  [][\A k \in Call :
       calls[k] = Idle /\ calls'[k].pc = "answered" =>
         \E e \in cache.entries :
           /\ e.client = calls'[k].authority.client
           /\ e.text = calls'[k].chunk.text
           /\ now < e.stored + Ttl]_vars

\* However a call ends, refused, failed or answered: it has tried to remove the file it
\* was told of.  A file stays in the shared directory behind its call (as of no call any
\* more) only if the gateway was not told of it, its path did not resolve, or unlink()
\* failed.
FilesRemoved == files \subseteq {None} \cup {k \in Call : calls[k].pc \in {"loading", "extracting"}}

\* docs/adr/0005 says of the cache that content is deleted on expiry.  Granting that an
\* expired text may wait for some clean-up to come round: it is not kept as long again
\* as it was good for.
DeletedOnExpiry == \A e \in cache.entries : now < e.expires + Ttl
=============================================================================
