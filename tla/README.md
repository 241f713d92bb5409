# Formal verification of arcsuite-mcp

TLA+ models of the stateful parts of arcsuite-mcp, TLC configurations that check
them on small instances, and TLAPS proofs for every instance. The program is a
read-only MCP gateway in TypeScript (`src/src`) and a private SOAP adapter in Java
(`src/adapter-java`) that talks to a document repository called ArcSuite. Paths
below are relative to the repository, which is `src/`.

## 1. The system

```
MCP client --HTTP--> protocol.ts --> tools.ts --> opaqueHandles.ts, paging.ts (state in memory)
                     auth.ts            |    \--> contentBridge.ts --> snapshotCache.ts
                                        |              ^ shared directory
                 soapAdapterClient.ts <-+              |
                        | HTTP (loopback or private network)
                        v                              |
                 InternalServer --> AdapterService --> ArcSuiteSoapClient --SOAP--> ArcSuite
                                        |                   |
                                  SessionManager      BoundedHttpResponse --> BoundedParser
```

The gateway is one Node process: code between two awaits runs undisturbed, and calls
interleave at awaits. The adapter is multi-threaded: a bounded pool of request
handlers, a bounded pool of parser workers, a monitor, and semaphores.

| Part | State | Operations | What is hard | What makes it correct |
|---|---|---|---|---|
| Adapter response parser (`BoundedParser.java`) | permits, executor queue and workers, map of tasks, a future per call | `parse`, `close` | deadline against publication, an operation that ignores its interruption, shutdown against registration | no permit lost or doubled; an admitted call is accepted; no late value; nobody waits for ever |
| Adapter session manager (`SessionManager.java`) | map profile to session, a semaphore per session | `get`, `read` with one retry, `forceLogin`, `logout`, `close` | a monitor held over network calls, stale sessions found by several readers, sessions ended upstream, replacement while in use | a bound on reads per session; sessions never cross profiles; one retry, on another session; no deadlock |
| Paging store (`paging.ts`) | two pools of id lists with four running totals | `create`, `next`, `continuationAuthority`, `resolveContinuationAuthority`, `clear` | eviction across pools and clients, cursors reused in any order | limits; no gap; one reader; expiry is never extended |
| Opaque handle store and service (`opaqueHandles.ts`) with the search tools (`tools.ts`) | handle records per owner with LRU order; calls that wait for the adapter | search, continue, replay, issue a batch, resolve, prune | a handle is read before an await and used after it; clients share a capacity | every client's share is reserved; batches are whole; lifetimes never grow along a chain |
| Content bridge, cache and cursors (`contentBridge.ts`, `snapshotCache.ts`, `cursor.ts`) | cache entries with an index and a byte count; files in a shared directory; signed cursors | read, content-info, load, extract, discard | two loads of one document at once, a document revised meanwhile, expiry between chunks, failure after the file was written | answers are of the proven revision; chunks add up to one text; limits; removal of the file is tried on every path |
| Audit log (`auditLogger.ts`, `rotatingAuditFile.ts`, `retention.ts`) | queue of pending records, active file and numbered segments | `record`, rotation, maintenance, open after a crash | a crash between two renames, a partial last record, a full queue | records are kept in order, given up oldest first or by age, never joined to a partial one; the queue is bounded and drains |
| Tool dispatch (`tools.ts`) | none between calls; within one, what its reads have shown | about twenty tools: single reads by id or reference, listings with discovery, batches, content, relationships, integrity | the repository changes between two reads of one call; batches with partial failures; errors after the audit outcome was set | an answer holds only what this call proved; every id is told once; the audit record tells the outcome |
| Startup validation (`server.ts`, `scopeRegistry.ts`) | the attempt in flight, a retry timer, readiness, schemas | `validate`, retry, stop | several callers, timer against shutdown, schemas dropped during an attempt | one validation at a time; ready implies schemas; a healthy adapter makes the gateway ready |
| HTTP endpoint (`protocol.ts`, `http.ts`) | none between requests | refuse, probe, read the body, hand to the SDK | a body that is too long or breaks, a handler that fails after it began to answer | one status line, always |
| Rate limiter (`auth.ts`) | a token bucket per profile | `allow` | the wall clock may be set | never more than burst and rate |
| Child processes (`process.ts`) | one settlement per process | run, output limit, truncation, timeout | four events race | a result is what the process wrote; none is left running |
| Adapter response body (`BoundedHttpResponse.java`) | bytes so far, subscription, the exchange | subscriber callbacks, `send` | deadline against the last byte, subscription after the caller gave up | what is returned is whole; what is given up holds nothing |
| Adapter HTTP server (`InternalServer.java`) | threads, queue, permits | `dispatch`, `close` | handlers that hang, error paths | permits come back; health is answered beside hanging requests |
| Text normalisation (`contentBridge.ts`) | one pass over an input | `normalizeExtractedText` | a limit met in the middle of a line end or of blanks that go again | the defined text, or a beginning of it that is announced |
| Multipart responses (`MtomParser.java`) | one pass over a body | `split` | markers and line ends inside payloads, responses that break off | parts byte for byte, or nothing |
| Configuration, scopes, attributes, schemas, redaction, extractors, XML, JSON, crypto | none, or fixed at startup | pure functions | - | - |

`PROJECT.json` lists the same parts with their status, and under `hazards` the places
in the code where something is hard to test, with the property that watches it.

## 2. Modules and the code they model

### BoundedParser (`BoundedParser.java`, `RequestDeadline.java`, `AdapterLimits.java`)

A `Task` is one invocation of `parse()` with its `FutureTask`, its `CompletableFuture`
and its runnable. `call` is where the caller is, `run` where the runnable is, `fut`
and `result` are the two futures, `permits` is the semaphore, `tasks` the concurrent
map, and `stop`/`toStop` follow `close()` through `shutdownNow`, the iteration over
the map and `clear`. The statements between two interactions with other threads are one
action: `Admit` (31-40), `Register` (41-43), `Execute`/`Reject` (44-55, 60),
`ReturnValue`/`Abandon` (56-76); on the worker `Start`, `Finish` (the inner `finally`
that returns the permit) and `Publish`, which comes later, since that gap is what makes
the executor's queue necessary. `Expire` lets the deadline pass at any moment. The
parsing operation is a step that may never come.

### AdapterSessions (`SessionManager.java`, `AdapterService.java`, `Main.java`)

A `Thread` is a request handler. The synchronized methods are cut where they call
ArcSuite, so a login or logout takes place under the `monitor`; waiting for the
semaphore and the business call run outside it. Age is abstracted to "too old or not". It is
measured by the wall clock, so that a session that was too old is young again after the clock
was set back (`SetBack`). If a renewal had logged that session out and then failed to log in,
it is still in the map, and `get` hands it out: the read is told that its session expired,
removes it and tries again with another. `setBack` is the history variable that sets this
case apart, and `NeverHandsOutEnded` says that it is the only one. ArcSuite may end a session or refuse a login at any time. The shutdown hook runs
concurrently.

### PagingStore (`paging.ts`)

`create`, `next`, `continuationAuthority` and `resolveContinuationAuthority` are one
action each: they are synchronous. An id list is its length and a page is a set of
positions, which is enough to see gaps. `totalIds` keeps the running totals as the code
does, increment by increment, so that `LimitsHold` can compare them with the lists.
`delivered` is a history variable: what was shown, to whom and for which listing. A
cursor carries whole seconds, hence `TicksPerSecond`. The HMAC is abstracted: clients
present only cursors that were given out, to anyone, at any time.

### OpaqueHandles (`opaqueHandles.ts`, and the search tools of `tools.ts`)

Each owner's handles are a sequence, least recently used first, which is what `putMany`
compares. A call to search, continue or replay is cut at its waits for the adapter:
`Search`/`Continue`/`Replay` resolve and go, `ListIds` makes the page list after the
first wait, and `Answer`/`AnswerContinued` issue the batch after the last. The page list
behind a continuation is here only its expiry; the list itself is PagingStore's. Pruning
walks the sequence as the code walks its map; it is a recursive function (`Kept`), so that
proofs may speak of it.

### ContentReads (`contentBridge.ts`, `snapshotCache.ts`, `cursor.ts`, and their callers)

A call is cut at the waits for the proof of the revision, the adapter and the extractor.
`cache` is the class with its set of entries, its index of locators and its byte count;
`Put`, `Without` and `Pruned` follow `put()`, `remove()` and `pruneExpired()`, and
`OwnVictims` and `Victims` are what `makeRoom()` evicts for its limits on a client's
entries and on all. It sorts by the time of the last access; which of two entries of the
same millisecond goes first is left open, for the insertion order that decides it in the
code is not worth a variable. `files` is the shared directory. `Version` lets two
loads of one revision give different texts (an extractor that changed, content replaced
in place), which is the case cursors must notice. A text is its number of characters and a
chunk the place where it begins and ends; a cursor carries, as a history, the chunks that
its client has received on the way to it, so that `ChunksAddUp` can speak of all of them
together. A document stands for a scope, a document id, an
explicit revision if there is one, and a content label, all of which are compared
together.

A file is removed by `discard()` or at the end of `extractSnapshot()`. Either may fail: the
path is resolved and checked again first (`contentBridge.ts:97`, `:114`, `:186`), an error of
`unlink` is ignored (`:115`, `:218`), and so is any of `discard()` when a load is refused
(`tools.ts:1553`). The call ends or goes on as if the file were gone, and no one tries
again: `Discard` leaves both outcomes open in every action that removes a file. When an
adapter's answer is lost after the file was written, nobody knows the file's name
(`LoadFails`). What stays in either way is in `files` as the file of no call (`None`).
`FilesRemoved` says what the code does ensure, that no path of a call forgets its file;
`docs/threat-model.md:19` leaves failed removals to the operator. The
wall clock may be set back here too; a cached text or a cursor then lives longer by as much.

### AuditLog and AuditTrail (`auditLogger.ts`, `rotatingAuditFile.ts`, `retention.ts`)

`queue` holds the pending writes and sweeps with the one in progress first, which is what
`pending` counts; `op` is how far it has come. A file is a sequence of lines, each the
whole of a record or its beginning. Inspecting the files is one step, since nothing else
touches them; every `unlink`, `rename`, `open` and `write` is a step of its own, after
which the operation may fail (`Fail`), roll back its write (`Rollback`) or vanish with the
process (`Crash`). The wall clock goes forth and back.

AuditTrail is the abstract specification: one sequence of complete records, extended at
its end, cut at its front for room, and cut by a file's worth for age. AuditLog implements
it with `trail` mapped to the concatenation of the files from the last slot to the active
one, so that the renames of a rotation are invisible and no crash between two of them
shows (`Trail` is the concatenation of what is `Held` in each slot). `last` and `latest`
are history variables for the mapping.

The model also shows what the code does not promise: a rotation that stopped half way and
is run again removes one more generation although a slot is free (`MakeRoom` is taken
with fewer files than slots). The documentation accepts gaps and early loss of history.

### ToolCalls (`tools.ts`, with `errors.ts` and the checks of `attributeMapper.ts`)

One call at a time, from its arguments to its answer: two calls share only the stores
that other modules model, so that interleaving them would show nothing. What matters is
between the reads of one call. Every upstream read is an action of its own that picks an
answer: a failure with one of the codes an adapter error is mapped to (`ReadFails`), an
object with a class, a place in or out of the root and a match with the search, under the
id that was asked for or another one; a batch delivers any set and reports any set as
failed. Nothing ties two answers together, which is the repository changing in between.
The check behind a read is an operator named for it (`VerifyScope`, `FolderTarget`,
`HardTarget`, `IntegrityTarget`, `ByReference`, `Member`, `Revision`, `ValidBatch`), and
`stage` is what the call waits for:

| Tools | Stages |
|---|---|
| documents, revisions, integrity, content by id | `get`, `scope`, `integrity_target`, `member`, `revision`, `load`, ... (`ReadOne`, `Content`, `Integrity`, `Revisions`) |
| the same by reference | `by_ref` first: the handle's object in the handle's class |
| search, replay, folders | `list`, `classify`, `singles`, `prove` (discovery), a page, `hydrate`, `paths`, `issue` |
| continuations and cursors | `page`, then as above |
| batches of documents | `hydrate`, `paths` |
| hard references | `hard_target`, `candidates` or `page`, `relationships` |

A batch of objects is hydrated, and its paths are read, with one choice for all of them of
what the code chooses for each object: the objects of a batch share nothing, and one that
gets another choice is one of another batch. An identity is compared as a whole; the two
forms of a revision's id that `revisionMetadataIdentityMatches` accepts are one id here.

`seen` is a history variable of everything the reads of this call have shown; the
properties compare the answer with it. `Throw` is the `catch` and `Audit` the `finally`
of `call()`. Three details the model brought up and follows: a search that is refused as
not available before any read is still audited as `provider_failure`; one whose handles
cannot be issued because of an argument keeps the outcome `matches` (`AuditTells` excepts
it); and a paging list that has expired is reported as an upstream error, since its
message has no `CURSOR` in it, while a bad cursor is an invalid argument.

### Validation (`server.ts`, `scopeRegistry.ts`)

`phase` is what an attempt waits for: the adapter's health or the schema of one of the
scopes in `left`. `Boot` is the attempt that `buildRuntime` awaits, `TimerFires` the
retry, `CallValidate` anyone else who holds the runtime. The adapter fails and recovers
at any time (`Adapter`).

### RateLimiter (`auth.ts`)

A token is `Cost` units of which one comes back per tick, so that the code's fractions
are whole numbers. The wall clock runs (`Tick`) and is set to any value (`SetClock`); a
bucket may then hold a negative number of tokens until the clock has caught up, which
refuses the client for longer than the `retry-after` of the answer says. `window` is a
history variable: the requests admitted since an access that may be any of them.

### HttpRequests (`protocol.ts`, `http.ts`)

The server callback up to its first await is one action (`Receive`), with every refusal
as `Answer`. The body arrives in chunks, ends, or breaks; the handler is the SDK's, which
begins, ends or throws. `heads` counts status lines.

### ProcessRun (`process.ts`)

The process writes, exits and is killed; `Data`, `Timeout`, `SpawnError` and `Close` are
the four event handlers. Output is counted, not stored.

### ResponseBody (`BoundedHttpResponse.java`)

The caller (`Send`, `Get`, `Return`, `GiveUp`) against the threads of the HTTP client
(`Headers`, `OnSubscribe`, `OnNext`, `OnComplete`, `Breaks`), with a deadline that may
pass anywhere. The body's methods are synchronized, hence one action each.

### AdapterRequests (`InternalServer.java`)

The executor with its threads and queue, and `dispatch` from `Start` to `Finally`.
Business handlers may hang; health requests take no permit.

### ExtractedText (`contentBridge.ts`)

The state is an input that grows by one character of each kind the code tells apart
(letters, blanks, other white space, CR, LF, control characters). `Normalize` is the loop
with `started`, the output and the break at the limit; `Expected` says of each character
whether it is to be kept, looking at what stands around it, without a pass. The two are
compared on every input up to the bound, and proved to agree on every input.

### MtomParts (`MtomParser.java`)

The state is a response as ArcSuite may write it: payloads of CR, LF, the marker, dashes
and other bytes, something or nothing before the first and after the last delimiter,
closed or broken off. `Split` follows the cursor of the code over the body with
`BoundaryAt` and the header check. A result is a set with the parts in it, or an empty
one where the code throws. Names and values of headers are one symbol, so that the choice
of the root part by its type is left out. The split is compared with what was written on
every response up to the bound, and proved exact for every response.

### What composes what

AdapterSessions, BoundedParser and AdapterRequests share the adapter's shutdown order
(HTTP server, sessions, parser), each with its own part of it. OpaqueHandles abstracts
PagingStore to an expiry; ToolCalls abstracts both, and ContentReads, to what they may
answer. Components puts the eight components that share nothing into one behaviour: `focus`
names the one that moves while the others stay in one of their initial states, so that the
states of a run are the sum of theirs and each property speaks of the component in focus.
Since a component's steps leave the variables of the others alone, what is proved of
Components is proved of each of them. MCOpaqueHandles runs two instances of its module in
the same way.

## 3. The runs

| Run | Instance | Distinct states | Shows |
|---|---|---|---|
| BoundedParser | 3 invocations, 2 workers | 273,721 | permits, admission, shutdown, no late value; every caller returns; capacity returns |
| AdapterSessions | 2 threads, 2 profiles, 4 session ids, concurrency 1 | 721,827 | permits per session, no ended session handed out (unless the clock was set back), retry on another session, every request ends |
| ProfileConcurrency | 2 threads, 1 profile, 3 session ids | violation | see section 5 |
| PagingStore | 2 clients, 3 list ids, lengths 3 and 5 (cut to 4), pages of 1 and 2; the limits on a list, on lists and on ids, in all and per client, bind | 448,886 | limits, no gap, expiry, only the owner displaces |
| OpaqueHandles | "shares": 2 clients whose shares exactly fill the store, 2 calls; "lineage": 1 client, 2 calls, 4 seconds, a list outlives a handle | 727,047 | reserved shares, continuations that end with their list, lifetimes along chains of pages |
| ContentReads | 1 client, 2 calls, 2 versions, 2 revisions; documents of three chunks and pages of one, which do not fit the cache together; cursors outlive texts, clock 0 to 2 | 1,702,264 | proven revision, chunks along chains of cursors, files |
| ContentCache | 3 clients, 2 calls, 2 versions; entries, entries per client and bytes all bind; clock 0 to 2 both ways | 448,056 | cache limits and bookkeeping, private and fresh hits |
| ContentExpiry | 1 client, 1 call | violation | see section 5 |
| AuditLog | 3 files of two records and a partial one, 4 records, 2 pending operations, clock 0 to 2 both ways | 76,826 | whole segments, refinement of AuditTrail, every write ends |
| ToolCalls | 3 ids in the cabinet and one outside, batches and pages of 2; all tools | 383,540 | proven answers, nothing lost, discovery, audit records |
| HiddenSlots | the same | violation | see section 5 |
| Components | 2 scopes; burst 2; bodies up to 4 units with limits of 2; 3 business requests and a probe on 2 threads, a queue of 1 and 1 permit; texts up to 5 characters with limits 2 and 5; responses of up to 2 parts with 4 symbols in them | 102,920 | one validation, readiness and its schemas; rate; one status; process results; whole bodies; permits, probes; normalised text; exact parts |

Why the bounds suffice. Three invocations on two workers let one caller be admitted on a
permit whose former worker still runs its tail, with a third waiting. Two threads are
the fewest that can compete for a session, a monitor and a permit; four session ids let
both be replaced twice. In the stores each limit is small enough that a second or third
element must displace one, and each is the binding one in some state; a list of three
ids has a first, a middle and a last page. Three ids with batches and pages of two give a
full batch and a rest, a page with and without another one, and one id of each fate
(delivered, failed, moved) at once. In every run that speaks of lifetimes the clock runs
at least to the end of the longest, so that what was made first expires. Three chunks
have a first, a middle and a last one, between any two of which the text may expire, be
evicted, be replaced by another version or be revised. `MaxSetBack` bounds how far the clock
of the content cache goes back at once; repeating it reaches further. `MaxTime`,
`MaxRevision`, `MaxRecords`, `MaxWritten`, `Sent`, the sets of session and snapshot ids bound only how long a behaviour goes on.
Five characters hold a line end of two with blanks before it between two letters; four symbols
hold a line end, a marker and what follows it, in one part or across two.
Once they are used up the remaining actions still run, so that nothing is hidden at the
edge but further repetition. Symmetry is used where clients, calls or random ids are
interchangeable, and only in runs without liveness properties.

Deadlock is checked in all runs whose system never stops. It is off for BoundedParser
(after `close()` nothing is left to do once queued work was dropped), for AdapterSessions
(the hook may have run and session ids be used up), for PagingStore (ids and clock
used up) and for Components (a process or a response is over once it is settled).

Each property is paired in `PROJECT.json` with a mutant: a definition changed as a
plausible bug would change it (operators commented "Faulty" in the modules), under which
TLC finds the property violated.

## 4. Fairness

* BoundedParser: weak fairness of each caller thread inside `parse()` and of the passing
  of its deadline (the timed `get` returns). None for workers: an operation need not
  end. Only `CapacityReturns` has weak fairness of the workers as its premise.
* AdapterSessions: strong fairness of each thread. Upstream calls have a deadline
  (`RequestDeadline`), the semaphore is created fair (`SessionManager.java:54`), and the
  one assumption beyond the code is that a thread waiting for a Java monitor is not
  passed over for ever. The environment (requests, ageing, upstream endings, shutdown)
  is not fair.
* AuditLog: weak fairness of the operation in progress, of which failing is one step:
  every call into the file system returns. The documentation grants that a stalled file
  system has no deadline; `WritesEnd` says what holds otherwise, that queueing, failures
  and unreadable files do not keep the tool calls waiting which await their records.
* Validation: weak fairness of the first attempt, of the adapter's answers (the client
  has a timeout, and a timeout is an answer) and of the retry timer. `BecomesReady`
  supposes that the adapter stays healthy from some time on.
* AdapterRequests: weak fairness of the executor and of each thread inside `dispatch()`,
  but not of business handlers, which may hang. The health handler returns.
* The other modules state safety only: their operations have no waits of their own that
  a model could show to end, apart from the timeout of the HTTP client.

## 5. Findings

* **ProfileConcurrency.** `docs/configuration.md:80` describes
  `ARCSUITE_PER_SESSION_CONCURRENCY` as "per-profile session concurrency", but each login
  makes a new semaphore (`SessionManager.java:54`): while reads still run on a replaced
  session, as many run on its successor, so a profile may exceed the bound.
* **DeletedOnExpiry.** `docs/adr/0005-v1-1-read-ux-and-efficiency.md:74` requires that
  cached content be deleted on expiry. The cache drops expired texts only at its next
  `get` or `put` (`snapshotCache.ts:113`); there is no timer. A text that nobody follows
  up on stays in memory until some client reads content again. It is never served
  (`HitIsOwnAndFresh`). The property grants a whole further lifetime for cleaning up.

* **HiddenSlots.** `src/mcp/tools.ts:1573` says that candidates are classified before
  paging "so an invisible relationship cannot consume a page slot or cursor position". An
  id that neither the batch read nor the single read can deliver stays unclassified, and
  line 1619 refuses the listing only if another candidate was found to be a Hard Reference.
  Without one, all unclassified ids are paged. `DiscoveryAccounted` states what does hold:
  nothing is left out without proof, and whatever could not be classified is paged only if
  nothing at all was left out.

## 6. Proofs

Eight modules, each named after the one it extends, prove the safety properties of the
runs for every value of the constants: any number of clients, threads, files or calls, any
limits and any length of behaviour. They assume only the named assumptions of the modules,
which are of two kinds: what the constructors and the configuration of the code refuse
(`ParserAssumption`, `SessionsAssumption`, `PagingAssumption`, `HandleAssumption`,
`CacheAssumption`, `AuditAssumption`, `ScopeAssumption`, `LimitsAssumption`), and that a
value standing for "nothing" is not one of the things it stands beside
(`AbsentAssumption`, `NoneAssumption`). TLC evaluates all of them on the runs' instances.

| Module | Properties proved | Inductive invariant |
|---|---|---|
| BoundedParser_proofs | `PermitAccounting`, `AdmittedIsAccepted`, `CloseWakesCallers`, `NoLateValue`; also `NoTaskLeak` | types, accounting, `Phases`, `Entries`, `Sweep`, `Values` |
| AdapterSessions_proofs | `SemaphoreAccounting`, `NeverHandsOutEnded`, `RetryOnAnotherSession`; also `NoCircularWait` | types, `Accounting`, `Exclusion`, `Requested`, `Apart`, `Renewing`, `EndedStale`, `Dropped`, `Replaced` |
| PagingStore_proofs | `LimitsHold`, `NoGap`, `ExpiryHolds`, `OnlyOwnerDisplaces` | types, `Counted`, `Limited`, `Fresh`, `NoGap` |
| OpaqueHandles_proofs | `ShareReserved`, `ContinuationBacked`, `DerivedNeverOutlives` | types, `Shares`, `Continuations` |
| ContentReads_proofs | `CacheLimits`, `ServedIsProven`, `ChunksAddUp`, `FilesRemoved`, `HitIsOwnAndFresh` | types, `CacheKept`, `CallsKept`, `CursorsKept`, `FilesRemoved` |
| AuditLog_proofs | `SegmentsWhole`, `TrailKept` (the refinement of AuditTrail); also `InOrder` and `NeverReplayed` of AuditTrail | types, `Disks`, `Ordered`, `Sweeping`, `Rotating`, `Writing` |
| ToolCalls_proofs | `AnswersProven`, `NothingLost`, `AuditTells`, `DiscoveryAccounted` | `CallTold`, `StartTold`, `RefTold`, `OneTold`, `RevisionsTold`, `DiscoveryTold`, `PageTold`, `RelationsTold`, `AuditTold`, `AnswerTold` |
| Components_proofs | `OneValidation`, `ReadyHasSchemas`, `RateBound`, `OneStatus`, `SettledTruly`, `WholeOrNothing`, `PermitsReturned`, `NormalizedTrue`, `PartsExact` | one invariant for each of eight components |

Each module has a lemma for the initial states, one for each action or group of actions,
the theorem `Invariance` that puts them together, and the properties as consequences.

**BoundedParser.** None of the invariants is inductive alone. Permit accounting needs that
an action which takes or returns a permit really adds or removes its invocation from
`Holders`, and that needs `Phases`: a caller on its way to the executor has no runnable
yet. That nobody is left waiting needs to know, in the middle of the sweep, that the entry
of every waiting caller is still ahead of it (`Sweep`), which in turn needs where entries
can be (`Entries`). That a returned value is not late needs `Values`. `AdmittedIsAccepted`
follows from accounting by counting: the caller that is about to execute is itself a
holder and so are the queued ones, so fewer than `Workers` are queued.

**AdapterSessions.** That `get` never hands out a session that was logged out is a matter
of what the monitor protects while a network call is made under it. `Exclusion` says who is
inside; `Renewing` and `Dropped` what this thread has found in the map and may rely on
when its call returns; `Apart` that no session is cached under two profiles, so that
dropping one profile's does not leave it reachable under another; and `EndedStale` that a
session logged out while still in the map is one that `get` replaces, unless the clock was
set back since. `Replaced` is what a
reader between its two attempts knows: its profile has lost the session that failed.
From the same invariant follows `NoCircularWait`. A read whose session was lost goes for the
monitor with its permit in hand, the monitor is held over calls upstream, and other reads wait
for the permit; but who is inside the monitor never waits for a permit (`MonitorMoves`,
`ReadersMove`). So whatever a request waits for, one or two steps on there is one that waits
for nobody. Without it no fairness would make `EveryRequestEnds` true, which TLC checks.

**PagingStore.** The running totals are changed by increments, and it is the totals, not the
lists, that decide across the two pools what has to go. Proving that they agree with
the lists needs sums over sets of entries: a sum of lengths is written as the cardinality
of a set of pairs (`Units`), so that the library's theorems about finite sets apply. `Leaves`
and `Joins` are the two changes of a store, of which all operations are made. `Fresh`, that
a list expires `Ttl` after it was made, is what `ExpiryHolds` needs.

**OpaqueHandles.** What `ShareReserved` rests on is an inequality between one client's
surplus and the room all the others may take (`RoomIsReserved`). The sequence of a client's
handles is filtered, shortened at its front and rearranged; the lemmas say that the result
is drawn from what was there, place by place (`KeptIs`, `DrawnSuffix`, `TouchedIs`).
`DerivedNeverOutlives` is about a handle read before an await: what a waiting call
remembers of its handle bounds what it issues later, whether or not the handle still exists.

**ContentReads.** `CacheKept` says that entries, index and byte count agree, that the
limits hold and that an entry ends its lifetime after it was stored; it is kept by removing
(`Removes`), adding (`Adds`), replacing (`Replaces`) and making room (`RoomIsMade`),
whichever of equally old entries goes. The invariants of the calls
hold at each wait what the call has proved, which a revision made meanwhile does not change.
`ChunksAddUp` is about answers alone and not inductive: it needs to know of every cursor, in
a client's hands, presented by a call or on its way to a client (`CursorsKept`,
`CallCursors`), that it stands where the chunks of its text end which were received before
it (`Standing`). That the next chunk goes on there is `ChainGrows`.

**AuditLog.** The refinement is proved in full: the initial files are an empty trail, and
every step is one of the trail's or none. The trail is a concatenation of files, and what a
file holds is one of whole records, so the proof begins with what becomes of a concatenation
when one part changes (`OneChanges`), moves into an empty place beside it (`OneMoves`) or is
cut out (`CutsOut`). A rotation is then invisible whatever it is interrupted by, because
`Rotating` keeps the slot free into which the next file is renamed. `Sweeping` says that
what a sweep has chosen has reached its age and is still there; `Ordered` that what waits is
newer than all that was stored; `Writing` that a partial record is the one in progress and
can be taken back.
What the trail itself promises is proved of AuditTrail alone (`OrderKept`: its records ascend,
and none is newer than the last one stored) and holds of the files by the refinement: the
records are read back in order and once (`InOrder`), and one that has been given up never
comes back (`NeverReplayed`), whatever a rotation or a sweep was interrupted by.

**ToolCalls.** The invariant goes stage by stage: what the reads have shown, at this stage,
of each object that the answer may yet be built from. `OneTold` is about the tools that
read one object, `RevisionsTold` and `RelationsTold` about theirs, `DiscoveryTold` about the
classification of a listing, `PageTold` about hydration and paths, `AuditTold` about what
the record would say if the call failed now. The answer's properties are `AnswerTold`.

**Components.** A step moves one component and leaves the variables of the others alone
(`StepOfEach`), so that the invariants of the eight are proved apart from each other. The rate
limiter's (`LimiterInv`) compares what a window of requests has cost, together with what is
left in the bucket, with the burst and what the clock's readings say has passed since: a
clock that is set back takes tokens away, so that setting it forth again gives nothing.

The two algorithms have nothing to say of their state but its type; the work is in the pass.
For the text, `PassTold` is the loop invariant after *i* characters: the characters kept so far
(`Lists`, which changes when a line end takes the blanks before it away), how many of them are
leading white space (`Leads`), and that the output is the rest of them with line ends unified
(`Exact`); or, once the limit was met, that the output is as long as the limit and, but for
white space at its end, a beginning of them (`Cut`). Blanks that were put and go again are why
`Cut` speaks of the last character that is not white space.
For the multipart response, `Layout` gives the place of every symbol that ArcSuite wrote
(`BodyLayout`). The payloads are unambiguous, so no delimiter starts inside one
(`NoDelimiterInside`); hence a turn of the loop that starts behind the marker of a part finds
its headers and the next marker where they were written (`HeadersAre`, `NextIs`) and returns the
part (`TurnIs`), and none is returned where the response breaks off. The parts follow from the
last one to the first (`AllTurns`), and `StartsAt` tells which responses are taken apart at all.

Induction over data appears where a recursive definition must be known for all inputs:
sums, filters, concatenations, the two passes. The lemmas `Induction` state it about sets of
numbers, from the library's theorem that the natural numbers are well-founded, and the recursive
functions are shown to satisfy their equations (`KeptUnfolds`, `FlattenUnfolds`, `PassUnfolds`,
`CleanUnfolds`, `SplitUnfolds`) before they are used. The last one runs against the order of the
recursion: a turn of `Split` looks at places behind its own, which `TurnForward` proves.

Proving changed the models in places where they said more than the code does, or less.
A drawer is shown as a folder in folder navigation alone (`ShownClass`). The classes a scope
allows need not contain any particular one (`ScopeAssumption`). The outcomes of a search
are told apart by exclusive conditions. The order of equally old cache entries was fixed by
a sort and is open now. And the values for "nothing" had been distinct from the others only
by the runs' choice of model values.

Only model-checked: liveness, since the proof system treats neither fairness of these
formulas nor ENABLED (`EveryCallReturns`, `CapacityReturns`, `EveryRequestEnds`,
`WritesEnd`, `BecomesReady`, `ProbeAnswered`). Every invariant and every action property
that a passing run checks is proved.

## 7. Not modelled

* Pure code: extractors, XML parsing, JSON, crypto, redaction, the construction
  of upstream queries, normalisation and formatting of results, argument schemas. They
  have no state; what matters of them here is that they accept, refuse, fail or take long.
  Text normalisation and multipart parsing are the two modelled as algorithms.
* The content of signatures, tags and policy fingerprints. A client presents what it was
  given.
* Reading the environment at startup. The checks that make the configuration acceptable
  are the named assumptions on the constants.
* Clearing of the content cache at shutdown: the process ends with the requests that are
  still running. A retained page list whose handles could not be issued stays until it
  expires; it counts towards the limits (`LimitsHold`) and nobody can refer to it.
* Removing the files that stay in the shared directory, because the adapter's answer was lost
  or the gateway could not remove them (see ContentReads): the code has no such sweep.
* A session that is removed by a reader although another reader has just renewed it stays
  open upstream until the service ends it.

## 8. Plan

Done: the two concurrent components of the adapter with its request admission and response
bodies, the three stateful stores of the gateway with the tools that use them, all tool
calls, the HTTP endpoint, rate limiter, startup validation and child processes, the audit
log, the two algorithms on texts; and the proofs of every safety property that the passing
runs check.

What is left:

1. **A stronger statement**: that a rotation ends with every slot in order unless it failed.
2. **Shared lemmas**: the facts on sums, on concatenations and the induction over the numbers
   are stated in the modules that use them, and could be one module of their own.
3. **Configuration**: the checks of `config.ts`, whose outcome is assumed of the constants.
