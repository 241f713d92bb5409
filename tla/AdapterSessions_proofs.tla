------------------------ MODULE AdapterSessions_proofs ------------------------
(***************************************************************************)
(* Safety of AdapterSessions for every set of handlers, profiles and       *)
(* session ids, and every concurrency.                                     *)
(*                                                                         *)
(* What the monitor protects is stated from the point of view of the       *)
(* thread inside it: Exclusion says that it is alone, Renewing and Dropped *)
(* what it has found in the map.  Apart and EndedStale describe the map,   *)
(* Replaced a read that is about to be retried.                            *)
(***************************************************************************)
EXTENDS AdapterSessions, FiniteSetTheorems, TLAPS

\* Where a thread holds the monitor over an upstream call.
Inside == {"getLogout", "getLogin", "dropLogout", "forceLogin", "endLogout"}

Exclusion == \A t \in Thread : pc[t] \in Inside <=> monitor = t

\* A request has a profile, and a read that has come past get() a session; a thread without
\* a request has made no calls.
Requested ==
  \A t \in Thread :
    /\ IF pc[t] = "idle" THEN attempts[t] = 0 ELSE profile[t] # None
    /\ pc[t] \in {"acquire", "call", "remove"} => handle[t] # None

\* No session is cached for two profiles.
Apart == \A p, q \in Profile : sessions[p] = sessions[q] /\ sessions[p] # None => p = q

\* get() logs out only what it has found too old and is about to replace.
Renewing ==
  \A t \in Thread : pc[t] = "getLogout" =>
    sessions[profile[t]] # None /\ profile[t] \in stale \cup setBack

\* A session that is logged out and still in the map is one that get() will not hand out,
\* unless the clock was set back.
EndedStale == ended \subseteq stale \cup setBack

\* forceLogin() and logout() log out a session that is no longer in the map.
Dropped ==
  \A t \in Thread : pc[t] \in {"dropLogout", "endLogout"} /\ handle[t] # None =>
    \A p \in Profile : sessions[p] # handle[t]

\* A read that starts over remembers the session that expired, which its profile has lost.
Replaced ==
  \A t \in Thread : pc[t] = "get" /\ attempts[t] = 1 =>
    handle[t] # None /\ sessions[profile[t]] # handle[t]

\* The permits of a session, with its readers a finite set.
Accounting == SemaphoreAccounting /\ \A s \in Session : IsFiniteSet(Users(s))

IInv ==
  /\ TypeOK /\ Accounting
  /\ Exclusion /\ Requested /\ Apart /\ Renewing /\ EndedStale /\ Dropped /\ Replaced

-----------------------------------------------------------------------------
(* The permits.                                                             *)

\* login() returns a session that nothing in the adapter refers to.
LEMMA NewIsFresh ==
  ASSUME FreshSessions # {}
  PROVE  /\ NewId \in Session /\ NewId # None
         /\ \A p \in Profile : sessions[p] # NewId
         /\ \A t \in Thread : handle[t] # NewId
<1>1. NewId \in FreshSessions
  BY DEF NewId
<1> QED
  BY <1>1, SessionsAssumption DEF FreshSessions, Cached, Held

\* Accounting is kept if it is kept for the one session whose permits a step has changed.
LEMMA ChangedSession ==
  ASSUME Accounting, NEW s \in Session,
         \A r \in Session \ {s} : Users(r)' = Users(r) /\ semaphore'[r] = semaphore[r],
         IsFiniteSet(Users(s)'), semaphore'[s] + Cardinality(Users(s)') = Concurrency
  PROVE  Accounting'
<1> SUFFICES ASSUME NEW r \in Session
             PROVE  semaphore'[r] + Cardinality(Users(r)') = Concurrency /\ IsFiniteSet(Users(r)')
  BY DEF Accounting, SemaphoreAccounting
<1>1. CASE r = s
  BY <1>1
<1>2. CASE r # s
  <2>1. Users(r)' = Users(r) /\ semaphore'[r] = semaphore[r]
    BY <1>2
  <2> QED
    BY <2>1 DEF Accounting, SemaphoreAccounting
<1> QED
  BY <1>1, <1>2

\* A permit that is taken from a session by one more reader leaves the sum.
LEMMA ReaderTakes ==
  ASSUME TypeOK, Accounting, NEW t \in Thread, Acquire(t), Requested
  PROVE  Accounting'
<1>1. PICK s \in Session : s = handle[t]
  BY DEF TypeOK, Requested, Acquire
<1>2. Users(s)' = Users(s) \cup {t} /\ t \notin Users(s)
  BY <1>1 DEF TypeOK, Location, Acquire, Goto, Users
<1>3. \A r \in Session \ {s} : Users(r)' = Users(r) /\ semaphore'[r] = semaphore[r]
  BY <1>1 DEF TypeOK, Location, Acquire, Goto, Users
<1>4. semaphore'[s] = semaphore[s] - 1 /\ semaphore[s] \in Int /\ Concurrency \in Int
  BY <1>1, SessionsAssumption DEF TypeOK, Acquire
<1>5. IsFiniteSet(Users(s)) /\ Cardinality(Users(s)) \in Nat
  BY <1>1, FS_CardinalityType DEF Accounting
<1>6. IsFiniteSet(Users(s)') /\ Cardinality(Users(s)') = Cardinality(Users(s)) + 1
  BY <1>2, <1>5, FS_AddElement
<1>7. semaphore[s] + Cardinality(Users(s)) = Concurrency
  BY <1>1 DEF Accounting, SemaphoreAccounting
<1> QED
  BY <1>1, <1>3, <1>4, <1>5, <1>6, <1>7, ChangedSession

\* A reader that leaves its session gives its permit back to that session.
LEMMA ReaderReturns ==
  ASSUME TypeOK, Accounting, NEW t \in Thread, CallEnds(t) \/ RemoveAndRetry(t), Requested
  PROVE  Accounting'
<1>1. PICK s \in Session : s = handle[t]
  BY DEF TypeOK, Requested, CallEnds, RemoveAndRetry
<1>2. t \in Users(s) /\ pc'[t] \notin {"call", "remove"}
  BY <1>1 DEF TypeOK, Location, CallEnds, RemoveAndRetry, Return, Goto, Users
<1>8. \A u \in Thread \ {t} : pc'[u] = pc[u] /\ handle'[u] = handle[u]
  BY DEF TypeOK, CallEnds, RemoveAndRetry, Return, Goto
<1>9. Users(s)' = Users(s) \ {t}
  BY <1>2, <1>8 DEF Users
<1>3. \A r \in Session \ {s} : Users(r)' = Users(r) /\ semaphore'[r] = semaphore[r]
  BY <1>1 DEF TypeOK, Location, CallEnds, RemoveAndRetry, Release, Return, Goto, Users
<1>4. semaphore'[s] = semaphore[s] + 1 /\ semaphore[s] \in Int /\ Concurrency \in Int
  BY <1>1, SessionsAssumption DEF TypeOK, CallEnds, RemoveAndRetry, Release
<1>5. IsFiniteSet(Users(s)) /\ Cardinality(Users(s)) \in Nat
  BY <1>1, FS_CardinalityType DEF Accounting
<1>6. IsFiniteSet(Users(s)') /\ Cardinality(Users(s)') = Cardinality(Users(s)) - 1
  BY <1>2, <1>5, <1>9, FS_RemoveElement
<1>7. semaphore[s] + Cardinality(Users(s)) = Concurrency
  BY <1>1 DEF Accounting, SemaphoreAccounting
<1> QED
  BY <1>1, <1>3, <1>4, <1>5, <1>6, <1>7, ChangedSession

\* A new session has all its permits and no readers.
LEMMA NewSessionUnused ==
  ASSUME TypeOK, Accounting, NEW t \in Thread,
         GetLogin(t) \/ (ForceLogin(t) /\ NewSession(NewId, profile[t]))
  PROVE  Accounting'
<1>1. FreshSessions # {}
  BY DEF GetLogin, NewSession
<1> PICK s \in Session : s = NewId
  BY <1>1, NewIsFresh
<1>2. Users(s)' = {}
  <2>1. \A u \in Thread : handle[u] # s /\ s # None
    BY <1>1, NewIsFresh
  <2>2. pc'[t] \notin {"call", "remove"} /\ \A u \in Thread \ {t} : handle'[u] = handle[u]
    BY DEF TypeOK, GetLogin, ForceLogin, Return, Goto
  <2> QED
    BY <2>1, <2>2 DEF Users
<1>3. \A r \in Session \ {s} : Users(r)' = Users(r) /\ semaphore'[r] = semaphore[r]
  BY DEF TypeOK, Location, GetLogin, ForceLogin, NewSession, Return, Goto, Users
<1>4. semaphore'[s] = Concurrency /\ Concurrency \in Int
  BY <1>1, NewIsFresh, SessionsAssumption DEF TypeOK, GetLogin, ForceLogin, NewSession
<1>5. IsFiniteSet(Users(s)') /\ Cardinality(Users(s)') = 0
  BY <1>2, FS_EmptySet
<1> QED
  BY <1>3, <1>4, <1>5, ChangedSession

\* Every other step leaves the permits and the readers of all sessions.
LEMMA PermitsKept ==
  ASSUME TypeOK, Requested, [Next]_vars, semaphore' = semaphore,
         \A t \in Thread : ~Acquire(t) /\ ~CallEnds(t) /\ ~RemoveAndRetry(t) /\ ~GetLogin(t)
  PROVE  \A s \in Session : Users(s)' = Users(s)
<1> USE SessionsAssumption DEF TypeOK, Location, Requested, Users
<1>1. ASSUME NEW t \in Thread, GetCached(t) \/ GetRenew(t) \/ GetLogout(t) \/ GetLoginFails(t)
      PROVE  \A s \in Session : Users(s)' = Users(s)
  BY <1>1 DEF GetCached, GetRenew, GetLogout, GetLoginFails, Return, Goto
<1>2. ASSUME NEW t \in Thread, AcquireInterrupted(t) \/ CallExpired(t)
      PROVE  \A s \in Session : Users(s)' = Users(s)
  BY <1>2 DEF AcquireInterrupted, CallExpired, Return, Goto
<1>3. ASSUME NEW t \in Thread, Manage(t)
      PROVE  \A s \in Session : Users(s)' = Users(s)
  BY <1>3 DEF Manage, Drop, DropLogout, ForceLogin, Return, Goto
<1>4. ASSUME NEW t \in Thread, NEW p \in Profile, Request(t, p)
      PROVE  \A s \in Session : Users(s)' = Users(s)
  BY <1>4 DEF Request, Goto
<1>5. CASE StopHttp \/ CloseSessions \/ SetBack \/ (\E p \in Profile : Age(p)) \/ UNCHANGED vars
  BY <1>5 DEF StopHttp, CloseSessions, SetBack, FoundOld, Age, vars
<1> QED
  BY <1>1, <1>2, <1>3, <1>4, <1>5 DEF Next, Get, Read

\* A step keeps the permits accounted for.
LEMMA AccountingStep ==
  ASSUME TypeOK, Accounting, Requested, [Next]_vars
  PROVE  Accounting'
<1>1. CASE \E t \in Thread : Acquire(t) \/ CallEnds(t) \/ RemoveAndRetry(t)
  BY <1>1, ReaderTakes, ReaderReturns
<1>2. CASE \E t \in Thread : GetLogin(t) \/ (ForceLogin(t) /\ NewSession(NewId, profile[t]))
  BY <1>2, NewSessionUnused
<1>3. CASE /\ \A t \in Thread : ~Acquire(t) /\ ~CallEnds(t) /\ ~RemoveAndRetry(t)
           /\ \A t \in Thread : ~GetLogin(t) /\ ~(ForceLogin(t) /\ NewSession(NewId, profile[t]))
  <2>1. semaphore' = semaphore
    BY <1>3 DEF Next, vars, Get, Read, Manage, GetCached, GetRenew, GetLogout, GetLoginFails,
                AcquireInterrupted, CallExpired, Drop, DropLogout, ForceLogin, Request, Age, SetBack,
                StopHttp, CloseSessions
  <2>2. \A s \in Session : Users(s)' = Users(s)
    BY <1>3, <2>1, PermitsKept
  <2> QED
    BY <2>1, <2>2 DEF Accounting, SemaphoreAccounting
<1> QED
  BY <1>1, <1>2, <1>3

-----------------------------------------------------------------------------
(* The remaining parts of the inductive invariant.                          *)

\* Every action keeps the types; the bound of the permits follows from accounting.
LEMMA TypeStep ==
  ASSUME TypeOK, Requested, Accounting', [Next]_vars
  PROVE  TypeOK'
<1>0. \A s \in Session : semaphore'[s] \in Int => semaphore'[s] <= Concurrency
  <2> SUFFICES ASSUME NEW s \in Session, semaphore'[s] \in Int
               PROVE  semaphore'[s] <= Concurrency
    OBVIOUS
  <2>1. Cardinality(Users(s)') \in Nat
    BY FS_CardinalityType DEF Accounting
  <2> QED
    BY <2>1, SessionsAssumption DEF Accounting, SemaphoreAccounting
<1> USE SessionsAssumption DEF TypeOK, Location, Requested
<1>1. ASSUME NEW t \in Thread, GetCached(t) \/ GetRenew(t)
      PROVE  TypeOK'
  BY <1>1 DEF GetCached, GetRenew, Goto, Unusable
<1>2. ASSUME NEW t \in Thread, GetLogout(t)
      PROVE  TypeOK'
  BY <1>2 DEF GetLogout, SafeLogout, Goto
<1>3. ASSUME NEW t \in Thread, GetLogin(t)
      PROVE  TypeOK'
  BY <1>3, NewIsFresh DEF GetLogin, NewSession, Goto
<1>4. ASSUME NEW t \in Thread, GetLoginFails(t) \/ AcquireInterrupted(t) \/ CallEnds(t)
      PROVE  TypeOK'
  BY <1>4, <1>0 DEF GetLoginFails, AcquireInterrupted, CallEnds, Return, Release, Goto
<1>5. ASSUME NEW t \in Thread, Acquire(t) \/ CallExpired(t)
      PROVE  TypeOK'
  BY <1>5, <1>0 DEF Acquire, CallExpired, Goto
<1>6. ASSUME NEW t \in Thread, RemoveAndRetry(t)
      PROVE  TypeOK'
  BY <1>6, <1>0 DEF RemoveAndRetry, Release, Goto
<1>7. ASSUME NEW t \in Thread, Drop(t)
      PROVE  TypeOK'
  BY <1>7 DEF Drop, Goto
<1>8. ASSUME NEW t \in Thread, DropLogout(t)
      PROVE  TypeOK'
  BY <1>8 DEF DropLogout, SafeLogout, Return, Goto
<1>9. ASSUME NEW t \in Thread, ForceLogin(t)
      PROVE  TypeOK'
  BY <1>9, NewIsFresh DEF ForceLogin, NewSession, Return, Goto
<1>10. ASSUME NEW t \in Thread, NEW p \in Profile, Request(t, p)
      PROVE  TypeOK'
  BY <1>10 DEF Request, Goto
<1>11. CASE StopHttp \/ CloseSessions \/ SetBack \/ (\E p \in Profile : Age(p)) \/ UNCHANGED vars
  BY <1>11 DEF StopHttp, CloseSessions, SetBack, FoundOld, Age, vars
<1> QED
  BY <1>1, <1>2, <1>3, <1>4, <1>5, <1>6, <1>7, <1>8, <1>9, <1>10, <1>11 DEF Next, Get, Read, Manage

\* Whoever enters finds the monitor free, and leaves it with the method.
LEMMA ExclusionStep ==
  ASSUME TypeOK, Exclusion, [Next]_vars
  PROVE  Exclusion'
<1> USE SessionsAssumption DEF TypeOK, Location, Exclusion, Inside
<1>1. ASSUME NEW t \in Thread, GetCached(t) \/ GetRenew(t)
      PROVE  Exclusion'
  BY <1>1 DEF GetCached, GetRenew, Goto, Unusable
<1>2. ASSUME NEW t \in Thread, GetLogout(t)
      PROVE  Exclusion'
  BY <1>2 DEF GetLogout, SafeLogout, Goto
<1>3. ASSUME NEW t \in Thread, GetLogin(t)
      PROVE  Exclusion'
  BY <1>3 DEF GetLogin, NewSession, Goto
<1>4. ASSUME NEW t \in Thread, GetLoginFails(t) \/ AcquireInterrupted(t) \/ CallEnds(t)
      PROVE  Exclusion'
  BY <1>4 DEF GetLoginFails, AcquireInterrupted, CallEnds, Return, Release, Goto
<1>5. ASSUME NEW t \in Thread, Acquire(t) \/ CallExpired(t)
      PROVE  Exclusion'
  BY <1>5 DEF Acquire, CallExpired, Goto
<1>6. ASSUME NEW t \in Thread, RemoveAndRetry(t)
      PROVE  Exclusion'
  BY <1>6 DEF RemoveAndRetry, Release, Goto
<1>7. ASSUME NEW t \in Thread, Drop(t)
      PROVE  Exclusion'
  BY <1>7 DEF Drop, Goto
<1>8. ASSUME NEW t \in Thread, DropLogout(t)
      PROVE  Exclusion'
  BY <1>8 DEF DropLogout, SafeLogout, Return, Goto
<1>9. ASSUME NEW t \in Thread, ForceLogin(t)
      PROVE  Exclusion'
  BY <1>9 DEF ForceLogin, NewSession, Return, Goto
<1>10. ASSUME NEW t \in Thread, NEW p \in Profile, Request(t, p)
      PROVE  Exclusion'
  BY <1>10 DEF Request, Goto
<1>11. CASE StopHttp \/ CloseSessions \/ SetBack \/ (\E p \in Profile : Age(p)) \/ UNCHANGED vars
  BY <1>11 DEF StopHttp, CloseSessions, SetBack, FoundOld, Age, vars
<1> QED
  BY <1>1, <1>2, <1>3, <1>4, <1>5, <1>6, <1>7, <1>8, <1>9, <1>10, <1>11 DEF Next, Get, Read, Manage

\* A request keeps its profile, and a read its session, to its end.
LEMMA RequestedStep ==
  ASSUME TypeOK, Requested, [Next]_vars
  PROVE  Requested'
<1> USE SessionsAssumption DEF TypeOK, Location, Requested
<1>1. ASSUME NEW t \in Thread, GetCached(t) \/ GetRenew(t)
      PROVE  Requested'
  BY <1>1 DEF GetCached, GetRenew, Goto, Unusable
<1>2. ASSUME NEW t \in Thread, GetLogout(t)
      PROVE  Requested'
  BY <1>2 DEF GetLogout, SafeLogout, Goto
<1>3. ASSUME NEW t \in Thread, GetLogin(t)
      PROVE  Requested'
  BY <1>3, NewIsFresh DEF GetLogin, NewSession, Goto
<1>4. ASSUME NEW t \in Thread, GetLoginFails(t) \/ AcquireInterrupted(t) \/ CallEnds(t)
      PROVE  Requested'
  BY <1>4 DEF GetLoginFails, AcquireInterrupted, CallEnds, Return, Release, Goto
<1>5. ASSUME NEW t \in Thread, Acquire(t) \/ CallExpired(t)
      PROVE  Requested'
  BY <1>5 DEF Acquire, CallExpired, Goto
<1>6. ASSUME NEW t \in Thread, RemoveAndRetry(t)
      PROVE  Requested'
  BY <1>6 DEF RemoveAndRetry, Release, Goto
<1>7. ASSUME NEW t \in Thread, Drop(t)
      PROVE  Requested'
  BY <1>7 DEF Drop, Goto
<1>8. ASSUME NEW t \in Thread, DropLogout(t)
      PROVE  Requested'
  BY <1>8 DEF DropLogout, SafeLogout, Return, Goto
<1>9. ASSUME NEW t \in Thread, ForceLogin(t)
      PROVE  Requested'
  BY <1>9, NewIsFresh DEF ForceLogin, NewSession, Return, Goto
<1>10. ASSUME NEW t \in Thread, NEW p \in Profile, Request(t, p)
      PROVE  Requested'
  BY <1>10 DEF Request, Goto
<1>11. CASE StopHttp \/ CloseSessions \/ SetBack \/ (\E p \in Profile : Age(p)) \/ UNCHANGED vars
  BY <1>11 DEF StopHttp, CloseSessions, SetBack, FoundOld, Age, vars
<1> QED
  BY <1>1, <1>2, <1>3, <1>4, <1>5, <1>6, <1>7, <1>8, <1>9, <1>10, <1>11 DEF Next, Get, Read, Manage

\* A new session is in the map once.
LEMMA ApartStep ==
  ASSUME TypeOK, Requested, Apart, [Next]_vars
  PROVE  Apart'
<1> USE SessionsAssumption DEF TypeOK, Location, Requested, Apart
<1>1. ASSUME NEW t \in Thread, GetCached(t) \/ GetRenew(t)
      PROVE  Apart'
  BY <1>1 DEF GetCached, GetRenew, Goto, Unusable
<1>2. ASSUME NEW t \in Thread, GetLogout(t)
      PROVE  Apart'
  BY <1>2 DEF GetLogout, SafeLogout, Goto
<1>3. ASSUME NEW t \in Thread, GetLogin(t)
      PROVE  Apart'
  BY <1>3, NewIsFresh DEF GetLogin, NewSession, Goto
<1>4. ASSUME NEW t \in Thread, GetLoginFails(t) \/ AcquireInterrupted(t) \/ CallEnds(t)
      PROVE  Apart'
  BY <1>4 DEF GetLoginFails, AcquireInterrupted, CallEnds, Return, Release, Goto
<1>5. ASSUME NEW t \in Thread, Acquire(t) \/ CallExpired(t)
      PROVE  Apart'
  BY <1>5 DEF Acquire, CallExpired, Goto
<1>6. ASSUME NEW t \in Thread, RemoveAndRetry(t)
      PROVE  Apart'
  BY <1>6 DEF RemoveAndRetry, Release, Goto
<1>7. ASSUME NEW t \in Thread, Drop(t)
      PROVE  Apart'
  BY <1>7 DEF Drop, Goto
<1>8. ASSUME NEW t \in Thread, DropLogout(t)
      PROVE  Apart'
  BY <1>8 DEF DropLogout, SafeLogout, Return, Goto
<1>9. ASSUME NEW t \in Thread, ForceLogin(t)
      PROVE  Apart'
  BY <1>9, NewIsFresh DEF ForceLogin, NewSession, Return, Goto
<1>10. ASSUME NEW t \in Thread, NEW p \in Profile, Request(t, p)
      PROVE  Apart'
  BY <1>10 DEF Request, Goto
<1>11. CASE StopHttp \/ CloseSessions \/ SetBack \/ (\E p \in Profile : Age(p)) \/ UNCHANGED vars
  BY <1>11 DEF StopHttp, CloseSessions, SetBack, FoundOld, Age, vars
<1> QED
  BY <1>1, <1>2, <1>3, <1>4, <1>5, <1>6, <1>7, <1>8, <1>9, <1>10, <1>11 DEF Next, Get, Read, Manage

\* While a thread is inside the monitor, nobody else changes the map.
LEMMA RenewingStep ==
  ASSUME TypeOK, Requested, Exclusion, Renewing, [Next]_vars
  PROVE  Renewing'
<1> USE SessionsAssumption DEF TypeOK, Location, Requested, Exclusion, Inside, Renewing
<1>1. ASSUME NEW t \in Thread, GetCached(t) \/ GetRenew(t)
      PROVE  Renewing'
  BY <1>1 DEF GetCached, GetRenew, Goto, Unusable
<1>2. ASSUME NEW t \in Thread, GetLogout(t)
      PROVE  Renewing'
  BY <1>2 DEF GetLogout, SafeLogout, Goto
<1>3. ASSUME NEW t \in Thread, GetLogin(t)
      PROVE  Renewing'
  BY <1>3, NewIsFresh DEF GetLogin, NewSession, Goto
<1>4. ASSUME NEW t \in Thread, GetLoginFails(t) \/ AcquireInterrupted(t) \/ CallEnds(t)
      PROVE  Renewing'
  BY <1>4 DEF GetLoginFails, AcquireInterrupted, CallEnds, Return, Release, Goto
<1>5. ASSUME NEW t \in Thread, Acquire(t) \/ CallExpired(t)
      PROVE  Renewing'
  BY <1>5 DEF Acquire, CallExpired, Goto
<1>6. ASSUME NEW t \in Thread, RemoveAndRetry(t)
      PROVE  Renewing'
  BY <1>6 DEF RemoveAndRetry, Release, Goto
<1>7. ASSUME NEW t \in Thread, Drop(t)
      PROVE  Renewing'
  BY <1>7 DEF Drop, Goto
<1>8. ASSUME NEW t \in Thread, DropLogout(t)
      PROVE  Renewing'
  BY <1>8 DEF DropLogout, SafeLogout, Return, Goto
<1>9. ASSUME NEW t \in Thread, ForceLogin(t)
      PROVE  Renewing'
  BY <1>9, NewIsFresh DEF ForceLogin, NewSession, Return, Goto
<1>10. ASSUME NEW t \in Thread, NEW p \in Profile, Request(t, p)
      PROVE  Renewing'
  BY <1>10 DEF Request, Goto
<1>11. CASE StopHttp \/ CloseSessions \/ SetBack \/ (\E p \in Profile : Age(p)) \/ UNCHANGED vars
  BY <1>11 DEF StopHttp, CloseSessions, SetBack, FoundOld, Age, vars
<1> QED
  BY <1>1, <1>2, <1>3, <1>4, <1>5, <1>6, <1>7, <1>8, <1>9, <1>10, <1>11 DEF Next, Get, Read, Manage

\* A session that is logged out is stale, or the clock was set back, or it is no longer in
\* the map.
LEMMA EndedStep ==
  ASSUME TypeOK, Requested, Apart, Renewing, EndedStale, Dropped, [Next]_vars
  PROVE  EndedStale'
<1> USE SessionsAssumption DEF TypeOK, Location, Requested, Apart, Renewing, EndedStale, Dropped
<1>1. ASSUME NEW t \in Thread, GetCached(t) \/ GetRenew(t)
      PROVE  EndedStale'
  BY <1>1 DEF GetCached, GetRenew, Goto, Unusable
<1>2. ASSUME NEW t \in Thread, GetLogout(t)
      PROVE  EndedStale'
  BY <1>2 DEF GetLogout, SafeLogout, Goto
<1>3. ASSUME NEW t \in Thread, GetLogin(t)
      PROVE  EndedStale'
  BY <1>3, NewIsFresh DEF GetLogin, NewSession, Goto
<1>4. ASSUME NEW t \in Thread, GetLoginFails(t) \/ AcquireInterrupted(t) \/ CallEnds(t)
      PROVE  EndedStale'
  BY <1>4 DEF GetLoginFails, AcquireInterrupted, CallEnds, Return, Release, Goto
<1>5. ASSUME NEW t \in Thread, Acquire(t) \/ CallExpired(t)
      PROVE  EndedStale'
  BY <1>5 DEF Acquire, CallExpired, Goto
<1>6. ASSUME NEW t \in Thread, RemoveAndRetry(t)
      PROVE  EndedStale'
  BY <1>6 DEF RemoveAndRetry, Release, Goto
<1>7. ASSUME NEW t \in Thread, Drop(t)
      PROVE  EndedStale'
  BY <1>7 DEF Drop, Goto
<1>8. ASSUME NEW t \in Thread, DropLogout(t)
      PROVE  EndedStale'
  BY <1>8 DEF DropLogout, SafeLogout, Return, Goto
<1>9. ASSUME NEW t \in Thread, ForceLogin(t)
      PROVE  EndedStale'
  BY <1>9, NewIsFresh DEF ForceLogin, NewSession, Return, Goto
<1>10. ASSUME NEW t \in Thread, NEW p \in Profile, Request(t, p)
      PROVE  EndedStale'
  BY <1>10 DEF Request, Goto
<1>11. CASE StopHttp \/ CloseSessions \/ SetBack \/ (\E p \in Profile : Age(p)) \/ UNCHANGED vars
  BY <1>11 DEF StopHttp, CloseSessions, SetBack, FoundOld, Age, vars
<1> QED
  BY <1>1, <1>2, <1>3, <1>4, <1>5, <1>6, <1>7, <1>8, <1>9, <1>10, <1>11 DEF Next, Get, Read, Manage

\* What has been taken out of the map does not come back.
LEMMA DroppedStep ==
  ASSUME TypeOK, Requested, Exclusion, Apart, Dropped, [Next]_vars
  PROVE  Dropped'
<1> USE SessionsAssumption DEF TypeOK, Location, Requested, Exclusion, Inside, Apart, Dropped
<1>1. ASSUME NEW t \in Thread, GetCached(t) \/ GetRenew(t)
      PROVE  Dropped'
  BY <1>1 DEF GetCached, GetRenew, Goto, Unusable
<1>2. ASSUME NEW t \in Thread, GetLogout(t)
      PROVE  Dropped'
  BY <1>2 DEF GetLogout, SafeLogout, Goto
<1>3. ASSUME NEW t \in Thread, GetLogin(t)
      PROVE  Dropped'
  BY <1>3, NewIsFresh DEF GetLogin, NewSession, Goto
<1>4. ASSUME NEW t \in Thread, GetLoginFails(t) \/ AcquireInterrupted(t) \/ CallEnds(t)
      PROVE  Dropped'
  BY <1>4 DEF GetLoginFails, AcquireInterrupted, CallEnds, Return, Release, Goto
<1>5. ASSUME NEW t \in Thread, Acquire(t) \/ CallExpired(t)
      PROVE  Dropped'
  BY <1>5 DEF Acquire, CallExpired, Goto
<1>6. ASSUME NEW t \in Thread, RemoveAndRetry(t)
      PROVE  Dropped'
  BY <1>6 DEF RemoveAndRetry, Release, Goto
<1>7. ASSUME NEW t \in Thread, Drop(t)
      PROVE  Dropped'
  BY <1>7 DEF Drop, Goto
<1>8. ASSUME NEW t \in Thread, DropLogout(t)
      PROVE  Dropped'
  BY <1>8 DEF DropLogout, SafeLogout, Return, Goto
<1>9. ASSUME NEW t \in Thread, ForceLogin(t)
      PROVE  Dropped'
  BY <1>9, NewIsFresh DEF ForceLogin, NewSession, Return, Goto
<1>10. ASSUME NEW t \in Thread, NEW p \in Profile, Request(t, p)
      PROVE  Dropped'
  BY <1>10 DEF Request, Goto
<1>11. CASE StopHttp \/ CloseSessions \/ SetBack \/ (\E p \in Profile : Age(p)) \/ UNCHANGED vars
  BY <1>11 DEF StopHttp, CloseSessions, SetBack, FoundOld, Age, vars
<1> QED
  BY <1>1, <1>2, <1>3, <1>4, <1>5, <1>6, <1>7, <1>8, <1>9, <1>10, <1>11 DEF Next, Get, Read, Manage

\* Nor does the session of a read that starts over.
LEMMA ReplacedStep ==
  ASSUME TypeOK, Requested, Replaced, [Next]_vars
  PROVE  Replaced'
<1> USE SessionsAssumption DEF TypeOK, Location, Requested, Replaced
<1>1. ASSUME NEW t \in Thread, GetCached(t) \/ GetRenew(t)
      PROVE  Replaced'
  BY <1>1 DEF GetCached, GetRenew, Goto, Unusable
<1>2. ASSUME NEW t \in Thread, GetLogout(t)
      PROVE  Replaced'
  BY <1>2 DEF GetLogout, SafeLogout, Goto
<1>3. ASSUME NEW t \in Thread, GetLogin(t)
      PROVE  Replaced'
  BY <1>3, NewIsFresh DEF GetLogin, NewSession, Goto
<1>4. ASSUME NEW t \in Thread, GetLoginFails(t) \/ AcquireInterrupted(t) \/ CallEnds(t)
      PROVE  Replaced'
  BY <1>4 DEF GetLoginFails, AcquireInterrupted, CallEnds, Return, Release, Goto
<1>5. ASSUME NEW t \in Thread, Acquire(t) \/ CallExpired(t)
      PROVE  Replaced'
  BY <1>5 DEF Acquire, CallExpired, Goto
<1>6. ASSUME NEW t \in Thread, RemoveAndRetry(t)
      PROVE  Replaced'
  BY <1>6 DEF RemoveAndRetry, Release, Goto
<1>7. ASSUME NEW t \in Thread, Drop(t)
      PROVE  Replaced'
  BY <1>7 DEF Drop, Goto
<1>8. ASSUME NEW t \in Thread, DropLogout(t)
      PROVE  Replaced'
  BY <1>8 DEF DropLogout, SafeLogout, Return, Goto
<1>9. ASSUME NEW t \in Thread, ForceLogin(t)
      PROVE  Replaced'
  BY <1>9, NewIsFresh DEF ForceLogin, NewSession, Return, Goto
<1>10. ASSUME NEW t \in Thread, NEW p \in Profile, Request(t, p)
      PROVE  Replaced'
  BY <1>10 DEF Request, Goto
<1>11. CASE StopHttp \/ CloseSessions \/ SetBack \/ (\E p \in Profile : Age(p)) \/ UNCHANGED vars
  BY <1>11 DEF StopHttp, CloseSessions, SetBack, FoundOld, Age, vars
<1> QED
  BY <1>1, <1>2, <1>3, <1>4, <1>5, <1>6, <1>7, <1>8, <1>9, <1>10, <1>11 DEF Next, Get, Read, Manage

-----------------------------------------------------------------------------
(* The theorems.                                                            *)

\* A new SessionManager satisfies the invariant.
LEMMA InitIInv == Init => IInv
<1> SUFFICES ASSUME Init PROVE IInv
  OBVIOUS
<1>1. TypeOK
  BY SessionsAssumption DEF Init, TypeOK, Location
<1>2. Accounting
  <2>1. \A s \in Session : Users(s) = {}
    BY DEF Init, Users
  <2> QED
    BY <2>1, FS_EmptySet, SessionsAssumption DEF Init, Accounting, SemaphoreAccounting
<1>3. Exclusion /\ Requested /\ Apart /\ Renewing /\ EndedStale /\ Dropped /\ Replaced
  BY SessionsAssumption
     DEF Init, Exclusion, Inside, Requested, Apart, Renewing, EndedStale, Dropped, Replaced
<1> QED
  BY <1>1, <1>2, <1>3 DEF IInv

\* Every step keeps the invariant.
LEMMA IInvStep == IInv /\ [Next]_vars => IInv'
<1> SUFFICES ASSUME IInv, [Next]_vars PROVE IInv'
  OBVIOUS
<1>1. Accounting'
  BY AccountingStep DEF IInv
<1>2. TypeOK' /\ Requested'
  BY <1>1, TypeStep, RequestedStep DEF IInv
<1>3. Exclusion' /\ Apart' /\ Renewing'
  BY ExclusionStep, ApartStep, RenewingStep DEF IInv
<1>4. EndedStale' /\ Dropped' /\ Replaced'
  BY EndedStep, DroppedStep, ReplacedStep DEF IInv
<1> QED
  BY <1>1, <1>2, <1>3, <1>4 DEF IInv

\* The strengthened invariant holds in every reachable state of the session cache.
THEOREM Invariance == Spec => []IInv
BY InitIInv, IInvStep, PTL DEF Spec

\* The permits of a session and the reads running on it always add up to the configured
\* concurrency: no retry, logout, replacement or interrupted wait loses or doubles one.
THEOREM PermitsAccounted == Spec => []SemaphoreAccounting
<1>1. IInv => SemaphoreAccounting
  BY DEF IInv, Accounting
<1> QED
  BY <1>1, Invariance, PTL

\* get() hands out a session the adapter has logged out only when the clock was set back
\* after get() had found it too old, whatever fails and in whatever order expiry, forced
\* logins and shutdown come.
THEOREM EndedNotHandedOut == Spec => NeverHandsOutEnded
<1>1. IInv /\ [Next]_vars =>
        [\A t \in Thread :
           pc[t] # "acquire" /\ pc'[t] = "acquire" /\ profile[t] \in ended' =>
             profile[t] \in setBack']_vars
  <2> SUFFICES ASSUME IInv, Next, NEW u \in Thread, pc[u] # "acquire", pc'[u] = "acquire"
               PROVE  profile[u] \in ended' => profile[u] \in setBack'
    OBVIOUS
  <2> USE DEF IInv, TypeOK
  <2>1. GetCached(u) \/ GetLogin(u)
    <3>1. ASSUME NEW t \in Thread, Get(t) \/ Read(t) \/ Manage(t)
          PROVE  GetCached(u) \/ GetLogin(u)
      <4>1. CASE GetCached(t) \/ GetLogin(t)
        BY <4>1 DEF GetCached, GetLogin, Goto
      <4>2. CASE GetRenew(t) \/ GetLogout(t) \/ GetLoginFails(t)
        BY <4>2 DEF GetRenew, GetLogout, GetLoginFails, Return, Goto
      <4>3. CASE Read(t)
        BY <4>3 DEF Read, Acquire, AcquireInterrupted, CallEnds, CallExpired, RemoveAndRetry, Return, Goto
      <4>4. CASE Manage(t)
        BY <4>4 DEF Manage, Drop, DropLogout, ForceLogin, Return, Goto
      <4> QED
        BY <3>1, <4>1, <4>2, <4>3, <4>4 DEF Get
    <3>2. ASSUME NEW t \in Thread, NEW p \in Profile, Request(t, p)
          PROVE  FALSE
      BY <3>2 DEF Request, Goto
    <3>3. CASE StopHttp \/ CloseSessions \/ SetBack \/ \E p \in Profile : Age(p)
      BY <3>3 DEF StopHttp, CloseSessions, SetBack, Age
    <3> QED
      BY <3>1, <3>2, <3>3 DEF Next
  <2>2. CASE GetCached(u)
    BY <2>2 DEF GetCached, Unusable, EndedStale
  <2>3. CASE GetLogin(u)
    BY <2>3 DEF GetLogin, NewSession
  <2> QED
    BY <2>1, <2>2, <2>3
<1> QED
  BY <1>1, Invariance, PTL DEF Spec, NeverHandsOutEnded

\* The one retry of a read is made on another session than the one that expired, although
\* other readers, forced logins and logouts change the map in between.
THEOREM RetriedElsewhere == Spec => RetryOnAnotherSession
<1>1. IInv /\ [Next]_vars =>
        [\A t \in Thread : pc[t] = "get" /\ pc'[t] = "acquire" /\ attempts[t] = 1 =>
           handle'[t] # handle[t]]_vars
  <2> SUFFICES ASSUME IInv, Next, NEW u \in Thread, pc[u] = "get", pc'[u] = "acquire", attempts[u] = 1
               PROVE  handle'[u] # handle[u]
    OBVIOUS
  <2> USE DEF IInv, TypeOK
  <2>1. ASSUME NEW t \in Thread, Get(t)
        PROVE  GetCached(u)
    BY <2>1 DEF Get, GetCached, GetRenew, GetLogout, GetLogin, GetLoginFails, Return, Goto
  <2>2. ASSUME NEW t \in Thread, Read(t)
        PROVE  FALSE
    BY <2>2 DEF Read, Acquire, AcquireInterrupted, CallEnds, CallExpired, RemoveAndRetry, Return, Goto
  <2>3. ASSUME NEW t \in Thread, Manage(t)
        PROVE  FALSE
    BY <2>3 DEF Manage, Drop, DropLogout, ForceLogin, Return, Goto
  <2>4. ASSUME NEW t \in Thread, NEW p \in Profile, Request(t, p)
        PROVE  FALSE
    BY <2>4 DEF Request, Goto
  <2>5. ~(StopHttp \/ CloseSessions \/ SetBack \/ \E p \in Profile : Age(p))
    BY DEF StopHttp, CloseSessions, SetBack, Age
  <2>6. GetCached(u)
    BY <2>1, <2>2, <2>3, <2>4, <2>5 DEF Next
  <2> QED
    BY <2>6 DEF GetCached, Replaced
<1> QED
  BY <1>1, Invariance, PTL DEF Spec, RetryOnAnotherSession
-----------------------------------------------------------------------------
(* Waiting.  A read that lost its session goes for the monitor with its      *)
(* permit in hand, and the monitor is held over calls to ArcSuite.           *)

AtMonitor(t) == pc[t] \in {"get", "remove", "drop", "end"} /\ monitor # None
AtPermits(t) == pc[t] = "acquire" /\ semaphore[handle[t]] = 0

\* Whom a thread waits for: the one inside the monitor, or the readers that hold the permits.
WaitsFor(t) ==
  {u \in Thread : (AtMonitor(t) /\ u = monitor) \/ (AtPermits(t) /\ u \in Users(handle[t]))}

\* A request that is not held up: what it is at returns by itself.
Moves(t) == pc[t] # "idle" /\ ~AtMonitor(t) /\ ~AtPermits(t)

\* Who waits, waits for a thread that moves, or for one that waits for a thread that moves.
NoCircularWait ==
  \A t \in Thread : pc[t] # "idle" =>
    \/ Moves(t)
    \/ \E u \in WaitsFor(t) : Moves(u) \/ \E v \in WaitsFor(u) : Moves(v)

LEMMA MonitorMoves == ASSUME IInv, monitor # None PROVE monitor \in Thread /\ Moves(monitor)
<1>1. monitor \in Thread /\ pc[monitor] \in Inside
  BY DEF IInv, TypeOK, Exclusion
<1> QED
  BY <1>1 DEF Moves, AtMonitor, AtPermits, Inside

\* A reader that holds a permit moves, or waits for the monitor.
LEMMA ReadersMove ==
  ASSUME IInv, NEW s \in Session, NEW u \in Users(s)
  PROVE  Moves(u) \/ \E v \in WaitsFor(u) : Moves(v)
<1>1. u \in Thread /\ pc[u] \in {"call", "remove"}
  BY DEF Users
<1>2. CASE AtMonitor(u)
  <2>1. monitor \in WaitsFor(u) /\ Moves(monitor)
    BY <1>1, <1>2, MonitorMoves DEF AtMonitor, WaitsFor
  <2> QED
    BY <2>1
<1>3. CASE ~AtMonitor(u)
  BY <1>1, <1>3 DEF Moves, AtPermits
<1> QED
  BY <1>2, <1>3

\* SessionManager.java:41: holding a permit while waiting for the monitor, and the monitor
\* while ArcSuite is called, never closes a circle: whatever a request waits for, two steps
\* on there is one that waits for nobody.
THEOREM NobodyWaitsInACircle == Spec => []NoCircularWait
<1>1. IInv => NoCircularWait
  <2> SUFFICES ASSUME IInv, NEW t \in Thread, pc[t] # "idle", ~Moves(t)
               PROVE  \E u \in WaitsFor(t) : Moves(u) \/ \E v \in WaitsFor(u) : Moves(v)
    BY DEF NoCircularWait
  <2>1. CASE AtMonitor(t)
    BY <2>1, MonitorMoves DEF AtMonitor, WaitsFor
  <2>2. CASE AtPermits(t)
    <3>1. handle[t] \in Session
      BY <2>2 DEF IInv, TypeOK, Requested, AtPermits
    \* As no permit is left, somebody holds one.
    <3>2. Users(handle[t]) # {}
      BY <2>2, <3>1, FS_EmptySet, SessionsAssumption
         DEF IInv, Accounting, SemaphoreAccounting, AtPermits
    <3>3. PICK u \in Users(handle[t]) : u \in Thread
      BY <3>2 DEF Users
    <3> QED
      BY <2>2, <3>1, <3>3, ReadersMove DEF WaitsFor
  <2> QED
    BY <2>1, <2>2 DEF Moves
<1> QED
  BY <1>1, Invariance, PTL
===============================================================================
