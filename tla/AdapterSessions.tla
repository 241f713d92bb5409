--------------------------- MODULE AdapterSessions ---------------------------
(***************************************************************************)
(* The ArcSuite session cache of the Java adapter (SessionManager.java)    *)
(* and the upstream service as the adapter meets it.                       *)
(*                                                                         *)
(* Each admitted HTTP handler is a Thread.  get(), forceLogin(), logout(), *)
(* close() and the removal before a retry are synchronized on the manager, *)
(* and hold its monitor across their calls to the upstream service; a      *)
(* read's own call runs outside the monitor under the semaphore of the     *)
(* session it was handed.  ArcSuite may end a session at any time.         *)
(*                                                                         *)
(* Time is abstracted to the profiles whose cached session is past its     *)
(* idle or maximum age, which get() replaces; any other it touches.  Ages  *)
(* are differences of readings of the wall clock, which may be set back at *)
(* any time: then a session that was too old is young again.  touch()      *)
(* keeps the semaphore, so a record and its touched copies are one Session *)
(* here.                                                                   *)
(***************************************************************************)
EXTENDS Integers, FiniteSets

CONSTANTS
  Thread,        \* request handlers that may run at once (activeRequests)
  Profile,       \* client profiles
  Session,       \* upstream session ids
  None,
  Concurrency    \* config.perSessionConcurrency()

ASSUME SessionsAssumption ==
  /\ IsFiniteSet(Session)
  /\ None \notin Session \cup Thread \cup Profile
  /\ Concurrency \in Nat \ {0}

VARIABLES
  sessions,   \* the map "sessions": the session cached for each profile
  stale,      \* the profiles whose cached session is past its idle or maximum age
  ended,      \* the profiles whose cached session has been logged out
  semaphore,  \* the permits left in each session's semaphore
  monitor,    \* the thread inside the manager's monitor
  pc,         \* where each thread is
  profile,    \* the profile of the thread's request
  handle,     \* the session a read was handed, or that is being replaced
  attempts,   \* business calls made by the read
  hook,       \* the shutdown hook: not run, HTTP server stopped, close() done
  setBack     \* history: the profiles whose cached session is young again although get()
              \* found it too old, because the clock was set back since

vars == <<sessions, stale, ended, semaphore, monitor, pc, profile,
          handle, attempts, hook, setBack>>

\* read: get, acquire, call, (remove,) release.  force: drop, logout, login.
Location == {"idle", "get", "getLogout", "getLogin", "acquire", "call", "remove",
             "drop", "dropLogout", "forceLogin", "end", "endLogout"}

TypeOK ==
  /\ sessions  \in [Profile -> Session \cup {None}]
  /\ stale     \subseteq Profile
  /\ ended     \subseteq Profile
  /\ setBack   \subseteq Profile
  /\ semaphore \in [Session -> 0..Concurrency]
  /\ monitor   \in Thread \cup {None}
  /\ pc        \in [Thread -> Location]
  /\ profile   \in [Thread -> Profile \cup {None}]
  /\ handle    \in [Thread -> Session \cup {None}]
  /\ attempts  \in [Thread -> Nat]
  /\ hook      \in {"none", "httpStopped", "closed"}

Init ==
  /\ sessions  = [p \in Profile |-> None]
  /\ stale     = {}
  /\ ended     = {}
  /\ setBack   = {}
  /\ semaphore = [s \in Session |-> Concurrency]
  /\ monitor   = None
  /\ pc        = [t \in Thread |-> "idle"]
  /\ profile   = [t \in Thread |-> None]
  /\ handle    = [t \in Thread |-> None]
  /\ attempts  = [t \in Thread |-> 0]
  /\ hook      = "none"

Cached == {sessions[p] : p \in Profile} \ {None}
Held   == {handle[t] : t \in Thread} \ {None}
Users(s) == {t \in Thread : pc[t] \in {"call", "remove"} /\ handle[t] = s}

\* The session ids no part of the program refers to.  The upstream service names the
\* next session; names carry no meaning here, so any of these stands for it.
FreshSessions == Session \ (Cached \cup Held)
NewId == CHOOSE s \in FreshSessions : TRUE

Goto(t, l) == pc' = [pc EXCEPT ![t] = l]

\* The request is over, with an answer or an error: its local variables are gone.
Return(t) ==
  /\ Goto(t, "idle")
  /\ profile'  = [profile EXCEPT ![t] = None]
  /\ handle'   = [handle EXCEPT ![t] = None]
  /\ attempts' = [attempts EXCEPT ![t] = 0]

-----------------------------------------------------------------------------
(* Requests, and what the upstream service and the clock do.                *)

\* A handler is admitted: a read, a forced login or a logout of a profile.
Request(t, p) ==
  /\ hook = "none"
  /\ pc[t] = "idle"
  /\ \E l \in {"get", "drop", "end"} : Goto(t, l)
  /\ profile'  = [profile EXCEPT ![t] = p]
  /\ UNCHANGED <<sessions, stale, ended, semaphore, monitor, handle, attempts, hook,
                 setBack>>

\* A cached session reaches its idle or maximum age.
Age(p) ==
  /\ sessions[p] # None
  /\ p \notin stale
  /\ stale'   = stale \cup {p}
  /\ setBack' = setBack \ {p}
  /\ UNCHANGED <<sessions, ended, semaphore, monitor, pc, profile, handle, attempts, hook>>

\* The sessions in the map that get() has found too old: it is about to log them out, or
\* has done so and failed to log in again.
FoundOld == ended \cup {p \in Profile : \E t \in Thread : pc[t] = "getLogout" /\ profile[t] = p}

\* The wall clock is set back: of the sessions that were too old, some are not, depending
\* on how far.
SetBack ==
  /\ \E old \in SUBSET stale :
       /\ old # stale
       /\ stale'   = old
       /\ setBack' = setBack \cup (FoundOld \cap (stale \ old))
  /\ UNCHANGED <<sessions, ended, semaphore, monitor, pc, profile, handle, attempts, hook>>

\* safeLogout: the upstream call may fail, which is ignored.
SafeLogout(s) == ended' = ended \cup {p \in Profile : sessions[p] = s}

-----------------------------------------------------------------------------
(* get(): synchronized.                                                     *)

Unusable(p) == sessions[p] = None \/ p \in stale

\* Faulty: touch() makes a new semaphore.
GetCachedAnew(t) ==
  LET p == profile[t] IN
  /\ pc[t] = "get"
  /\ monitor = None
  /\ ~Unusable(p)
  /\ handle' = [handle EXCEPT ![t] = sessions[p]]
  /\ semaphore' = [semaphore EXCEPT ![sessions[p]] = Concurrency]
  /\ Goto(t, "acquire")
  /\ UNCHANGED <<sessions, stale, ended, monitor, profile, attempts, hook, setBack>>

\* A usable session is touched and handed out in one step: no upstream call.
GetCached(t) ==
  LET p == profile[t] IN
  /\ pc[t] = "get"
  /\ monitor = None
  /\ ~Unusable(p)
  /\ handle' = [handle EXCEPT ![t] = sessions[p]]
  /\ Goto(t, "acquire")
  /\ UNCHANGED <<sessions, stale, ended, semaphore, monitor, profile,
                 attempts, hook, setBack>>

\* Otherwise the monitor is held while the old session, if any, is logged out...
GetRenew(t) ==
  LET p == profile[t] IN
  /\ pc[t] = "get"
  /\ monitor = None
  /\ Unusable(p)
  /\ monitor' = t
  /\ Goto(t, IF sessions[p] = None THEN "getLogin" ELSE "getLogout")
  /\ UNCHANGED <<sessions, stale, ended, semaphore, profile, handle,
                 attempts, hook, setBack>>

GetLogout(t) ==
  /\ pc[t] = "getLogout"
  /\ SafeLogout(sessions[profile[t]])
  /\ Goto(t, "getLogin")
  /\ UNCHANGED <<sessions, stale, semaphore, monitor, profile, handle,
                 attempts, hook, setBack>>

\* ...and until login() has returned a new session, which is put into the map and
\* handed out, or has failed, which leaves the old one in the map.
NewSession(s, p) ==
  /\ FreshSessions # {}
  /\ sessions'  = [sessions EXCEPT ![p] = s]
  /\ stale'     = stale \ {p}
  /\ ended'     = ended \ {p}
  /\ setBack'   = setBack \ {p}
  /\ semaphore' = [semaphore EXCEPT ![s] = Concurrency]

GetLogin(t) ==
  /\ pc[t] = "getLogin"
  /\ NewSession(NewId, profile[t])
  /\ handle' = [handle EXCEPT ![t] = NewId]
  /\ Goto(t, "acquire")
  /\ monitor' = None
  /\ UNCHANGED <<profile, attempts, hook>>

GetLoginFails(t) ==
  /\ pc[t] = "getLogin"
  /\ Return(t)
  /\ monitor' = None
  /\ UNCHANGED <<sessions, stale, ended, semaphore, hook, setBack>>

-----------------------------------------------------------------------------
(* read(): outside the monitor.                                             *)

\* s.semaphore().acquire().
Acquire(t) ==
  LET s == handle[t] IN
  /\ pc[t] = "acquire"
  /\ semaphore[s] > 0
  /\ semaphore' = [semaphore EXCEPT ![s] = @ - 1]
  /\ attempts'  = [attempts EXCEPT ![t] = @ + 1]
  /\ Goto(t, "call")
  /\ UNCHANGED <<sessions, stale, ended, monitor, profile, handle, hook, setBack>>

\* The HTTP executor's shutdownNow() interrupts a thread that waits.
AcquireInterrupted(t) ==
  /\ pc[t] = "acquire"
  /\ hook # "none"
  /\ Return(t)
  /\ UNCHANGED <<sessions, stale, ended, semaphore, monitor, hook, setBack>>

Release(t) == semaphore' = [semaphore EXCEPT ![handle[t]] = @ + 1]

\* Faulty: a call that throws keeps its permit.
CallEndsUnreleased(t) ==
  /\ pc[t] = "call"
  /\ Release(t) \/ UNCHANGED semaphore
  /\ Return(t)
  /\ UNCHANGED <<sessions, stale, ended, monitor, hook, setBack>>

\* call.run(s.id()) returns, or throws anything but a first session expiry.
CallEnds(t) ==
  /\ pc[t] = "call"
  /\ Release(t)
  /\ Return(t)
  /\ UNCHANGED <<sessions, stale, ended, monitor, hook, setBack>>

\* The upstream service has dropped the session, as it may at any time, and the call
\* throws ARCSUITE_SESSION_EXPIRED for the first time: the thread goes for the
\* monitor, still holding its permit.
CallExpired(t) ==
  /\ pc[t] = "call"
  /\ attempts[t] = 1
  /\ Goto(t, "remove")
  /\ UNCHANGED <<sessions, stale, ended, semaphore, monitor, profile, handle,
                 attempts, hook, setBack>>

\* Faulty: the expired session stays in the map.
RetryWithoutRemove(t) ==
  /\ pc[t] = "remove"
  /\ monitor = None
  /\ Release(t)
  /\ Goto(t, "get")
  /\ UNCHANGED <<sessions, stale, ended, monitor, profile, handle, attempts, hook, setBack>>

\* The map entry of the profile is removed, whichever session it names by now; the
\* permit is given back and the read starts over (its variable s still names the
\* session that expired).
RemoveAndRetry(t) ==
  /\ pc[t] = "remove"
  /\ monitor = None
  /\ sessions' = [sessions EXCEPT ![profile[t]] = None]
  /\ stale'    = stale \ {profile[t]}
  /\ ended'    = ended \ {profile[t]}
  /\ setBack'  = setBack \ {profile[t]}
  /\ Release(t)
  /\ Goto(t, "get")
  /\ UNCHANGED <<monitor, profile, handle, attempts, hook>>

-----------------------------------------------------------------------------
(* forceLogin(), logout() and close(): synchronized.                        *)

\* Faulty: sessions.get(profile).
DropKeeps(t) ==
  /\ pc[t] \in {"drop", "end"}
  /\ monitor = None
  /\ monitor'  = t
  /\ handle'   = [handle EXCEPT ![t] = sessions[profile[t]]]
  /\ Goto(t, IF pc[t] = "drop" THEN "dropLogout" ELSE "endLogout")
  /\ UNCHANGED <<sessions, stale, ended, semaphore, profile, attempts, hook, setBack>>

\* sessions.remove(profile): the monitor is taken; the removed session, if any, is
\* logged out and, for forceLogin, a new one logged in and put.
Drop(t) ==
  LET s == sessions[profile[t]] IN
  /\ pc[t] \in {"drop", "end"}
  /\ monitor = None
  /\ monitor'  = t
  /\ sessions' = [sessions EXCEPT ![profile[t]] = None]
  /\ stale'    = stale \ {profile[t]}
  /\ ended'    = ended \ {profile[t]}
  /\ setBack'  = setBack \ {profile[t]}
  /\ handle'   = [handle EXCEPT ![t] = s]
  /\ Goto(t, IF pc[t] = "drop" THEN "dropLogout" ELSE "endLogout")
  /\ UNCHANGED <<semaphore, profile, attempts, hook>>

DropLogout(t) ==
  /\ pc[t] \in {"dropLogout", "endLogout"}
  /\ IF handle[t] = None THEN UNCHANGED ended ELSE SafeLogout(handle[t])
  /\ \/ /\ pc[t] = "dropLogout"
        /\ handle' = [handle EXCEPT ![t] = None]
        /\ Goto(t, "forceLogin")
        /\ UNCHANGED <<profile, attempts, monitor>>
     \/ /\ pc[t] = "endLogout"
        /\ Return(t)
        /\ monitor' = None
  /\ UNCHANGED <<sessions, stale, semaphore, hook, setBack>>

\* login() may fail: the profile is left without a session.
ForceLogin(t) ==
  /\ pc[t] = "forceLogin"
  /\ \/ NewSession(NewId, profile[t])
     \/ UNCHANGED <<sessions, stale, ended, semaphore, setBack>>
  /\ Return(t)
  /\ monitor' = None
  /\ UNCHANGED hook

\* The shutdown hook of Main: the HTTP server takes no more requests and interrupts
\* its threads...
StopHttp ==
  /\ hook = "none"
  /\ hook' = "httpStopped"
  /\ UNCHANGED <<sessions, stale, ended, semaphore, monitor, pc, profile,
                 handle, attempts, setBack>>

\* ...then every cached session is logged out and the map cleared, under the
\* monitor.  Reads in flight can tell only whether their own session is still
\* accepted, so the logouts are one step.
CloseSessions ==
  /\ hook = "httpStopped"
  /\ monitor = None
  /\ hook'     = "closed"
  /\ sessions' = [p \in Profile |-> None]
  /\ ended'    = {}
  /\ stale'    = {}
  /\ setBack'  = {}
  /\ UNCHANGED <<semaphore, monitor, pc, profile, handle, attempts>>

-----------------------------------------------------------------------------
Get(t)    == GetCached(t) \/ GetRenew(t) \/ GetLogout(t) \/ GetLogin(t) \/ GetLoginFails(t)
Read(t)   == Acquire(t) \/ AcquireInterrupted(t) \/ CallEnds(t) \/ CallExpired(t) \/ RemoveAndRetry(t)
Manage(t) == Drop(t) \/ DropLogout(t) \/ ForceLogin(t)

Next ==
  \/ \E t \in Thread : Get(t) \/ Read(t) \/ Manage(t)
  \/ \E t \in Thread, p \in Profile : Request(t, p)
  \/ \E p \in Profile : Age(p)
  \/ SetBack \/ StopHttp \/ CloseSessions

Spec == Init /\ [][Next]_vars

\* A thread that can take a step again and again takes one: threads keep running,
\* every upstream call returns (it has a deadline), the semaphore is fair, and a
\* thread that waits for the monitor is not passed over for ever.
Fairness == \A t \in Thread : SF_vars(Get(t) \/ Read(t) \/ Manage(t))

FairSpec == Spec /\ Fairness
-----------------------------------------------------------------------------
(* Properties.                                                              *)

\* The permits of a session's semaphore and the reads running under it add up to
\* the configured concurrency, across touches, retries, logouts and replacement of
\* the session while it is in use: at most Concurrency calls run on one session.
SemaphoreAccounting ==
  \A s \in Session : semaphore[s] + Cardinality(Users(s)) = Concurrency

\* A failed login leaves a session in the map that the adapter has already logged out,
\* and a forced login or a logout ends one that readers share.  get() hands out such a
\* session only if it is young again because the clock was set back: no order of renewals,
\* failures, removals and shutdown suffices.
NeverHandsOutEnded ==
  [][\A t \in Thread :
       pc[t] # "acquire" /\ pc'[t] = "acquire" /\ profile[t] \in ended' =>
         profile[t] \in setBack']_vars

\* The only retry of a read is never spent on the very session that expired.
RetryOnAnotherSession ==
  [][\A t \in Thread :
       pc[t] = "get" /\ pc'[t] = "acquire" /\ attempts[t] = 1 =>
         handle'[t] # handle[t]]_vars

\* Every request ends: reads waiting for a permit, for the monitor while holding a
\* permit, and for a monitor held across a login never block one another for good.
EveryRequestEnds == \A t \in Thread : pc[t] # "idle" ~> pc[t] = "idle"

\* What docs/configuration.md says of ARCSUITE_PER_SESSION_CONCURRENCY: the calls
\* made for one profile are bounded by it.
ProfileConcurrency ==
  \A p \in Profile :
    Cardinality({t \in Thread : pc[t] = "call" /\ profile[t] = p}) <= Concurrency
==============================================================================
