---------------------------- MODULE RateLimiter -----------------------------
(***************************************************************************)
(* The token bucket of one client profile (RateLimiter in src/mcp/auth.ts).*)
(*                                                                         *)
(* Time is the wall clock, which may be set forth and back.  A token is    *)
(* Cost units, of which one comes back per tick, so that the fractions of  *)
(* the code are whole numbers.                                             *)
(***************************************************************************)
EXTENDS Integers

CONSTANTS
  Burst,     \* rateLimit.burst
  Cost,      \* ticks per token: 60000 / requestsPerMinute
  MaxTime,   \* bound: the last reading of the clock
  Never

VARIABLES
  clock,    \* Date.now()
  bucket,   \* [tokens, last], or Never before the first request
  window    \* history: [from, count], the requests admitted since some access; or Never

vars == <<clock, bucket, window>>

Max == Burst * Cost

Init ==
  /\ clock = 0 /\ bucket = Never /\ window = Never

\* Faulty: the bucket may fill without limit.
RefillUncapped == IF bucket = Never THEN Max ELSE bucket.tokens + (clock - bucket.last)

\* The tokens at this moment.
Refill ==
  IF bucket = Never THEN Max
  ELSE IF bucket.tokens + (clock - bucket.last) < Max THEN bucket.tokens + (clock - bucket.last) ELSE Max

\* A window may be opened at any access.
Count(admitted) ==
  \/ window' = [from |-> clock, count |-> admitted]
  \/ window # Never /\ window' = [window EXCEPT !.count = @ + admitted]
  \/ window = Never /\ UNCHANGED window

\* allow(): every access refills, whatever its answer.
Admit ==
  /\ Refill >= Cost
  /\ bucket' = [tokens |-> Refill - Cost, last |-> clock]
  /\ Count(1)
  /\ UNCHANGED clock

Deny ==
  /\ Refill < Cost
  /\ bucket' = [tokens |-> Refill, last |-> clock]
  /\ Count(0)
  /\ UNCHANGED clock

Tick == clock < MaxTime /\ clock' = clock + 1 /\ UNCHANGED <<bucket, window>>

SetClock ==
  /\ \E t \in 0..MaxTime : clock' = t
  /\ UNCHANGED <<bucket, window>>

Next == Admit \/ Deny \/ Tick \/ SetClock

Spec == Init /\ [][Next]_vars

-----------------------------------------------------------------------------
(* Properties. *)

\* From any access on, a client is admitted at most its burst and what its rate gives for the time
\* that its clock readings say has passed: setting the clock back and forth gains nothing.
RateBound ==
  [][Admit /\ window' # Never => window'.count * Cost <= Max + (clock - window'.from)]_vars

=============================================================================
