----------------------------- MODULE RateLimit -----------------------------
(***************************************************************************)
(* The gateway's sliding window of one account or address. A gateway reads *)
(* its clock and sends a script to Redis with the time it read; Redis runs *)
(* the script later, perhaps after those of later calls.                   *)
(***************************************************************************)
EXTENDS Integers, FiniteSets

CONSTANTS
  Hits,       \* calls that are judged at one time
  RequestIds, \* values of X-Request-ID: the client's own, or a new UUID if it sends none
  PerWindow,  \* account_rate_limit, public_rate_limit, webhook_rate_limit
  Window,     \* rate_limit_window_seconds
  MaxTime     \* bound: of the clock

ASSUME RateAssumption ==
  PerWindow \in Nat \ {0} /\ Window \in Nat \ {0} /\ MaxTime \in Nat \ {0}

VARIABLES
  clock,
  hit,      \* the time that each call has read, or 0
  window,   \* the sorted set: its members with their scores
  renewed,  \* when the script has last set its expiry
  passed    \* members of all calls let through so far; calls of one id and time share one

limiterVars == <<clock, hit, window, renewed, passed>>

Times == 1..MaxTime

\* A member is named by the time that its call has read and by the call's request id.
Members == [at : Times, id : RequestIds]

LimiterTypeOK ==
  /\ clock \in Times
  /\ hit \in [Hits -> 0..MaxTime]
  /\ window \subseteq passed
  /\ renewed \in 0..MaxTime
  /\ passed \subseteq Members

LimiterInit ==
  /\ clock = 1
  /\ hit = [h \in Hits |-> 0]
  /\ window = {}
  /\ renewed = 0
  /\ passed = {}

After(members, time) == {m \in members : m.at > time}

Tick ==
  /\ clock < MaxTime
  /\ clock' = clock + 1
  /\ UNCHANGED <<hit, window, renewed, passed>>

ReadClock(h) ==
  /\ hit[h] = 0
  /\ hit' = [hit EXCEPT ![h] = clock]
  /\ UNCHANGED <<clock, window, renewed, passed>>

Member(now, id) == [at |-> now, id |-> id]

\* Every call let through sets the expiry anew. Mutant: only the first one of a window.
RenewedOnce == IF window = {} THEN clock ELSE renewed
Renewed == clock

RunScript(h, id) ==
  LET now == hit[h]
      kept == After(window, now - Window) IN
  /\ now # 0
  /\ hit' = [hit EXCEPT ![h] = 0]
  /\ IF Cardinality(kept) >= PerWindow
     THEN /\ window' = kept
          /\ UNCHANGED <<renewed, passed>>
     ELSE /\ window' = kept \cup {Member(now, id)}
          /\ renewed' = Renewed
          /\ passed' = passed \cup {Member(now, id)}
  /\ UNCHANGED clock

KeyExpires ==
  /\ window # {}
  /\ clock >= renewed + Window
  /\ window' = {}
  /\ UNCHANGED <<clock, hit, renewed, passed>>

LimiterNext ==
  \/ Tick
  \/ KeyExpires
  \/ \E h \in Hits : ReadClock(h) \/ \E id \in RequestIds : RunScript(h, id)

-----------------------------------------------------------------------------
UpTo(members, time) == {m \in members : m.at <= time}

\* A call that is judged at the time it has read is let through only if the window that
\* ends there has room, counting all that were let through, however late they were judged.
\* Calls with the same request id in the same millisecond count as one: a client that gives
\* each call an id of its own never has more than the limit in a window.
WindowBounded ==
  [][\A m \in passed' \ passed : m.at = clock =>
       Cardinality(UpTo(After(passed', clock - Window), clock)) <= PerWindow]_limiterVars
=============================================================================
