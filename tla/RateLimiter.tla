----------------------------- MODULE RateLimiter -----------------------------
(***************************************************************************)
(* utils/rate_limiter.py: what sends to many people takes a token first.   *)
(* Tokens come back as time passes, up to a burst; who finds none sleeps   *)
(* with the lock in hand until one is due.                                 *)
(***************************************************************************)
EXTENDS Gates

CONSTANTS
  Senders,
  Token,   \* parts of a token: the smallest amount the model sees
  Refill,  \* parts that come back in a tick
  Burst    \* the most there may be, in parts

ASSUME LimiterAssumption ==
  /\ Token \in Nat \ {0} /\ Refill \in Nat \ {0} /\ Burst \in Nat /\ Burst >= Token

VARIABLES
  tokens,      \* _tokens, in parts
  lastRefill,  \* None before the first acquire
  wakeAt,      \* wakeAt[s]: when sender s wakes, None when it does not sleep
  ahead        \* parts sent and not yet earned back (history)

limiterVars == <<tokens, lastRefill, wakeAt, ahead>>

LimiterInit ==
  /\ tokens = Burst
  /\ lastRefill = None
  /\ wakeAt = [s \in Senders |-> None]
  /\ ahead = 0

Least(a, b) == IF a < b THEN a ELSE b

Unlocked == \A s \in Senders : wakeAt[s] = None

\* Mutant: the burst is no limit.
Unbounded(n) == n

Bounded(n) == Least(Burst, n)

\* acquire: a token is taken, or the sender sleeps until there is one.
Acquire(s) ==
  LET have == Bounded(tokens + (IF lastRefill = None THEN 0 ELSE (now - lastRefill) * Refill))
      wait == (Token - have + Refill - 1) \div Refill
  IN
  /\ Unlocked
  /\ Spend("send")
  /\ lastRefill' = now
  /\ IF have < Token
     THEN tokens' = have /\ wakeAt' = [wakeAt EXCEPT ![s] = now + wait] /\ UNCHANGED ahead
     ELSE tokens' = have - Token /\ ahead' = ahead + Token /\ UNCHANGED wakeAt
  /\ UNCHANGED <<gateVars, now>>

\* The sleep is over, in time or late: the token that has come is spent.
Awake(s) ==
  /\ wakeAt[s] # None /\ now >= wakeAt[s]
  /\ wakeAt' = [wakeAt EXCEPT ![s] = None]
  /\ tokens' = 0
  /\ lastRefill' = now
  /\ ahead' = ahead + Token
  /\ UNCHANGED <<gateVars, now, left>>

\* A tick earns back what was sent.
Earn ==
  /\ ahead' = IF ahead > Refill THEN ahead - Refill ELSE 0
  /\ UNCHANGED <<tokens, lastRefill, wakeAt>>

LimiterNext == \E s \in Senders : Acquire(s) \/ Awake(s)
-----------------------------------------------------------------------------
\* In any stretch of time no more is sent than the burst and what the stretch brings.
SendsArePaced == ahead <= Burst
=============================================================================
