----------------------------- MODULE SourceClient -----------------------------
(***************************************************************************)
(* The client of the source, the gates in front of it and the limiter of   *)
(* what is sent live by one clock.                                         *)
(***************************************************************************)
EXTENDS ChartCache, RateLimiter

CONSTANT Patience  \* ticks after which a request for a date has timed out

ASSUME PatienceAssumption == Patience \in Nat

vars == <<now, left, gateVars, breakerVars, sourceVars, limiterVars>>

Init == GatesInit /\ BreakerInit /\ SourceInit /\ LimiterInit

Tick ==
  /\ Spend("tick")
  /\ \A c \in InFlight : now - ask[c].at < Patience
  /\ now' = now + 1
  /\ was' = Append(was, head)
  /\ Earn
  /\ UNCHANGED <<gateVars, breakerVars, head, cache, date, etag, l1, l2, onDemand, known, ask, reply, crossed>>

\* Nobody asks for anything.  No request waits, and no sender while the clock goes on.
Rest ==
  /\ \A c \in Callers : ask[c].pc = "idle"
  /\ Unlocked \/ left["tick"] = 0
  /\ UNCHANGED vars

Next ==
  \/ SourceNext /\ UNCHANGED limiterVars
  \/ LimiterNext /\ UNCHANGED <<breakerVars, sourceVars>>
  \/ Tick
  \/ Rest

Spec == Init /\ [][Next]_vars

-----------------------------------------------------------------------------
(* Properties                                                              *)

\* head n ticks before t.
Before(t, n) == was[IF t > n THEN t - n + 1 ELSE 1]

\* However the requests overtake one another, what they answer is recent.  Unless the
\* breaker is open, no file is older than the TTL: a late answer is stamped with the time
\* it was asked for.  A date that an answer or a fresh entry gave is that of a version not
\* older than its TTL and the patience of a request; unless two requests crossed, when a
\* 304 may bring an older date back.
AnswersAreRecent ==
  \A c \in Callers :
    LET r == ask[c] IN
    /\ r.pc = "got" /\ ~ r.stale /\ r.of # None => r.of >= Before(r.at, Ttl - 1)
    /\ r.pc = "dated" /\ r.sure /\ ~ crossed => r.src # None /\ r.src >= Before(r.at, DateTtl - 1 + Patience)

\* However many presses of a user are answered at once, two that are handled are one
\* throttle's rate apart, unless more users than its map holds press within it, and two
\* refreshes that reach the source begin one cooldown apart, unless the first has failed
\* or the map of the cooldowns was full of others who refresh within it.
PressesApart ==
  [][\A c \in Callers :
       /\ LET u == ask'[c].user IN
          ask[c].pc = "idle" /\ ask'[c].pc = "asked" /\ handled[u] # None =>
            now - handled[u] >= Rate \/ Cardinality(Within(handled, Rate)) > MaxEntries
       /\ LET u == ask[c].user IN
          /\ ask[c].pc = "asked" /\ ask'[c].pc \in {"get", "got"} /\ ask'[c].stage = "old"
          /\ begun[u] # None /\ u \notin failed
          => now - begun[u] >= Cooldown \/ Cardinality(Within(begun, Cooldown)) > MaxChecks + 1 - Evicted]_vars
=============================================================================
