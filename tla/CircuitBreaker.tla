---------------------------- MODULE CircuitBreaker ----------------------------
(***************************************************************************)
(* utils/circuit_breaker.py: calls to a source that keeps failing are      *)
(* refused for a while; then calls are let through to see whether it is    *)
(* back.  The state is looked at when a call begins and changed when it    *)
(* ends, so calls that began in one state end in another; and a call that  *)
(* is cancelled ends without its being changed at all.                     *)
(***************************************************************************)
EXTENDS Gates

CONSTANTS
  Callers,  \* requests that may be on their way at once
  FailMax,  \* fail_max
  Reset     \* reset_timeout, in ticks

ASSUME BreakerAssumption ==
  FailMax \in Nat \ {0} /\ Reset \in Nat \ {0} /\ IsFiniteSet(Callers)

VARIABLES
  state,     \* "closed", "open" or "half_open"
  failures,
  openedAt,
  calls,     \* calls let through since the last that ended well (history)
  goodAt,    \* when that was (history)
  cut        \* calls that were cancelled since (history)

breakerVars == <<state, failures, openedAt, calls, goodAt, cut>>

BreakerInit ==
  /\ state = "closed"
  /\ failures = 0
  /\ openedAt = 0
  /\ calls = 0
  /\ goodAt = 0
  /\ cut = 0

\* _get_state
State == IF state = "open" /\ now - openedAt >= Reset THEN "half_open" ELSE state

\* The call begins, or is refused; asking changes the state.
Allowed == State # "open"

BeginCall ==
  /\ state' = State
  /\ calls' = IF Allowed THEN calls + 1 ELSE calls
  /\ UNCHANGED <<failures, openedAt, goodAt, cut>>

\* _on_success, whatever the state is by now.
Succeed ==
  /\ state' = "closed"
  /\ failures' = 0
  /\ calls' = 0
  /\ goodAt' = now
  /\ cut' = 0
  /\ UNCHANGED openedAt

\* Mutant: the time of the first opening stays.
FirstOpening == IF openedAt = 0 THEN now ELSE openedAt

Opening == now

\* _on_failure
FailCall ==
  /\ failures' = failures + 1
  /\ IF state = "half_open" \/ failures' >= FailMax
     THEN state' = "open" /\ openedAt' = Opening
     ELSE UNCHANGED <<state, openedAt>>
  /\ UNCHANGED <<calls, goodAt, cut>>

\* CancelledError is no Exception: neither of the two is reached.
CutCall ==
  /\ cut' = cut + 1
  /\ UNCHANGED <<state, failures, openedAt, calls, goodAt>>
-----------------------------------------------------------------------------
\* Since a call last ended well, which is whatever is no exception (an answer with another
\* status or one that cannot be read, too), no more calls were let through than open the
\* breaker, were on their way by then and probe it each Reset, however they overlap; and
\* those that were cancelled, of which the breaker takes no notice: each of them is one
\* more call.
FailingSourceIsSpared ==
  calls <= FailMax - 1 + Cardinality(Callers) * (1 + (now - goodAt) \div Reset) + cut
=============================================================================
