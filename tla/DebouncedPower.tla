--------------------------- MODULE DebouncedPower ---------------------------
(***************************************************************************)
(* What the power monitor promises a user, without tasks, cycles, sessions *)
(* or restarts: the confirmed state of a user changes only to a candidate  *)
(* that was proposed by a check, whose stabilisation timer ran to its end, *)
(* and that no check withdrew in between.  bot/services/power_monitor.py   *)
(* is the implementation; PowerMonitor refines this module.                *)
(***************************************************************************)
EXTENDS Naturals

CONSTANTS
  Users,      \* the telegram ids of users with a router
  None,       \* no state, no candidate, no timer
  Waits       \* the stabilisation times, in ticks, a timer may be armed with

VARIABLES
  conf,       \* conf[u]: the state users are told about
  cand,       \* cand[u]: the state under observation
  left        \* left[u]: what is left of the candidate's stabilisation time

vars == <<conf, cand, left>>

States == {"on", "off"}

Init ==
  /\ conf = [u \in Users |-> None]
  /\ cand = [u \in Users |-> None]
  /\ left = [u \in Users |-> None]

Becomes(u, c, p, l) == conf'[u] = c /\ cand'[u] = p /\ left'[u] = l

\* The first check of a user decides the confirmed state, without a message.
Seed(u) ==
  /\ conf[u] = None
  /\ \E s \in States : Becomes(u, s, None, None)

\* A restart brings back a state, and a candidate with part of its time spent.
Recover(u) ==
  /\ conf[u] = None
  /\ \E s \in States, p \in States \cup {None} :
        /\ p # s
        /\ IF p = None
           THEN Becomes(u, s, None, None)
           ELSE \E d \in Waits : \E l \in 0..d : Becomes(u, s, p, l)

\* The user is forgotten: evicted, or the process ends.
Forget(u) == Becomes(u, None, None, None)

\* A check contradicts the confirmed state.
Propose(u) ==
  /\ conf[u] # None /\ cand[u] = None
  /\ \E s \in States \ {conf[u]} : Becomes(u, conf[u], s, None)

Arm(u) ==
  /\ cand[u] # None /\ left[u] = None
  /\ \E d \in Waits : Becomes(u, conf[u], cand[u], d)

\* The timers are stopped when the monitor is.
Disarm(u) ==
  /\ left[u] # None
  /\ Becomes(u, conf[u], cand[u], None)

Wait(u) ==
  /\ left[u] # None /\ left[u] > 0
  /\ Becomes(u, conf[u], cand[u], left[u] - 1)

\* A check agrees with the confirmed state again.
Withdraw(u) ==
  /\ cand[u] # None
  /\ Becomes(u, conf[u], None, None)

Confirm(u) ==
  /\ cand[u] # None /\ left[u] = 0
  /\ Becomes(u, cand[u], None, None)

UserNext(u) ==
  \/ Seed(u) \/ Recover(u) \/ Forget(u) \/ Propose(u) \/ Arm(u)
  \/ Disarm(u) \/ Wait(u) \/ Withdraw(u) \/ Confirm(u)

\* One step of the monitor moves any number of users, each by one of its steps.
Next ==
  /\ conf' \in [Users -> States \cup {None}]
  /\ cand' \in [Users -> States \cup {None}]
  /\ DOMAIN left' = Users
  /\ \A u \in Users : UserNext(u) \/ Becomes(u, conf[u], cand[u], left[u])

Spec == Init /\ [][Next]_vars
=============================================================================
