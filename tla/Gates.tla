-------------------------------- MODULE Gates --------------------------------
(***************************************************************************)
(* What a press has to pass before it is answered: the throttle of         *)
(* middlewares/throttle.py and the cooldown of the button that refreshes   *)
(* the schedule (handlers/menu/schedule.py).  Both keep a map from users   *)
(* to times, which is cleaned now and then and never grows past a cap.     *)
(***************************************************************************)
EXTENDS Integers, Sequences, FiniteSets, TLC

CONSTANTS
  Users,
  Rate,        \* rate_limit of the throttle, in ticks
  EntryTtl,    \* _ENTRY_TTL
  CleanEvery,  \* _CLEANUP_INTERVAL and _LAST_CHECK_CLEANUP_INTERVAL
  MaxEntries,  \* _MAX_ENTRIES
  Cooldown,    \* refresh_cooldown
  MaxChecks,   \* _USER_LAST_CHECK_MAX_SIZE
  None,
  Scenes       \* how often each event may happen in one behaviour (a bound)

Events == {"tick", "check", "limited", "press", "show", "commit", "error", "mode", "send"}

ASSUME GatesAssumption ==
  /\ Rate \in Nat /\ EntryTtl \in Nat /\ Rate <= EntryTtl /\ CleanEvery \in Nat
  /\ MaxEntries \in Nat \ {0} /\ Cooldown \in Nat /\ MaxChecks \in Nat \ {0}
  /\ Scenes # {} /\ Scenes \subseteq [Events -> Nat]
  /\ None \notin Nat

VARIABLES
  now,        \* ticks since the start
  left,       \* what is left of the scene
  lastCall,   \* lastCall[u]: the throttle's entry of u, None when there is none
  cleanedAt,  \* when the throttle was cleaned
  lastCheck,  \* lastCheck[u]: the entry of _user_last_check
  checkedAt,  \* when that was cleaned
  handled,    \* handled[u]: when a press of u was last handled (history)
  begun,      \* begun[u]: when u last began a refresh (history)
  failed      \* those whose refresh has failed since (history)

gateVars == <<lastCall, cleanedAt, lastCheck, checkedAt, handled, begun, failed>>

Nobody == [u \in Users |-> None]

GatesInit ==
  /\ now = 0
  /\ left \in Scenes
  /\ lastCall = Nobody /\ cleanedAt = 0
  /\ lastCheck = Nobody /\ checkedAt = 0
  /\ handled = Nobody /\ begun = Nobody /\ failed = {}

Spend(k) == left[k] > 0 /\ left' = [left EXCEPT ![k] = @ - 1]

Entries(last) == {u \in Users : last[u] # None}

\* Entries of the last n ticks.
Within(last, n) == {u \in Entries(last) : now - last[u] < n}

Only(last, kept) == [u \in Users |-> IF u \in kept THEN last[u] ELSE None]

\* The n oldest entries of a map; which of two of the same age is left open.
Oldest(last, n) ==
  {old \in SUBSET Entries(last) :
     /\ Cardinality(old) = n
     /\ \A u \in old, v \in Entries(last) \ old : last[u] <= last[v]}
-----------------------------------------------------------------------------
Active(last) == Within(last, EntryTtl)

\* ThrottleMiddleware: the event of u passes and is handled, or it is dropped.
Throttle(u, passes) ==
  LET due == now - cleanedAt > CleanEvery
      kept == IF due THEN Only(lastCall, Active(lastCall)) ELSE lastCall
      size == Cardinality(Entries(kept))
  IN \E gone \in IF due /\ size > MaxEntries THEN Oldest(kept, size - MaxEntries) ELSE {{}} :
       LET calls == Only(kept, Entries(kept) \ gone)
       IN /\ passes = (u \notin Within(calls, Rate))
          /\ lastCall' = IF passes THEN [calls EXCEPT ![u] = now] ELSE calls
          /\ handled' = IF passes THEN [handled EXCEPT ![u] = now] ELSE handled
          /\ cleanedAt' = IF due THEN now ELSE cleanedAt

\* Mutant: the press is marked when it has been answered.
MarkedLater(last, u) == last

Marked(last, u) == [last EXCEPT ![u] = now]

\* How many go when the map of the cooldowns is full of fresh entries.
Evicted == IF MaxChecks < 10 THEN 1 ELSE MaxChecks \div 10

\* schedule_check up to its first fetch: the press begins a refresh and is marked, or it
\* is refused.
Cool(u, begins) ==
  LET due == now - checkedAt > CleanEvery
      kept == IF due THEN Only(lastCheck, Within(lastCheck, Cooldown)) ELSE lastCheck
      full == Cardinality(Entries(kept)) >= MaxChecks
      fresh == IF full THEN Only(kept, Within(kept, Cooldown)) ELSE kept
      still == Cardinality(Entries(fresh)) >= MaxChecks
  IN /\ begins = (u \notin Within(kept, Cooldown))
     /\ checkedAt' = IF due THEN now ELSE checkedAt
     /\ IF begins
        THEN /\ \E gone \in IF still THEN Oldest(fresh, Evicted) ELSE {{}} :
                  lastCheck' = Marked(Only(fresh, Entries(fresh) \ gone), u)
             /\ begun' = [begun EXCEPT ![u] = now]
             /\ failed' = failed \ {u}
        ELSE lastCheck' = kept /\ UNCHANGED <<begun, failed>>

\* A refresh that got nothing may be tried again at once.
Uncool(u) ==
  /\ lastCheck' = [lastCheck EXCEPT ![u] = None]
  /\ failed' = failed \cup {u}
=============================================================================
