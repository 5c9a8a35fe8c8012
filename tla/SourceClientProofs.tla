------------------------- MODULE SourceClientProofs -------------------------
(***************************************************************************)
(* Proofs about the client of the source.  What is sent is paced: what was *)
(* sent ahead is missing from the bucket, and a sender that sleeps finds   *)
(* its token when it wakes.  The presses of a user stay apart: who is      *)
(* missing from a map was dropped for those who came later.  What is       *)
(* answered is recent: it is stamped with a time at which the source had   *)
(* it already.                                                             *)
(***************************************************************************)
EXTENDS SourceClient, TLAPS, FiniteSetTheorems

\* Parts that have come back since the last refill and are not counted yet.
Gain == IF lastRefill = None THEN 0 ELSE (now - lastRefill) * Refill

LimiterType ==
  /\ now \in Nat
  /\ tokens \in 0..Burst
  /\ ahead \in Nat
  /\ lastRefill \in Nat \cup {None}
  /\ lastRefill # None => lastRefill <= now
  /\ wakeAt \in [Senders -> Nat \cup {None}]

\* What was sent ahead is missing from the bucket.
Covered == ahead + Bounded(tokens + Gain) <= Burst

\* Who sleeps has the lock, and its token is there when it wakes.
Enough(s) ==
  /\ lastRefill # None
  /\ wakeAt[s] \in Nat /\ wakeAt[s] >= lastRefill
  /\ tokens + (wakeAt[s] - lastRefill) * Refill >= Token

SleeperInv ==
  /\ \A s \in Senders : wakeAt[s] # None => Enough(s)
  /\ \A s, t \in Senders : wakeAt[s] # None /\ wakeAt[t] # None => s = t

LimiterInv == LimiterType /\ Covered /\ SleeperInv
-----------------------------------------------------------------------------
(* Arithmetic                                                              *)

LEMMA Product ==
  ASSUME NEW a \in Nat, NEW b \in Nat
  PROVE  a * b \in Nat /\ (a + 1) * b = a * b + b
  OBVIOUS

LEMMA Monotone ==
  ASSUME NEW a \in Nat, NEW b \in Nat, NEW c \in Nat, a <= b
  PROVE  a * c <= b * c
  <1>1. PICK d \in Nat : b = a + d
    BY b - a \in Nat
  <1>2. b * c = a * c + d * c /\ d * c \in Nat /\ a * c \in Nat
    BY <1>1
  <1> QED
    BY <1>2

\* Division rounded up.
LEMMA Ceiling ==
  ASSUME NEW a \in Nat, NEW b \in Nat \ {0}
  PROVE  /\ (a + b - 1) \div b \in Nat
         /\ ((a + b - 1) \div b) * b >= a
  OBVIOUS

\* What a tick brings is earned back: at most as much as it adds to the bucket.
LEMMA Earned ==
  ASSUME NEW most \in Nat, NEW have \in Nat, NEW gain \in Nat, NEW more \in Nat,
         NEW sent \in Nat, NEW back \in Nat,
         more <= gain + back,
         sent + Least(most, have + gain) <= most
  PROVE  (IF sent > back THEN sent - back ELSE 0) + Least(most, have + more) <= most
  BY DEF Least
-----------------------------------------------------------------------------
(* The limiter                                                             *)

LEMMA LimiterStarts == Init => LimiterInv
  <1> SUFFICES ASSUME Init
               PROVE  LimiterInv
    OBVIOUS
  <1>1. /\ now = 0 /\ tokens = Burst /\ lastRefill = None /\ ahead = 0
        /\ wakeAt = [s \in Senders |-> None]
    BY DEF Init, GatesInit, LimiterInit
  <1>2. LimiterType
    BY <1>1, LimiterAssumption DEF LimiterAssumption, LimiterType
  <1>3. Covered
    BY <1>1, LimiterAssumption DEF LimiterAssumption, Covered, Gain, Bounded, Least
  <1> QED
    BY <1>1, <1>2, <1>3 DEF LimiterInv, SleeperInv

\* What the bucket holds and what has come back.
LEMMA Gained ==
  ASSUME LimiterType
  PROVE  Gain \in Nat /\ Bounded(tokens + Gain) \in 0..Burst
  <1>1. Gain \in Nat
    <2>1. CASE lastRefill = None
      BY <2>1 DEF Gain
    <2>2. CASE lastRefill # None
      <3>1. now - lastRefill \in Nat /\ Refill \in Nat
        BY <2>2, LimiterAssumption DEF LimiterAssumption, LimiterType
      <3> QED
        BY <2>2, <3>1, Product DEF Gain
    <2> QED
      BY <2>1, <2>2
  <1> QED
    BY <1>1, LimiterAssumption DEF LimiterAssumption, LimiterType, Bounded, Least

LEMMA AcquirePaces ==
  ASSUME LimiterInv, NEW s \in Senders, Acquire(s)
  PROVE  LimiterInv'
  <1> DEFINE have == Bounded(tokens + Gain)
             wait == (Token - have + Refill - 1) \div Refill
  <1>1. LimiterType /\ have \in 0..Burst /\ ahead + have <= Burst
    BY Gained DEF LimiterInv, Covered
  <1>2. /\ Token \in Nat \ {0} /\ Refill \in Nat \ {0} /\ Burst \in Nat /\ Burst >= Token
        /\ None \notin Nat
    BY LimiterAssumption, GatesAssumption DEF LimiterAssumption, GatesAssumption
  <1>3. now' = now /\ lastRefill' = now /\ now \in Nat
    BY <1>1 DEF Acquire, LimiterType
  <1>4. Gain' = 0
    BY <1>2, <1>3 DEF Gain
  <1>5. \A t \in Senders : wakeAt[t] = None
    BY DEF Acquire, Unlocked
  <1>6. CASE have < Token
    <2>1. tokens' = have /\ wakeAt' = [wakeAt EXCEPT ![s] = now + wait] /\ ahead' = ahead
      BY <1>6 DEF Acquire, Gain
    <2>2. Token - have \in Nat
      BY <1>1, <1>2, <1>6
    <2>3. wait \in Nat /\ wait * Refill >= Token - have
      BY <1>2, <2>2, Ceiling
    <2> HIDE DEF have, wait
    <2>4. LimiterType'
      BY <1>1, <1>2, <1>3, <2>1, <2>3 DEF LimiterType
    <2>5. Covered'
      BY <1>1, <1>2, <1>4, <2>1 DEF Covered, Bounded, Least
    <2>6. SleeperInv'
      <3>1. wakeAt'[s] = now + wait /\ \A t \in Senders : t # s => wakeAt'[t] = None
        BY <1>1, <1>5, <2>1 DEF LimiterType
      <3>2. (now + wait) - now = wait
        BY <1>3, <2>3
      <3>3. Enough(s)'
        BY <1>1, <1>2, <1>3, <2>1, <2>3, <3>1, <3>2 DEF Enough
      <3> QED
        BY <3>1, <3>3 DEF SleeperInv
    <2> QED
      BY <2>4, <2>5, <2>6 DEF LimiterInv
  <1>7. CASE ~ (have < Token)
    <2>1. tokens' = have - Token /\ ahead' = ahead + Token /\ wakeAt' = wakeAt
      BY <1>7 DEF Acquire, Gain
    <2> HIDE DEF have
    <2>2. LimiterType'
      BY <1>1, <1>2, <1>3, <1>7, <2>1 DEF LimiterType
    <2>3. Covered'
      BY <1>1, <1>2, <1>4, <1>7, <2>1 DEF Covered, Bounded, Least, LimiterType
    <2>4. SleeperInv'
      BY <1>5, <2>1 DEF SleeperInv
    <2> QED
      BY <2>2, <2>3, <2>4 DEF LimiterInv
  <1> QED
    BY <1>6, <1>7

LEMMA AwakePaces ==
  ASSUME LimiterInv, NEW s \in Senders, Awake(s)
  PROVE  LimiterInv'
  <1>1. /\ LimiterType /\ Covered /\ Enough(s)
        /\ \A t \in Senders : t # s => wakeAt[t] = None
    BY DEF LimiterInv, SleeperInv, Awake
  <1>2. /\ Token \in Nat \ {0} /\ Refill \in Nat \ {0} /\ Burst \in Nat /\ Burst >= Token
        /\ None \notin Nat
    BY LimiterAssumption, GatesAssumption DEF LimiterAssumption, GatesAssumption
  <1>3. /\ wakeAt' = [wakeAt EXCEPT ![s] = None] /\ tokens' = 0 /\ lastRefill' = now
        /\ ahead' = ahead + Token /\ now' = now /\ now >= wakeAt[s]
    BY DEF Awake
  <1>4. Gain >= (wakeAt[s] - lastRefill) * Refill
    <2>1. /\ wakeAt[s] - lastRefill \in Nat /\ now - lastRefill \in Nat
          /\ wakeAt[s] - lastRefill <= now - lastRefill
      BY <1>1, <1>2, <1>3 DEF Enough, LimiterType
    <2> QED
      BY <1>1, <1>2, <2>1, Monotone DEF Gain, Enough
  <1>5. tokens + Gain >= Token
    <2> DEFINE due == (wakeAt[s] - lastRefill) * Refill
    <2>1. wakeAt[s] - lastRefill \in Nat
      BY <1>1, <1>2 DEF Enough, LimiterType
    <2>2. due \in Nat
      BY <1>2, <2>1, Product
    <2>3. tokens \in Nat /\ tokens + due >= Token
      BY <1>1, <1>2 DEF Enough, LimiterType
    <2>4. Gain >= due
      BY <1>4
    <2>5. Gain \in Nat
      BY <1>1, Gained
    <2> HIDE DEF due
    <2> QED
      BY <1>2, <2>2, <2>3, <2>4, <2>5
  <1>6. ahead + Token <= Burst
    BY <1>1, <1>2, <1>5, Gained DEF Covered, Bounded, Least, LimiterType
  <1>7. LimiterType'
    BY <1>1, <1>2, <1>3 DEF LimiterType
  <1>8. Covered'
    BY <1>1, <1>2, <1>3, <1>6 DEF Covered, Gain, Bounded, Least, LimiterType
  <1>9. SleeperInv'
    BY <1>1, <1>3 DEF SleeperInv, LimiterType
  <1> QED
    BY <1>7, <1>8, <1>9 DEF LimiterInv

LEMMA TickPaces ==
  ASSUME LimiterInv, Tick
  PROVE  LimiterInv'
  <1>1. LimiterType /\ Covered /\ SleeperInv
    BY DEF LimiterInv
  <1>2. Refill \in Nat \ {0} /\ Burst \in Nat /\ None \notin Nat
    BY LimiterAssumption, GatesAssumption DEF LimiterAssumption, GatesAssumption
  <1>3. /\ now' = now + 1 /\ UNCHANGED <<tokens, lastRefill, wakeAt>>
        /\ ahead' = IF ahead > Refill THEN ahead - Refill ELSE 0
    BY DEF Tick, Earn
  <1>4. LimiterType'
    BY <1>1, <1>2, <1>3 DEF LimiterType
  <1>5. Gain' \in Nat /\ Gain' <= Gain + Refill
    <2>1. CASE lastRefill = None
      BY <1>2, <1>3, <2>1 DEF Gain
    <2>2. CASE lastRefill # None
      <3>1. now - lastRefill \in Nat /\ now' - lastRefill' = (now - lastRefill) + 1
        BY <1>1, <1>2, <1>3, <2>2 DEF LimiterType
      <3> DEFINE n == now - lastRefill
      <3>2. Gain = n * Refill /\ Gain' = (n + 1) * Refill
        BY <1>3, <2>2, <3>1 DEF Gain
      <3>3. n * Refill \in Nat /\ (n + 1) * Refill = n * Refill + Refill
        BY <1>2, <3>1, Product
      <3> HIDE DEF n
      <3> QED
        BY <1>2, <3>2, <3>3
    <2> QED
      BY <2>1, <2>2
  <1>6. Covered'
    <2>1. Gain \in Nat /\ ahead \in Nat /\ tokens \in Nat
      BY <1>1, <1>2, Gained DEF LimiterType
    <2>2. /\ Gain' \in Nat /\ Gain' <= Gain + Refill
          /\ ahead' = IF ahead > Refill THEN ahead - Refill ELSE 0
          /\ ahead + Least(Burst, tokens + Gain) <= Burst
      BY <1>1, <1>3, <1>5 DEF Covered, Bounded
    <2>3. ahead' + Least(Burst, tokens + Gain') <= Burst
      BY <1>2, <2>1, <2>2, Earned
    <2> QED
      BY <1>3, <2>3 DEF Covered, Bounded
  <1>7. SleeperInv'
    BY <1>1, <1>3 DEF SleeperInv, Enough
  <1> QED
    BY <1>4, <1>6, <1>7 DEF LimiterInv

\* The other parts of the client leave the clock alone.
LEMMA SourceKeepsTime == SourceNext => now' = now
  <1> SUFFICES ASSUME SourceNext
               PROVE  now' = now
    OBVIOUS
  <1> USE DEF rest, charting
  <1>1. CASE SetMode \/ NewVersion
    BY <1>1 DEF SetMode, NewVersion
  <1>2. ASSUME NEW c \in Callers,
               \/ CheckFetch(c) \/ LimitedFetch(c) \/ EndLimited(c)
               \/ MenuSchedule(c) \/ ScheduleCheck(c)
        PROVE  now' = now
    BY <1>2 DEF CheckFetch, LimitedFetch, EndLimited, MenuSchedule, ScheduleCheck
  <1>3. ASSUME NEW c \in Callers, NEW u \in Users, Press(c, u)
        PROVE  now' = now
    BY <1>3 DEF Press
  <1>4. ASSUME NEW c \in Callers, Serve(c) \/ Arrive(c) \/ DateAnswer(c)
        PROVE  now' = now
    BY <1>4 DEF Serve, Arrive, DateAnswer
  <1>5. ASSUME NEW c \in Callers, Compare(c) \/ Prerender(c) \/ Refreshed(c) \/ Show(c)
        PROVE  now' = now
    BY <1>5 DEF Compare, Prerender, Refreshed, Show
  <1>6. ASSUME NEW c \in Callers,
               LookInMemory(c) \/ LookInRedis(c) \/ Draw(c) \/ GitHubImage(c) \/ Keep(c)
        PROVE  now' = now
    BY <1>6 DEF LookInMemory, LookInRedis, Draw, GitHubImage, Keep
  <1> QED
    BY <1>1, <1>2, <1>3, <1>4, <1>5, <1>6 DEF SourceNext

LEMMA LimiterHolds == LimiterInv /\ [Next]_vars => LimiterInv'
  <1> SUFFICES ASSUME LimiterInv, [Next]_vars
               PROVE  LimiterInv'
    OBVIOUS
  <1>1. ASSUME UNCHANGED <<now, limiterVars>>
        PROVE  LimiterInv'
    BY <1>1 DEF limiterVars, LimiterInv, LimiterType, Covered, Gain, SleeperInv, Enough
  <1>2. CASE SourceNext /\ UNCHANGED limiterVars
    BY <1>1, <1>2, SourceKeepsTime
  <1>3. CASE LimiterNext
    BY <1>3, AcquirePaces, AwakePaces DEF LimiterNext
  <1>4. CASE Tick
    BY <1>4, TickPaces
  <1>5. CASE Rest \/ UNCHANGED vars
    BY <1>1, <1>5 DEF Rest, vars
  <1> QED
    BY <1>2, <1>3, <1>4, <1>5 DEF Next

\* However its senders overlap, sleep and wake late, the limiter lets no more go, in any
\* stretch of time, than the burst and what comes back in that time.
THEOREM SendsStayPaced == Spec => []SendsArePaced
  <1>1. LimiterInv => SendsArePaced
    BY Gained, LimiterAssumption DEF LimiterInv, LimiterType, Covered, SendsArePaced, LimiterAssumption
  <1> QED
    BY <1>1, LimiterStarts, LimiterHolds, PTL DEF Spec
-----------------------------------------------------------------------------
(* The gates                                                               *)

\* Users with an entry no older than t.
Since(m, t) == {u \in Entries(m) : m[u] >= t}

Timed(m) == m \in [Users -> Nat \cup {None}] /\ \A u \in Entries(m) : m[u] <= now

GateType ==
  /\ now \in Nat
  /\ Timed(lastCall) /\ Timed(lastCheck) /\ Timed(handled) /\ Timed(begun)
  /\ IsFiniteSet(Entries(handled)) /\ IsFiniteSet(Entries(begun))

\* The throttle's map holds the time of the last press, unless that is old or more
\* have pressed since than the map holds.
HandledIn(m) ==
  \A u \in Users :
    /\ m[u] # None => m[u] = handled[u]
    /\ handled[u] # None =>
         \/ m[u] = handled[u]
         \/ now - handled[u] >= EntryTtl
         \/ Cardinality(Since(handled, handled[u])) > MaxEntries

\* So does that of the cooldowns, unless the refresh has failed.
BegunIn(m) ==
  \A u \in Users :
    /\ m[u] # None => m[u] = begun[u]
    /\ begun[u] # None /\ u \notin failed =>
         \/ m[u] = begun[u]
         \/ now - begun[u] >= Cooldown
         \/ Cardinality(Since(begun, begun[u])) > MaxChecks + 1 - Evicted

GateInv == GateType /\ HandledIn(lastCall) /\ BegunIn(lastCheck)

LEMMA GateNumbers ==
  /\ None \notin Nat /\ Rate \in Nat /\ EntryTtl \in Nat /\ Rate <= EntryTtl /\ Cooldown \in Nat
  /\ MaxEntries \in Nat \ {0} /\ MaxChecks \in Nat \ {0} /\ Evicted \in Nat /\ Evicted <= MaxChecks
  BY GatesAssumption DEF GatesAssumption, Evicted

\* What is left of a map.
LEMMA Kept ==
  ASSUME NEW m, Timed(m), NEW S \in SUBSET Users
  PROVE  /\ Timed(Only(m, S)) /\ Entries(Only(m, S)) = Entries(m) \cap S
         /\ \A u \in Users : Only(m, S)[u] = IF u \in S THEN m[u] ELSE None
  BY DEF Timed, Only, Entries

\* When the oldest go, the others stay.
LEMMA OldestGo ==
  ASSUME NEW m, Timed(m), IsFiniteSet(Entries(m)), NEW n \in Nat, NEW gone \in Oldest(m, n),
         NEW u \in gone
  PROVE  /\ u \in Entries(m) /\ IsFiniteSet(Entries(m) \ gone)
         /\ Cardinality(Entries(m) \ gone) = Cardinality(Entries(m)) - n
         /\ \A v \in Entries(m) \ gone : m[u] <= m[v]
  <1>1. gone \in SUBSET Entries(m) /\ Cardinality(gone) = n
    BY DEF Oldest
  <1>2. Entries(m) \cap gone = gone
    BY <1>1
  <1>3. /\ IsFiniteSet(Entries(m) \ gone)
        /\ Cardinality(Entries(m) \ gone) = Cardinality(Entries(m)) - n
    BY <1>1, <1>2, FS_Difference
  <1> QED
    BY <1>1, <1>3 DEF Oldest

\* Whoever has stayed is younger, and so are those who come later.
LEMMA Younger ==
  ASSUME NEW m, Timed(m), IsFiniteSet(Entries(m)), NEW t \in Nat, NEW S \in SUBSET Since(m, t)
  PROVE  /\ IsFiniteSet(Since(m, t)) /\ Cardinality(S) \in Nat /\ Cardinality(Since(m, t)) \in Nat
         /\ Cardinality(S) <= Cardinality(Since(m, t))
  <1>1. Since(m, t) \in SUBSET Entries(m)
    BY DEF Since
  <1>2. IsFiniteSet(Since(m, t))
    BY <1>1, FS_Subset
  <1>3. IsFiniteSet(S) /\ Cardinality(S) <= Cardinality(Since(m, t))
    BY <1>2, FS_Subset
  <1> QED
    BY <1>2, <1>3, FS_CardinalityType

\* A new time.
LEMMA Stamped ==
  ASSUME NEW m, Timed(m), IsFiniteSet(Entries(m)), now \in Nat, NEW u \in Users
  PROVE  /\ Timed(Marked(m, u)) /\ IsFiniteSet(Entries(Marked(m, u))) /\ Entries(Marked(m, u)) = Entries(m) \cup {u} /\ Marked(m, u)[u] = now
         /\ \A v \in Users : v # u => Marked(m, u)[v] = m[v]
         /\ \A t \in Nat : t <= now => Since(Marked(m, u), t) = Since(m, t) \cup {u}
         /\ \A t \in Nat :
              t <= now => Cardinality(Since(m, t)) <= Cardinality(Since(Marked(m, u), t))
  <1> DEFINE k == Marked(m, u)
  <1>1. None \notin Nat
    BY GateNumbers
  <1>2. k \in [Users -> Nat \cup {None}] /\ k[u] = now /\ \A v \in Users : v # u => k[v] = m[v]
    BY DEF Timed, Marked
  <1> HIDE DEF k
  <1>3. Entries(k) = Entries(m) \cup {u}
    BY <1>1, <1>2 DEF Entries
  <1>4. Timed(k) /\ IsFiniteSet(Entries(k))
    <2>1. IsFiniteSet(Entries(k))
      BY <1>3, FS_AddElement
    <2>2. \A v \in Entries(k) : k[v] <= now
      BY <1>2, <1>3 DEF Timed, Entries
    <2> QED
      BY <1>2, <2>1, <2>2 DEF Timed
  <1>5. ASSUME NEW t \in Nat, t <= now
        PROVE  Since(k, t) = Since(m, t) \cup {u}
    <2>1. \A v \in Entries(m) : v \in Users /\ m[v] \in Nat /\ m[v] <= now
      BY DEF Timed, Entries
    <2>2. k[u] >= t
      BY <1>2, <1>5
    <2>3. \A v \in Users : v \in Since(k, t) <=> (v \in Since(m, t) \/ v = u)
      BY <1>2, <1>3, <2>2 DEF Since
    <2> QED
      BY <2>1, <1>3, <2>3 DEF Since
  <1>6. ASSUME NEW t \in Nat, t <= now
        PROVE  Cardinality(Since(m, t)) <= Cardinality(Since(k, t))
    <2>1. Since(m, t) \in SUBSET Since(k, t)
      BY <1>5, <1>6
    <2> QED
      BY <1>4, <2>1, Younger
  <1> QED
    BY <1>2, <1>3, <1>4, <1>5, <1>6 DEF k

\* What the throttle looks at: the map after the clean-up.
Seen(entries) ==
  LET due == now - cleanedAt > CleanEvery
      kept == IF due THEN Only(lastCall, Active(lastCall)) ELSE lastCall
      size == Cardinality(Entries(kept))
  IN \E gone \in IF due /\ size > MaxEntries THEN Oldest(kept, size - MaxEntries) ELSE {{}} :
       entries = Only(kept, Entries(kept) \ gone)

LEMMA SeenHandled ==
  ASSUME GateInv, NEW entries, Seen(entries)
  PROVE  Timed(entries) /\ HandledIn(entries)
  <1> DEFINE due == now - cleanedAt > CleanEvery
             kept == IF due THEN Only(lastCall, Active(lastCall)) ELSE lastCall
             size == Cardinality(Entries(kept))
  <1>1. PICK gone \in IF due /\ size > MaxEntries THEN Oldest(kept, size - MaxEntries) ELSE {{}} :
          entries = Only(kept, Entries(kept) \ gone)
    BY DEF Seen
  <1>2. /\ now \in Nat /\ Timed(lastCall) /\ Timed(handled) /\ IsFiniteSet(Entries(handled))
        /\ HandledIn(lastCall)
    BY DEF GateInv, GateType
  <1>3. Active(lastCall) \in SUBSET Users
    BY DEF Active, Within, Entries
  <1>4. /\ Timed(kept)
        /\ \A u \in Users : /\ kept[u] # None => kept[u] = lastCall[u]
                            /\ kept[u] = None /\ lastCall[u] # None => now - lastCall[u] >= EntryTtl
    <2>1. CASE due
      <3>1. kept = Only(lastCall, Active(lastCall))
        BY <2>1
      <3>2. Timed(kept) /\ \A u \in Users : kept[u] = IF u \in Active(lastCall) THEN lastCall[u] ELSE None
        BY <1>2, <1>3, <3>1, Kept
      <3>3. ASSUME NEW u \in Users, lastCall[u] # None, u \notin Active(lastCall)
            PROVE  now - lastCall[u] >= EntryTtl
        <4>1. u \in Entries(lastCall) /\ lastCall[u] \in Nat
          BY <1>2, <3>3 DEF Entries, Timed
        <4> QED
          BY <1>2, <3>3, <4>1, GateNumbers DEF Active, Within
      <3> QED
        BY <3>2, <3>3
    <2>2. CASE ~ due
      BY <1>2, <2>2
    <2> QED
      BY <2>1, <2>2
  <1> HIDE DEF kept
  <1>5. IsFiniteSet(Entries(kept)) /\ Entries(kept) \subseteq Users
    <2>1. Entries(kept) \in SUBSET Entries(handled)
      BY <1>2, <1>4 DEF Entries, HandledIn
    <2> QED
      BY <1>2, <2>1, FS_Subset DEF Entries
  <1>6. size \in Nat
    BY <1>5, FS_CardinalityType
  <1>7. /\ Timed(entries)
        /\ \A u \in Users : entries[u] = IF u \in Entries(kept) \ gone THEN kept[u] ELSE None
    BY <1>1, <1>4, <1>5, Kept
  <1>8. ASSUME NEW u \in Users, u \in gone
        PROVE  handled[u] # None /\ Cardinality(Since(handled, handled[u])) > MaxEntries
    <2>1. gone \in Oldest(kept, size - MaxEntries) /\ size > MaxEntries
      BY <1>1, <1>8
    <2> HIDE DEF size
    <2>2. size - MaxEntries \in Nat
      BY <1>6, <2>1, GateNumbers
    <2> DEFINE others == Entries(kept) \ gone
    <2>3. /\ u \in Entries(kept) /\ IsFiniteSet(others)
          /\ Cardinality(others) = size - (size - MaxEntries)
          /\ \A v \in others : kept[u] <= kept[v]
      BY <1>4, <1>5, <1>8, <2>1, <2>2, OldestGo DEF size
    <2>4. \A v \in Entries(kept) : v \in Entries(handled) /\ kept[v] = handled[v]
      BY <1>2, <1>4, <1>5 DEF Entries, HandledIn
    <2>5. handled[u] \in Nat
      BY <1>2, <2>3, <2>4, GateNumbers DEF Entries, Timed
    <2>6. \A v \in Entries(kept) : handled[v] \in Nat
      BY <1>2, <2>4, GateNumbers DEF Entries, Timed
    <2>7. others \cup {u} \in SUBSET Since(handled, handled[u])
      <3>1. \A v \in others : v \in Entries(handled) /\ handled[v] >= handled[u]
        BY <2>3, <2>4, <2>5, <2>6
      <3>2. u \in Entries(handled) /\ handled[u] >= handled[u]
        BY <2>3, <2>4, <2>5
      <3> QED
        BY <3>1, <3>2 DEF Since
    <2>8. Cardinality(others \cup {u}) = MaxEntries + 1
      <3>1. u \notin others
        BY <1>8
      <3>2. Cardinality(others) = MaxEntries
        BY <1>6, <2>3, GateNumbers
      <3> QED
        BY <2>3, <3>1, <3>2, FS_AddElement
    <2> HIDE DEF others
    <2>9. Cardinality(others \cup {u}) <= Cardinality(Since(handled, handled[u]))
          /\ Cardinality(Since(handled, handled[u])) \in Nat
      BY <1>2, <2>5, <2>7, Younger
    <2> QED
      BY <2>5, <2>8, <2>9, GateNumbers
  <1>9. ASSUME NEW u \in Users
        PROVE  /\ entries[u] # None => entries[u] = handled[u]
               /\ handled[u] # None =>
                    \/ entries[u] = handled[u]
                    \/ now - handled[u] >= EntryTtl
                    \/ Cardinality(Since(handled, handled[u])) > MaxEntries
    <2>1. /\ lastCall[u] # None => lastCall[u] = handled[u]
          /\ handled[u] # None =>
               \/ lastCall[u] = handled[u]
               \/ now - handled[u] >= EntryTtl
               \/ Cardinality(Since(handled, handled[u])) > MaxEntries
      BY <1>2 DEF HandledIn
    <2>2. u \in Entries(kept) <=> kept[u] # None
      BY DEF Entries
    <2> QED
      BY <1>4, <1>7, <1>8, <2>1, <2>2
  <1> QED
    BY <1>7, <1>9 DEF HandledIn

LEMMA ThrottleSees ==
  ASSUME NEW u, NEW passes, Throttle(u, passes)
  PROVE  \E entries :
           /\ Seen(entries) /\ passes = (u \notin Within(entries, Rate))
           /\ lastCall' = IF passes THEN [entries EXCEPT ![u] = now] ELSE entries
           /\ handled' = IF passes THEN [handled EXCEPT ![u] = now] ELSE handled
  BY DEF Throttle, Seen

LEMMA ThrottleKeeps ==
  ASSUME GateInv, NEW u \in Users, NEW passes \in BOOLEAN, Throttle(u, passes),
         UNCHANGED <<now, lastCheck, begun, failed>>
  PROVE  GateInv'
  <1>1. PICK entries :
          /\ Seen(entries)
          /\ lastCall' = IF passes THEN [entries EXCEPT ![u] = now] ELSE entries
          /\ handled' = IF passes THEN [handled EXCEPT ![u] = now] ELSE handled
    BY ThrottleSees
  <1>2. Timed(entries) /\ HandledIn(entries)
    BY <1>1, SeenHandled
  <1>3. /\ now \in Nat /\ Timed(handled) /\ IsFiniteSet(Entries(handled))
    BY DEF GateInv, GateType
  <1>4. BegunIn(lastCheck)'
    BY DEF GateInv, BegunIn, Since, Entries
  <1>5. Timed(lastCheck)' /\ Timed(begun)' /\ IsFiniteSet(Entries(begun))' /\ now' \in Nat
    BY DEF GateInv, GateType, Timed, Entries
  <1>6. CASE ~ passes
    <2>1. lastCall' = entries /\ handled' = handled
      BY <1>1, <1>6
    <2> QED
      BY <1>2, <1>3, <1>4, <1>5, <2>1 DEF GateInv, GateType, Timed, HandledIn, Entries, Since
  <1>7. CASE passes
    <2>1. lastCall' = [entries EXCEPT ![u] = now] /\ handled' = [handled EXCEPT ![u] = now]
      BY <1>1, <1>7
    <2>2. /\ Timed(handled') /\ IsFiniteSet(Entries(handled')) /\ handled'[u] = now
          /\ \A v \in Users : v # u => handled'[v] = handled[v]
          /\ \A t \in Nat : t <= now => Cardinality(Since(handled, t)) <= Cardinality(Since(handled', t))
      <3>1. handled' = Marked(handled, u)
        BY <2>1 DEF Marked
      <3> QED
        BY <1>3, <3>1, Stamped
    <2>3. Timed(lastCall') /\ lastCall'[u] = now /\ \A v \in Users : v # u => lastCall'[v] = entries[v]
      <3>1. lastCall' \in [Users -> Nat \cup {None}] /\ lastCall'[u] = now
            /\ \A v \in Users : v # u => lastCall'[v] = entries[v]
        BY <1>2, <1>3, <2>1 DEF Timed
      <3>2. \A v \in Entries(lastCall') : lastCall'[v] <= now
        BY <1>2, <1>3, <3>1 DEF Timed, Entries
      <3> QED
        BY <3>1, <3>2 DEF Timed
    <2>4. Timed(lastCall)' /\ Timed(handled)' /\ IsFiniteSet(Entries(handled))'
      BY <2>2, <2>3 DEF Timed, Entries
    <2>5. HandledIn(lastCall)'
      <3>1. ASSUME NEW v \in Users, v # u
            PROVE  /\ lastCall'[v] # None => lastCall'[v] = handled'[v]
                   /\ handled'[v] # None =>
                        \/ lastCall'[v] = handled'[v]
                        \/ now' - handled'[v] >= EntryTtl
                        \/ Cardinality(Since(handled', handled'[v])) > MaxEntries
        <4>1. lastCall'[v] = entries[v] /\ handled'[v] = handled[v] /\ now' = now
          BY <2>2, <2>3, <3>1
        <4>2. ASSUME handled[v] # None
              PROVE  /\ handled[v] \in Nat /\ handled[v] <= now
                     /\ Cardinality(Since(handled, handled[v])) \in Nat
                     /\ Cardinality(Since(handled', handled[v])) \in Nat
                     /\ Cardinality(Since(handled, handled[v])) <= Cardinality(Since(handled', handled[v]))
          <5>1. handled[v] \in Nat /\ handled[v] <= now
            BY <1>3, <4>2 DEF Timed, Entries
          <5>2. /\ Cardinality(Since(handled, handled[v])) \in Nat
                /\ Cardinality(Since(handled', handled[v])) \in Nat
            <6>1. \A m : Since(m, handled[v]) \in SUBSET Since(m, handled[v])
              OBVIOUS
            <6> QED
              BY <1>3, <2>2, <5>1, <6>1, Younger
          <5> QED
            BY <2>2, <5>1, <5>2
        <4>3. handled[v] # None /\ Cardinality(Since(handled, handled[v])) > MaxEntries =>
                Cardinality(Since(handled', handled[v])) > MaxEntries
          BY <4>2, GateNumbers
        <4> QED
          BY <1>2, <4>1, <4>3 DEF HandledIn
      <3>2. lastCall'[u] = handled'[u]
        BY <2>2, <2>3
      <3> QED
        BY <3>1, <3>2 DEF HandledIn, Since, Entries
    <2> QED
      BY <1>4, <1>5, <2>4, <2>5 DEF GateInv, GateType
  <1> QED
    BY <1>6, <1>7

\* A press that passes comes a rate later, or after more than the map holds.
LEMMA ThrottleParts ==
  ASSUME GateInv, NEW u \in Users, Throttle(u, TRUE), handled[u] # None
  PROVE  now - handled[u] >= Rate \/ Cardinality(Within(handled, Rate)) > MaxEntries
  <1>1. PICK entries : Seen(entries) /\ u \notin Within(entries, Rate)
    BY ThrottleSees
  <1>2. Timed(entries) /\ HandledIn(entries)
    BY <1>1, SeenHandled
  <1>3. /\ now \in Nat /\ Timed(handled) /\ IsFiniteSet(Entries(handled))
        /\ handled[u] \in Nat /\ handled[u] <= now
    BY DEF GateInv, GateType, Timed, Entries
  <1>4. SUFFICES ASSUME now - handled[u] < Rate
                 PROVE  Cardinality(Within(handled, Rate)) > MaxEntries
    BY <1>3, GateNumbers
  <1>5. entries[u] # handled[u]
    BY <1>1, <1>3, <1>4, GateNumbers DEF Within, Entries
  <1>6. Cardinality(Since(handled, handled[u])) > MaxEntries
    BY <1>2, <1>3, <1>4, <1>5, GateNumbers DEF HandledIn
  <1>7. Since(handled, handled[u]) \in SUBSET Within(handled, Rate)
    <2>1. \A v \in Entries(handled) : handled[v] \in Nat
      BY <1>3, GateNumbers DEF Timed, Entries
    <2> QED
      BY <1>3, <1>4, <2>1, GateNumbers DEF Since, Within
  <1>8. IsFiniteSet(Within(handled, Rate))
    <2>1. Within(handled, Rate) \in SUBSET Entries(handled)
      BY DEF Within
    <2> QED
      BY <1>3, <2>1, FS_Subset
  <1>9. /\ Cardinality(Since(handled, handled[u])) \in Nat /\ Cardinality(Within(handled, Rate)) \in Nat
        /\ Cardinality(Since(handled, handled[u])) <= Cardinality(Within(handled, Rate))
    <2>1. IsFiniteSet(Since(handled, handled[u]))
      BY <1>7, <1>8, FS_Subset
    <2> QED
      BY <1>7, <1>8, <2>1, FS_Subset, FS_CardinalityType
  <1> QED
    BY <1>6, <1>9, GateNumbers

\* What has cooled down may be dropped.
LEMMA Aged ==
  ASSUME now \in Nat, Timed(begun), IsFiniteSet(Entries(begun)), NEW m, Timed(m), BegunIn(m)
  PROVE  LET fresh == Only(m, Within(m, Cooldown)) IN
         /\ Timed(fresh) /\ BegunIn(fresh) /\ Entries(fresh) = Within(m, Cooldown)
  <1> DEFINE fresh == Only(m, Within(m, Cooldown))
  <1>1. Within(m, Cooldown) \in SUBSET Users /\ Entries(m) \cap Within(m, Cooldown) = Within(m, Cooldown)
    BY DEF Within, Entries
  <1>2. /\ Timed(fresh) /\ Entries(fresh) = Within(m, Cooldown)
        /\ \A v \in Users : fresh[v] = IF v \in Within(m, Cooldown) THEN m[v] ELSE None
    BY <1>1, Kept
  <1> HIDE DEF fresh
  <1>3. ASSUME NEW v \in Users
        PROVE  /\ fresh[v] # None => fresh[v] = begun[v]
               /\ begun[v] # None /\ v \notin failed =>
                    \/ fresh[v] = begun[v]
                    \/ now - begun[v] >= Cooldown
                    \/ Cardinality(Since(begun, begun[v])) > MaxChecks + 1 - Evicted
    <2>1. /\ m[v] # None => m[v] = begun[v]
          /\ begun[v] # None /\ v \notin failed =>
               \/ m[v] = begun[v]
               \/ now - begun[v] >= Cooldown
               \/ Cardinality(Since(begun, begun[v])) > MaxChecks + 1 - Evicted
      BY DEF BegunIn
    <2>2. m[v] # None /\ v \notin Within(m, Cooldown) => now - m[v] >= Cooldown
      <3>1. SUFFICES ASSUME m[v] # None, v \notin Within(m, Cooldown)
                     PROVE  now - m[v] >= Cooldown
        OBVIOUS
      <3>2. v \in Entries(m) /\ m[v] \in Nat
        BY <3>1, GateNumbers DEF Entries, Timed
      <3> QED
        BY <3>1, <3>2, GateNumbers DEF Within
    <2> QED
      BY <1>2, <2>1, <2>2
  <1>4. BegunIn(fresh)
    BY <1>3 DEF BegunIn
  <1> QED
    BY <1>2, <1>4 DEF fresh

\* What the button looks at, and what it leaves of the others.
Cooled ==
  IF now - checkedAt > CleanEvery THEN Only(lastCheck, Within(lastCheck, Cooldown)) ELSE lastCheck

Fresh ==
  IF Cardinality(Entries(Cooled)) >= MaxChecks THEN Only(Cooled, Within(Cooled, Cooldown)) ELSE Cooled

Full == Cardinality(Entries(Fresh)) >= MaxChecks

LEMMA CoolDoes ==
  ASSUME NEW u, NEW begins \in BOOLEAN, Cool(u, begins)
  PROVE  /\ begins = (u \notin Within(Cooled, Cooldown))
         /\ ~ begins => lastCheck' = Cooled /\ UNCHANGED <<begun, failed>>
         /\ begins =>
              /\ \E gone \in IF Full THEN Oldest(Fresh, Evicted) ELSE {{}} :
                   lastCheck' = Marked(Only(Fresh, Entries(Fresh) \ gone), u)
              /\ begun' = Marked(begun, u) /\ failed' = failed \ {u}
  <1>1. CASE begins
    BY <1>1 DEF Cool, Cooled, Fresh, Full, Marked
  <1>2. CASE ~ begins
    BY <1>2 DEF Cool, Cooled
  <1> QED
    BY <1>1, <1>2 DEF Cool, Cooled

LEMMA CooledBegun ==
  ASSUME GateInv
  PROVE  /\ Timed(Cooled) /\ BegunIn(Cooled) /\ Timed(Fresh) /\ BegunIn(Fresh)
         /\ IsFiniteSet(Entries(Cooled)) /\ IsFiniteSet(Entries(Fresh))
         /\ Full => Entries(Fresh) = Within(Cooled, Cooldown)
  <1>1. /\ now \in Nat /\ Timed(begun) /\ IsFiniteSet(Entries(begun))
        /\ Timed(lastCheck) /\ BegunIn(lastCheck)
    BY DEF GateInv, GateType
  <1>2. Timed(Cooled) /\ BegunIn(Cooled)
    BY <1>1, Aged DEF Cooled
  <1>3. Timed(Fresh) /\ BegunIn(Fresh)
    BY <1>1, <1>2, Aged DEF Fresh
  <1>4. ASSUME NEW m, BegunIn(m)
        PROVE  IsFiniteSet(Entries(m))
    <2>1. Entries(m) \in SUBSET Entries(begun)
      BY <1>4 DEF BegunIn, Entries
    <2> QED
      BY <1>1, <2>1, FS_Subset
  <1>5. Full => Entries(Fresh) = Within(Cooled, Cooldown)
    <2>1. Full => Cardinality(Entries(Cooled)) >= MaxChecks
      BY DEF Full, Fresh
    <2>2. Entries(Only(Cooled, Within(Cooled, Cooldown))) = Within(Cooled, Cooldown)
      BY <1>1, <1>2, Aged
    <2> QED
      BY <2>1, <2>2 DEF Fresh
  <1> QED
    BY <1>2, <1>3, <1>4, <1>5

\* Whoever is evicted began before all who stay, and before the one who comes.
LEMMA EvictedBefore ==
  ASSUME GateInv, NEW u \in Users, u \notin Within(Cooled, Cooldown),
         NEW gone \in IF Full THEN Oldest(Fresh, Evicted) ELSE {{}}, NEW v \in gone
  PROVE  /\ v \in Users /\ begun[v] \in Nat
         /\ v # u =>
              Cardinality(Since(Marked(begun, u), begun[v])) > MaxChecks + 1 - Evicted
  <1>1. Full /\ gone \in Oldest(Fresh, Evicted)
    OBVIOUS
  <1>2. /\ now \in Nat /\ Timed(begun) /\ IsFiniteSet(Entries(begun))
    BY DEF GateInv, GateType
  <1>3. /\ Timed(Fresh) /\ BegunIn(Fresh) /\ IsFiniteSet(Entries(Fresh))
        /\ u \notin Entries(Fresh)
    BY <1>1, CooledBegun
  <1> DEFINE others == Entries(Fresh) \ gone
             size == Cardinality(Entries(Fresh))
  <1>4. /\ v \in Entries(Fresh) /\ IsFiniteSet(others) /\ Cardinality(others) = size - Evicted
        /\ \A w \in others : Fresh[v] <= Fresh[w]
    BY <1>1, <1>3, OldestGo, GateNumbers
  <1>5. \A w \in Entries(Fresh) : w \in Users /\ w \in Entries(begun) /\ Fresh[w] = begun[w] /\ begun[w] \in Nat
    <2>1. \A w \in Entries(Fresh) : w \in Users /\ Fresh[w] # None
      BY DEF Entries
    <2>2. \A w \in Entries(Fresh) : Fresh[w] = begun[w] /\ w \in Entries(begun)
      BY <1>3, <2>1 DEF BegunIn, Entries
    <2> QED
      BY <1>2, <2>1, <2>2 DEF Timed
  <1>6. begun[v] \in Nat /\ begun[v] <= now /\ v \in Users
    BY <1>2, <1>4, <1>5 DEF Timed
  <1>7. SUFFICES ASSUME v # u
                 PROVE  Cardinality(Since(Marked(begun, u), begun[v])) > MaxChecks + 1 - Evicted
    BY <1>6
  <1>8. /\ Timed(Marked(begun, u)) /\ IsFiniteSet(Entries(Marked(begun, u)))
        /\ Since(Marked(begun, u), begun[v]) = Since(begun, begun[v]) \cup {u}
    BY <1>2, <1>6, Stamped
  <1>9. others \cup {v} \in SUBSET Since(begun, begun[v])
    <2>1. \A w \in others : w \in Entries(begun) /\ begun[w] >= begun[v]
      BY <1>4, <1>5
    <2>2. v \in Entries(begun) /\ begun[v] >= begun[v]
      BY <1>4, <1>5
    <2> QED
      BY <2>1, <2>2 DEF Since
  <1>10. (others \cup {v}) \cup {u} \in SUBSET Since(Marked(begun, u), begun[v])
    BY <1>8, <1>9
  <1>11. Cardinality((others \cup {v}) \cup {u}) = size - Evicted + 2
    <2>1. v \notin others /\ u \notin others \cup {v}
      BY <1>3, <1>7
    <2>2. size \in Nat
      BY <1>3, FS_CardinalityType
    <2>3. IsFiniteSet(others \cup {v}) /\ Cardinality(others \cup {v}) = size - Evicted + 1
      BY <1>4, <2>1, FS_AddElement
    <2>4. Cardinality((others \cup {v}) \cup {u}) = Cardinality(others \cup {v}) + 1
      BY <2>1, <2>3, FS_AddElement
    <2> HIDE DEF others, size
    <2> QED
      BY <2>2, <2>3, <2>4, GateNumbers
  <1>12. size \in Nat /\ size >= MaxChecks
    BY <1>1, <1>3, FS_CardinalityType DEF Full
  <1> HIDE DEF others, size
  <1>13. /\ Cardinality((others \cup {v}) \cup {u}) <= Cardinality(Since(Marked(begun, u), begun[v]))
         /\ Cardinality(Since(Marked(begun, u), begun[v])) \in Nat
    BY <1>6, <1>8, <1>10, Younger
  <1> QED
    BY <1>11, <1>12, <1>13, GateNumbers

LEMMA CoolKeeps ==
  ASSUME GateInv, NEW u \in Users, NEW begins \in BOOLEAN, Cool(u, begins),
         UNCHANGED <<now, lastCall, handled>>
  PROVE  GateInv'
  <1>1. /\ now \in Nat /\ now' = now /\ Timed(begun) /\ IsFiniteSet(Entries(begun))
    BY DEF GateInv, GateType
  <1>2. /\ Timed(Cooled) /\ BegunIn(Cooled) /\ Timed(Fresh) /\ BegunIn(Fresh)
    BY CooledBegun
  <1>3. /\ HandledIn(lastCall)' /\ Timed(lastCall)' /\ Timed(handled)' /\ IsFiniteSet(Entries(handled))'
        /\ now' \in Nat
    BY DEF GateInv, GateType, Timed, Entries, HandledIn, Since
  <1>4. CASE ~ begins
    <2>1. lastCheck' = Cooled /\ begun' = begun /\ failed' = failed
      BY <1>4, CoolDoes
    <2> HIDE DEF Cooled
    <2>2. Timed(lastCheck)' /\ Timed(begun)' /\ IsFiniteSet(Entries(begun))' /\ BegunIn(lastCheck)'
      BY <1>1, <1>2, <2>1 DEF Timed, Entries, BegunIn, Since
    <2> QED
      BY <1>3, <2>2 DEF GateInv, GateType
  <1>5. CASE begins
    <2>1. PICK gone \in IF Full THEN Oldest(Fresh, Evicted) ELSE {{}} :
            lastCheck' = Marked(Only(Fresh, Entries(Fresh) \ gone), u)
      BY <1>5, CoolDoes
    <2>2. u \notin Within(Cooled, Cooldown) /\ begun' = Marked(begun, u) /\ failed' = failed \ {u}
      BY <1>5, CoolDoes
    <2> DEFINE others == Entries(Fresh) \ gone
               left1 == Only(Fresh, others)
    <2>3. /\ Timed(left1) /\ Entries(left1) = Entries(Fresh) \cap others
          /\ \A v \in Users : left1[v] = IF v \in others THEN Fresh[v] ELSE None
      <3>1. others \in SUBSET Users
        BY DEF Entries
      <3> HIDE DEF others
      <3> QED
        BY <1>2, <3>1, Kept
    <2>4. /\ Timed(begun') /\ IsFiniteSet(Entries(begun')) /\ begun'[u] = now
          /\ \A v \in Users : v # u => begun'[v] = begun[v]
          /\ \A t \in Nat : t <= now => Cardinality(Since(begun, t)) <= Cardinality(Since(begun', t))
      BY <1>1, <2>2, Stamped
    <2>5. Timed(lastCheck') /\ lastCheck'[u] = now /\ \A v \in Users : v # u => lastCheck'[v] = left1[v]
      <3>1. lastCheck' = [left1 EXCEPT ![u] = now]
        BY <2>1 DEF Marked
      <3> HIDE DEF left1
      <3>2. lastCheck' \in [Users -> Nat \cup {None}] /\ lastCheck'[u] = now
            /\ \A v \in Users : v # u => lastCheck'[v] = left1[v]
        BY <1>1, <2>3, <3>1 DEF Timed
      <3>3. \A v \in Entries(lastCheck') : lastCheck'[v] <= now
        BY <1>1, <2>3, <3>2 DEF Timed, Entries
      <3> QED
        BY <3>2, <3>3 DEF Timed
    <2> HIDE DEF left1
    <2>6. Timed(lastCheck)' /\ Timed(begun)' /\ IsFiniteSet(Entries(begun))'
      BY <1>1, <2>4, <2>5 DEF Timed, Entries
    <2>7. BegunIn(lastCheck)'
      <3>1. ASSUME NEW v \in Users, v # u
            PROVE  /\ lastCheck'[v] # None => lastCheck'[v] = begun'[v]
                   /\ begun'[v] # None /\ v \notin failed' =>
                        \/ lastCheck'[v] = begun'[v]
                        \/ now' - begun'[v] >= Cooldown
                        \/ Cardinality(Since(begun', begun'[v])) > MaxChecks + 1 - Evicted
        <4>1. /\ lastCheck'[v] = IF v \in others THEN Fresh[v] ELSE None
              /\ begun'[v] = begun[v] /\ (v \in failed' <=> v \in failed)
          BY <2>2, <2>3, <2>4, <2>5, <3>1
        <4>2. /\ Fresh[v] # None => Fresh[v] = begun[v]
              /\ begun[v] # None /\ v \notin failed =>
                   \/ Fresh[v] = begun[v]
                   \/ now - begun[v] >= Cooldown
                   \/ Cardinality(Since(begun, begun[v])) > MaxChecks + 1 - Evicted
          BY <1>2 DEF BegunIn
        <4>3. Fresh[v] # None => v \in others \/ v \in gone
          BY DEF Entries
        <4>4. v \in gone => Cardinality(Since(begun', begun[v])) > MaxChecks + 1 - Evicted
          BY <2>2, <3>1, EvictedBefore
        <4>5. begun[v] # None /\ Cardinality(Since(begun, begun[v])) > MaxChecks + 1 - Evicted
                => Cardinality(Since(begun', begun[v])) > MaxChecks + 1 - Evicted
          <5>1. SUFFICES ASSUME begun[v] # None, Cardinality(Since(begun, begun[v])) > MaxChecks + 1 - Evicted
                         PROVE  Cardinality(Since(begun', begun[v])) > MaxChecks + 1 - Evicted
            OBVIOUS
          <5>2. begun[v] \in Nat /\ begun[v] <= now
            BY <1>1, <5>1 DEF Timed, Entries
          <5>3. /\ Cardinality(Since(begun, begun[v])) \in Nat
                /\ Cardinality(Since(begun', begun[v])) \in Nat
            <6>1. \A m : Since(m, begun[v]) \in SUBSET Since(m, begun[v])
              OBVIOUS
            <6> QED
              BY <1>1, <2>4, <5>2, <6>1, Younger
          <5>4. Cardinality(Since(begun, begun[v])) <= Cardinality(Since(begun', begun[v]))
            BY <2>4, <5>2
          <5> QED
            BY <5>1, <5>3, <5>4, GateNumbers
        <4> HIDE DEF others
        <4>6. CASE begun[v] # None /\ v \notin failed
          <5>1. CASE Fresh[v] = begun[v]
            BY <1>1, <4>1, <4>3, <4>4, <4>6, <5>1
          <5>2. CASE now - begun[v] >= Cooldown
            BY <1>1, <4>1, <4>2, <5>2
          <5>3. CASE Cardinality(Since(begun, begun[v])) > MaxChecks + 1 - Evicted
            BY <4>1, <4>2, <4>5, <4>6, <5>3
          <5> QED
            BY <4>2, <4>6, <5>1, <5>2, <5>3
        <4> QED
          BY <4>1, <4>2, <4>6
      <3>2. lastCheck'[u] = begun'[u]
        BY <2>4, <2>5
      <3> QED
        BY <3>1, <3>2 DEF BegunIn, Since, Entries
    <2> QED
      BY <1>3, <2>6, <2>7 DEF GateInv, GateType
  <1> QED
    BY <1>4, <1>5

\* A refresh that begins comes a cooldown later, or others have filled the map, or it has
\* failed.
LEMMA CoolParts ==
  ASSUME GateInv, NEW u \in Users, Cool(u, TRUE), begun[u] # None, u \notin failed
  PROVE  now - begun[u] >= Cooldown \/ Cardinality(Within(begun, Cooldown)) > MaxChecks + 1 - Evicted
  <1>1. u \notin Within(Cooled, Cooldown)
    BY CoolDoes
  <1>2. Timed(Cooled) /\ BegunIn(Cooled)
    BY CooledBegun
  <1>3. /\ now \in Nat /\ Timed(begun) /\ IsFiniteSet(Entries(begun))
        /\ begun[u] \in Nat /\ begun[u] <= now
    BY DEF GateInv, GateType, Timed, Entries
  <1>4. SUFFICES ASSUME now - begun[u] < Cooldown
                 PROVE  Cardinality(Within(begun, Cooldown)) > MaxChecks + 1 - Evicted
    BY <1>3, GateNumbers
  <1>5. Cooled[u] # begun[u]
    BY <1>1, <1>3, <1>4, GateNumbers DEF Within, Entries
  <1>6. Cardinality(Since(begun, begun[u])) > MaxChecks + 1 - Evicted
    BY <1>2, <1>3, <1>4, <1>5, GateNumbers DEF BegunIn
  <1>7. Since(begun, begun[u]) \in SUBSET Within(begun, Cooldown)
    <2>1. \A v \in Entries(begun) : begun[v] \in Nat
      BY <1>3, GateNumbers DEF Timed, Entries
    <2> QED
      BY <1>3, <1>4, <2>1, GateNumbers DEF Since, Within
  <1>8. IsFiniteSet(Within(begun, Cooldown))
    <2>1. Within(begun, Cooldown) \in SUBSET Entries(begun)
      BY DEF Within
    <2> QED
      BY <1>3, <2>1, FS_Subset
  <1>9. /\ Cardinality(Since(begun, begun[u])) \in Nat /\ Cardinality(Within(begun, Cooldown)) \in Nat
        /\ Cardinality(Since(begun, begun[u])) <= Cardinality(Within(begun, Cooldown))
    <2>1. IsFiniteSet(Since(begun, begun[u]))
      BY <1>7, <1>8, FS_Subset
    <2> QED
      BY <1>7, <1>8, <2>1, FS_Subset, FS_CardinalityType
  <1> QED
    BY <1>6, <1>9, GateNumbers

LEMMA UncoolKeeps ==
  ASSUME GateInv, NEW u, Uncool(u), UNCHANGED <<now, lastCall, handled, begun>>
  PROVE  GateInv'
  <1>1. /\ lastCheck' = [lastCheck EXCEPT ![u] = None] /\ failed' = failed \cup {u}
    BY DEF Uncool
  <1>2. /\ now \in Nat /\ Timed(lastCheck) /\ BegunIn(lastCheck)
    BY DEF GateInv, GateType
  <1>3. /\ HandledIn(lastCall)' /\ Timed(lastCall)' /\ Timed(handled)' /\ IsFiniteSet(Entries(handled))'
        /\ now' \in Nat /\ Timed(begun)' /\ IsFiniteSet(Entries(begun))'
    BY DEF GateInv, GateType, Timed, Entries, HandledIn, Since
  <1>4. \A v \in Users : lastCheck'[v] = IF v = u THEN None ELSE lastCheck[v]
    BY <1>1, <1>2 DEF Timed
  <1>5. Timed(lastCheck)'
    <2>1. lastCheck' \in [Users -> Nat \cup {None}]
      BY <1>1, <1>2 DEF Timed
    <2> QED
      BY <1>2, <1>4, <2>1 DEF Timed, Entries
  <1>6. BegunIn(lastCheck)'
    BY <1>1, <1>2, <1>4 DEF BegunIn, Since, Entries
  <1> QED
    BY <1>3, <1>5, <1>6 DEF GateInv, GateType

LEMMA TickKeepsGates ==
  ASSUME GateInv, Tick
  PROVE  GateInv'
  <1>1. /\ now \in Nat /\ now' = now + 1
        /\ UNCHANGED <<lastCall, lastCheck, handled, begun, failed>>
    BY DEF Tick, gateVars, GateInv, GateType
  <1>2. /\ Timed(lastCall) /\ Timed(lastCheck) /\ Timed(handled) /\ Timed(begun)
        /\ HandledIn(lastCall) /\ BegunIn(lastCheck)
    BY DEF GateInv, GateType
  <1>3. ASSUME NEW m, Timed(m)
        PROVE  /\ \A u \in Entries(m) : m[u] <= now'
               /\ \A u \in Users : m[u] # None => m[u] \in Nat
    BY <1>1, <1>3 DEF Timed, Entries
  <1>4. Timed(lastCall)' /\ Timed(lastCheck)' /\ Timed(handled)' /\ Timed(begun)'
    <2>1. ASSUME NEW m, Timed(m)
          PROVE  m \in [Users -> Nat \cup {None}] /\ \A u \in Users : m[u] # None => m[u] <= now'
      BY <1>3, <2>1 DEF Timed, Entries
    <2> QED
      BY <1>1, <1>2, <2>1 DEF Timed, Entries
  <1>5. HandledIn(lastCall)'
    <2>1. \A u \in Users : handled[u] # None /\ now - handled[u] >= EntryTtl => now' - handled[u] >= EntryTtl
      BY <1>1, <1>2, <1>3, GateNumbers
    <2> QED
      BY <1>1, <1>2, <2>1 DEF HandledIn, Since, Entries
  <1>6. BegunIn(lastCheck)'
    <2>1. \A u \in Users : begun[u] # None /\ now - begun[u] >= Cooldown => now' - begun[u] >= Cooldown
      BY <1>1, <1>2, <1>3, GateNumbers
    <2> QED
      BY <1>1, <1>2, <2>1 DEF BegunIn, Since, Entries
  <1>7. IsFiniteSet(Entries(handled))' /\ IsFiniteSet(Entries(begun))' /\ now' \in Nat
    BY <1>1 DEF GateInv, GateType, Entries
  <1> QED
    BY <1>4, <1>5, <1>6, <1>7 DEF GateInv, GateType
-----------------------------------------------------------------------------
(* The answers                                                             *)

Fields ==
  {"pc", "stage", "user", "at", "served", "of", "stale", "src", "etag", "sure", "label", "pic"}

\* The version the source had when the clock reached t.
HeadAt(t) == was[t + 1]

\* What a request knows is what the source has had since the request began, or, of a
\* file, since the entry was as old as it may be.
Fine(r) ==
  /\ DOMAIN r = Fields
  /\ r.pc = "asked" => r.user \in Users
  /\ r.pc \in {"get", "got", "date", "dated"} => r.at \in 0..now
  /\ r.pc \in {"get", "date"} => r.served = None \/ (r.served \in Nat /\ r.served >= HeadAt(r.at))
  /\ r.pc = "got" /\ ~ r.stale /\ r.of # None => r.of \in Nat /\ r.of >= Before(r.at, Ttl - 1)
  /\ r.pc = "date" => now - r.at <= Patience
  /\ r.pc = "dated" /\ r.sure /\ ~ crossed =>
       r.src \in Nat /\ r.src >= Before(r.at, DateTtl - 1 + Patience)

\* The history of the source: it never goes back.
Log ==
  /\ now \in Nat /\ head \in Nat
  /\ was \in Seq(Nat) /\ Len(was) = now + 1
  /\ \A i, j \in 1..(now + 1) : i <= j => was[i] <= was[j]
  /\ \A i \in 1..(now + 1) : was[i] <= head

\* An entry is what the source has had since the time it is stamped with.
Cached ==
  cache # None => cache.at \in 0..now /\ cache.of \in Nat /\ cache.of >= HeadAt(cache.at)

\* As long as no two requests have crossed, the entry and the etag are of one version,
\* and a request on its way has read them as they are.
Dates ==
  /\ IF date = None THEN etag = None
     ELSE /\ date.at \in 0..now /\ date.of \in Nat /\ date.of = etag
          /\ date.of >= Before(date.at, Patience)
  /\ \A c \in InFlight :
       /\ InFlight = {c}
       /\ ask[c].etag = etag /\ ask[c].src = IF date = None THEN None ELSE date.of

AnswerInv ==
  /\ Log
  /\ Cached
  /\ DOMAIN ask = Callers /\ \A c \in Callers : Fine(ask[c])
  /\ ~ crossed => Dates

LEMMA AnswerNumbers ==
  /\ None \notin Nat /\ Patience \in Nat /\ Ttl - 1 \in Nat /\ DateTtl - 1 \in Nat
  /\ Ttl \in Nat /\ DateTtl \in Nat /\ DateTtl - 1 + Patience \in Nat
  BY GatesAssumption, CacheAssumption, PatienceAssumption
  DEF GatesAssumption, CacheAssumption, PatienceAssumption

\* An earlier time, further back, had no newer version.
LEMMA FurtherBack ==
  ASSUME Log, NEW t \in Nat, t <= now, NEW s \in Nat, s <= t, NEW m \in Nat, NEW k \in Nat, (t - s) + k <= m
  PROVE  Before(t, m) <= Before(s, k) /\ Before(t, m) \in Nat /\ Before(s, k) \in Nat
  <1> DEFINE i == IF t > m THEN t - m + 1 ELSE 1
             j == IF s > k THEN s - k + 1 ELSE 1
  <1>1. i \in 1..(now + 1) /\ j \in 1..(now + 1) /\ i <= j
    BY DEF Log
  <1>2. Before(t, m) = was[i] /\ Before(s, k) = was[j]
    BY DEF Before
  <1> HIDE DEF i, j
  <1>3. was[i] <= was[j] /\ was[i] \in Nat /\ was[j] \in Nat
    BY <1>1 DEF Log
  <1> QED
    BY <1>2, <1>3

LEMMA BackFrom ==
  ASSUME Log, NEW t \in Nat, t <= now, NEW s \in Nat, s <= t, NEW n \in Nat, t - s <= n
  PROVE  Before(t, n) <= HeadAt(s) /\ Before(t, n) \in Nat /\ HeadAt(s) \in Nat
  <1>1. (t - s) + 0 <= n
    OBVIOUS
  <1>2. /\ Before(t, n) <= Before(s, 0) /\ Before(t, n) \in Nat /\ Before(s, 0) \in Nat
    BY <1>1, FurtherBack
  <1>3. Before(s, 0) = HeadAt(s)
    BY DEF Before, HeadAt
  <1> QED
    BY <1>2, <1>3

\* A request that has nothing to answer for.
LEMMA IdleFine == Fine(Idle) /\ Fine(Idle)' /\ Idle.pc = "idle" /\ DOMAIN Idle = Fields
  BY DEF Idle, Fine, Fields

\* A request that goes on alone disturbs no other.
LEMMA OneGoes ==
  ASSUME AnswerInv, NEW c \in Callers, NEW q, Goes(c, q), Fine(q)',
         UNCHANGED <<now, was>>, crossed => crossed'
  PROVE  /\ DOMAIN ask' = Callers /\ ask'[c] = q
         /\ \A d \in Callers : d # c => ask'[d] = ask[d]
         /\ \A d \in Callers : Fine(ask[d])'
         /\ Log /\ UNCHANGED head => Log'
  <1>1. /\ DOMAIN ask' = Callers /\ ask'[c] = q
        /\ \A d \in Callers : d # c => ask'[d] = ask[d]
    BY DEF AnswerInv, Goes
  <1>2. ASSUME NEW d \in Callers, d # c
        PROVE  Fine(ask[d])'
    BY <1>1, <1>2 DEF AnswerInv, Fine, HeadAt, Before
  <1>3. Fine(ask[c])'
    BY <1>1 DEF Fine, HeadAt, Before
  <1> QED
    BY <1>1, <1>2, <1>3 DEF Log

\* What is left to show of a step that changes no clock, no version and no cache.
LEMMA OneKeeps ==
  ASSUME AnswerInv, NEW c \in Callers, NEW q, Goes(c, q), Fine(q)', ask[c].pc # "date", q.pc # "date",
         UNCHANGED <<now, head, was, cache, date, etag, crossed>>
  PROVE  AnswerInv'
  <1>1. /\ DOMAIN ask' = Callers /\ ask'[c] = q
        /\ \A d \in Callers : d # c => ask'[d] = ask[d]
        /\ \A d \in Callers : Fine(ask[d])'
        /\ Log'
    BY OneGoes DEF AnswerInv
  <1>2. Cached'
    BY DEF AnswerInv, Cached, HeadAt
  <1>3. InFlight' = InFlight /\ \A d \in InFlight : ask'[d] = ask[d]
    BY <1>1 DEF InFlight
  <1>4. (~ crossed => Dates)'
    BY <1>3 DEF AnswerInv, Dates, Before
  <1> QED
    BY <1>1, <1>2, <1>4 DEF AnswerInv

LEMMA AnswersStart == Init => AnswerInv
  <1> SUFFICES ASSUME Init
               PROVE  AnswerInv
    OBVIOUS
  <1>1. /\ now = 0 /\ head = 1 /\ was = <<1>> /\ cache = None /\ date = None /\ etag = None
        /\ ask = [c \in Callers |-> Idle]
    BY DEF Init, GatesInit, SourceInit
  <1>2. Log
    BY <1>1 DEF Log
  <1>3. DOMAIN ask = Callers /\ \A c \in Callers : ask[c] = Idle /\ Fine(ask[c])
    BY <1>1, IdleFine
  <1>4. InFlight = {}
    BY <1>3, IdleFine DEF InFlight
  <1> QED
    BY <1>1, <1>2, <1>3, <1>4 DEF AnswerInv, Cached, Dates

\* The points of a request at which it knows nothing of the source that matters here.
Elsewhere == {"idle", "render", "redis", "draw", "sketch", "keep", "github"}

LEMMA ElsewhereKeeps ==
  ASSUME AnswerInv, NEW c \in Callers, NEW q, Goes(c, q), DOMAIN q = Fields, q.pc \in Elsewhere,
         ask[c].pc # "date", UNCHANGED <<now, head, was, cache, date, etag, crossed>>
  PROVE  AnswerInv'
  <1>1. Fine(q)' /\ q.pc # "date"
    BY DEF Fine, Elsewhere
  <1> QED
    BY <1>1, OneKeeps

\* fetch_schedule_data: a request begins, or what is cached is the answer, which is not
\* older than the TTL unless the breaker has refused the call.
LEMMA FetchLeads ==
  ASSUME NEW c, NEW r, DOMAIN r = Fields, NEW stage, NEW force, Fetch(c, r, stage, force)
  PROVE  \E q :
           /\ Goes(c, q) /\ DOMAIN q = Fields
           /\ q.stage = stage /\ q.user = r.user /\ q.at = now
           /\ \/ q.pc = "get" /\ q.served = None
              \/ /\ q.pc = "got"
                 /\ ~ q.stale => cache # None /\ now - cache.at < Ttl /\ q.of = cache.of
  <1> DEFINE fresh == ~ force /\ cache # None /\ now - cache.at < Ttl
             begin == [r EXCEPT !.stage = stage, !.at = now, !.served = None]
             cached == IF cache = None THEN None ELSE cache.of
             hit == [begin EXCEPT !.pc = "got", !.of = cached, !.stale = FALSE]
             miss == [begin EXCEPT !.pc = "got", !.of = cached, !.stale = TRUE]
             asks == [begin EXCEPT !.pc = "get"]
  <1>1. /\ DOMAIN begin = Fields /\ begin.stage = stage /\ begin.at = now /\ begin.served = None
        /\ begin.user = r.user
    BY DEF Fields
  <1> HIDE DEF begin
  <1>2. /\ DOMAIN hit = Fields /\ hit.stage = stage /\ hit.at = now /\ hit.user = r.user
        /\ hit.pc = "got" /\ hit.of = cached /\ hit.stale = FALSE
    BY <1>1 DEF Fields
  <1>3. /\ DOMAIN miss = Fields /\ miss.stage = stage /\ miss.at = now /\ miss.user = r.user
        /\ miss.pc = "got" /\ miss.stale = TRUE
    BY <1>1 DEF Fields
  <1>4. /\ DOMAIN asks = Fields /\ asks.stage = stage /\ asks.at = now /\ asks.user = r.user
        /\ asks.pc = "get" /\ asks.served = None
    BY <1>1 DEF Fields
  <1>5. (fresh /\ Goes(c, hit)) \/ Goes(c, miss) \/ Goes(c, asks)
    BY DEF Fetch, begin
  <1> HIDE DEF hit, miss, asks
  <1>6. CASE fresh /\ Goes(c, hit)
    <2>1. cached = cache.of
      BY <1>6
    <2> QED
      BY <1>2, <1>6, <2>1
  <1>7. CASE Goes(c, miss)
    BY <1>3, <1>7
  <1>8. CASE Goes(c, asks)
    BY <1>4, <1>8
  <1> QED
    BY <1>5, <1>6, <1>7, <1>8

LEMMA FetchKeeps ==
  ASSUME AnswerInv, NEW c \in Callers, NEW r, DOMAIN r = Fields, NEW stage, NEW force,
         Fetch(c, r, stage, force), ask[c].pc # "date",
         UNCHANGED <<now, head, was, cache, date, etag, crossed>>
  PROVE  AnswerInv'
  <1>1. PICK q :
          /\ Goes(c, q) /\ DOMAIN q = Fields /\ q.at = now
          /\ \/ q.pc = "get" /\ q.served = None
             \/ /\ q.pc = "got"
                /\ ~ q.stale => cache # None /\ now - cache.at < Ttl /\ q.of = cache.of
    BY FetchLeads
  <1>2. Log /\ Cached /\ now \in Nat
    BY DEF AnswerInv, Log
  <1>3. CASE q.pc = "get" /\ q.served = None
    <2>1. Fine(q)' /\ q.pc # "date"
      BY <1>1, <1>2, <1>3 DEF Fine
    <2> QED
      BY <1>1, <2>1, OneKeeps
  <1>4. CASE /\ q.pc = "got"
             /\ ~ q.stale => cache # None /\ now - cache.at < Ttl /\ q.of = cache.of
    <2>1. ~ q.stale => q.of \in Nat /\ q.of >= Before(now, Ttl - 1)
      <3>1. SUFFICES ASSUME ~ q.stale
                     PROVE  q.of \in Nat /\ q.of >= Before(now, Ttl - 1)
        OBVIOUS
      <3>2. /\ cache.at \in 0..now /\ now - cache.at < Ttl
            /\ q.of \in Nat /\ q.of >= HeadAt(cache.at)
        BY <1>2, <1>4, <3>1 DEF Cached
      <3>3. cache.at \in Nat /\ cache.at <= now /\ now - cache.at <= Ttl - 1
        BY <1>2, <3>2, AnswerNumbers
      <3>4. /\ Before(now, Ttl - 1) <= HeadAt(cache.at)
            /\ Before(now, Ttl - 1) \in Nat /\ HeadAt(cache.at) \in Nat
        BY <1>2, <3>3, BackFrom, AnswerNumbers
      <3> QED
        BY <3>2, <3>4
    <2>2. Fine(q)' /\ q.pc # "date"
      BY <1>1, <1>2, <1>4, <2>1 DEF Fine, Before
    <2> QED
      BY <1>1, <2>2, OneKeeps
  <1> QED
    BY <1>1, <1>3, <1>4

\* The source answers with what it has.
LEMMA ServeKeeps ==
  ASSUME AnswerInv, NEW c \in Callers, Serve(c)
  PROVE  AnswerInv'
  <1>1. Log /\ now \in Nat /\ head \in Nat /\ Fine(ask[c]) /\ ask[c].pc \in {"get", "date"}
    BY DEF AnswerInv, Log, Serve
  <1>2. UNCHANGED <<now, head, was, cache, date, etag, crossed>>
    BY DEF Serve
  <1>3. PICK q : /\ Goes(c, q) /\ DOMAIN q = Fields /\ q.served = head
                 /\ q.pc = ask[c].pc /\ q.at = ask[c].at /\ q.etag = ask[c].etag /\ q.src = ask[c].src
    <2> DEFINE q == [ask[c] EXCEPT !.served = head]
    <2>1. /\ Goes(c, q) /\ DOMAIN q = Fields /\ q.served = head
          /\ q.pc = ask[c].pc /\ q.at = ask[c].at /\ q.etag = ask[c].etag /\ q.src = ask[c].src
      BY <1>1 DEF Serve, Fine, Fields
    <2> QED
      BY <2>1
  <1>4. ask[c].at \in 0..now /\ head >= HeadAt(ask[c].at)
    <2>1. ask[c].at \in 0..now
      BY <1>1 DEF Fine
    <2> QED
      BY <1>1, <2>1 DEF Log, HeadAt
  <1>5. Fine(q)'
    BY <1>1, <1>2, <1>3, <1>4 DEF Fine, HeadAt
  <1>6. /\ DOMAIN ask' = Callers /\ ask'[c] = q
        /\ \A d \in Callers : d # c => ask'[d] = ask[d]
        /\ \A d \in Callers : Fine(ask[d])'
        /\ Log'
    BY <1>1, <1>2, <1>3, <1>5, OneGoes
  <1>7. Cached'
    BY <1>2 DEF AnswerInv, Cached, HeadAt
  <1>8. InFlight' = InFlight
    BY <1>3, <1>6 DEF InFlight
  <1>9. \A d \in InFlight : ask'[d].etag = ask[d].etag /\ ask'[d].src = ask[d].src
    BY <1>3, <1>6 DEF InFlight
  <1>10. (~ crossed => Dates)'
    BY <1>2, <1>8, <1>9 DEF AnswerInv, Dates, Before
  <1> QED
    BY <1>6, <1>7, <1>10 DEF AnswerInv

\* The file is stored with the time it was asked for.
LEMMA ArriveKeeps ==
  ASSUME AnswerInv, NEW c \in Callers, Arrive(c)
  PROVE  AnswerInv'
  <1>1. /\ Log /\ now \in Nat /\ Fine(ask[c]) /\ ask[c].pc = "get"
        /\ UNCHANGED <<now, head, was, date, etag, crossed>>
    BY DEF AnswerInv, Log, Arrive
  <1>2. CASE /\ ask[c].served # None
             /\ cache' = [at |-> StampOf(ask[c]), of |-> ask[c].served]
             /\ Goes(c, [ask[c] EXCEPT !.pc = "got", !.of = ask[c].served, !.served = None, !.stale = FALSE])
    <2>1. PICK q : /\ Goes(c, q) /\ DOMAIN q = Fields /\ q.pc = "got" /\ q.of = ask[c].served
                   /\ q.at = ask[c].at
      <3> DEFINE q == [ask[c] EXCEPT !.pc = "got", !.of = ask[c].served, !.served = None, !.stale = FALSE]
      <3>1. /\ Goes(c, q) /\ DOMAIN q = Fields /\ q.pc = "got" /\ q.of = ask[c].served
            /\ q.at = ask[c].at
        BY <1>1, <1>2 DEF Fine, Fields
      <3> QED
        BY <3>1
    <2>2. /\ ask[c].at \in 0..now /\ ask[c].served \in Nat /\ ask[c].served >= HeadAt(ask[c].at)
      BY <1>1, <1>2 DEF Fine
    <2>3. ask[c].served >= Before(ask[c].at, Ttl - 1)
      <3>1. ask[c].at \in Nat /\ ask[c].at <= now /\ ask[c].at - ask[c].at <= Ttl - 1
        BY <1>1, <2>2, AnswerNumbers
      <3>2. /\ Before(ask[c].at, Ttl - 1) <= HeadAt(ask[c].at)
            /\ Before(ask[c].at, Ttl - 1) \in Nat /\ HeadAt(ask[c].at) \in Nat
        BY <1>1, <3>1, BackFrom, AnswerNumbers
      <3> QED
        BY <2>2, <3>2
    <2>4. Fine(q)'
      BY <1>1, <2>1, <2>2, <2>3 DEF Fine, Before
    <2>5. /\ DOMAIN ask' = Callers /\ ask'[c] = q
          /\ \A d \in Callers : d # c => ask'[d] = ask[d]
          /\ \A d \in Callers : Fine(ask[d])'
          /\ Log'
      BY <1>1, <2>1, <2>4, OneGoes
    <2>6. Cached'
      BY <1>1, <1>2, <2>2 DEF Cached, HeadAt, StampOf
    <2>7. InFlight' = InFlight /\ \A d \in InFlight : ask'[d] = ask[d]
      BY <1>1, <2>1, <2>5 DEF InFlight
    <2>8. (~ crossed => Dates)'
      BY <1>1, <2>7 DEF AnswerInv, Dates, Before
    <2> QED
      BY <2>5, <2>6, <2>8 DEF AnswerInv
  <1>3. CASE /\ Goes(c, [ask[c] EXCEPT !.pc = "got", !.of = None, !.served = None])
             /\ UNCHANGED cache
    <2>1. PICK q : /\ Goes(c, q) /\ DOMAIN q = Fields /\ q.pc = "got" /\ q.of = None
                   /\ q.at = ask[c].at
      <3> DEFINE q == [ask[c] EXCEPT !.pc = "got", !.of = None, !.served = None]
      <3>1. /\ Goes(c, q) /\ DOMAIN q = Fields /\ q.pc = "got" /\ q.of = None
            /\ q.at = ask[c].at
        BY <1>1, <1>3 DEF Fine, Fields
      <3> QED
        BY <3>1
    <2>2. ask[c].at \in 0..now
      BY <1>1 DEF Fine
    <2>3. Fine(q)'
      BY <1>1, <2>1, <2>2 DEF Fine
    <2> QED
      BY <1>1, <1>3, <2>1, <2>3, OneKeeps
  <1> QED
    BY <1>2, <1>3 DEF Arrive

\* get_queue_source_updated_at: the entry answers, or a request reads it and the etag.
LEMMA AskLeads ==
  ASSUME NEW c, NEW r, DOMAIN r = Fields, AskDate(c, r)
  PROVE  \E q :
           /\ Goes(c, q) /\ DOMAIN q = Fields /\ q.at = now
           /\ \/ /\ q.pc = "dated" /\ date # None /\ now - date.at < DateTtl /\ q.src = date.of
                 /\ crossed' = crossed
              \/ /\ q.pc = "date" /\ q.served = None
                 /\ q.src = (IF date = None THEN None ELSE date.of) /\ q.etag = etag
                 /\ crossed' = (crossed \/ InFlight # {})
  <1> DEFINE cached == IF date = None THEN None ELSE date.of
             hit == [r EXCEPT !.pc = "dated", !.at = now, !.src = cached, !.sure = TRUE]
             asks == [r EXCEPT !.pc = "date", !.at = now, !.src = cached, !.etag = etag, !.served = None]
  <1>1. DOMAIN hit = Fields /\ hit.at = now /\ hit.pc = "dated" /\ hit.src = cached
    BY DEF Fields
  <1>2. /\ DOMAIN asks = Fields /\ asks.at = now /\ asks.pc = "date" /\ asks.src = cached
        /\ asks.etag = etag /\ asks.served = None
    BY DEF Fields
  <1>3. \/ date # None /\ now - date.at < DateTtl /\ Goes(c, hit) /\ crossed' = crossed
        \/ Goes(c, asks) /\ crossed' = (crossed \/ InFlight # {})
    BY DEF AskDate
  <1> HIDE DEF hit, asks
  <1>4. CASE date # None /\ now - date.at < DateTtl /\ Goes(c, hit) /\ crossed' = crossed
    <2>1. hit.src = date.of
      BY <1>1, <1>4
    <2> QED
      BY <1>1, <1>4, <2>1
  <1>5. CASE Goes(c, asks) /\ crossed' = (crossed \/ InFlight # {})
    BY <1>2, <1>5
  <1> QED
    BY <1>3, <1>4, <1>5

LEMMA AskKeeps ==
  ASSUME AnswerInv, NEW c \in Callers, NEW r, DOMAIN r = Fields, AskDate(c, r), ask[c].pc # "date",
         UNCHANGED <<now, head, was, cache, date, etag>>
  PROVE  AnswerInv'
  <1>1. PICK q :
          /\ Goes(c, q) /\ DOMAIN q = Fields /\ q.at = now
          /\ \/ /\ q.pc = "dated" /\ date # None /\ now - date.at < DateTtl /\ q.src = date.of
                /\ crossed' = crossed
             \/ /\ q.pc = "date" /\ q.served = None
                /\ q.src = (IF date = None THEN None ELSE date.of) /\ q.etag = etag
                /\ crossed' = (crossed \/ InFlight # {})
    BY AskLeads
  <1>2. Log /\ now \in Nat
    BY DEF AnswerInv, Log
  <1>3. CASE /\ q.pc = "dated" /\ date # None /\ now - date.at < DateTtl /\ q.src = date.of
             /\ crossed' = crossed
    <2>1. ~ crossed => q.src \in Nat /\ q.src >= Before(now, DateTtl - 1 + Patience)
      <3>1. SUFFICES ASSUME ~ crossed
                     PROVE  q.src \in Nat /\ q.src >= Before(now, DateTtl - 1 + Patience)
        OBVIOUS
      <3>2. /\ date.at \in 0..now /\ date.of \in Nat /\ date.of >= Before(date.at, Patience)
        BY <1>3, <3>1 DEF AnswerInv, Dates
      <3>3. date.at \in Nat /\ date.at <= now /\ now - date.at <= DateTtl - 1
        BY <1>2, <1>3, <3>2, AnswerNumbers
      <3>4. /\ Before(now, DateTtl - 1 + Patience) <= Before(date.at, Patience)
            /\ Before(now, DateTtl - 1 + Patience) \in Nat /\ Before(date.at, Patience) \in Nat
        <4> DEFINE n == DateTtl - 1 + Patience
        <4>1. n \in Nat /\ Patience \in Nat /\ (now - date.at) + Patience <= n
          BY <1>2, <3>3, AnswerNumbers
        <4> HIDE DEF n
        <4>2. \A s \in Nat : s <= now /\ (now - s) + Patience <= n =>
                Before(now, n) <= Before(s, Patience) /\ Before(now, n) \in Nat /\ Before(s, Patience) \in Nat
          BY <1>2, <4>1, FurtherBack
        <4> QED
          BY <3>3, <4>1, <4>2 DEF n
      <3> QED
        BY <1>3, <3>2, <3>4
    <2>2. Fine(q)' /\ q.pc # "date"
      BY <1>1, <1>2, <1>3, <2>1 DEF Fine, Before
    <2> QED
      BY <1>1, <1>3, <2>2, OneKeeps
  <1>4. CASE /\ q.pc = "date" /\ q.served = None
             /\ q.src = (IF date = None THEN None ELSE date.of) /\ q.etag = etag
             /\ crossed' = (crossed \/ InFlight # {})
    <2>1. Fine(q)'
      BY <1>1, <1>2, <1>4, AnswerNumbers DEF Fine
    <2>2. /\ DOMAIN ask' = Callers /\ ask'[c] = q
          /\ \A d \in Callers : d # c => ask'[d] = ask[d]
          /\ \A d \in Callers : Fine(ask[d])'
          /\ Log'
      BY <1>1, <1>2, <1>4, <2>1, OneGoes
    <2>3. Cached'
      BY DEF AnswerInv, Cached, HeadAt
    <2>4. InFlight' = InFlight \cup {c}
      BY <1>4, <2>2 DEF InFlight
    <2>5. (~ crossed => Dates)'
      <3>1. SUFFICES ASSUME ~ crossed'
                     PROVE  Dates'
        OBVIOUS
      <3>2. InFlight' = {c} /\ Dates
        BY <1>4, <2>4, <3>1 DEF AnswerInv
      <3> QED
        BY <1>4, <2>2, <3>2 DEF Dates, Before
    <2> QED
      BY <2>2, <2>3, <2>5 DEF AnswerInv
  <1> QED
    BY <1>1, <1>3, <1>4

\* The answer about the date: as long as no two requests have crossed, a 304 confirms the
\* entry that is there.
LEMMA DateAnswerKeeps ==
  ASSUME AnswerInv, NEW c \in Callers, DateAnswer(c)
  PROVE  AnswerInv'
  <1> DEFINE answer == IF ask[c].served = ask[c].etag THEN Unmodified(ask[c]) ELSE ask[c].served
  <1>1. /\ Log /\ now \in Nat /\ Fine(ask[c]) /\ ask[c].pc = "date" /\ c \in InFlight
        /\ UNCHANGED <<now, head, was, cache, crossed>>
    BY DEF AnswerInv, Log, DateAnswer, InFlight
  <1>2. ask[c].at \in 0..now /\ now - ask[c].at <= Patience
    BY <1>1 DEF Fine
  <1>3. Cached'
    BY <1>1 DEF AnswerInv, Cached, HeadAt
  <1>4. CASE /\ ask[c].served # None
             /\ date' = [at |-> now, of |-> answer]
             /\ etag' = IF ask[c].served = ask[c].etag THEN etag ELSE ask[c].served
             /\ Goes(c, [ask[c] EXCEPT !.pc = "dated", !.src = answer, !.sure = TRUE,
                                       !.served = None, !.etag = None])
    <2>1. PICK q : /\ Goes(c, q) /\ DOMAIN q = Fields /\ q.pc = "dated" /\ q.src = answer
                   /\ q.at = ask[c].at
      <3> DEFINE q == [ask[c] EXCEPT !.pc = "dated", !.src = answer, !.sure = TRUE,
                                     !.served = None, !.etag = None]
      <3>1. DOMAIN ask[c] = Fields /\ Goes(c, q)
        BY <1>1, <1>4 DEF Fine
      <3> HIDE DEF answer
      <3>2. DOMAIN q = Fields /\ q.pc = "dated" /\ q.src = answer /\ q.at = ask[c].at
        BY <3>1 DEF Fields
      <3> QED
        BY <3>1, <3>2
    <2>2. ~ crossed => answer = ask[c].served /\ etag' = ask[c].served
      <3>1. SUFFICES ASSUME ~ crossed
                     PROVE  answer = ask[c].served /\ etag' = ask[c].served
        OBVIOUS
      <3>2. /\ ask[c].etag = etag /\ ask[c].src = IF date = None THEN None ELSE date.of
            /\ IF date = None THEN etag = None ELSE date.of = etag
        BY <1>1, <3>1 DEF AnswerInv, Dates
      <3> QED
        BY <1>4, <3>2 DEF Unmodified
    <2>3. ask[c].served \in Nat /\ ask[c].served >= HeadAt(ask[c].at)
      BY <1>1, <1>4 DEF Fine
    <2>4. ask[c].served >= Before(now, Patience)
      <3>1. ask[c].at \in Nat /\ ask[c].at <= now
        BY <1>1, <1>2
      <3>2. /\ Before(now, Patience) <= HeadAt(ask[c].at)
            /\ Before(now, Patience) \in Nat /\ HeadAt(ask[c].at) \in Nat
        BY <1>1, <1>2, <3>1, BackFrom, AnswerNumbers
      <3> QED
        BY <2>3, <3>2
    <2>5. ask[c].served >= Before(ask[c].at, DateTtl - 1 + Patience)
      <3> DEFINE n == DateTtl - 1 + Patience
      <3>1. n \in Nat /\ ask[c].at \in Nat /\ ask[c].at <= now /\ ask[c].at - ask[c].at <= n
        BY <1>1, <1>2, AnswerNumbers
      <3> HIDE DEF n
      <3>2. /\ Before(ask[c].at, n) <= HeadAt(ask[c].at)
            /\ Before(ask[c].at, n) \in Nat /\ HeadAt(ask[c].at) \in Nat
        BY <1>1, <3>1, BackFrom
      <3> QED
        BY <2>3, <3>2 DEF n
    <2> HIDE DEF answer
    <2>6. Fine(q)'
      BY <1>1, <1>2, <2>1, <2>2, <2>3, <2>5 DEF Fine, Before
    <2>7. /\ DOMAIN ask' = Callers /\ ask'[c] = q
          /\ \A d \in Callers : d # c => ask'[d] = ask[d]
          /\ \A d \in Callers : Fine(ask[d])'
          /\ Log'
      BY <1>1, <2>1, <2>6, OneGoes
    <2>8. (~ crossed => Dates)'
      <3>1. SUFFICES ASSUME ~ crossed
                     PROVE  Dates'
        BY <1>1
      <3>2. InFlight = {c}
        BY <1>1, <3>1 DEF AnswerInv, Dates
      <3>3. InFlight' = {}
        BY <2>1, <2>7, <3>2 DEF InFlight
      <3>4. date'.at = now /\ date'.of = ask[c].served /\ etag' = ask[c].served /\ date' # None
        <4>1. date'.at = now /\ date'.of = ask[c].served /\ etag' = ask[c].served
          BY <1>4, <2>2, <3>1
        <4>2. date' \in [at : Nat, of : Nat]
          BY <1>1, <1>4, <2>2, <2>3, <3>1
        <4> QED
          BY <4>1, <4>2, CacheAssumption DEF CacheAssumption
      <3> QED
        BY <1>1, <2>3, <2>4, <3>3, <3>4 DEF Dates, Before
    <2> QED
      BY <1>3, <2>7, <2>8 DEF AnswerInv
  <1>5. CASE /\ Goes(c, [ask[c] EXCEPT !.pc = "dated", !.sure = FALSE, !.served = None, !.etag = None])
             /\ UNCHANGED <<date, etag>>
    <2>1. PICK q : Goes(c, q) /\ DOMAIN q = Fields /\ q.pc = "dated" /\ q.sure = FALSE /\ q.at = ask[c].at
      <3> DEFINE q == [ask[c] EXCEPT !.pc = "dated", !.sure = FALSE, !.served = None, !.etag = None]
      <3>1. DOMAIN ask[c] = Fields /\ Goes(c, q)
        BY <1>1, <1>5 DEF Fine
      <3>2. DOMAIN q = Fields /\ q.pc = "dated" /\ q.sure = FALSE /\ q.at = ask[c].at
        BY <3>1 DEF Fields
      <3> QED
        BY <3>1, <3>2
    <2>2. Fine(q)'
      BY <1>1, <1>2, <2>1 DEF Fine
    <2>3. /\ DOMAIN ask' = Callers /\ ask'[c] = q
          /\ \A d \in Callers : d # c => ask'[d] = ask[d]
          /\ \A d \in Callers : Fine(ask[d])'
          /\ Log'
      BY <1>1, <2>1, <2>2, OneGoes
    <2>4. InFlight' \subseteq InFlight /\ \A d \in InFlight' : ask'[d] = ask[d]
      BY <2>1, <2>3 DEF InFlight
    <2>5. (~ crossed => Dates)'
      BY <1>1, <1>5, <2>4 DEF AnswerInv, Dates, Before
    <2> QED
      BY <1>3, <2>3, <2>5 DEF AnswerInv
  <1>6. \/ /\ ask[c].served # None
           /\ date' = [at |-> now, of |-> answer]
           /\ etag' = IF ask[c].served = ask[c].etag THEN etag ELSE ask[c].served
           /\ Goes(c, [ask[c] EXCEPT !.pc = "dated", !.src = answer, !.sure = TRUE,
                                     !.served = None, !.etag = None])
        \/ /\ Goes(c, [ask[c] EXCEPT !.pc = "dated", !.sure = FALSE, !.served = None, !.etag = None])
           /\ UNCHANGED <<date, etag>>
    BY DEF DateAnswer
  <1> QED
    BY <1>4, <1>5, <1>6

\* The requests as far as the file.
LEMMA FileKeeps ==
  ASSUME AnswerInv, NEW c \in Callers,
         \/ CheckFetch(c) \/ LimitedFetch(c) \/ EndLimited(c)
         \/ MenuSchedule(c) \/ ScheduleCheck(c)
         \/ \E u \in Users : Press(c, u)
         \/ Serve(c) \/ Arrive(c)
  PROVE  AnswerInv'
  <1>1. DOMAIN ask[c] = Fields /\ DOMAIN Idle = Fields /\ Idle.pc = "idle"
    BY IdleFine DEF AnswerInv, Fine
  <1>2. CASE CheckFetch(c)
    <2>1. PICK force \in BOOLEAN : Fetch(c, Idle, "check", force)
      BY <1>2 DEF CheckFetch
    <2>2. ask[c].pc # "date" /\ UNCHANGED <<now, head, was, cache, date, etag, crossed>>
      BY <1>2 DEF CheckFetch
    <2> QED
      BY <1>1, <2>1, <2>2, FetchKeeps
  <1>3. CASE MenuSchedule(c)
    <2>1. /\ Fetch(c, ask[c], "show", FALSE) /\ ask[c].pc # "date"
          /\ UNCHANGED <<now, head, was, cache, date, etag, crossed>>
      BY <1>3 DEF MenuSchedule
    <2> QED
      BY <1>1, <2>1, FetchKeeps
  <1>4. CASE ScheduleCheck(c)
    <2>1. /\ Fetch(c, ask[c], "old", FALSE) \/ Goes(c, Idle)
          /\ ask[c].pc # "date" /\ UNCHANGED <<now, head, was, cache, date, etag, crossed>>
      BY <1>4 DEF ScheduleCheck
    <2>2. CASE Fetch(c, ask[c], "old", FALSE)
      BY <1>1, <2>1, <2>2, FetchKeeps
    <2>3. CASE Goes(c, Idle)
      BY <1>1, <2>1, <2>3, ElsewhereKeeps DEF Elsewhere
    <2> QED
      BY <2>1, <2>2, <2>3
  <1>5. CASE \E u \in Users : Press(c, u)
    <2>1. PICK u \in Users : Press(c, u)
      BY <1>5
    <2>2. ask[c].pc # "date" /\ UNCHANGED <<now, head, was, cache, date, etag, crossed>>
      BY <2>1 DEF Press
    <2>3. CASE UNCHANGED ask
      BY <2>2, <2>3 DEF AnswerInv, Log, Cached, Dates, InFlight, Fine, HeadAt, Before
    <2>4. CASE Goes(c, [Idle EXCEPT !.pc = "asked", !.user = u])
      <3>1. PICK q : Goes(c, q) /\ DOMAIN q = Fields /\ q.pc = "asked" /\ q.user = u
        <4> DEFINE q == [Idle EXCEPT !.pc = "asked", !.user = u]
        <4>1. DOMAIN q = Fields /\ q.pc = "asked" /\ q.user = u
          BY <1>1 DEF Fields
        <4> QED
          BY <2>4, <4>1
      <3>2. Fine(q)' /\ q.pc # "date"
        BY <3>1 DEF Fine
      <3> QED
        BY <2>2, <3>1, <3>2, OneKeeps
    <2> QED
      BY <2>1, <2>3, <2>4 DEF Press
  <1>6. CASE LimitedFetch(c)
    <2>1. PICK force \in BOOLEAN : Fetch(c, Idle, "limited", force)
      BY <1>6 DEF LimitedFetch
    <2>2. ask[c].pc # "date" /\ UNCHANGED <<now, head, was, cache, date, etag, crossed>>
      BY <1>6 DEF LimitedFetch
    <2> QED
      BY <1>1, <2>1, <2>2, FetchKeeps
  <1>7. CASE EndLimited(c)
    <2>1. /\ Goes(c, Idle) /\ ask[c].pc # "date"
          /\ UNCHANGED <<now, head, was, cache, date, etag, crossed>>
      BY <1>7 DEF EndLimited
    <2> QED
      BY <1>1, <2>1, ElsewhereKeeps DEF Elsewhere
  <1> QED
    BY <1>2, <1>3, <1>4, <1>5, <1>6, <1>7, ServeKeeps, ArriveKeeps

\* And what is done with it.
LEMMA ChartKeeps ==
  ASSUME AnswerInv, NEW c \in Callers,
         \/ DateAnswer(c) \/ Compare(c) \/ Prerender(c) \/ Refreshed(c) \/ Show(c)
         \/ LookInMemory(c) \/ LookInRedis(c) \/ Draw(c) \/ GitHubImage(c) \/ Keep(c)
  PROVE  AnswerInv'
  <1>1. DOMAIN ask[c] = Fields /\ DOMAIN Idle = Fields /\ Idle.pc = "idle"
    BY IdleFine DEF AnswerInv, Fine
  <1> USE DEF rest, charting
  <1>2. CASE Compare(c)
    <2> DEFINE q == [ask[c] EXCEPT !.pc = "render"]
    <2>1. DOMAIN q = Fields /\ q.pc = "render"
      BY <1>1 DEF Fields
    <2>2. /\ ask[c].pc # "date" /\ (Goes(c, Idle) \/ Goes(c, q))
          /\ UNCHANGED <<now, head, was, cache, date, etag, crossed>>
      BY <1>2 DEF Compare
    <2> HIDE DEF q
    <2> QED
      BY <1>1, <2>1, <2>2, ElsewhereKeeps DEF Elsewhere
  <1>3. CASE Prerender(c)
    <2>1. /\ ask[c].pc # "date" /\ AskDate(c, ask[c])
          /\ UNCHANGED <<now, head, was, cache, date, etag>>
      BY <1>3 DEF Prerender
    <2> QED
      BY <1>1, <2>1, AskKeeps
  <1>4. CASE Refreshed(c)
    <2>1. /\ \/ Goes(c, Idle)
             \/ Fetch(c, ask[c], "new", TRUE) \/ Fetch(c, ask[c], "show", FALSE)
          /\ ask[c].pc # "date" /\ UNCHANGED <<now, head, was, cache, date, etag, crossed>>
      BY <1>4 DEF Refreshed
    <2>2. CASE Goes(c, Idle)
      BY <1>1, <2>1, <2>2, ElsewhereKeeps DEF Elsewhere
    <2>3. CASE Fetch(c, ask[c], "new", TRUE) \/ Fetch(c, ask[c], "show", FALSE)
      BY <1>1, <2>1, <2>3, FetchKeeps
    <2> QED
      BY <2>1, <2>2, <2>3
  <1>5. CASE Show(c)
    <2>1. /\ ask[c].pc # "date" /\ ((Goes(c, Idle) /\ crossed' = crossed) \/ AskDate(c, ask[c]))
          /\ UNCHANGED <<now, head, was, cache, date, etag>>
      BY <1>5 DEF Show
    <2>2. CASE Goes(c, Idle) /\ crossed' = crossed
      BY <1>1, <2>1, <2>2, ElsewhereKeeps DEF Elsewhere
    <2>3. CASE AskDate(c, ask[c])
      BY <1>1, <2>1, <2>3, AskKeeps
    <2> QED
      BY <2>1, <2>2, <2>3
  <1>6. CASE LookInMemory(c)
    <2> DEFINE r == [ask[c] EXCEPT !.label = Label(ask[c]), !.at = now, !.src = None, !.sure = FALSE]
               q1 == [r EXCEPT !.pc = "sketch"]
               q2 == [r EXCEPT !.pc = "redis"]
    <2>1. DOMAIN r = Fields
      BY <1>1 DEF Fields
    <2>2. /\ ask[c].pc # "date" /\ (Goes(c, q1) \/ Goes(c, q2) \/ Goes(c, Idle))
          /\ UNCHANGED <<now, head, was, cache, date, etag, crossed>>
      BY <1>6 DEF LookInMemory, Tell
    <2> HIDE DEF r
    <2>3. DOMAIN q1 = Fields /\ q1.pc = "sketch" /\ DOMAIN q2 = Fields /\ q2.pc = "redis"
      BY <2>1 DEF Fields
    <2> HIDE DEF q1, q2
    <2> QED
      BY <1>1, <2>2, <2>3, ElsewhereKeeps DEF Elsewhere
  <1>7. CASE LookInRedis(c) \/ Draw(c) \/ GitHubImage(c) \/ Keep(c)
    <2> DEFINE drawn == [ask[c] EXCEPT !.pc = "draw"]
               kept == [ask[c] EXCEPT !.pc = "keep", !.pic = [of |-> ask[c].of, label |-> ask[c].label]]
               away == [ask[c] EXCEPT !.pc = "github"]
               found == [ask[c] EXCEPT !.pc = "keep", !.pic = [of |-> head, label |-> None]]
    <2>1. /\ DOMAIN drawn = Fields /\ drawn.pc = "draw"
          /\ DOMAIN kept = Fields /\ kept.pc = "keep"
          /\ DOMAIN away = Fields /\ away.pc = "github"
          /\ DOMAIN found = Fields /\ found.pc = "keep"
      BY <1>1 DEF Fields
    <2>2. /\ ask[c].pc # "date"
          /\ Goes(c, drawn) \/ Goes(c, kept) \/ Goes(c, away) \/ Goes(c, found) \/ Goes(c, Idle)
          /\ UNCHANGED <<now, head, was, cache, date, etag, crossed>>
      <3>1. CASE LookInRedis(c)
        BY <3>1 DEF LookInRedis, Tell
      <3>2. CASE Draw(c)
        BY <3>2 DEF Draw, Tell
      <3>3. CASE GitHubImage(c) \/ Keep(c)
        BY <3>3 DEF GitHubImage, Keep, Tell
      <3> QED
        BY <1>7, <3>1, <3>2, <3>3
    <2> HIDE DEF drawn, kept, away, found
    <2> QED
      BY <1>1, <2>1, <2>2, ElsewhereKeeps DEF Elsewhere
  <1> QED
    BY <1>2, <1>3, <1>4, <1>5, <1>6, <1>7, DateAnswerKeeps

LEMMA NewVersionKeeps ==
  ASSUME AnswerInv, NewVersion
  PROVE  AnswerInv'
  <1>1. Log /\ head' = head + 1 /\ UNCHANGED <<now, was, cache, date, etag, ask, crossed>>
    BY DEF NewVersion, AnswerInv
  <1>2. Log'
    BY <1>1 DEF Log
  <1> QED
    BY <1>1, <1>2 DEF AnswerInv, Cached, Dates, InFlight, Fine, HeadAt, Before

\* The clock: what was stays, and no request for a date outlives its patience.
LEMMA TickKeepsAnswers ==
  ASSUME AnswerInv, Tick
  PROVE  AnswerInv'
  <1>1. /\ Log /\ Cached /\ now \in Nat /\ head \in Nat
        /\ now' = now + 1 /\ was' = Append(was, head)
        /\ UNCHANGED <<head, cache, date, etag, ask, crossed>>
        /\ \A c \in InFlight : now - ask[c].at < Patience
    BY DEF AnswerInv, Log, Tick
  <1>2. /\ was' \in Seq(Nat) /\ Len(was') = now + 2 /\ was'[now + 2] = head
        /\ \A i \in 1..(now + 1) : was'[i] = was[i]
    BY <1>1 DEF Log
  <1>3. Log'
    <2>1. \A i \in 1..(now + 1) : was[i] \in Nat /\ was[i] <= head
      BY <1>1 DEF Log
    <2>2. \A i, j \in 1..(now + 2) : i <= j => was'[i] <= was'[j]
      <3>1. SUFFICES ASSUME NEW i \in 1..(now + 2), NEW j \in 1..(now + 2), i <= j
                     PROVE  was'[i] <= was'[j]
        OBVIOUS
      <3>2. CASE j = now + 2
        <4>1. CASE i = now + 2
          BY <1>1, <1>2, <3>2, <4>1
        <4>2. CASE i # now + 2
          <5>1. i \in 1..(now + 1)
            BY <1>1, <4>2
          <5> QED
            BY <1>2, <2>1, <3>2, <5>1
        <4> QED
          BY <4>1, <4>2
      <3>3. CASE j # now + 2
        <4>1. i \in 1..(now + 1) /\ j \in 1..(now + 1)
          BY <1>1, <3>1, <3>3
        <4> QED
          BY <1>1, <1>2, <3>1, <4>1 DEF Log
      <3> QED
        BY <3>2, <3>3
    <2>3. \A i \in 1..(now + 2) : was'[i] <= head
      <3>1. SUFFICES ASSUME NEW i \in 1..(now + 2)
                     PROVE  was'[i] <= head
        OBVIOUS
      <3>2. CASE i = now + 2
        BY <1>1, <1>2, <3>2
      <3>3. CASE i # now + 2
        <4>1. i \in 1..(now + 1)
          BY <1>1, <3>3
        <4> QED
          BY <1>2, <2>1, <4>1
      <3> QED
        BY <3>2, <3>3
    <2>4. now' + 1 = now + 2 /\ now' \in Nat
      BY <1>1
    <2> QED
      BY <1>1, <1>2, <2>2, <2>3, <2>4 DEF Log
  <1>4. \A t \in 0..now : HeadAt(t)' = HeadAt(t)
    BY <1>1, <1>2 DEF HeadAt
  <1>5. ASSUME NEW t \in 0..now, NEW n \in Nat
        PROVE  Before(t, n)' = Before(t, n)
    <2> DEFINE i == IF t > n THEN t - n + 1 ELSE 1
    <2>1. i \in 1..(now + 1)
      BY <1>1
    <2>2. Before(t, n) = was[i] /\ Before(t, n)' = was'[i]
      BY DEF Before
    <2> HIDE DEF i
    <2> QED
      BY <1>2, <2>1, <2>2
  <1>6. \A t \in 0..now : t \in 0..now'
    BY <1>1
  <1>7. Cached'
    BY <1>1, <1>4, <1>6 DEF Cached
  <1>8. ASSUME NEW c \in Callers
        PROVE  Fine(ask[c])'
    <2> DEFINE r == ask[c]
    <2>1. Fine(r) /\ r = ask'[c]
      BY <1>1 DEF AnswerInv
    <2>2. r.pc = "date" => now - r.at < Patience
      BY <1>1 DEF InFlight
    <2> HIDE DEF r
    <2>3. r.pc \in {"get", "got", "date", "dated"} => r.at \in 0..now /\ r.at \in 0..now'
      BY <1>6, <2>1 DEF Fine
    <2>4. r.pc = "date" => now' - r.at <= Patience
      BY <1>1, <2>2, <2>3, AnswerNumbers
    <2>5. r.pc \in {"get", "date"} => HeadAt(r.at)' = HeadAt(r.at)
      <3>1. \A t \in 0..now : was'[t + 1] = was[t + 1]
        BY <1>1, <1>2
      <3> QED
        BY <2>1, <2>3, <3>1 DEF HeadAt, r
    <2>6. /\ r.pc = "got" => Before(r.at, Ttl - 1)' = Before(r.at, Ttl - 1)
          /\ r.pc = "dated" => Before(r.at, DateTtl - 1 + Patience)' = Before(r.at, DateTtl - 1 + Patience)
      BY <1>1, <1>5, <2>1, <2>3, AnswerNumbers DEF r
    <2> QED
      BY <1>1, <2>1, <2>3, <2>4, <2>5, <2>6 DEF Fine, r
  <1>9. (~ crossed => Dates)'
    <2>1. SUFFICES ASSUME ~ crossed
                   PROVE  Dates'
      BY <1>1
    <2>2. Dates
      BY <2>1 DEF AnswerInv
    <2>3. date # None => date.at \in 0..now' /\ Before(date.at, Patience)' = Before(date.at, Patience)
      BY <1>1, <1>5, <1>6, <2>2, AnswerNumbers DEF Dates
    <2> QED
      BY <1>1, <2>2, <2>3 DEF Dates, InFlight
  <1> QED
    BY <1>1, <1>3, <1>7, <1>8, <1>9 DEF AnswerInv

LEMMA AnswersHold == AnswerInv /\ [Next]_vars => AnswerInv'
  <1> SUFFICES ASSUME AnswerInv, [Next]_vars
               PROVE  AnswerInv'
    OBVIOUS
  <1>1. ASSUME UNCHANGED <<now, sourceVars>>
        PROVE  AnswerInv'
    BY <1>1 DEF sourceVars, AnswerInv, Log, Cached, Dates, InFlight, Fine, HeadAt, Before
  <1>2. CASE SourceNext
    <2>1. CASE SetMode
      BY <2>1 DEF SetMode, rest, AnswerInv, Log, Cached, Dates, InFlight, Fine, HeadAt, Before
    <2>2. CASE \E c \in Callers :
                 \/ CheckFetch(c) \/ LimitedFetch(c) \/ EndLimited(c)
                 \/ MenuSchedule(c) \/ ScheduleCheck(c)
                 \/ \E u \in Users : Press(c, u)
                 \/ Serve(c) \/ Arrive(c)
      BY <2>2, FileKeeps
    <2>3. CASE \E c \in Callers :
                 \/ DateAnswer(c) \/ Compare(c) \/ Prerender(c) \/ Refreshed(c) \/ Show(c)
                 \/ LookInMemory(c) \/ LookInRedis(c) \/ Draw(c) \/ GitHubImage(c) \/ Keep(c)
      BY <2>3, ChartKeeps
    <2> QED
      BY <1>2, <2>1, <2>2, <2>3, NewVersionKeeps DEF SourceNext
  <1>3. CASE LimiterNext /\ UNCHANGED <<breakerVars, sourceVars>>
    BY <1>1, <1>3 DEF LimiterNext, Acquire, Awake
  <1>4. CASE Tick
    BY <1>4, TickKeepsAnswers
  <1>5. CASE Rest \/ UNCHANGED vars
    BY <1>1, <1>5 DEF Rest, vars
  <1> QED
    BY <1>2, <1>3, <1>4, <1>5 DEF Next

\* For any number of requests, however they overtake one another: what the client answers
\* is as recent as AnswersAreRecent says.
THEOREM AnswersStayRecent == Spec => []AnswersAreRecent
  <1>1. AnswerInv => AnswersAreRecent
    <2> SUFFICES ASSUME AnswerInv, NEW c \in Callers
                 PROVE  LET r == ask[c] IN
                        /\ r.pc = "got" /\ ~ r.stale /\ r.of # None => r.of >= Before(r.at, Ttl - 1)
                        /\ r.pc = "dated" /\ r.sure /\ ~ crossed =>
                             r.src # None /\ r.src >= Before(r.at, DateTtl - 1 + Patience)
      BY DEF AnswersAreRecent
    <2>1. Fine(ask[c])
      BY DEF AnswerInv
    <2> QED
      BY <2>1, AnswerNumbers DEF Fine
  <1> QED
    BY <1>1, AnswersStart, AnswersHold, PTL DEF Spec
-----------------------------------------------------------------------------
(* The presses                                                             *)

\* A press that passes the throttle, and a refresh that passes the cooldown.
HandledApart(u) ==
  handled[u] # None =>
    now - handled[u] >= Rate \/ Cardinality(Within(handled, Rate)) > MaxEntries

BegunApart(u) ==
  begun[u] # None /\ u \notin failed =>
    now - begun[u] >= Cooldown \/ Cardinality(Within(begun, Cooldown)) > MaxChecks + 1 - Evicted

\* What a step of request c does at the gates.
Passes(c) ==
  LET u == ask'[c].user
      v == ask[c].user IN
  /\ ask[c].pc = "idle" /\ ask'[c].pc = "asked" => HandledApart(u)
  /\ ask[c].pc = "asked" /\ ask'[c].pc \in {"get", "got"} /\ ask'[c].stage = "old" => BegunApart(v)

\* Only the request that goes on changes.
LEMMA Alone ==
  ASSUME AnswerInv, NEW c \in Callers, UNCHANGED ask \/ \E q : Goes(c, q), Passes(c)
  PROVE  \A d \in Callers : Passes(d)
  <1>1. \A d \in Callers : d # c => ask'[d] = ask[d]
    BY DEF AnswerInv, Goes
  <1> QED
    BY <1>1 DEF Passes

LEMMA GatesStart == Init => GateInv
  <1> SUFFICES ASSUME Init
               PROVE  GateInv
    OBVIOUS
  <1>1. now = 0 /\ lastCall = Nobody /\ lastCheck = Nobody /\ handled = Nobody /\ begun = Nobody
    BY DEF Init, GatesInit
  <1>2. /\ Nobody \in [Users -> Nat \cup {None}] /\ Entries(Nobody) = {}
        /\ \A u \in Users : Nobody[u] = None
    BY DEF Nobody, Entries
  <1>3. IsFiniteSet({})
    BY FS_EmptySet
  <1> QED
    BY <1>1, <1>2, <1>3 DEF GateInv, GateType, Timed, HandledIn, BegunIn

LEMMA PressGates ==
  ASSUME GateInv, AnswerInv, NEW c \in Callers, NEW u \in Users, Press(c, u)
  PROVE  GateInv' /\ \A d \in Callers : Passes(d)
  <1>1. PICK passes \in BOOLEAN :
          /\ Throttle(u, passes)
          /\ IF passes THEN Goes(c, [Idle EXCEPT !.pc = "asked", !.user = u]) ELSE UNCHANGED ask
    BY DEF Press
  <1>2. UNCHANGED <<now, lastCheck, begun, failed>> /\ ask[c].pc = "idle"
    BY DEF Press
  <1>3. GateInv'
    BY <1>1, <1>2, ThrottleKeeps
  <1>4. Passes(c)
    <2>1. CASE passes
      <3>1. HandledApart(u)
        BY <1>1, <2>1, ThrottleParts DEF HandledApart
      <3>2. ask'[c].user = u
        BY <1>1, <2>1 DEF AnswerInv, Goes, Idle
      <3> QED
        BY <1>2, <3>1, <3>2 DEF Passes
    <2>2. CASE ~ passes
      BY <1>1, <1>2, <2>2 DEF Passes
    <2> QED
      BY <2>1, <2>2
  <1> QED
    BY <1>1, <1>3, <1>4, Alone

LEMMA CheckGates ==
  ASSUME GateInv, AnswerInv, NEW c \in Callers, ScheduleCheck(c)
  PROVE  GateInv' /\ \A d \in Callers : Passes(d)
  <1>1. PICK begins \in BOOLEAN :
          /\ Cool(ask[c].user, begins)
          /\ IF begins THEN Fetch(c, ask[c], "old", FALSE) ELSE Goes(c, Idle)
    BY DEF ScheduleCheck
  <1>2. /\ UNCHANGED <<now, lastCall, handled>> /\ ask[c].pc = "asked"
        /\ ask[c].user \in Users /\ DOMAIN ask[c] = Fields
    BY DEF ScheduleCheck, AnswerInv, Fine
  <1> DEFINE u == ask[c].user
  <1>3. u \in Users /\ Cool(u, begins)
    BY <1>1, <1>2
  <1>4. GateInv'
    <2> HIDE DEF u
    <2> QED
      BY <1>2, <1>3, CoolKeeps
  <1>5. \E q : Goes(c, q)
    BY <1>1, <1>2, FetchLeads
  <1>6. Passes(c)
    <2>1. CASE begins
      <3>1. BegunApart(u)
        <4> HIDE DEF u
        <4> QED
          BY <1>3, <2>1, CoolParts DEF BegunApart
      <3> QED
        BY <1>2, <3>1 DEF Passes
    <2>2. CASE ~ begins
      <3>1. ask'[c] = Idle
        BY <1>1, <2>2 DEF AnswerInv, Goes
      <3> QED
        BY <1>2, <3>1, IdleFine DEF Passes
    <2> QED
      BY <2>1, <2>2
  <1> QED
    BY <1>4, <1>5, <1>6, Alone

\* A fetch that is none of a press passes no gate.
LEMMA FetchGates ==
  ASSUME AnswerInv, NEW c \in Callers, NEW r, DOMAIN r = Fields, NEW stage, NEW force,
         Fetch(c, r, stage, force), ask[c].pc = "asked" => stage # "old"
  PROVE  \A d \in Callers : Passes(d)
  <1>1. PICK q : Goes(c, q) /\ q.stage = stage /\ q.pc \in {"get", "got"}
    BY FetchLeads
  <1>2. ask'[c] = q
    BY <1>1 DEF AnswerInv, Goes
  <1>3. Passes(c)
    BY <1>1, <1>2 DEF Passes
  <1> QED
    BY <1>1, <1>3, Alone

\* Nor does what comes after it.
LEMMA LaterGates ==
  ASSUME AnswerInv, NEW c \in Callers, UNCHANGED ask \/ (\E q : Goes(c, q)), ask[c].pc \notin {"idle", "asked"}
  PROVE  \A d \in Callers : Passes(d)
  <1>1. Passes(c)
    BY DEF Passes
  <1> QED
    BY <1>1, Alone

LEMMA SourceGates ==
  ASSUME GateInv, AnswerInv, SourceNext
  PROVE  GateInv' /\ \A d \in Callers : Passes(d)
  <1>1. \A c \in Callers : DOMAIN ask[c] = Fields /\ DOMAIN Idle = Fields
    BY IdleFine DEF AnswerInv, Fine
  <1>2. ASSUME UNCHANGED <<now, gateVars>>
        PROVE  GateInv'
    BY <1>2 DEF gateVars, GateInv, GateType, Timed, HandledIn, BegunIn, Since, Entries
  <1> USE DEF rest, charting
  <1>3. CASE SetMode \/ NewVersion
    <2>1. UNCHANGED <<now, gateVars, ask>>
      BY <1>3 DEF SetMode, NewVersion, gateVars
    <2>2. \A d \in Callers : Passes(d)
      BY <2>1 DEF Passes
    <2> QED
      BY <1>2, <2>1, <2>2
  <1>4. ASSUME NEW c \in Callers, CheckFetch(c) \/ LimitedFetch(c) \/ MenuSchedule(c)
        PROVE  GateInv' /\ \A d \in Callers : Passes(d)
    <2>1. UNCHANGED <<now, gateVars>>
      BY <1>4 DEF CheckFetch, LimitedFetch, MenuSchedule
    <2>2. CASE CheckFetch(c)
      <3>1. PICK force \in BOOLEAN : Fetch(c, Idle, "check", force)
        BY <2>2 DEF CheckFetch
      <3> QED
        BY <1>1, <1>2, <2>1, <3>1, FetchGates
    <2>3. CASE MenuSchedule(c)
      <3>1. Fetch(c, ask[c], "show", FALSE)
        BY <2>3 DEF MenuSchedule
      <3> QED
        BY <1>1, <1>2, <2>1, <3>1, FetchGates
    <2>4. CASE LimitedFetch(c)
      <3>1. PICK force \in BOOLEAN : Fetch(c, Idle, "limited", force)
        BY <2>4 DEF LimitedFetch
      <3> QED
        BY <1>1, <1>2, <2>1, <3>1, FetchGates
    <2> QED
      BY <1>4, <2>2, <2>3, <2>4
  <1>5. ASSUME NEW c \in Callers, Serve(c) \/ Arrive(c) \/ EndLimited(c) \/ DateAnswer(c)
        PROVE  GateInv' /\ \A d \in Callers : Passes(d)
    <2>1. UNCHANGED <<now, gateVars>> /\ (\E q : Goes(c, q)) /\ ask[c].pc \notin {"idle", "asked"}
      BY <1>5 DEF Serve, Arrive, EndLimited, DateAnswer
    <2> QED
      BY <1>2, <2>1, LaterGates
  <1>6. ASSUME NEW c \in Callers, Compare(c) \/ Prerender(c) \/ Show(c)
        PROVE  GateInv' /\ \A d \in Callers : Passes(d)
    <2>1. UNCHANGED <<now, gateVars>> /\ ask[c].pc \notin {"idle", "asked"}
      BY <1>6 DEF Compare, Prerender, Show, gateVars
    <2>2. (\E q : Goes(c, q)) \/ AskDate(c, ask[c])
      BY <1>6 DEF Compare, Prerender, Show
    <2>3. \E q : Goes(c, q)
      BY <1>1, <2>2, AskLeads
    <2> QED
      BY <1>2, <2>1, <2>3, LaterGates
  <1>7. ASSUME NEW c \in Callers, Refreshed(c)
        PROVE  GateInv' /\ \A d \in Callers : Passes(d)
    <2>1. ask[c].pc \notin {"idle", "asked"} /\ UNCHANGED <<now, lastCall, handled, begun>>
      BY <1>7 DEF Refreshed
    <2>2. CASE Uncool(ask[c].user) /\ Goes(c, Idle)
      BY <2>1, <2>2, UncoolKeeps, LaterGates
    <2>3. CASE /\ UNCHANGED gateVars
               /\ Fetch(c, ask[c], "new", TRUE) \/ Fetch(c, ask[c], "show", FALSE)
      <3>1. \E q : Goes(c, q)
        BY <1>1, <2>3, FetchLeads
      <3> QED
        BY <1>2, <2>1, <2>3, <3>1, LaterGates
    <2> QED
      BY <1>7, <2>2, <2>3 DEF Refreshed, gateVars
  <1>8. ASSUME NEW c \in Callers, LookInMemory(c) \/ LookInRedis(c) \/ Draw(c) \/ GitHubImage(c) \/ Keep(c)
        PROVE  GateInv' /\ \A d \in Callers : Passes(d)
    <2>1. UNCHANGED <<now, gateVars>>
      BY <1>8 DEF LookInMemory, LookInRedis, Draw, GitHubImage, Keep, gateVars
    <2>2. ask[c].pc \notin {"idle", "asked"} /\ \E q : Goes(c, q)
      BY <1>8 DEF LookInMemory, LookInRedis, Draw, GitHubImage, Keep, Tell
    <2> QED
      BY <1>2, <2>1, <2>2, LaterGates
  <1> QED
    BY <1>3, <1>4, <1>5, <1>6, <1>7, <1>8, PressGates, CheckGates DEF SourceNext

LEMMA GatesHold == GateInv /\ AnswerInv /\ [Next]_vars => GateInv' /\ \A d \in Callers : Passes(d)
  <1> SUFFICES ASSUME GateInv, AnswerInv, [Next]_vars
               PROVE  GateInv' /\ \A d \in Callers : Passes(d)
    OBVIOUS
  <1>1. ASSUME UNCHANGED <<now, gateVars>>
        PROVE  GateInv'
    BY <1>1 DEF gateVars, GateInv, GateType, Timed, HandledIn, BegunIn, Since, Entries
  <1>2. ASSUME UNCHANGED ask
        PROVE  \A d \in Callers : Passes(d)
    BY <1>2 DEF Passes
  <1>3. CASE LimiterNext /\ UNCHANGED <<breakerVars, sourceVars>>
    <2>1. UNCHANGED <<now, gateVars, ask>>
      BY <1>3 DEF LimiterNext, Acquire, Awake, sourceVars
    <2> QED
      BY <1>1, <1>2, <2>1
  <1>4. CASE Tick
    <2>1. UNCHANGED ask
      BY <1>4 DEF Tick
    <2> QED
      BY <1>2, <1>4, <2>1, TickKeepsGates
  <1>5. CASE Rest \/ UNCHANGED vars
    BY <1>1, <1>2, <1>5 DEF Rest, vars, sourceVars
  <1> QED
    BY <1>3, <1>4, <1>5, SourceGates DEF Next

\* For any number of users and any size of the maps: presses and refreshes of a user stay
\* as far apart as PressesApart says.
THEOREM PressesStayApart == Spec => PressesApart
  <1>1. (\A d \in Callers : Passes(d)) =>
          \A c \in Callers :
            /\ LET u == ask'[c].user IN
               ask[c].pc = "idle" /\ ask'[c].pc = "asked" /\ handled[u] # None =>
                 now - handled[u] >= Rate \/ Cardinality(Within(handled, Rate)) > MaxEntries
            /\ LET u == ask[c].user IN
               /\ ask[c].pc = "asked" /\ ask'[c].pc \in {"get", "got"} /\ ask'[c].stage = "old"
               /\ begun[u] # None /\ u \notin failed
               => now - begun[u] >= Cooldown \/ Cardinality(Within(begun, Cooldown)) > MaxChecks + 1 - Evicted
    BY DEF Passes, HandledApart, BegunApart
  <1> QED
    BY <1>1, GatesStart, GatesHold, AnswersStart, AnswersHold, PTL DEF Spec, PressesApart
=============================================================================
