------------------------ MODULE ScheduleNotifyProofs ------------------------
(***************************************************************************)
(* Proofs about ScheduleNotify, for any replicas, queues, outages, bounds  *)
(* and failures: the type invariant, that one job at a time works on the   *)
(* queues, and that users are told each change once and as what it is.     *)
(*                                                                         *)
(* None is inductive.  TypeOK needs that a job in the middle of a queue    *)
(* has a queue and a schedule; OneSender follows from who holds the locks: *)
(* a job inside holds _notify_lock of its process, and, as long as no lock *)
(* query failed, a job past the lock holds the advisory lock.  TruthInv    *)
(* says what such a job knows of its queue, and what the tables say of the *)
(* queues nobody works on.                                                 *)
(***************************************************************************)
EXTENDS ScheduleNotify, TLAPS

LocalsInv ==
  \A j \in Jobs : MidQueue(j) => loc[j].q \in Queues /\ loc[j].sched \in Schedules

TypeInv == TypeOK /\ LocalsInv

PastLock(j) == loc[j].pc \notin {"idle", "lock"}

HoldersInv ==
  /\ \E b \in Budgets : \A k \in Events : budget[k] <= b[k]
  /\ \A j \in Jobs : Inside(j) => notifyLock[j[1]] = j[2]
  /\ LockTrusted => \A j \in Jobs : PastLock(j) => advisory = j
-----------------------------------------------------------------------------
(* Values                                                                  *)

\* A job at rest, and one in the middle of a queue, are locals.
LEMMA RestingType == Resting \in LocType /\ Resting.pc = "idle"
  BY ScheduleNotifyAssumption DEF ScheduleNotifyAssumption, Resting, LocType, Pcs, Days

\* A published schedule has outages of the dates that follow any day.
LEMMA ScheduleOfDay ==
  ASSUME NEW s \in Schedules, NEW d \in Days
  PROVE  s[d] \in Vals \cup {None} /\ s[d + 1] \in Vals \cup {None}
  <1>1. LastDay \in Nat
    BY ScheduleNotifyAssumption DEF ScheduleNotifyAssumption
  <1>2. d \in Dates /\ d + 1 \in Dates
    BY <1>1 DEF Days, Dates
  <1> QED
    BY <1>2 DEF Schedules

\* Whatever the snapshots, the update type of a change names message types.
LEMMA UpdateTypes ==
  ASSUME NEW known, NEW now, NEW before, NEW s, NEW d
  PROVE  UpdateType(known, now, before, s, d) \in SUBSET MessageTypes
  <1>1. TodayTypes(now, before, s[d]) \subseteq MessageTypes
    BY DEF TodayTypes, MessageTypes
  <1>2. TomorrowTypes(now, s[d + 1]) \subseteq MessageTypes
    BY DEF TomorrowTypes, MessageTypes
  <1>3. UnchangedTypes(now, before, s[d], s[d + 1]) \subseteq MessageTypes
    BY DEF UnchangedTypes, MessageTypes
  <1>4. {"initial"} \subseteq MessageTypes /\ {"dailyPlanned"} \subseteq MessageTypes
    BY DEF MessageTypes
  <1> DEFINE found == TodayTypes(now, before, s[d]) \cup TomorrowTypes(now, s[d + 1])
                      \cup UnchangedTypes(now, before, s[d], s[d + 1])
  <1>5. found \subseteq MessageTypes
    BY <1>1, <1>2, <1>3
  <1>6. UpdateType(known, now, before, s, d)
        = CASE known = None -> found \cup {"initial"}
            [] known # None /\ found = {} -> {"dailyPlanned"}
            [] OTHER -> found
    BY DEF UpdateType
  <1> HIDE DEF found
  <1> QED
    BY <1>4, <1>5, <1>6

\* An upserted snapshot keeps the table's type.
LEMMA SnapshottedType ==
  ASSUME TypeOK, NEW q \in Queues, NEW s \in Schedules, NEW d \in Days
  PROVE  Snapshotted(q, s, d) \in [Queues -> [0..LastDay -> SnapType \cup {None}]]
  <1>1. SnapshotOf(s, d) \in SnapType
    BY ScheduleOfDay DEF SnapshotOf, SnapType
  <1>2. d \in 0..LastDay
    BY ScheduleNotifyAssumption DEF ScheduleNotifyAssumption, Days
  <1>3. snap \in [Queues -> [0..LastDay -> SnapType \cup {None}]]
    BY DEF TypeOK
  <1> QED
    BY <1>1, <1>2, <1>3 DEF Snapshotted

\* An update of one job's locals.
LEMMA OneLoc ==
  ASSUME TypeOK, NEW j \in Jobs, NEW l \in LocType, loc' = [loc EXCEPT ![j] = l]
  PROVE  /\ (loc \in [Jobs -> LocType])'
         /\ loc'[j] = l
         /\ \A i \in Jobs : i # j => loc'[i] = loc[i]
  BY DEF TypeOK

\* A spent budget is one less.
LEMMA Spending ==
  ASSUME TypeOK, NEW k \in Events, Spend(k) \/ UNCHANGED budget
  PROVE  /\ (budget \in [Events -> Nat])'
         /\ \A i \in Events : budget'[i] <= budget[i]
  <1>1. budget \in [Events -> Nat]
    BY DEF TypeOK
  <1>2. CASE Spend(k)
    <2>1. budget[k] \in Nat /\ budget[k] > 0
      BY <1>1, <1>2 DEF Spend
    <2>2. budget[k] - 1 \in Nat /\ budget[k] - 1 <= budget[k]
      BY <2>1
    <2>3. ASSUME NEW i \in Events
          PROVE  budget'[i] \in Nat /\ budget'[i] <= budget[i]
      BY <1>1, <1>2, <2>2 DEF Spend
    <2> QED
      BY <1>1, <1>2, <2>3 DEF Spend
  <1>3. CASE UNCHANGED budget
    BY <1>1, <1>3
  <1> QED
    BY <1>2, <1>3
-----------------------------------------------------------------------------
(* Types                                                                   *)

\* A step that leaves the locals of all jobs but one, and gives that one a record
\* which is not in the middle of a queue or has a queue and a schedule.
LEMMA LocalsStep ==
  ASSUME TypeInv, NEW j \in Jobs, NEW l \in LocType, loc' = [loc EXCEPT ![j] = l],
         l.pc \in {"same", "first", "write", "send", "mark", "commit"} =>
           l.q \in Queues /\ l.sched \in Schedules
  PROVE  (loc \in [Jobs -> LocType])' /\ LocalsInv'
  <1>1. /\ (loc \in [Jobs -> LocType])'
        /\ loc'[j] = l
        /\ \A i \in Jobs : i # j => loc'[i] = loc[i]
    BY OneLoc DEF TypeInv
  <1>2. ASSUME NEW i \in Jobs, MidQueue(i)'
        PROVE  loc'[i].q \in Queues /\ loc'[i].sched \in Schedules
    <2>1. CASE i = j
      BY <1>1, <1>2, <2>1 DEF MidQueue
    <2>2. CASE i # j
      BY <1>1, <1>2, <2>2 DEF MidQueue, TypeInv, LocalsInv
    <2> QED
      BY <2>1, <2>2
  <1> QED
    BY <1>1, <1>2 DEF LocalsInv

\* A job that moves on to a place outside of a queue, or stays in the same queue.
LEMMA GotoStep ==
  ASSUME TypeInv, NEW j \in Jobs, NEW pc \in Pcs, Goto(j, pc),
         pc \in {"same", "first", "write", "send", "mark", "commit"} => MidQueue(j)
  PROVE  (loc \in [Jobs -> LocType])' /\ LocalsInv'
  <1> DEFINE l == [loc[j] EXCEPT !.pc = pc]
  <1>1. loc[j] \in LocType
    BY DEF TypeInv, TypeOK
  <1>2. l \in LocType /\ l.pc = pc /\ l.q = loc[j].q /\ l.sched = loc[j].sched
    BY <1>1 DEF LocType
  <1>3. loc' = [loc EXCEPT ![j] = l]
    BY DEF Goto
  <1>4. MidQueue(j) => loc[j].q \in Queues /\ loc[j].sched \in Schedules
    BY DEF TypeInv, LocalsInv
  <1> HIDE DEF l
  <1> QED
    BY <1>2, <1>3, <1>4, LocalsStep

\* A job that takes the next queue.
LEMMA NextQueueStep ==
  ASSUME TypeInv, NEW j \in Jobs, NextQueue(j)
  PROVE  (loc \in [Jobs -> LocType])' /\ LocalsInv'
  <1> DEFINE l == [loc[j] EXCEPT !.pc = "queues", !.q = None]
  <1>1. loc[j] \in LocType
    BY DEF TypeInv, TypeOK
  <1>2. l \in LocType /\ l.pc = "queues"
    BY <1>1 DEF LocType, Pcs
  <1>3. loc' = [loc EXCEPT ![j] = l]
    BY DEF NextQueue
  <1> HIDE DEF l
  <1> QED
    BY <1>2, <1>3, LocalsStep

\* A job that comes to rest, or asks for the lock.
LEMMA RestStep ==
  ASSUME TypeInv, NEW j \in Jobs, NEW pc \in {"idle", "lock", "purge"},
         loc' = [loc EXCEPT ![j] = [Resting EXCEPT !.pc = pc]]
  PROVE  (loc \in [Jobs -> LocType])' /\ LocalsInv'
  <1> DEFINE l == [Resting EXCEPT !.pc = pc]
  <1>1. l \in LocType /\ l.pc = pc
    BY RestingType DEF LocType, Pcs
  <1>2. loc' = [loc EXCEPT ![j] = l]
    OBVIOUS
  <1> HIDE DEF l
  <1> QED
    BY <1>1, <1>2, LocalsStep

\* A job that comes to rest.
LEMMA IdleStep ==
  ASSUME TypeInv, NEW j \in Jobs, loc' = [loc EXCEPT ![j] = Resting]
  PROVE  (loc \in [Jobs -> LocType])' /\ LocalsInv'
  BY RestingType, LocalsStep

\* A lock that is given back is free or stays with whom it was.
LEMMA UnlockedType ==
  ASSUME TypeOK, NEW j \in Jobs
  PROVE  Unlocked(j) \in Jobs \cup {None}
  BY DEF TypeOK, Unlocked

LEMMA LeaveType ==
  ASSUME TypeOK, NEW j \in Jobs, Leave(j)
  PROVE  (advisory \in Jobs \cup {None} /\ notifyLock \in [Replicas -> Kinds \cup {None}])'
  BY UnlockedType DEF TypeOK, Leave

\* The clock and the source.
LEMMA EnvTypes ==
  ASSUME TypeInv, Publish \/ Midnight \/ SixOClock
  PROVE  TypeInv'
  <1>1. TypeOK /\ LocalsInv
    BY DEF TypeInv
  <1>2. CASE Publish
    <2>1. \A s \in Contents(day) : s \in Schedules
      BY DEF Contents
    <2>2. src' \in [Queues -> Schedules] /\ head' \in Nat
      BY <1>1, <1>2, <2>1 DEF Publish, TypeOK
    <2>3. budget' \in [Events -> Nat]
      BY <1>1, <1>2 DEF Publish, Spend, Events, TypeOK
    <2>4. TypeOK'
      BY <1>1, <1>2, <2>2, <2>3 DEF Publish, TypeOK, lockVars, dbVars
    <2> QED
      BY <1>1, <1>2, <2>4 DEF Publish, TypeInv, LocalsInv, MidQueue
  <1>3. CASE Midnight
    <2>1. day' \in Days
      BY <1>1, <1>3, ScheduleNotifyAssumption
         DEF Midnight, TypeOK, Days, ScheduleNotifyAssumption
    <2>2. budget' \in [Events -> Nat]
      BY <1>1, <1>3 DEF Midnight, Spend, Events, TypeOK
    <2>3. TypeOK'
      BY <1>1, <1>3, <2>1, <2>2 DEF Midnight, TypeOK, lockVars, dbVars
    <2> QED
      BY <1>1, <1>3, <2>3 DEF Midnight, TypeInv, LocalsInv, MidQueue
  <1>4. CASE SixOClock
    <2> DEFINE l == [Resting EXCEPT !.pc = "lock"]
    <2>1. l \in LocType /\ l.pc = "lock"
      BY RestingType DEF LocType, Pcs
    <2>2. PICK due \in SUBSET Replicas :
            /\ loc' = [j \in Jobs |-> IF j[2] = "flush" /\ j[1] \in due THEN l ELSE loc[j]]
            /\ tries' = [r \in Replicas |-> IF r \in due THEN 1 ELSE tries[r]]
      BY <1>4 DEF SixOClock
    <2> HIDE DEF l
    <2>3. loc' \in [Jobs -> LocType] /\ LocalsInv'
      BY <1>1, <2>1, <2>2 DEF TypeOK, LocalsInv, MidQueue
    <2>4. tries' \in [Replicas -> 0..MaxTries]
      BY <1>1, <2>2, ScheduleNotifyAssumption DEF TypeOK, ScheduleNotifyAssumption
    <2>5. TypeOK'
      BY <1>1, <1>4, <2>3, <2>4 DEF SixOClock, TypeOK, lockVars, dbVars
    <2> QED
      BY <2>3, <2>5 DEF TypeInv
  <1> QED
    BY <1>2, <1>3, <1>4

\* The commit poll, and the restart of a process.
LEMMA ProcessTypes ==
  ASSUME TypeInv, NEW r \in Replicas,
         PollNew(r) \/ PollSame(r) \/ PollError(r) \/ SaveCommitState(r) \/ Crash(r)
  PROVE  TypeInv'
  <1>1. TypeOK /\ LocalsInv
    BY DEF TypeInv
  <1>2. <<r, "checker">> \in Jobs /\ "lock" \in Pcs
    BY DEF Jobs, Kinds, Pcs
  <1>3. CASE PollNew(r)
    <2>1. (loc \in [Jobs -> LocType])' /\ LocalsInv'
      BY <1>2, <1>3, GotoStep DEF PollNew
    <2>2. sha' \in [Replicas -> Nat \cup {None}]
      BY <1>1, <1>3 DEF PollNew, TypeOK
    <2> QED
      BY <1>1, <1>3, <2>1, <2>2
         DEF PollNew, TypeInv, TypeOK, envVars, lockVars, dbVars
  <1>4. CASE PollSame(r)
    BY <1>1, <1>4 DEF PollSame, vars, TypeInv, TypeOK, LocalsInv, MidQueue,
                      envVars, lockVars, dbVars
  <1>5. CASE PollError(r)
    <2>1. (loc \in [Jobs -> LocType])' /\ LocalsInv'
      BY <1>2, <1>5, GotoStep DEF PollError
    <2>2. (budget \in [Events -> Nat])'
      BY <1>1, <1>5, Spending DEF PollError, Events, Losses
    <2> QED
      BY <1>1, <1>5, <2>1, <2>2
         DEF PollError, TypeInv, TypeOK, envVars, lockVars, dbVars
  <1>6. CASE SaveCommitState(r)
    <2>1. savedSha' \in Nat \cup {None}
      BY <1>1, <1>6 DEF SaveCommitState, TypeOK
    <2> QED
      BY <1>1, <1>6, <2>1 DEF SaveCommitState, TypeInv, TypeOK, LocalsInv, MidQueue,
                              envVars, lockVars, dbVars
  <1>7. CASE Crash(r)
    <2>1. loc' \in [Jobs -> LocType] /\ LocalsInv'
      BY <1>1, <1>7, RestingType DEF Crash, TypeOK, LocalsInv, MidQueue
    <2>2. (budget \in [Events -> Nat])'
      BY <1>1, <1>7, Spending DEF Crash, Events, Losses
    <2>3. advisory' \in Jobs \cup {None} /\ notifyLock' \in [Replicas -> Kinds \cup {None}]
      BY <1>1, <1>7 DEF Crash, TypeOK
    <2>4. sha' \in [Replicas -> Nat \cup {None}] /\ tries' \in [Replicas -> 0..MaxTries]
      BY <1>1, <1>7, ScheduleNotifyAssumption DEF Crash, TypeOK, ScheduleNotifyAssumption
    <2> QED
      BY <1>1, <1>7, <2>1, <2>2, <2>3, <2>4
         DEF Crash, TypeInv, TypeOK, envVars, dbVars
  <1> QED
    BY <1>3, <1>4, <1>5, <1>6, <1>7

\* The locks.
LEMMA LockTypes ==
  ASSUME TypeInv, NEW j \in Jobs,
         \/ LockTaken(j) \/ LockBusy(j) \/ LockUnsupported(j) \/ TakeNotifyLock(j)
         \/ CollectFails(j) \/ QueueFails(j)
  PROVE  TypeInv'
  <1>1. TypeOK /\ LocalsInv
    BY DEF TypeInv
  <1>2. "wait" \in Pcs /\ "collect" \in Pcs
    BY DEF Pcs
  <1>3. j[1] \in Replicas /\ j[2] \in Kinds
    BY DEF Jobs
  <1> USE DEF envVars, lockVars, dbVars
  <1>4. CASE LockTaken(j)
    <2>1. (loc \in [Jobs -> LocType])' /\ LocalsInv'
      BY <1>2, <1>4, GotoStep DEF LockTaken
    <2> QED
      BY <1>1, <1>4, <2>1 DEF LockTaken, TypeInv, TypeOK
  <1>5. CASE LockBusy(j)
    <2>1. (loc \in [Jobs -> LocType])' /\ LocalsInv'
      BY <1>5, IdleStep DEF LockBusy
    <2> QED
      BY <1>1, <1>5, <2>1 DEF LockBusy, TypeInv, TypeOK
  <1>6. CASE LockUnsupported(j)
    <2>1. (loc \in [Jobs -> LocType])' /\ LocalsInv'
      BY <1>2, <1>6, GotoStep DEF LockUnsupported
    <2>2. (budget \in [Events -> Nat])'
      BY <1>1, <1>6, Spending DEF LockUnsupported, Events, Losses
    <2> QED
      BY <1>1, <1>6, <2>1, <2>2 DEF LockUnsupported, TypeInv, TypeOK
  <1>7. CASE TakeNotifyLock(j)
    <2>1. (loc \in [Jobs -> LocType])' /\ LocalsInv'
      BY <1>2, <1>7, GotoStep DEF TakeNotifyLock
    <2>2. notifyLock' \in [Replicas -> Kinds \cup {None}]
      BY <1>1, <1>3, <1>7 DEF TakeNotifyLock, TypeOK
    <2> QED
      BY <1>1, <1>7, <2>1, <2>2 DEF TakeNotifyLock, TypeInv, TypeOK
  <1>8. CASE CollectFails(j)
    <2>1. (budget \in [Events -> Nat])'
      BY <1>1, <1>8, Spending DEF CollectFails, Events, Losses
    <2>2. (advisory \in Jobs \cup {None} /\ notifyLock \in [Replicas -> Kinds \cup {None}])'
      BY <1>1, <1>8, LeaveType DEF CollectFails
    <2>3. (loc \in [Jobs -> LocType])' /\ LocalsInv'
      BY <1>8, RestStep, IdleStep DEF CollectFails
    <2>4. tries' \in [Replicas -> 0..MaxTries]
      <3>1. tries \in [Replicas -> 0..MaxTries] /\ MaxTries \in Nat
        BY <1>1, ScheduleNotifyAssumption DEF TypeOK, ScheduleNotifyAssumption
      <3>2. CASE UNCHANGED tries
        BY <3>1, <3>2
      <3>3. CASE /\ tries[j[1]] < MaxTries
                 /\ tries' = [tries EXCEPT ![j[1]] = tries[j[1]] + 1]
        <4>1. tries[j[1]] + 1 \in 0..MaxTries
          BY <1>3, <3>1, <3>3
        <4> QED
          BY <1>3, <3>1, <3>3, <4>1
      <3> QED
        BY <1>8, <3>2, <3>3 DEF CollectFails, RetryLeft
    <2> QED
      BY <1>1, <1>8, <2>1, <2>2, <2>3, <2>4 DEF CollectFails, TypeInv, TypeOK
  <1>9. CASE QueueFails(j)
    <2>1. NextQueue(j)
      BY <1>9 DEF QueueFails, NextQueue
    <2>2. (loc \in [Jobs -> LocType])' /\ LocalsInv'
      BY <2>1, NextQueueStep
    <2>3. (budget \in [Events -> Nat])'
      BY <1>1, <1>9, Spending DEF QueueFails, Events, Losses
    <2> QED
      BY <1>1, <1>9, <2>2, <2>3 DEF QueueFails, TypeInv, TypeOK
  <1> QED
    BY <1>4, <1>5, <1>6, <1>7, <1>8, <1>9

\* The checker.
LEMMA CheckerTypes ==
  ASSUME TypeInv, NEW j \in Jobs,
         \/ CheckerCollect(j) \/ (\E q \in Queues : NoData(j, q) \/ ReadState(j, q))
         \/ WriteSame(j) \/ WriteChange(j) \/ SendChange(j) \/ MarkSent(j) \/ CheckerEnd(j)
  PROVE  TypeInv'
  <1>1. TypeOK /\ LocalsInv
    BY DEF TypeInv
  <1>2. loc[j] \in LocType
    BY <1>1 DEF TypeOK
  <1>3. MidQueue(j) => loc[j].q \in Queues /\ loc[j].sched \in Schedules
    BY <1>1 DEF LocalsInv
  <1> USE DEF envVars, lockVars, dbVars
  <1>4. CASE CheckerCollect(j)
    <2>1. PICK failed \in SUBSET Queues :
            /\ PayForFetch(failed # {})
            /\ loc' = [loc EXCEPT ![j] = [Resting EXCEPT
                 !.pc = "queues", !.todo = Queues,
                 !.got = [q \in Queues |-> IF q \in failed THEN None ELSE src[q]]]]
      BY <1>4 DEF CheckerCollect
    <2> DEFINE l == [Resting EXCEPT
                 !.pc = "queues", !.todo = Queues,
                 !.got = [q \in Queues |-> IF q \in failed THEN None ELSE src[q]]]
    <2>2. [q \in Queues |-> IF q \in failed THEN None ELSE src[q]]
            \in [Queues -> Schedules \cup {None}]
      BY <1>1 DEF TypeOK
    <2>3. l \in LocType /\ l.pc = "queues"
      BY <2>2, RestingType DEF LocType, Pcs
    <2>4. loc' = [loc EXCEPT ![j] = l]
      BY <2>1
    <2> HIDE DEF l
    <2>5. (loc \in [Jobs -> LocType])' /\ LocalsInv'
      BY <2>3, <2>4, LocalsStep
    <2>6. (budget \in [Events -> Nat])'
      BY <1>1, <2>1, Spending DEF PayForFetch, Events, Losses
    <2> QED
      BY <1>1, <1>4, <2>5, <2>6 DEF CheckerCollect, TypeInv, TypeOK
  <1>5. ASSUME NEW q \in Queues, NoData(j, q)
        PROVE  TypeInv'
    <2> DEFINE l == [loc[j] EXCEPT !.todo = @ \ {q}]
    <2>1. l \in LocType /\ l.pc = loc[j].pc /\ l.pc = "queues"
      BY <1>2, <1>5 DEF LocType, NoData, At
    <2>2. loc' = [loc EXCEPT ![j] = l]
      BY <1>5 DEF NoData
    <2> HIDE DEF l
    <2>3. (loc \in [Jobs -> LocType])' /\ LocalsInv'
      BY <2>1, <2>2, LocalsStep
    <2>4. (budget \in [Events -> Nat])'
      BY <1>1, <1>5, Spending DEF NoData, Events, Losses
    <2> QED
      BY <1>1, <1>5, <2>3, <2>4 DEF NoData, TypeInv, TypeOK
  <1>6. ASSUME NEW q \in Queues, ReadState(j, q)
        PROVE  TypeInv'
    <2>1. PICK s \in Schedules, pc \in {"write", "first", "same"}, t \in SUBSET MessageTypes :
            loc' = [loc EXCEPT ![j].todo = @ \ {q}, ![j].q = q, ![j].sched = s,
                               ![j].today = day, ![j].pc = pc, ![j].type = t]
      <3> DEFINE s == IF loc[j].got[q] = None THEN src[q] ELSE loc[j].got[q]
                 pc == CASE ~ SameHash(q, s) -> "write"
                         [] SameHash(q, s) /\ snap[q][day] = None -> "first"
                         [] OTHER -> "same"
                 t == IF SameHash(q, s) THEN {}
                      ELSE UpdateType(stored[q], snap[q][day], snap[q][day - 1], s, day)
      <3>1. s \in Schedules
        BY <1>1, <1>2 DEF TypeOK, LocType
      <3>2. pc \in {"write", "first", "same"}
        OBVIOUS
      <3>3. t \in SUBSET MessageTypes
        BY UpdateTypes
      <3>4. loc' = [loc EXCEPT ![j].todo = @ \ {q}, ![j].q = q, ![j].sched = s,
                               ![j].today = day, ![j].pc = pc, ![j].type = t]
        BY <1>6 DEF ReadState
      <3> HIDE DEF s, pc, t
      <3> QED
        BY <3>1, <3>2, <3>3, <3>4
    <2> DEFINE l == [loc[j] EXCEPT !.todo = @ \ {q}, !.q = q, !.sched = s,
                                   !.today = day, !.pc = pc, !.type = t]
    <2>2. l \in LocType /\ l.q = q /\ l.sched = s
      BY <1>1, <1>2 DEF TypeOK, LocType, Pcs
    <2>3. loc' = [loc EXCEPT ![j] = l]
      BY <2>1
    <2> HIDE DEF l
    <2>4. (loc \in [Jobs -> LocType])' /\ LocalsInv'
      BY <2>2, <2>3, LocalsStep
    <2> QED
      BY <1>1, <1>6, <2>4 DEF ReadState, TypeInv, TypeOK
  <1>7. CASE WriteSame(j)
    <2>1. (loc \in [Jobs -> LocType])' /\ LocalsInv'
      BY <1>7, NextQueueStep DEF WriteSame
    <2>2. MidQueue(j) /\ loc[j].today \in Days
      BY <1>2, <1>7 DEF WriteSame, MidQueue, LocType
    <2>3. snap' \in [Queues -> [0..LastDay -> SnapType \cup {None}]]
      BY <1>1, <1>3, <1>7, <2>2, SnapshottedType DEF WriteSame, TypeOK
    <2> QED
      BY <1>1, <1>7, <2>1, <2>3 DEF WriteSame, TypeInv, TypeOK
  <1>8. CASE WriteChange(j)
    <2> DEFINE l == loc[j]
    <2>1. MidQueue(j) /\ "send" \in Pcs
      BY <1>8 DEF WriteChange, MidQueue, At, Pcs
    <2>2. l.q \in Queues /\ l.sched \in Schedules /\ l.type \in SUBSET MessageTypes
          /\ l.today \in Days
      BY <1>2, <1>3, <2>1 DEF LocType
    <2>3. (loc \in [Jobs -> LocType])' /\ LocalsInv'
      <3>1. NextQueue(j) \/ Goto(j, "send")
        BY <1>8 DEF WriteChange
      <3> QED
        BY <2>1, <3>1, NextQueueStep, GotoStep
    <2>4. stored' \in [Queues -> Schedules \cup {None}]
      BY <1>1, <1>8, <2>2 DEF WriteChange, TypeOK
    <2>5. snap' \in [Queues -> [0..LastDay -> SnapType \cup {None}]]
      BY <1>1, <1>8, <2>2, SnapshottedType DEF WriteChange
    <2>6. pend' \in [Queues -> PendType \cup {None}]
      <3>1. [sched |-> l.sched, type |-> l.type, day |-> day] \in PendType
        BY <1>1, <2>2 DEF PendType, TypeOK
      <3>2. pend' = pend \/ pend' = [pend EXCEPT ![l.q] =
                                       [sched |-> l.sched, type |-> l.type, day |-> day]]
        BY <1>8 DEF WriteChange, QueueForMorning
      <3> QED
        BY <1>1, <2>2, <3>1, <3>2 DEF TypeOK
    <2> QED
      BY <1>1, <1>8, <2>3, <2>4, <2>5, <2>6 DEF WriteChange, TypeInv, TypeOK
  <1>9. CASE SendChange(j)
    <2>1. MidQueue(j) /\ "mark" \in Pcs
      BY <1>9 DEF SendChange, MidQueue, At, Pcs
    <2>2. (loc \in [Jobs -> LocType])' /\ LocalsInv'
      BY <1>9, <2>1, GotoStep DEF SendChange
    <2>3. told' \in [Queues -> Schedules \cup {None}]
      BY <1>1, <1>3, <1>9, <2>1 DEF SendChange, TypeOK
    <2> QED
      BY <1>1, <1>9, <2>2, <2>3 DEF SendChange, TypeInv, TypeOK
  <1>10. CASE MarkSent(j)
    <2>1. (loc \in [Jobs -> LocType])' /\ LocalsInv'
      BY <1>10, NextQueueStep DEF MarkSent
    <2>2. pend' \in [Queues -> PendType \cup {None}]
      BY <1>1, <1>10 DEF MarkSent, Superseded, TypeOK
    <2> QED
      BY <1>1, <1>10, <2>1, <2>2 DEF MarkSent, TypeInv, TypeOK
  <1>11. CASE CheckerEnd(j)
    <2>1. (loc \in [Jobs -> LocType])' /\ LocalsInv'
      BY <1>11, IdleStep DEF CheckerEnd
    <2>2. (advisory \in Jobs \cup {None} /\ notifyLock \in [Replicas -> Kinds \cup {None}])'
      BY <1>1, <1>11, LeaveType DEF CheckerEnd
    <2> QED
      BY <1>1, <1>11, <2>1, <2>2 DEF CheckerEnd, TypeInv, TypeOK
  <1> QED
    BY <1>4, <1>5, <1>6, <1>7, <1>8, <1>9, <1>10, <1>11

\* The flush.
LEMMA FlushTypes ==
  ASSUME TypeInv, NEW j \in Jobs,
         \/ FlushCollect(j) \/ (\E q \in Queues : FlushPending(j, q) \/ FlushFresh(j, q))
         \/ FlushSend(j) \/ FlushCommit(j) \/ FlushEnd(j) \/ Purge(j)
  PROVE  TypeInv'
  <1>1. TypeOK /\ LocalsInv
    BY DEF TypeInv
  <1>2. loc[j] \in LocType
    BY <1>1 DEF TypeOK
  <1>3. MidQueue(j) => loc[j].q \in Queues /\ loc[j].sched \in Schedules
    BY <1>1 DEF LocalsInv
  <1>4. j[1] \in Replicas
    BY DEF Jobs
  <1> USE DEF envVars, lockVars, dbVars
  <1>5. CASE FlushCollect(j)
    <2> DEFINE l == [Resting EXCEPT !.pc = "queues", !.todo = Queues,
                                    !.queued = {q \in Queues : pend[q] # None}]
    <2>1. l \in LocType /\ l.pc = "queues"
      BY RestingType DEF LocType, Pcs
    <2>2. loc' = [loc EXCEPT ![j] = l]
      BY <1>5 DEF FlushCollect
    <2> HIDE DEF l
    <2>3. (loc \in [Jobs -> LocType])' /\ LocalsInv'
      BY <2>1, <2>2, LocalsStep
    <2> QED
      BY <1>1, <1>5, <2>3 DEF FlushCollect, TypeInv, TypeOK
  <1>6. ASSUME NEW q \in Queues, FlushPending(j, q)
        PROVE  TypeInv'
    <2> DEFINE l == [loc[j] EXCEPT !.todo = @ \ {q}, !.q = q, !.pc = "send",
                                   !.sched = pend[q].sched, !.type = pend[q].type]
    <2>1. pend[q] \in PendType
      BY <1>1, <1>6 DEF TypeOK, FlushPending, HasPending
    <2>2. l \in LocType /\ l.q = q /\ l.sched \in Schedules
      BY <1>2, <2>1 DEF LocType, PendType, Pcs
    <2>3. loc' = [loc EXCEPT ![j] = l]
      BY <1>6 DEF FlushPending
    <2> HIDE DEF l
    <2>4. (loc \in [Jobs -> LocType])' /\ LocalsInv'
      BY <2>2, <2>3, LocalsStep
    <2> QED
      BY <1>1, <1>6, <2>4 DEF FlushPending, TypeInv, TypeOK
  <1>7. ASSUME NEW q \in Queues, FlushFresh(j, q)
        PROVE  TypeInv'
    <2>1. PICK s \in Fetched(src[q]) :
            /\ PayForFetch(s = None)
            /\ loc' = IF s = None THEN [loc EXCEPT ![j].todo = @ \ {q}]
                      ELSE [loc EXCEPT ![j].todo = @ \ {q}, ![j].q = q, ![j].pc = "send",
                                       ![j].sched = s, ![j].type = {}]
      BY <1>7 DEF FlushFresh
    <2>2. s \in Schedules \cup {None}
      BY <1>1 DEF Fetched, TypeOK
    <2> DEFINE l == IF s = None THEN [loc[j] EXCEPT !.todo = @ \ {q}]
                    ELSE [loc[j] EXCEPT !.todo = @ \ {q}, !.q = q, !.pc = "send",
                                        !.sched = s, !.type = {}]
    <2>3. l \in LocType
      BY <1>2, <2>2 DEF LocType, Pcs
    <2>4. \/ l.pc = "queues"
          \/ l.q \in Queues /\ l.sched \in Schedules
      BY <1>2, <1>7, <2>2 DEF LocType, FlushFresh, At
    <2>5. loc' = [loc EXCEPT ![j] = l]
      BY <2>1
    <2> HIDE DEF l
    <2>6. (loc \in [Jobs -> LocType])' /\ LocalsInv'
      BY <2>3, <2>4, <2>5, LocalsStep
    <2>7. (budget \in [Events -> Nat])'
      BY <1>1, <2>1, Spending DEF PayForFetch, Events, Losses
    <2> QED
      BY <1>1, <1>7, <2>6, <2>7 DEF FlushFresh, TypeInv, TypeOK
  <1>8. CASE FlushSend(j)
    <2>1. MidQueue(j) /\ "commit" \in Pcs
      BY <1>8 DEF FlushSend, MidQueue, At, Pcs
    <2>2. (loc \in [Jobs -> LocType])' /\ LocalsInv'
      BY <1>8, <2>1, GotoStep DEF FlushSend
    <2>3. told' \in [Queues -> Schedules \cup {None}]
      BY <1>1, <1>3, <1>8, <2>1 DEF FlushSend, TypeOK
    <2> QED
      BY <1>1, <1>8, <2>2, <2>3 DEF FlushSend, TypeInv, TypeOK
  <1>9. CASE FlushCommit(j)
    <2>1. MidQueue(j)
      BY <1>9 DEF FlushCommit, MidQueue, At
    <2>2. (loc \in [Jobs -> LocType])' /\ LocalsInv'
      BY <1>9, NextQueueStep DEF FlushCommit
    <2>3. pend' \in [Queues -> PendType \cup {None}]
      BY <1>1, <1>9 DEF FlushCommit, Superseded, TypeOK
    <2>4. stored' \in [Queues -> Schedules \cup {None}]
      BY <1>1, <1>3, <1>9, <2>1 DEF FlushCommit, TypeOK
    <2>5. snap' \in [Queues -> [0..LastDay -> SnapType \cup {None}]]
      <3>1. day \in Days
        BY <1>1 DEF TypeOK
      <3> QED
        BY <1>1, <1>3, <1>9, <2>1, <3>1, SnapshottedType DEF FlushCommit
    <2> QED
      BY <1>1, <1>9, <2>2, <2>3, <2>4, <2>5 DEF FlushCommit, TypeInv, TypeOK
  <1>10. CASE FlushEnd(j)
    <2>1. (loc \in [Jobs -> LocType])' /\ LocalsInv'
      BY <1>10, RestStep DEF FlushEnd
    <2>2. notifyLock' \in [Replicas -> Kinds \cup {None}]
      BY <1>1, <1>4, <1>10 DEF FlushEnd, TypeOK
    <2> QED
      BY <1>1, <1>10, <2>1, <2>2 DEF FlushEnd, TypeInv, TypeOK
  <1>11. CASE Purge(j)
    <2>1. (loc \in [Jobs -> LocType])' /\ LocalsInv'
      BY <1>11, IdleStep DEF Purge
    <2>2. pend' \in [Queues -> PendType \cup {None}] /\ (budget \in [Events -> Nat])'
      <3>1. CASE UNCHANGED budget /\ pend' = [q \in Queues |->
                   IF pend[q] # None /\ pend[q].day + 2 <= day THEN None ELSE pend[q]]
        BY <1>1, <3>1 DEF TypeOK
      <3>2. CASE Spend("dbError") /\ UNCHANGED pend
        BY <1>1, <3>2, Spending DEF TypeOK, Events, Losses
      <3> QED
        BY <1>11, <3>1, <3>2 DEF Purge
    <2>3. advisory' \in Jobs \cup {None}
      BY <1>1, <1>11, UnlockedType DEF Purge
    <2> QED
      BY <1>1, <1>11, <2>1, <2>2, <2>3 DEF Purge, TypeInv, TypeOK
  <1> QED
    BY <1>5, <1>6, <1>7, <1>8, <1>9, <1>10, <1>11

\* The initial state.
LEMMA InitTypes == Init => TypeInv
  <1> SUFFICES ASSUME Init
               PROVE  TypeInv
    OBVIOUS
  <1>1. 1 \in Days /\ 0 \in 0..MaxTries
    BY ScheduleNotifyAssumption DEF ScheduleNotifyAssumption, Days
  <1>2. src \in [Queues -> Schedules]
    BY DEF Init, Contents
  <1>3. budget \in [Events -> Nat]
    BY ScheduleNotifyAssumption DEF Init, ScheduleNotifyAssumption
  <1>4. TypeOK
    BY <1>1, <1>2, <1>3, RestingType DEF Init, TypeOK
  <1>5. LocalsInv
    BY RestingType DEF Init, LocalsInv, MidQueue
  <1> QED
    BY <1>4, <1>5 DEF TypeInv

LEMMA StepTypes == TypeInv /\ [Next]_vars => TypeInv'
  <1> SUFFICES ASSUME TypeInv, [Next]_vars
               PROVE  TypeInv'
    OBVIOUS
  <1>1. CASE Publish \/ Midnight \/ SixOClock
    BY <1>1, EnvTypes
  <1>2. CASE \E r \in Replicas :
               PollNew(r) \/ PollSame(r) \/ PollError(r) \/ SaveCommitState(r) \/ Crash(r)
    BY <1>2, ProcessTypes
  <1>3. CASE \E j \in Jobs : Work(j)
    BY <1>3, LockTypes, CheckerTypes, FlushTypes DEF Work
  <1>4. CASE \E j \in Jobs : Fault(j)
    BY <1>4, LockTypes, CheckerTypes DEF Fault
  <1>5. CASE UNCHANGED vars
    BY <1>5 DEF vars, TypeInv, TypeOK, LocalsInv, MidQueue,
                envVars, lockVars, dbVars
  <1> QED
    BY <1>1, <1>2, <1>3, <1>4, <1>5 DEF Next

\* The variables keep the shapes the code gives them, whatever fails and for any
\* number of replicas, queues and days.
THEOREM ScheduleTypeCorrect == Spec => []TypeOK
  <1>1. TypeInv => TypeOK
    BY DEF TypeInv
  <1> QED
    BY <1>1, InitTypes, StepTypes, PTL DEF Spec
-----------------------------------------------------------------------------
(* The locks                                                               *)

IInv == TypeInv /\ HoldersInv

\* With a budget that only shrinks, a lock that is trusted was trusted before.
LEMMA TrustShrinks ==
  ASSUME TypeOK, HoldersInv, (budget \in [Events -> Nat])',
         \A k \in Events : budget'[k] <= budget[k]
  PROVE  /\ \E b \in Budgets : \A k \in Events : budget'[k] <= b[k]
         /\ LockTrusted' => LockTrusted
  <1>1. budget \in [Events -> Nat] /\ \A b \in Budgets : b \in [Events -> Nat]
    BY ScheduleNotifyAssumption DEF TypeOK, ScheduleNotifyAssumption
  <1>2. \E b \in Budgets : \A k \in Events : budget'[k] <= b[k]
    BY <1>1 DEF HoldersInv
  <1>3. "lockError" \in Events
    BY DEF Events, Losses
  <1>4. LockTrusted' => LockTrusted
    BY <1>1, <1>3 DEF LockTrusted
  <1> QED
    BY <1>2, <1>4

\* Steps that leave the locks alone and bring nobody to where they are needed.
LEMMA LocksKept ==
  ASSUME TypeOK, HoldersInv, (budget \in [Events -> Nat])',
         \A k \in Events : budget'[k] <= budget[k],
         UNCHANGED lockVars,
         \A i \in Jobs : /\ Inside(i)' => Inside(i)
                         /\ PastLock(i)' => PastLock(i)
  PROVE  HoldersInv'
  <1>1. /\ \E b \in Budgets : \A k \in Events : budget'[k] <= b[k]
        /\ LockTrusted' => LockTrusted
    BY TrustShrinks
  <1> QED
    BY <1>1 DEF HoldersInv, lockVars

\* A job that is alone in its process and with its advisory lock gives both back.
LEMMA LocksLeft ==
  ASSUME TypeOK, HoldersInv, (budget \in [Events -> Nat])',
         \A k \in Events : budget'[k] <= budget[k],
         NEW j \in Jobs, Leave(j), Inside(j),
         ~ PastLock(j)',
         \A i \in Jobs : i # j => loc'[i] = loc[i]
  PROVE  HoldersInv'
  <1>1. /\ \E b \in Budgets : \A k \in Events : budget'[k] <= b[k]
        /\ LockTrusted' => LockTrusted
    BY TrustShrinks
  <1>2. ASSUME NEW i \in Jobs, Inside(i)'
        PROVE  notifyLock'[i[1]] = i[2]
    <2>1. i # j /\ Inside(i)
      BY <1>2 DEF Inside, PastLock
    <2>2. notifyLock[i[1]] = i[2] /\ notifyLock[j[1]] = j[2]
      BY <2>1 DEF HoldersInv
    <2>3. i[1] # j[1]
      BY <2>1, <2>2 DEF Jobs
    <2> QED
      BY <2>2, <2>3 DEF Leave, TypeOK, Jobs
  <1>3. ASSUME LockTrusted', NEW i \in Jobs, PastLock(i)'
        PROVE  advisory' = i
    <2>1. i # j /\ PastLock(i)
      BY <1>3 DEF PastLock
    <2>2. advisory = i
      BY <1>1, <1>3, <2>1 DEF HoldersInv
    <2> QED
      BY <2>1, <2>2 DEF Leave, Unlocked
  <1> QED
    BY <1>1, <1>2, <1>3 DEF HoldersInv

\* What changes the locals of one job.
LEMMA OthersStay ==
  ASSUME TypeOK, NEW j \in Jobs,
         \/ LockTaken(j) \/ LockBusy(j) \/ LockUnsupported(j) \/ TakeNotifyLock(j)
         \/ CollectFails(j) \/ QueueFails(j)
         \/ CheckerCollect(j) \/ (\E q \in Queues : NoData(j, q) \/ ReadState(j, q))
         \/ WriteSame(j) \/ WriteChange(j) \/ SendChange(j) \/ MarkSent(j) \/ CheckerEnd(j)
         \/ FlushCollect(j) \/ (\E q \in Queues : FlushPending(j, q) \/ FlushFresh(j, q))
         \/ FlushSend(j) \/ FlushCommit(j) \/ FlushEnd(j) \/ Purge(j)
  PROVE  \A i \in Jobs : i # j => loc'[i] = loc[i]
  <1> USE DEF Goto, NextQueue
  <1>1. loc \in [Jobs -> LocType]
    BY DEF TypeOK
  <1>2. CASE LockTaken(j) \/ LockBusy(j) \/ LockUnsupported(j) \/ TakeNotifyLock(j)
    BY <1>1, <1>2 DEF LockTaken, LockBusy, LockUnsupported, TakeNotifyLock
  <1>3. CASE CollectFails(j) \/ QueueFails(j) \/ CheckerCollect(j)
    BY <1>1, <1>3 DEF CollectFails, QueueFails, CheckerCollect
  <1>4. CASE \E q \in Queues : NoData(j, q)
    BY <1>1, <1>4 DEF NoData
  <1>5. CASE \E q \in Queues : ReadState(j, q)
    BY <1>1, <1>5 DEF ReadState
  <1>6. CASE WriteSame(j) \/ WriteChange(j) \/ SendChange(j) \/ MarkSent(j) \/ CheckerEnd(j)
    BY <1>1, <1>6 DEF WriteSame, WriteChange, SendChange, MarkSent, CheckerEnd
  <1>7. CASE FlushCollect(j) \/ \E q \in Queues : FlushPending(j, q)
    BY <1>1, <1>7 DEF FlushCollect, FlushPending
  <1>8. CASE \E q \in Queues : FlushFresh(j, q)
    BY <1>1, <1>8 DEF FlushFresh
  <1>9. CASE FlushSend(j) \/ FlushCommit(j) \/ FlushEnd(j) \/ Purge(j)
    BY <1>1, <1>9 DEF FlushSend, FlushCommit, FlushEnd, Purge
  <1> QED
    BY <1>2, <1>3, <1>4, <1>5, <1>6, <1>7, <1>8, <1>9

\* Every step leaves the budget or spends from it.
LEMMA BudgetStep ==
  ASSUME TypeInv, [Next]_vars
  PROVE  (budget \in [Events -> Nat])' /\ \A k \in Events : budget'[k] <= budget[k]
  <1>1. \/ UNCHANGED budget
        \/ \E k \in Events : Spend(k)
    <2>1. CASE Publish \/ Midnight \/ SixOClock
      BY <2>1 DEF Publish, Midnight, SixOClock, Events, Losses
    <2>2. ASSUME NEW r \in Replicas,
                 PollNew(r) \/ PollSame(r) \/ PollError(r) \/ SaveCommitState(r) \/ Crash(r)
          PROVE  UNCHANGED budget \/ \E k \in Events : Spend(k)
      BY <2>2 DEF PollNew, PollSame, PollError, SaveCommitState, Crash, Events, Losses, vars
    <2>3. ASSUME NEW j \in Jobs, Work(j)
          PROVE  UNCHANGED budget \/ \E k \in Events : Spend(k)
      <3>1. CASE LockTaken(j) \/ LockBusy(j) \/ LockUnsupported(j) \/ TakeNotifyLock(j)
        BY <3>1 DEF LockTaken, LockBusy, LockUnsupported, TakeNotifyLock, Events, Losses
      <3>2. CASE CheckerCollect(j) \/ \E q \in Queues : FlushFresh(j, q)
        BY <3>2 DEF CheckerCollect, FlushFresh, PayForFetch, Events, Losses
      <3>3. CASE \E q \in Queues : ReadState(j, q) \/ FlushPending(j, q)
        BY <3>3 DEF ReadState, FlushPending
      <3>4. CASE WriteSame(j) \/ WriteChange(j) \/ SendChange(j) \/ MarkSent(j)
                 \/ CheckerEnd(j)
        BY <3>4 DEF WriteSame, WriteChange, SendChange, MarkSent, CheckerEnd
      <3>5. CASE FlushCollect(j) \/ FlushSend(j) \/ FlushCommit(j) \/ FlushEnd(j) \/ Purge(j)
        BY <3>5 DEF FlushCollect, FlushSend, FlushCommit, FlushEnd, Purge, Events, Losses
      <3> QED
        BY <2>3, <3>1, <3>2, <3>3, <3>4, <3>5 DEF Work
    <2>4. ASSUME NEW j \in Jobs, Fault(j)
          PROVE  UNCHANGED budget \/ \E k \in Events : Spend(k)
      BY <2>4 DEF Fault, LockUnsupported, CollectFails, QueueFails, NoData, Events, Losses
    <2>5. CASE UNCHANGED vars
      BY <2>5 DEF vars
    <2> QED
      BY <2>1, <2>2, <2>3, <2>4, <2>5 DEF Next
  <1>2. "poll" \in Events /\ TypeOK
    BY DEF Events, Losses, TypeInv
  <1>3. CASE UNCHANGED budget
    BY <1>2, <1>3, Spending
  <1>4. CASE \E k \in Events : Spend(k)
    BY <1>2, <1>4, Spending
  <1> QED
    BY <1>1, <1>3, <1>4

\* The steps of a job that works on: it stays inside, or stays outside.
LEMMA WorkHolds ==
  ASSUME IInv, (budget \in [Events -> Nat])', \A k \in Events : budget'[k] <= budget[k],
         NEW j \in Jobs,
         \/ LockBusy(j) \/ QueueFails(j)
         \/ CheckerCollect(j) \/ (\E q \in Queues : NoData(j, q) \/ ReadState(j, q))
         \/ WriteSame(j) \/ WriteChange(j) \/ SendChange(j) \/ MarkSent(j)
         \/ FlushCollect(j) \/ (\E q \in Queues : FlushPending(j, q) \/ FlushFresh(j, q))
         \/ FlushSend(j) \/ FlushCommit(j)
  PROVE  HoldersInv'
  <1>1. TypeOK /\ HoldersInv
    BY DEF IInv, TypeInv
  <1>2. UNCHANGED lockVars
    BY DEF LockBusy, QueueFails, CheckerCollect, NoData, ReadState, WriteSame, WriteChange,
           SendChange, MarkSent, FlushCollect, FlushPending, FlushFresh, FlushSend, FlushCommit
  <1>3. loc \in [Jobs -> LocType]
    BY <1>1 DEF TypeOK
  <1>4. loc'[j].pc \in {"idle", "lock"} \/ Inside(j)
    <2>1. CASE LockBusy(j)
      BY <1>3, <2>1, RestingType DEF LockBusy
    <2>2. CASE QueueFails(j)
      BY <2>2 DEF QueueFails, MidQueue, Inside
    <2>3. CASE ~ LockBusy(j) /\ ~ QueueFails(j)
      BY <2>3 DEF CheckerCollect, NoData, ReadState, WriteSame, WriteChange,
           SendChange, MarkSent, FlushCollect, FlushPending, FlushFresh, FlushSend,
           FlushCommit, At, Inside
    <2> QED
      BY <2>1, <2>2, <2>3
  <1>5. \A i \in Jobs : i # j => loc'[i] = loc[i]
    BY <1>1, OthersStay
  <1>6. \A i \in Jobs : (Inside(i)' => Inside(i)) /\ (PastLock(i)' => PastLock(i))
    BY <1>4, <1>5 DEF Inside, PastLock
  <1> QED
    BY <1>1, <1>2, <1>6, LocksKept

\* The steps that take a lock or give one back.
LEMMA LockHolds ==
  ASSUME IInv, (budget \in [Events -> Nat])', \A k \in Events : budget'[k] <= budget[k],
         NEW j \in Jobs,
         \/ LockTaken(j) \/ LockUnsupported(j) \/ TakeNotifyLock(j)
         \/ CollectFails(j) \/ CheckerEnd(j) \/ FlushEnd(j) \/ Purge(j)
  PROVE  HoldersInv'
  <1>1. TypeOK /\ HoldersInv
    BY DEF IInv, TypeInv
  <1>2. loc \in [Jobs -> LocType] /\ j[1] \in Replicas
    BY <1>1 DEF TypeOK, Jobs
  <1>3. \A i \in Jobs : i # j => loc'[i] = loc[i]
    BY <1>1, OthersStay
  <1>4. /\ \E b \in Budgets : \A k \in Events : budget'[k] <= b[k]
        /\ LockTrusted' => LockTrusted
    BY <1>1, TrustShrinks
  <1>5. CASE LockTaken(j)
    <2>1. loc'[j].pc = "wait" /\ ~ Inside(j)' /\ UNCHANGED notifyLock /\ advisory' = j
      BY <1>2, <1>5 DEF LockTaken, Goto, LocType, Inside
    <2>2. ASSUME LockTrusted', NEW i \in Jobs, PastLock(i)'
          PROVE  i = j
      BY <1>1, <1>3, <1>4, <1>5, <2>2, ScheduleNotifyAssumption
         DEF LockTaken, LockFree, HoldersInv, PastLock, ScheduleNotifyAssumption
    <2>3. \A i \in Jobs : Inside(i)' => Inside(i)
      BY <1>3, <2>1 DEF Inside
    <2> QED
      BY <1>1, <1>4, <2>1, <2>2, <2>3 DEF HoldersInv
  <1>6. CASE LockUnsupported(j)
    <2>1. loc'[j].pc = "wait" /\ ~ Inside(j)' /\ UNCHANGED lockVars
      BY <1>2, <1>6 DEF LockUnsupported, Goto, LocType, Inside
    <2>2. ~ LockTrusted'
      <3>1. CASE Advisory
        <4>1. Spend("lockError") /\ "lockError" \in Events
          BY <1>6, <3>1 DEF LockUnsupported, Events, Losses
        <4>2. PICK b \in Budgets : /\ budget["lockError"] \in Nat /\ b["lockError"] \in Nat
                                   /\ budget["lockError"] <= b["lockError"]
          BY <1>1, <4>1, ScheduleNotifyAssumption
             DEF TypeOK, HoldersInv, ScheduleNotifyAssumption
        <4>3. budget'["lockError"] = budget["lockError"] - 1
          BY <1>1, <4>1 DEF Spend, TypeOK
        <4> QED
          BY <4>2, <4>3 DEF LockTrusted
      <3>2. CASE ~ Advisory
        BY <3>2 DEF LockTrusted
      <3> QED
        BY <3>1, <3>2
    <2>3. \A i \in Jobs : Inside(i)' => Inside(i)
      BY <1>3, <2>1 DEF Inside
    <2> QED
      BY <1>1, <1>4, <2>1, <2>2, <2>3 DEF HoldersInv, lockVars
  <1>7. CASE TakeNotifyLock(j)
    <2>1. PastLock(j) /\ UNCHANGED advisory /\ notifyLock' = [notifyLock EXCEPT ![j[1]] = j[2]]
          /\ notifyLock[j[1]] = None
      BY <1>7 DEF TakeNotifyLock, NotifyLockFree, PastLock, At
    <2>2. \A i \in Jobs : PastLock(i)' => PastLock(i)
      BY <1>3, <2>1 DEF PastLock
    <2>3. ASSUME NEW i \in Jobs, Inside(i)'
          PROVE  notifyLock'[i[1]] = i[2]
      <3>1. notifyLock \in [Replicas -> Kinds \cup {None}] /\ i[1] \in Replicas /\ i[2] \in Kinds
        BY <1>1 DEF TypeOK, Jobs
      <3>2. CASE i = j
        BY <1>2, <2>1, <3>1, <3>2
      <3>3. CASE i # j
        <4>1. notifyLock[i[1]] = i[2] /\ i[2] # None
          BY <1>1, <1>3, <2>3, <3>1, <3>3, ScheduleNotifyAssumption
             DEF HoldersInv, Inside, ScheduleNotifyAssumption
        <4> QED
          BY <1>2, <2>1, <3>1, <4>1
      <3> QED
        BY <3>2, <3>3
    <2> QED
      BY <1>1, <1>4, <2>1, <2>2, <2>3 DEF HoldersInv
  <1>8. CASE CollectFails(j) \/ CheckerEnd(j)
    <2>1. Leave(j) /\ Inside(j)
      BY <1>8 DEF CollectFails, CheckerEnd, Inside, At
    <2>2. ~ PastLock(j)'
      <3>1. loc'[j] = Resting \/ loc'[j] = [Resting EXCEPT !.pc = "lock"]
        BY <1>2, <1>8 DEF CollectFails, CheckerEnd
      <3> QED
        BY <3>1, RestingType DEF PastLock, LocType
    <2> QED
      BY <1>1, <1>3, <2>1, <2>2, LocksLeft
  <1>9. CASE FlushEnd(j)
    <2>1. /\ Inside(j) /\ PastLock(j) /\ UNCHANGED advisory
          /\ notifyLock' = [notifyLock EXCEPT ![j[1]] = None]
      BY <1>9 DEF FlushEnd, Inside, PastLock, At
    <2>2. ~ Inside(j)'
      BY <1>2, <1>9, RestingType DEF FlushEnd, Inside, LocType
    <2>3. ASSUME NEW i \in Jobs, Inside(i)'
          PROVE  notifyLock'[i[1]] = i[2]
      <3>1. i # j /\ Inside(i)
        BY <1>3, <2>2, <2>3 DEF Inside
      <3>2. notifyLock[i[1]] = i[2] /\ notifyLock[j[1]] = j[2]
        BY <1>1, <2>1, <3>1 DEF HoldersInv
      <3>3. i[1] # j[1]
        BY <3>1, <3>2 DEF Jobs
      <3> QED
        BY <1>1, <2>1, <3>2, <3>3 DEF TypeOK, Jobs
    <2>4. \A i \in Jobs : PastLock(i)' => PastLock(i)
      BY <1>3, <2>1 DEF PastLock
    <2> QED
      BY <1>1, <1>4, <2>1, <2>3, <2>4 DEF HoldersInv
  <1>10. CASE Purge(j)
    <2>1. /\ advisory' = Unlocked(j) /\ UNCHANGED notifyLock /\ ~ PastLock(j)' /\ ~ Inside(j)'
      BY <1>2, <1>10, RestingType DEF Purge, PastLock, Inside, LocType
    <2>2. ASSUME LockTrusted', NEW i \in Jobs, PastLock(i)'
          PROVE  advisory' = i
      <3>1. i # j /\ PastLock(i)
        BY <1>3, <2>1, <2>2 DEF PastLock
      <3>2. advisory = i
        BY <1>1, <1>4, <2>2, <3>1 DEF HoldersInv
      <3> QED
        BY <2>1, <3>1, <3>2 DEF Unlocked
    <2>3. \A i \in Jobs : Inside(i)' => Inside(i)
      BY <1>3, <2>1 DEF Inside
    <2> QED
      BY <1>1, <1>4, <2>1, <2>2, <2>3 DEF HoldersInv
  <1> QED
    BY <1>5, <1>6, <1>7, <1>8, <1>9, <1>10

\* The environment, the poll and a crash.
LEMMA EnvHolds ==
  ASSUME IInv, (budget \in [Events -> Nat])', \A k \in Events : budget'[k] <= budget[k],
         \/ Publish \/ Midnight \/ SixOClock
         \/ \E r \in Replicas :
              PollNew(r) \/ PollSame(r) \/ PollError(r) \/ SaveCommitState(r) \/ Crash(r)
  PROVE  HoldersInv'
  <1>1. TypeOK /\ HoldersInv
    BY DEF IInv, TypeInv
  <1>2. loc \in [Jobs -> LocType]
    BY <1>1 DEF TypeOK
  <1>3. CASE UNCHANGED <<loc, lockVars>>
    BY <1>1, <1>3, LocksKept DEF Inside, PastLock
  <1>4. CASE Publish \/ Midnight \/ \E r \in Replicas : PollSame(r) \/ SaveCommitState(r)
    BY <1>3, <1>4 DEF Publish, Midnight, PollSame, SaveCommitState, vars
  <1>5. CASE SixOClock
    <2>1. \A i \in Jobs : loc'[i] = loc[i] \/ loc'[i].pc = "lock"
      BY <1>2, <1>5, RestingType DEF SixOClock, LocType
    <2>2. UNCHANGED lockVars
      BY <1>5 DEF SixOClock
    <2>3. \A i \in Jobs : (Inside(i)' => Inside(i)) /\ (PastLock(i)' => PastLock(i))
      BY <2>1 DEF Inside, PastLock
    <2> QED
      BY <1>1, <2>2, <2>3, LocksKept
  <1>6. ASSUME NEW r \in Replicas, PollNew(r) \/ PollError(r)
        PROVE  HoldersInv'
    <2>1. <<r, "checker">> \in Jobs
      BY DEF Jobs, Kinds
    <2>2. Goto(<<r, "checker">>, "lock") /\ UNCHANGED lockVars
      BY <1>6 DEF PollNew, PollError
    <2>3. \A i \in Jobs : loc'[i] = loc[i] \/ loc'[i].pc = "lock"
      BY <1>2, <2>1, <2>2 DEF Goto, LocType
    <2>4. \A i \in Jobs : (Inside(i)' => Inside(i)) /\ (PastLock(i)' => PastLock(i))
      BY <2>3 DEF Inside, PastLock
    <2> QED
      BY <1>1, <2>2, <2>4, LocksKept
  <1>7. ASSUME NEW r \in Replicas, Crash(r)
        PROVE  HoldersInv'
    <2>1. \A i \in Jobs : IF i[1] = r THEN loc'[i] = Resting ELSE loc'[i] = loc[i]
      BY <1>2, <1>7 DEF Crash
    <2>2. \A i \in Jobs : PastLock(i)' \/ Inside(i)' => i[1] # r /\ loc'[i] = loc[i]
      BY <2>1, RestingType DEF PastLock, Inside
    <2>3. /\ \E b \in Budgets : \A k \in Events : budget'[k] <= b[k]
          /\ LockTrusted' => LockTrusted
      BY <1>1, TrustShrinks
    <2>4. ASSUME NEW i \in Jobs, Inside(i)'
          PROVE  notifyLock'[i[1]] = i[2]
      <3>1. i[1] # r /\ Inside(i)
        BY <2>2, <2>4 DEF Inside
      <3> QED
        BY <1>1, <1>7, <3>1 DEF Crash, HoldersInv, TypeOK, Jobs
    <2>5. ASSUME LockTrusted', NEW i \in Jobs, PastLock(i)'
          PROVE  advisory' = i
      <3>1. i[1] # r /\ PastLock(i)
        BY <2>2, <2>5 DEF PastLock
      <3>2. advisory = i
        BY <1>1, <2>3, <2>5, <3>1 DEF HoldersInv
      <3>3. \A k \in Kinds : i # <<r, k>>
        BY <3>1
      <3> QED
        BY <1>7, <3>2, <3>3 DEF Crash
    <2> QED
      BY <2>3, <2>4, <2>5 DEF HoldersInv
  <1> QED
    BY <1>4, <1>5, <1>6, <1>7

LEMMA StepHolds == IInv /\ [Next]_vars => IInv'
  <1> SUFFICES ASSUME IInv, [Next]_vars
               PROVE  IInv'
    OBVIOUS
  <1>1. TypeInv'
    BY StepTypes DEF IInv
  <1>2. (budget \in [Events -> Nat])' /\ \A k \in Events : budget'[k] <= budget[k]
    BY BudgetStep DEF IInv
  <1>3. HoldersInv'
    <2>1. CASE Publish \/ Midnight \/ SixOClock
      BY <1>2, <2>1, EnvHolds
    <2>2. CASE \E r \in Replicas :
                 PollNew(r) \/ PollSame(r) \/ PollError(r) \/ SaveCommitState(r) \/ Crash(r)
      BY <1>2, <2>2, EnvHolds
    <2>3. CASE \E j \in Jobs : Work(j)
      BY <1>2, <2>3, WorkHolds, LockHolds DEF Work
    <2>4. CASE \E j \in Jobs : Fault(j)
      BY <1>2, <2>4, WorkHolds, LockHolds DEF Fault
    <2>5. CASE UNCHANGED vars
      BY <1>2, <2>5, LocksKept DEF vars, lockVars, Inside, PastLock, IInv, TypeInv
    <2> QED
      BY <2>1, <2>2, <2>3, <2>4, <2>5 DEF Next
  <1> QED
    BY <1>1, <1>3 DEF IInv

LEMMA HoldersAlways == Spec => []IInv
  <1>1. Init => IInv
    <2> SUFFICES ASSUME Init
                 PROVE  IInv
      OBVIOUS
    <2>1. TypeInv
      BY InitTypes
    <2>2. \A j \in Jobs : ~ Inside(j) /\ ~ PastLock(j)
      BY RestingType DEF Init, Inside, PastLock
    <2>3. \E b \in Budgets : \A k \in Events : budget[k] <= b[k]
      BY ScheduleNotifyAssumption DEF Init, ScheduleNotifyAssumption
    <2> QED
      BY <2>1, <2>2, <2>3 DEF IInv, HoldersInv
  <1> QED
    BY <1>1, StepHolds, PTL DEF Spec

\* One job at a time works on the queues: in one process always, by _notify_lock,
\* and across replicas as long as every lock query has been answered.
THEOREM SendersExclude == Spec => []OneSender
  <1>1. IInv => OneSender
    <2> SUFFICES ASSUME IInv, NEW i \in Jobs, NEW j \in Jobs, Inside(i), Inside(j),
                        LockTrusted \/ i[1] = j[1]
                 PROVE  i = j
      BY DEF OneSender
    <2>1. PastLock(i) /\ PastLock(j)
      BY DEF Inside, PastLock
    <2>2. CASE LockTrusted
      BY <2>1, <2>2 DEF IInv, HoldersInv
    <2>3. CASE i[1] = j[1]
      BY <2>3 DEF IInv, HoldersInv, Jobs
    <2> QED
      BY <2>2, <2>3
  <1> QED
    BY <1>1, HoldersAlways, PTL
-----------------------------------------------------------------------------
(* What users are told, as long as nothing is lost and no lock query failed *)

\* Outages of the dates up to the day after d.
Within(s, d) == \A x \in Dates : x > d + 1 => s[x] = None

\* HashIsAnnounced for one queue.
Announced(q) == stored[q] = IF pend[q] # None THEN pend[q].sched ELSE told[q]

Latest(q, d) == snap[q][d] # None /\ \A x \in 0..LastDay : x > d => snap[q][x] = None

\* The latest snapshot is of the stored schedule, whose outages it covers.
SnapshotsFit(q) ==
  /\ stored[q] = None <=> \A d \in 0..LastDay : snap[q][d] = None
  /\ \A d \in 0..LastDay : d > day => snap[q][d] = None
  /\ \A d \in 0..LastDay : Latest(q, d) =>
       snap[q][d] = SnapshotOf(stored[q], d) /\ Within(stored[q], d)

PendingFits(q) == pend[q] # None => pend[q].type # {} /\ Within(pend[q].sched, day)

Named(l) ==
  pend[l.q] = None /\ told[l.q] # None /\ ~ Gap(l.q, l.today) => NamesTheChange(l)

\* What a checker at work knows: it is the only one who touches its queue.
CheckerTask(j) ==
  LET l == loc[j] IN
  /\ l.pc \notin {"commit", "purge"}
  /\ l.pc \in {"queues", "same", "first", "write", "send", "mark"} =>
       \A q \in Queues : l.got[q] # None => Within(l.got[q], day)
  /\ l.pc \in {"same", "first", "write"} =>
       /\ Announced(l.q)
       /\ l.today <= day /\ Within(l.sched, l.today)
       /\ \A d \in 0..LastDay : d > l.today => snap[l.q][d] = None
  /\ l.pc \in {"same", "first"} => l.sched = stored[l.q]
  /\ l.pc = "write" => l.sched # stored[l.q] /\ l.type # {} /\ Named(l)
  /\ l.pc = "send" =>
       /\ l.sched = stored[l.q] /\ Named(l)
       /\ pend[l.q] = None => told[l.q] # l.sched
  /\ l.pc = "mark" => l.sched = stored[l.q] /\ l.sched = told[l.q]

\* What a flush at work knows: every queued notification is in its list, and of
\* those it has worked on none is left.
FlushTask(j) ==
  LET l == loc[j] IN
  /\ l.pc \notin {"same", "first", "write", "mark"}
  /\ l.pc \in {"queues", "send", "commit"} =>
       \A q \in Queues : pend[q] # None => q \in l.queued /\ (q \in l.todo \/ (l.pc # "queues" /\ q = l.q))
  /\ l.pc \in {"send", "commit"} =>
       /\ Within(l.sched, day) /\ l.q \notin l.todo
       /\ l.type = {} => pend[l.q] = None
  /\ l.pc = "commit" => l.sched = told[l.q]
  /\ l.pc = "purge" => \A q \in Queues : pend[q] = None

Unattended(q) == \A j \in Jobs : MidQueue(j) => loc[j].q # q

Truth ==
  /\ \A q \in Queues : Within(src[q], day) /\ SnapshotsFit(q) /\ PendingFits(q)
  /\ \A q \in Queues : Unattended(q) => Announced(q)
  /\ \A j \in Checkers : CheckerTask(j)
  /\ \A j \in Flushes : FlushTask(j)

TruthInv == Calm /\ LockTrusted => Truth
-----------------------------------------------------------------------------
(* Values *)

LEMMA DayNumbers == Days \subseteq Nat /\ LastDay \in Nat /\ Days \subseteq 0..LastDay
                    /\ \A d \in Days : d - 1 \in 0..LastDay
  <1>1. LastDay \in Nat
    BY ScheduleNotifyAssumption DEF ScheduleNotifyAssumption
  <1> QED
    BY <1>1 DEF Days

\* What is within a day is within every later one.
LEMMA WithinLater ==
  ASSUME NEW s, NEW d \in Nat, NEW e \in Nat, d <= e, Within(s, d)
  PROVE  Within(s, e)
  <1>1. Dates \subseteq Nat
    BY DayNumbers DEF Dates
  <1>2. \A x \in Nat : x > e + 1 => x > d + 1
    OBVIOUS
  <1> QED
    BY <1>1, <1>2 DEF Within

\* A snapshot of a schedule is a row.
LEMMA SnapshotIsRow ==
  ASSUME NEW s \in Schedules, NEW d \in Days
  PROVE  SnapshotOf(s, d) \in SnapType /\ SnapshotOf(s, d) # None
  <1>1. SnapshotOf(s, d) \in SnapType
    BY ScheduleOfDay DEF SnapshotOf, SnapType
  <1> QED
    BY <1>1, RowAssumption DEF RowAssumption

\* The update type depends on what is known of today and tomorrow only.
LEMMA SameKnowledge ==
  ASSUME NEW known, NEW n1, NEW b1, NEW n2, NEW b2, NEW s, NEW d,
         KnowsToday(n1, b1), KnowsToday(n2, b2),
         TodayWas(n1, b1) = TodayWas(n2, b2), TomorrowWas(n1) = TomorrowWas(n2)
  PROVE  UpdateType(known, n1, b1, s, d) = UpdateType(known, n2, b2, s, d)
  <1>1. TodayTypes(n1, b1, s[d]) = TodayTypes(n2, b2, s[d])
    BY DEF TodayTypes
  <1>2. TomorrowTypes(n1, s[d + 1]) = TomorrowTypes(n2, s[d + 1])
    BY DEF TomorrowTypes
  <1>3. UnchangedTypes(n1, b1, s[d], s[d + 1]) = UnchangedTypes(n2, b2, s[d], s[d + 1])
    BY <1>2 DEF UnchangedTypes
  <1> QED
    BY <1>1, <1>2, <1>3 DEF UpdateType

\* A change has a type.
LEMMA TypeNotEmpty ==
  ASSUME NEW known, NEW now, NEW before, NEW s, NEW d
  PROVE  UpdateType(known, now, before, s, d) # {}
  <1> DEFINE found == TodayTypes(now, before, s[d]) \cup TomorrowTypes(now, s[d + 1])
                      \cup UnchangedTypes(now, before, s[d], s[d + 1])
  <1>1. UpdateType(known, now, before, s, d)
        = CASE known = None -> found \cup {"initial"}
            [] known # None /\ found = {} -> {"dailyPlanned"}
            [] OTHER -> found
    BY DEF UpdateType
  <1> HIDE DEF found
  <1> QED
    BY <1>1

\* What a check reads of the day and the day before gives the type of the change
\* from what users were told.
LEMMA ReadNames ==
  ASSUME TypeOK, NEW q \in Queues, NEW s, SnapshotsFit(q), Announced(q),
         pend[q] = None, told[q] # None, ~ Gap(q, day)
  PROVE  UpdateType(stored[q], snap[q][day], snap[q][day - 1], s, day)
         = UpdateType(told[q], SnapshotOf(told[q], day), None, s, day)
  <1>1. stored[q] = told[q] /\ told[q] \in Schedules
    BY DEF Announced, TypeOK
  <1>2. day \in Days /\ day \in Nat /\ day \in 0..LastDay /\ day - 1 \in 0..LastDay
    BY DayNumbers DEF TypeOK
  <1>3. /\ SnapshotOf(told[q], day) # None
        /\ SnapshotOf(told[q], day).today = told[q][day]
        /\ SnapshotOf(told[q], day).tomorrow = told[q][day + 1]
    BY <1>1, <1>2, SnapshotIsRow DEF SnapshotOf
  <1>4. KnowsToday(SnapshotOf(told[q], day), None)
    BY <1>3 DEF KnowsToday
  <1>5. CASE snap[q][day] # None
    <2>1. Latest(q, day)
      BY <1>2, <1>5 DEF SnapshotsFit, Latest
    <2>2. snap[q][day] = SnapshotOf(told[q], day)
      BY <1>1, <1>2, <2>1 DEF SnapshotsFit
    <2> QED
      BY <1>1, <1>3, <1>4, <2>2, SameKnowledge DEF KnowsToday, TodayWas, TomorrowWas
  <1>6. CASE snap[q][day] = None /\ snap[q][day - 1] # None
    <2>1. \A x \in 0..LastDay : x > day - 1 => x = day \/ x > day
      BY <1>2
    <2>2. Latest(q, day - 1)
      BY <1>6, <2>1 DEF SnapshotsFit, Latest
    <2>3. snap[q][day - 1] = SnapshotOf(told[q], day - 1) /\ Within(told[q], day - 1)
      BY <1>1, <1>2, <2>2 DEF SnapshotsFit
    <2>4. day - 1 + 1 = day /\ day + 1 > day - 1 + 1 /\ day + 1 \in Dates
      BY <1>2, DayNumbers DEF Days, Dates
    <2>5. snap[q][day - 1].tomorrow = told[q][day]
      BY <2>3, <2>4 DEF SnapshotOf
    <2>6. told[q][day + 1] = None
      BY <2>3, <2>4 DEF Within
    <2>7. /\ KnowsToday(None, snap[q][day - 1])
          /\ TodayWas(None, snap[q][day - 1]) = told[q][day]
          /\ TomorrowWas(None) = None
      BY <1>6, <2>5 DEF KnowsToday, TodayWas, TomorrowWas
    <2>8. /\ TodayWas(SnapshotOf(told[q], day), None) = told[q][day]
          /\ TomorrowWas(SnapshotOf(told[q], day)) = None
      BY <1>3, <2>6 DEF TodayWas, TomorrowWas
    <2> QED
      BY <1>1, <1>4, <1>6, <2>7, <2>8, SameKnowledge
  <1>7. CASE snap[q][day] = None /\ snap[q][day - 1] = None
    <2>1. \A x \in 0..LastDay : x \in 0..(day - 1) \/ x = day \/ x > day
      BY <1>2
    <2>2. \A x \in 0..(day - 1) : snap[q][x] = None
      BY <1>7 DEF Gap
    <2>3. \A x \in 0..LastDay : snap[q][x] = None
      BY <1>7, <2>1, <2>2 DEF SnapshotsFit
    <2> QED
      BY <1>1, <2>3 DEF SnapshotsFit
  <1> QED
    BY <1>5, <1>6, <1>7

\* A snapshot of a day does not change whether the days before have one.
LEMMA GapKept ==
  ASSUME TypeOK, NEW q \in Queues, NEW s, NEW d \in Days, snap' = Snapshotted(q, s, d)
  PROVE  Gap(q, d)' <=> Gap(q, d)
  <1>1. d \in Nat /\ d - 1 # d /\ \A x \in 0..(d - 1) : x # d
    BY DayNumbers
  <1>2. d \in 0..LastDay /\ d - 1 \in 0..LastDay /\ \A x \in 0..(d - 1) : x \in 0..LastDay
    BY <1>1, DayNumbers
  <1>3. snap \in [Queues -> [0..LastDay -> SnapType \cup {None}]]
    BY DEF TypeOK
  <1>4. \A x \in 0..LastDay : x # d => snap'[q][x] = snap[q][x]
    BY <1>2, <1>3 DEF Snapshotted
  <1> QED
    BY <1>1, <1>2, <1>4 DEF Gap

\* A snapshot that is taken with its schedule stored, and no later one.
LEMMA SnapshotTaken ==
  ASSUME TypeOK, NEW q \in Queues, NEW s \in Schedules, NEW d \in Days, d <= day,
         \A x \in 0..LastDay : x > d => snap[q][x] = None,
         Within(s, d), snap' = Snapshotted(q, s, d),
         stored'[q] = s, \A o \in Queues : o # q => stored'[o] = stored[o],
         UNCHANGED day, \A o \in Queues : SnapshotsFit(o)
  PROVE  \A o \in Queues : SnapshotsFit(o)'
  <1>1. snap \in [Queues -> [0..LastDay -> SnapType \cup {None}]] /\ d \in 0..LastDay
    BY DayNumbers DEF TypeOK
  <1>2. /\ snap'[q][d] = SnapshotOf(s, d) /\ snap'[q][d] # None
        /\ \A x \in 0..LastDay : x # d => snap'[q][x] = snap[q][x]
        /\ \A o \in Queues : o # q => snap'[o] = snap[o]
    BY <1>1, SnapshotIsRow DEF Snapshotted
  <1>3. d \in Nat /\ day \in Nat /\ \A x \in 0..LastDay : x \in Nat
    BY DayNumbers DEF TypeOK
  <1>4. SnapshotsFit(q)'
    <2>1. s # None
      BY ScheduleNotifyAssumption DEF ScheduleNotifyAssumption
    <2>2. \A x \in 0..LastDay : x > day => x # d
      BY <1>3
    <2>3. ASSUME NEW x \in 0..LastDay, Latest(q, x)'
          PROVE  x = d
      <3>1. ~ (d > x)
        BY <1>1, <1>2, <2>3 DEF Latest
      <3>2. ~ (x > d)
        BY <1>2, <1>3, <2>3 DEF Latest
      <3> QED
        BY <1>3, <3>1, <3>2
    <2> QED
      BY <1>1, <1>2, <2>1, <2>2, <2>3 DEF SnapshotsFit
  <1>5. ASSUME NEW o \in Queues, o # q
        PROVE  SnapshotsFit(o)'
    BY <1>2, <1>5 DEF SnapshotsFit, Latest
  <1> QED
    BY <1>4, <1>5
-----------------------------------------------------------------------------
(* What a step does to the locals of its job *)

LEMMA GotoEffect ==
  ASSUME TypeOK, NEW j \in Jobs, NEW pc, Goto(j, pc)
  PROVE  /\ loc'[j].pc = pc
         /\ loc'[j].todo = loc[j].todo /\ loc'[j].got = loc[j].got
         /\ loc'[j].q = loc[j].q /\ loc'[j].sched = loc[j].sched
         /\ loc'[j].type = loc[j].type /\ loc'[j].today = loc[j].today
         /\ loc'[j].queued = loc[j].queued
  BY DEF Goto, TypeOK, LocType

LEMMA NextQueueEffect ==
  ASSUME TypeOK, NEW j \in Jobs, NextQueue(j)
  PROVE  /\ loc'[j].pc = "queues" /\ loc'[j].q = None
         /\ loc'[j].todo = loc[j].todo /\ loc'[j].got = loc[j].got
         /\ loc'[j].queued = loc[j].queued
  BY DEF NextQueue, TypeOK, LocType

LEMMA ReadEffect ==
  ASSUME TypeOK, NEW j \in Jobs, NEW q \in Queues, ReadState(j, q)
  PROVE  LET s == IF loc[j].got[q] = None THEN src[q] ELSE loc[j].got[q] IN
         /\ loc'[j].q = q /\ loc'[j].sched = s /\ loc'[j].today = day
         /\ loc'[j].got = loc[j].got
         /\ IF stored[q] # s
            THEN /\ loc'[j].pc = "write"
                 /\ loc'[j].type = UpdateType(stored[q], snap[q][day], snap[q][day - 1], s, day)
            ELSE loc'[j].pc \in {"same", "first"}
  <1> DEFINE s == IF loc[j].got[q] = None THEN src[q] ELSE loc[j].got[q]
             pc == CASE ~ SameHash(q, s) -> "write"
                     [] SameHash(q, s) /\ snap[q][day] = None -> "first"
                     [] OTHER -> "same"
             t == IF SameHash(q, s) THEN {}
                  ELSE UpdateType(stored[q], snap[q][day], snap[q][day - 1], s, day)
  <1>1. loc' = [loc EXCEPT ![j].todo = @ \ {q}, ![j].q = q, ![j].sched = s,
                           ![j].today = day, ![j].pc = pc, ![j].type = t]
    BY DEF ReadState
  <1> HIDE DEF s
  <1>2. SameHash(q, s) <=> stored[q] = s
    BY DEF SameHash
  <1>3. /\ IF stored[q] # s THEN pc = "write" ELSE pc \in {"same", "first"}
        /\ stored[q] # s => t = UpdateType(stored[q], snap[q][day], snap[q][day - 1], s, day)
    BY <1>2
  <1> HIDE DEF pc, t
  <1>4. /\ loc'[j].q = q /\ loc'[j].sched = s /\ loc'[j].today = day
        /\ loc'[j].pc = pc /\ loc'[j].type = t /\ loc'[j].got = loc[j].got
    BY <1>1 DEF TypeOK, LocType
  <1>5. /\ loc'[j].q = q /\ loc'[j].sched = s /\ loc'[j].today = day
        /\ loc'[j].got = loc[j].got
        /\ IF stored[q] # s
           THEN /\ loc'[j].pc = "write"
                /\ loc'[j].type = UpdateType(stored[q], snap[q][day], snap[q][day - 1], s, day)
           ELSE loc'[j].pc \in {"same", "first"}
    BY <1>3, <1>4
  <1> QED
    BY <1>5 DEF s

\* A flush takes a queue: what was queued, or what is published.
LEMMA TakeEffect ==
  ASSUME TypeOK, NEW j \in Jobs, NEW q \in Queues, FlushPending(j, q) \/ FlushFresh(j, q)
  PROVE  /\ loc'[j].queued = loc[j].queued /\ loc'[j].todo = loc[j].todo \ {q}
         /\ \/ /\ loc'[j].pc = "queues" /\ loc'[j].q = loc[j].q /\ ~ HasPending(j, q)
            \/ /\ loc'[j].pc = "send" /\ loc'[j].q = q
               /\ loc'[j].sched = pend[q].sched /\ loc'[j].type = pend[q].type
               /\ HasPending(j, q)
            \/ /\ loc'[j].pc = "send" /\ loc'[j].q = q
               /\ loc'[j].sched = src[q] /\ loc'[j].type = {}
               /\ ~ HasPending(j, q)
  <1>1. loc \in [Jobs -> LocType]
    BY DEF TypeOK
  <1>2. CASE FlushPending(j, q)
    BY <1>1, <1>2 DEF FlushPending, LocType
  <1>3. CASE FlushFresh(j, q)
    <2>1. PICK s \in Fetched(src[q]) :
            loc' = IF s = None THEN [loc EXCEPT ![j].todo = @ \ {q}]
                   ELSE [loc EXCEPT ![j].todo = @ \ {q}, ![j].q = q, ![j].pc = "send",
                                    ![j].sched = s, ![j].type = {}]
      BY <1>3 DEF FlushFresh
    <2>2. s = None \/ s = src[q]
      BY <2>1 DEF Fetched
    <2>3. loc[j].pc = "queues" /\ ~ HasPending(j, q)
      BY <1>3 DEF FlushFresh, At
    <2> QED
      BY <1>1, <2>1, <2>2, <2>3 DEF LocType
  <1> QED
    BY <1>2, <1>3
-----------------------------------------------------------------------------
(* Frames *)

\* What makes for TruthInv: nothing was lost before this step either.
LEMMA CalmShrinks ==
  ASSUME IInv, [Next]_vars, Calm', LockTrusted'
  PROVE  Calm /\ LockTrusted
  <1>1. (budget \in [Events -> Nat])' /\ \A k \in Events : budget'[k] <= budget[k]
    BY BudgetStep DEF IInv
  <1>2. LockTrusted
    BY <1>1, TrustShrinks DEF IInv, TypeInv
  <1>3. budget'["calm"] <= budget["calm"] /\ budget["calm"] \in Nat /\ budget'["calm"] \in Nat
    BY <1>1 DEF Events, Losses, IInv, TypeInv, TypeOK
  <1>4. Calm
    BY <1>3 DEF Calm
  <1> QED
    BY <1>2, <1>4

\* Who spends from what is lost is not calm.
LEMMA LossEndsCalm ==
  ASSUME TypeOK, NEW k \in Losses, Spend(k)
  PROVE  ~ Calm'
  <1>1. budget \in [Events -> Nat] /\ "calm" \in Events /\ k \in Events /\ k # "calm"
    BY DEF TypeOK, Events, Losses
  <1>2. budget'["calm"] = 0
    BY <1>1 DEF Spend
  <1> QED
    BY <1>2 DEF Calm

\* One job is past the lock.
LEMMA OnePastLock ==
  ASSUME HoldersInv, LockTrusted, NEW i \in Jobs, NEW j \in Jobs, PastLock(i), PastLock(j)
  PROVE  i = j
  BY DEF HoldersInv

\* A job that is not past the lock knows nothing.
LEMMA NoTask ==
  ASSUME NEW j \in Jobs, ~ PastLock(j)
  PROVE  /\ ~ MidQueue(j)
         /\ j \in Checkers => CheckerTask(j)
         /\ j \in Flushes => FlushTask(j)
  BY DEF PastLock, MidQueue, CheckerTask, FlushTask

\* A step of a job at work: what is to be shown of the state after it.
LEMMA AtWork ==
  ASSUME IInv, Truth, LockTrusted, NEW j \in Jobs, PastLock(j),
         \A i \in Jobs : i # j => loc'[i] = loc[i],
         \A q \in Queues : (Within(src[q], day) /\ SnapshotsFit(q) /\ PendingFits(q))',
         \A q \in Queues : (MidQueue(j)' => loc'[j].q # q) => Announced(q)',
         j \in Checkers => CheckerTask(j)',
         j \in Flushes => FlushTask(j)'
  PROVE  Truth'
  <1>1. \A i \in Jobs : i # j => ~ PastLock(i)
    BY OnePastLock DEF IInv
  <1>2. \A i \in Jobs : i # j => ~ PastLock(i)'
    BY <1>1 DEF PastLock
  <1>3. \A i \in Checkers : CheckerTask(i)'
    BY <1>2 DEF Checkers, PastLock, CheckerTask
  <1>4. \A i \in Flushes : FlushTask(i)'
    BY <1>2 DEF Flushes, PastLock, FlushTask
  <1>5. \A q \in Queues : Unattended(q)' => Announced(q)'
    BY DEF Unattended
  <1> QED
    BY <1>3, <1>4, <1>5 DEF Truth

\* What is known before a step of a job at work.
LEMMA BeforeWork ==
  ASSUME IInv, Truth, LockTrusted, NEW j \in Jobs, PastLock(j)
  PROVE  /\ \A q \in Queues : Within(src[q], day) /\ SnapshotsFit(q) /\ PendingFits(q)
         /\ \A q \in Queues : (MidQueue(j) => loc[j].q # q) => Announced(q)
         /\ j \in Checkers => CheckerTask(j)
         /\ j \in Flushes => FlushTask(j)
  <1>1. \A i \in Jobs : i # j => ~ MidQueue(i)
    BY OnePastLock DEF IInv, MidQueue, PastLock
  <1>2. \A q \in Queues : (MidQueue(j) => loc[j].q # q) => Unattended(q)
    BY <1>1 DEF Unattended
  <1> QED
    BY <1>2 DEF Truth

\* Steps that leave the queues alone, and bring jobs to places outside of them.
LEMMA Aside ==
  ASSUME Truth, UNCHANGED <<src, day, dbVars, told>>,
         \A j \in Jobs : \/ loc'[j] = loc[j]
                         \/ /\ loc'[j].pc \in {"idle", "lock", "wait", "collect"}
                            /\ ~ MidQueue(j)
  PROVE  Truth'
  <1>1. UNCHANGED stored /\ UNCHANGED snap /\ UNCHANGED pend
    BY DEF dbVars
  <1>2. \A q \in Queues : (Within(src[q], day) /\ SnapshotsFit(q) /\ PendingFits(q))'
    BY <1>1 DEF Truth, SnapshotsFit, Latest, PendingFits, Within, SnapshotOf
  <1>3. \A j \in Jobs : MidQueue(j) => loc'[j] = loc[j]
    OBVIOUS
  <1>4. \A q \in Queues : Unattended(q)' => Announced(q)'
    <2>1. \A q \in Queues : Unattended(q)' => Unattended(q)
      BY <1>3 DEF Unattended, MidQueue
    <2>2. \A q \in Queues : Announced(q)' <=> Announced(q)
      BY <1>1 DEF Announced
    <2> QED
      BY <2>1, <2>2 DEF Truth
  <1>5. ASSUME NEW j \in Checkers
        PROVE  CheckerTask(j)'
    <2>1. CASE loc'[j] = loc[j]
      <3>1. CheckerTask(j)
        BY DEF Truth
      <3> QED
        BY <1>1, <2>1, <3>1
        DEF CheckerTask, Within, Announced, Named, NamesTheChange, Gap
    <2>2. CASE loc'[j].pc \in {"idle", "lock", "wait", "collect"}
      BY <2>2 DEF CheckerTask
    <2>3. j \in Jobs
      BY DEF Checkers
    <2> QED
      BY <2>1, <2>2, <2>3
  <1>6. ASSUME NEW j \in Flushes
        PROVE  FlushTask(j)'
    <2>1. CASE loc'[j] = loc[j]
      <3>1. FlushTask(j)
        BY DEF Truth
      <3> QED
        BY <1>1, <2>1, <3>1 DEF FlushTask, Within
    <2>2. CASE loc'[j].pc \in {"idle", "lock", "wait", "collect"}
      BY <2>2 DEF FlushTask
    <2> QED
      BY <2>1, <2>2 DEF Flushes
  <1> QED
    BY <1>2, <1>4, <1>5, <1>6 DEF Truth
-----------------------------------------------------------------------------
(* Steps *)

\* The source and the clock.
LEMMA EnvTruth ==
  ASSUME IInv, IInv', Truth, Publish \/ Midnight
  PROVE  Truth'
  <1>1. TypeOK /\ TypeOK'
    BY DEF IInv, TypeInv
  <1>2. day \in Nat /\ day' \in Nat /\ day <= day'
    BY <1>1, DayNumbers DEF TypeOK, Publish, Midnight
  <1>3. UNCHANGED loc /\ UNCHANGED stored /\ UNCHANGED snap /\ UNCHANGED pend /\ UNCHANGED told
    BY DEF Publish, Midnight, dbVars
  <1>4. \A s : Within(s, day) => Within(s, day')
    BY <1>2, WithinLater
  <1>5. \A q \in Queues : Within(src[q], day)'
    <2>1. CASE Publish
      <3>1. day' = day /\ \A q \in Queues : src'[q] \in Contents(day)
        BY <2>1 DEF Publish
      <3>2. \A x \in Dates : x > day + 1 => x \notin {day, day + 1}
        BY <1>2, DayNumbers DEF Dates
      <3>3. \A s \in Contents(day) : Within(s, day)
        BY <3>2 DEF Contents, Within
      <3> QED
        BY <3>1, <3>3 DEF Within
    <2>2. CASE Midnight
      <3>1. \A q \in Queues : Within(src[q], day')
        BY <1>4 DEF Truth
      <3> QED
        BY <2>2, <3>1 DEF Midnight, Within
    <2> QED
      BY <2>1, <2>2
  <1>6. \A q \in Queues : SnapshotsFit(q)'
    <2>1. \A d \in 0..LastDay : d > day' => d > day
      BY <1>2
    <2> QED
      BY <1>3, <2>1 DEF Truth, SnapshotsFit, Latest, Within, SnapshotOf
  <1>7. \A q \in Queues : PendingFits(q)'
    BY <1>3, <1>4 DEF Truth, PendingFits, Within
  <1>8. \A q \in Queues : Unattended(q)' => Announced(q)'
    BY <1>3 DEF Truth, Unattended, Announced, MidQueue
  <1>9. ASSUME NEW j \in Checkers
        PROVE  CheckerTask(j)'
    <2>1. loc[j].pc \in {"same", "first", "write"} =>
            loc[j].today \in Nat
      BY <1>1, DayNumbers DEF Checkers, TypeOK, LocType
    <2>2. \A n \in Nat : n <= day => n <= day'
      BY <1>2
    <2>3. CheckerTask(j)
      BY DEF Truth
    <2> QED
      BY <1>3, <1>4, <2>1, <2>2, <2>3
      DEF CheckerTask, Within, Announced, Named, NamesTheChange, Gap
  <1>10. ASSUME NEW j \in Flushes
         PROVE  FlushTask(j)'
    <2>1. FlushTask(j)
      BY DEF Truth
    <2> QED
      BY <1>3, <1>4, <2>1 DEF FlushTask, Within
  <1> QED
    BY <1>5, <1>6, <1>7, <1>8, <1>9, <1>10 DEF Truth

\* The checker takes a queue.
LEMMA CheckerTakes ==
  ASSUME IInv, IInv', Truth, LockTrusted, NEW j \in Jobs,
         CheckerCollect(j) \/ \E q \in Queues : NoData(j, q) \/ ReadState(j, q)
  PROVE  Truth'
  <1>1. TypeOK /\ TypeOK'
    BY DEF IInv, TypeInv
  <1>2. j \in Checkers /\ j \notin Flushes /\ PastLock(j) /\ ~ MidQueue(j)
    BY DEF CheckerCollect, NoData, ReadState, At, PastLock, MidQueue, Checkers, Flushes
  <1>3. UNCHANGED src /\ UNCHANGED day /\ UNCHANGED told
        /\ UNCHANGED stored /\ UNCHANGED snap /\ UNCHANGED pend
    BY DEF CheckerCollect, NoData, ReadState, envVars, dbVars
  <1>4. \A i \in Jobs : i # j => loc'[i] = loc[i]
    BY <1>1, OthersStay
  <1>5. /\ \A q \in Queues : Within(src[q], day) /\ SnapshotsFit(q) /\ PendingFits(q)
        /\ \A q \in Queues : Announced(q)
        /\ CheckerTask(j)
    BY <1>2, BeforeWork
  <1>6. /\ \A q \in Queues : (Within(src[q], day) /\ SnapshotsFit(q) /\ PendingFits(q))'
        /\ \A q \in Queues : Announced(q)'
    BY <1>3, <1>5 DEF SnapshotsFit, Latest, PendingFits, Within, SnapshotOf, Announced
  <1>7. CASE CheckerCollect(j)
    <2>1. loc'[j].pc = "queues" /\ \A q \in Queues : loc'[j].got[q] \in {None, src[q]}
      <3>1. PICK failed \in SUBSET Queues :
              loc' = [loc EXCEPT ![j] = [Resting EXCEPT
                !.pc = "queues", !.todo = Queues,
                !.got = [q \in Queues |-> IF q \in failed THEN None ELSE src[q]]]]
        BY <1>7 DEF CheckerCollect
      <3> QED
        BY <1>1, <3>1 DEF TypeOK, Resting
    <2>2. CheckerTask(j)'
      BY <1>3, <1>5, <2>1 DEF CheckerTask, Within
    <2> QED
      BY <1>2, <1>4, <1>6, <2>2, AtWork
  <1>8. ASSUME NEW q \in Queues, NoData(j, q)
        PROVE  Truth'
    <2>1. loc'[j].pc = "queues" /\ loc'[j].got = loc[j].got /\ loc[j].pc = "queues"
      BY <1>1, <1>8 DEF NoData, At, TypeOK, LocType
    <2>2. CheckerTask(j)'
      BY <1>3, <1>5, <2>1 DEF CheckerTask, Within
    <2> QED
      BY <1>2, <1>4, <1>6, <2>2, AtWork
  <1>9. ASSUME NEW q \in Queues, ReadState(j, q)
        PROVE  Truth'
    <2> DEFINE s == IF loc[j].got[q] = None THEN src[q] ELSE loc[j].got[q]
    <2>1. loc[j].pc = "queues"
      BY <1>9 DEF ReadState, At
    <2>2. Within(s, day)
      BY <1>5, <2>1 DEF CheckerTask
    <2>3. /\ loc'[j].q = q /\ loc'[j].sched = s /\ loc'[j].today = day
          /\ loc'[j].got = loc[j].got
          /\ IF stored[q] # s
             THEN /\ loc'[j].pc = "write"
                  /\ loc'[j].type = UpdateType(stored[q], snap[q][day], snap[q][day - 1], s, day)
             ELSE loc'[j].pc \in {"same", "first"}
      BY <1>1, <1>9, ReadEffect
    <2> HIDE DEF s
    <2>4. \A d \in 0..LastDay : d > day => snap[q][d] = None
      BY <1>5 DEF SnapshotsFit
    <2>5. day \in Nat /\ day <= day
      BY <1>1, DayNumbers DEF TypeOK
    <2>6. loc'[j].pc = "write" => Named(loc[j])'
      <3>1. pend[q] = None /\ told[q] # None /\ ~ Gap(q, day) =>
              UpdateType(stored[q], snap[q][day], snap[q][day - 1], s, day)
              = UpdateType(told[q], SnapshotOf(told[q], day), None, s, day)
        BY <1>1, <1>5, ReadNames
      <3>2. Gap(q, day)' <=> Gap(q, day)
        BY <1>3 DEF Gap
      <3> QED
        BY <1>3, <2>3, <3>1, <3>2 DEF Named, NamesTheChange, Gap
    <2>7. loc'[j].pc = "write" => loc'[j].type # {}
      BY <2>3, TypeNotEmpty
    <2>8. CheckerTask(j)'
      BY <1>3, <1>5, <1>6, <2>1, <2>2, <2>3, <2>4, <2>5, <2>6, <2>7 DEF CheckerTask, Within, Announced
    <2> QED
      BY <1>2, <1>4, <1>6, <2>8, AtWork
  <1> QED
    BY <1>7, <1>8, <1>9
\* The checker writes what it decided.
LEMMA CheckerWrites ==
  ASSUME IInv, IInv', Truth, LockTrusted, NEW j \in Jobs, j \in Checkers,
         WriteSame(j) \/ WriteChange(j)
  PROVE  Truth'
  <1>1. TypeOK /\ TypeOK'
    BY DEF IInv, TypeInv
  <1>2. j \notin Flushes /\ PastLock(j) /\ MidQueue(j)
        /\ loc[j].pc \in {"same", "first", "write"}
    BY DEF WriteSame, WriteChange, At, PastLock, MidQueue, Checkers, Flushes
  <1> DEFINE q == loc[j].q
             s == loc[j].sched
             d == loc[j].today
  <1>3. q \in Queues /\ s \in Schedules /\ d \in Days /\ s # None
    BY <1>1, <1>2, ScheduleNotifyAssumption
    DEF IInv, TypeInv, LocalsInv, TypeOK, LocType, ScheduleNotifyAssumption
  <1>4. UNCHANGED src /\ UNCHANGED day /\ UNCHANGED told
    BY DEF WriteSame, WriteChange, envVars
  <1>5. \A i \in Jobs : i # j => loc'[i] = loc[i]
    BY <1>1, OthersStay
  <1>6. /\ \A o \in Queues : Within(src[o], day) /\ SnapshotsFit(o) /\ PendingFits(o)
        /\ \A o \in Queues : o # q => Announced(o)
        /\ CheckerTask(j)
    BY <1>2, BeforeWork
  <1>7. /\ Announced(q) /\ d <= day /\ Within(s, d)
        /\ \A x \in 0..LastDay : x > d => snap[q][x] = None
        /\ \A o \in Queues : loc[j].got[o] # None => Within(loc[j].got[o], day)
    BY <1>2, <1>6 DEF CheckerTask
  <1>8. /\ d \in Nat /\ day \in Nat /\ Within(s, day)
        /\ \A o \in Queues : Within(src[o], day)'
    <2>1. d \in Nat /\ day \in Nat
      BY <1>1, <1>3, DayNumbers DEF TypeOK
    <2>2. Within(s, day)
      BY <1>7, <2>1, WithinLater
    <2> QED
      BY <1>4, <1>6, <2>1, <2>2 DEF Within
  <1>9. CASE WriteSame(j)
    <2>1. UNCHANGED stored /\ UNCHANGED pend /\ loc'[j].pc = "queues"
          /\ loc'[j].got = loc[j].got
      BY <1>1, <1>9, NextQueueEffect DEF WriteSame
    <2>2. s = stored[q]
      BY <1>6, <1>9 DEF WriteSame, CheckerTask
    <2>3. snap' = snap \/ snap' = Snapshotted(q, s, d)
      BY <1>9 DEF WriteSame
    <2> HIDE DEF q, s, d
    <2>4. \A o \in Queues : SnapshotsFit(o)'
      <3>1. CASE snap' = snap
        BY <1>4, <1>6, <2>1, <3>1 DEF SnapshotsFit, Latest, Within, SnapshotOf
      <3>2. CASE snap' = Snapshotted(q, s, d)
        BY <1>1, <1>3, <1>4, <1>6, <1>7, <2>1, <2>2, <3>2, SnapshotTaken
      <3> QED
        BY <2>3, <3>1, <3>2
    <2>5. \A o \in Queues : PendingFits(o)' /\ Announced(o)'
      BY <1>4, <1>6, <1>7, <2>1 DEF PendingFits, Announced, Within
    <2>6. CheckerTask(j)'
      BY <1>4, <1>7, <2>1 DEF CheckerTask, Within
    <2> QED
      BY <1>2, <1>5, <1>8, <2>4, <2>5, <2>6, AtWork
  <1>10. CASE WriteChange(j)
    <2>1. /\ stored' = [stored EXCEPT ![q] = s] /\ snap' = Snapshotted(q, s, d)
          /\ s # stored[q] /\ loc[j].type # {} /\ Named(loc[j])
      BY <1>6, <1>10 DEF WriteChange, CheckerTask, At
    <2>2. stored'[q] = s /\ \A o \in Queues : o # q => stored'[o] = stored[o]
      BY <1>1, <1>3, <2>1 DEF TypeOK
    <2>3. \A o \in Queues : SnapshotsFit(o)'
      <3> HIDE DEF q, s, d
      <3> QED
        BY <1>1, <1>3, <1>4, <1>6, <1>7, <2>1, <2>2, SnapshotTaken
    <2>4. CASE quiet
      <3> DEFINE row == [sched |-> s, type |-> loc[j].type, day |-> day]
      <3>1. pend' = [pend EXCEPT ![q] = row]
        BY <1>10, <2>4 DEF WriteChange, QueueForMorning
      <3>2. row \in PendType /\ row.sched = s /\ row.type = loc[j].type
        BY <1>1, <1>3 DEF PendType, TypeOK, LocType
      <3>3. row # None
        BY <3>2, RowAssumption DEF RowAssumption
      <3> HIDE DEF row, q, s, d
      <3>4. pend'[q] = row /\ \A o \in Queues : o # q => pend'[o] = pend[o]
        BY <1>1, <1>3, <3>1 DEF TypeOK
      <3>5. \A o \in Queues : PendingFits(o)'
        BY <1>4, <1>6, <1>8, <2>1, <3>2, <3>4 DEF PendingFits, Within
      <3>6. \A o \in Queues : Announced(o)'
        BY <1>4, <1>6, <2>2, <3>2, <3>3, <3>4 DEF Announced
      <3>7. loc'[j].pc = "queues" /\ loc'[j].got = loc[j].got
        BY <1>1, <1>10, <2>4, NextQueueEffect DEF WriteChange
      <3>8. CheckerTask(j)'
        BY <1>4, <1>7, <3>7 DEF CheckerTask, Within
      <3> QED
        BY <1>2, <1>5, <1>8, <2>3, <3>5, <3>6, <3>8, AtWork
    <2>5. CASE ~ quiet
      <3>1. UNCHANGED pend /\ Goto(j, "send")
        BY <1>10, <2>5 DEF WriteChange
      <3>2. /\ loc'[j].pc = "send" /\ loc'[j].got = loc[j].got
            /\ loc'[j].q = q /\ loc'[j].sched = s /\ loc'[j].today = d
            /\ loc'[j].type = loc[j].type
        BY <1>1, <3>1, GotoEffect
      <3>3. MidQueue(j)'
        BY <3>2 DEF MidQueue
      <3>4. \A o \in Queues, x \in Days : o = q /\ x = d => (Gap(o, x)' <=> Gap(o, x))
        BY <1>1, <2>1, GapKept
      <3>5. Named(loc[j])'
        BY <1>3, <1>4, <2>1, <3>1, <3>2, <3>4 DEF Named, NamesTheChange
      <3>6. pend[q] = None => told[q] # s
        BY <1>7, <2>1 DEF Announced
      <3>7. CheckerTask(j)'
        BY <1>4, <1>7, <2>2, <3>1, <3>2, <3>5, <3>6 DEF CheckerTask, Within
      <3>8. \A o \in Queues : PendingFits(o)' /\ (loc'[j].q # o => Announced(o)')
        BY <1>4, <1>6, <2>2, <3>1, <3>2 DEF PendingFits, Announced, Within
      <3> QED
        BY <1>2, <1>5, <1>8, <2>3, <3>3, <3>7, <3>8, AtWork
    <2> QED
      BY <2>4, <2>5
  <1> QED
    BY <1>9, <1>10

\* The checker sends what it wrote, and what was queued is superseded.
LEMMA CheckerSends ==
  ASSUME IInv, IInv', Truth, LockTrusted, NEW j \in Jobs, j \in Checkers,
         SendChange(j) \/ MarkSent(j)
  PROVE  Truth'
  <1>1. TypeOK /\ TypeOK'
    BY DEF IInv, TypeInv
  <1>2. j \notin Flushes /\ PastLock(j) /\ MidQueue(j)
    BY DEF SendChange, MarkSent, At, PastLock, MidQueue, Checkers, Flushes
  <1> DEFINE q == loc[j].q
             s == loc[j].sched
  <1>3. q \in Queues /\ s \in Schedules /\ s # None
    BY <1>1, <1>2, ScheduleNotifyAssumption
    DEF IInv, TypeInv, LocalsInv, ScheduleNotifyAssumption
  <1>4. UNCHANGED src /\ UNCHANGED day /\ UNCHANGED stored /\ UNCHANGED snap
    BY DEF SendChange, MarkSent, envVars, dbVars
  <1>5. \A i \in Jobs : i # j => loc'[i] = loc[i]
    BY <1>1, OthersStay
  <1>6. /\ \A o \in Queues : Within(src[o], day) /\ SnapshotsFit(o) /\ PendingFits(o)
        /\ \A o \in Queues : o # q => Announced(o)
        /\ CheckerTask(j)
    BY <1>2, BeforeWork
  <1>7. \A o \in Queues : Within(src[o], day)' /\ SnapshotsFit(o)'
    BY <1>4, <1>6 DEF SnapshotsFit, Latest, Within, SnapshotOf
  <1>8. CASE SendChange(j)
    <2>1. UNCHANGED pend /\ told' = [told EXCEPT ![q] = s] /\ Goto(j, "mark")
      BY <1>8 DEF SendChange, dbVars
    <2>2. /\ loc'[j].pc = "mark" /\ loc'[j].got = loc[j].got
          /\ loc'[j].q = q /\ loc'[j].sched = s
      BY <1>1, <2>1, GotoEffect
    <2>3. told'[q] = s /\ \A o \in Queues : o # q => told'[o] = told[o]
      BY <1>1, <1>3, <2>1 DEF TypeOK
    <2>4. /\ s = stored[q] /\ \A o \in Queues : loc[j].got[o] # None => Within(loc[j].got[o], day)
      BY <1>6, <1>8 DEF CheckerTask, SendChange, At
    <2>5. CheckerTask(j)'
      BY <1>4, <2>2, <2>3, <2>4 DEF CheckerTask, Within
    <2>6. MidQueue(j)' /\ \A o \in Queues : PendingFits(o)' /\ (loc'[j].q # o => Announced(o)')
      BY <1>4, <1>6, <2>1, <2>2, <2>3 DEF PendingFits, Announced, Within, MidQueue
    <2> QED
      BY <1>2, <1>5, <1>7, <2>5, <2>6, AtWork
  <1>9. CASE MarkSent(j)
    <2>1. UNCHANGED told /\ pend' = [pend EXCEPT ![q] = None] /\ NextQueue(j)
      BY <1>9 DEF MarkSent, Superseded
    <2>2. loc'[j].pc = "queues" /\ loc'[j].got = loc[j].got
      BY <1>1, <2>1, NextQueueEffect
    <2>3. pend'[q] = None /\ \A o \in Queues : o # q => pend'[o] = pend[o]
      BY <1>1, <1>3, <2>1 DEF TypeOK
    <2>4. /\ s = stored[q] /\ s = told[q]
          /\ \A o \in Queues : loc[j].got[o] # None => Within(loc[j].got[o], day)
      BY <1>6, <1>9 DEF CheckerTask, MarkSent, At
    <2>5. CheckerTask(j)'
      BY <1>4, <2>2, <2>4 DEF CheckerTask, Within
    <2> HIDE DEF q, s
    <2>6. \A o \in Queues : Announced(o)'
      BY <1>4, <1>6, <2>1, <2>3, <2>4 DEF Announced
    <2>7. \A o \in Queues : PendingFits(o)'
      BY <1>4, <1>6, <2>3 DEF PendingFits, Within
    <2> QED
      BY <1>2, <1>5, <1>7, <2>5, <2>6, <2>7, AtWork
  <1> QED
    BY <1>8, <1>9

\* The flush takes its queues, and is done with them.
LEMMA FlushTakes ==
  ASSUME IInv, IInv', Truth, LockTrusted, NEW j \in Jobs,
         \/ FlushCollect(j) \/ FlushEnd(j)
         \/ \E q \in Queues : FlushPending(j, q) \/ FlushFresh(j, q)
  PROVE  Truth'
  <1>1. TypeOK /\ TypeOK'
    BY DEF IInv, TypeInv
  <1>2. j \in Flushes /\ j \notin Checkers /\ PastLock(j) /\ ~ MidQueue(j)
    <2>1. PastLock(j) /\ ~ MidQueue(j)
      BY DEF FlushCollect, FlushEnd, FlushPending, FlushFresh, At, PastLock, MidQueue
    <2>2. j \in Flushes
      BY DEF FlushCollect, FlushEnd, FlushPending, FlushFresh
    <2> QED
      BY <2>1, <2>2 DEF Checkers, Flushes
  <1>3. UNCHANGED src /\ UNCHANGED day /\ UNCHANGED told
        /\ UNCHANGED stored /\ UNCHANGED snap /\ UNCHANGED pend
    BY DEF FlushCollect, FlushEnd, FlushPending, FlushFresh, envVars, dbVars
  <1>4. \A i \in Jobs : i # j => loc'[i] = loc[i]
    BY <1>1, OthersStay
  <1>5. /\ \A q \in Queues : Within(src[q], day) /\ SnapshotsFit(q) /\ PendingFits(q)
        /\ \A q \in Queues : Announced(q)
        /\ FlushTask(j)
    BY <1>2, BeforeWork
  <1>6. /\ \A q \in Queues : (Within(src[q], day) /\ SnapshotsFit(q) /\ PendingFits(q))'
        /\ \A q \in Queues : Announced(q)'
    BY <1>3, <1>5 DEF SnapshotsFit, Latest, PendingFits, Within, SnapshotOf, Announced
  <1>7. CASE FlushCollect(j)
    <2>1. /\ loc'[j].pc = "queues" /\ loc'[j].todo = Queues
          /\ loc'[j].queued = {q \in Queues : pend[q] # None}
      BY <1>1, <1>7 DEF FlushCollect, TypeOK, Resting
    <2>2. FlushTask(j)'
      BY <1>3, <2>1 DEF FlushTask
    <2> QED
      BY <1>2, <1>4, <1>6, <2>2, AtWork
  <1>8. CASE FlushEnd(j)
    <2>1. loc'[j].pc = "purge"
      BY <1>1, <1>8 DEF FlushEnd, TypeOK, Resting
    <2>2. \A q \in Queues : pend[q] = None
      BY <1>5, <1>8 DEF FlushTask, FlushEnd, At
    <2>3. FlushTask(j)'
      BY <1>3, <2>1, <2>2 DEF FlushTask
    <2> QED
      BY <1>2, <1>4, <1>6, <2>3, AtWork
  <1>9. ASSUME NEW q \in Queues, FlushPending(j, q) \/ FlushFresh(j, q)
        PROVE  Truth'
    <2>1. /\ loc'[j].queued = loc[j].queued /\ loc'[j].todo = loc[j].todo \ {q}
          /\ \/ /\ loc'[j].pc = "queues" /\ loc'[j].q = loc[j].q /\ ~ HasPending(j, q)
             \/ /\ loc'[j].pc = "send" /\ loc'[j].q = q
                /\ loc'[j].sched = pend[q].sched /\ loc'[j].type = pend[q].type
                /\ HasPending(j, q)
             \/ /\ loc'[j].pc = "send" /\ loc'[j].q = q
                /\ loc'[j].sched = src[q] /\ loc'[j].type = {}
                /\ ~ HasPending(j, q)
      BY <1>1, <1>9, TakeEffect
    <2>2. \A o \in Queues : pend[o] # None => o \in loc[j].queued /\ o \in loc[j].todo
      <3>1. loc[j].pc = "queues"
        BY <1>9 DEF FlushPending, FlushFresh, At
      <3> QED
        BY <1>5, <3>1 DEF FlushTask
    <2>3. HasPending(j, q) <=> pend[q] # None
      BY <2>2 DEF HasPending
    <2>4. pend[q] # None => pend[q].type # {} /\ Within(pend[q].sched, day)
      BY <1>5 DEF PendingFits
    <2>5. FlushTask(j)'
      <3>1. CASE loc'[j].pc = "queues"
        BY <1>3, <2>1, <2>2, <2>3, <3>1 DEF FlushTask
      <3>2. CASE /\ loc'[j].pc = "send" /\ loc'[j].q = q
                 /\ loc'[j].sched = pend[q].sched /\ loc'[j].type = pend[q].type
                 /\ HasPending(j, q)
        BY <1>3, <2>1, <2>2, <2>3, <2>4, <3>2 DEF FlushTask, Within
      <3>3. CASE /\ loc'[j].pc = "send" /\ loc'[j].q = q
                 /\ loc'[j].sched = src[q] /\ loc'[j].type = {}
                 /\ ~ HasPending(j, q)
        BY <1>3, <1>5, <2>1, <2>2, <2>3, <3>3 DEF FlushTask, Within
      <3> QED
        BY <2>1, <3>1, <3>2, <3>3
    <2> QED
      BY <1>2, <1>4, <1>6, <2>5, AtWork
  <1> QED
    BY <1>7, <1>8, <1>9

\* The flush sends, and writes afterwards what it sent.
LEMMA FlushWrites ==
  ASSUME IInv, IInv', Truth, LockTrusted, NEW j \in Jobs, j \in Flushes,
         FlushSend(j) \/ FlushCommit(j)
  PROVE  Truth'
  <1>1. TypeOK /\ TypeOK'
    BY DEF IInv, TypeInv
  <1>2. j \notin Checkers /\ PastLock(j) /\ MidQueue(j) /\ loc[j].pc \in {"send", "commit"}
    BY DEF FlushSend, FlushCommit, At, PastLock, MidQueue, Checkers, Flushes
  <1> DEFINE q == loc[j].q
             s == loc[j].sched
  <1>3. q \in Queues /\ s \in Schedules /\ s # None
    BY <1>1, <1>2, ScheduleNotifyAssumption
    DEF IInv, TypeInv, LocalsInv, ScheduleNotifyAssumption
  <1>4. UNCHANGED src /\ UNCHANGED day
    BY DEF FlushSend, FlushCommit, envVars
  <1>5. \A i \in Jobs : i # j => loc'[i] = loc[i]
    BY <1>1, OthersStay
  <1>6. /\ \A o \in Queues : Within(src[o], day) /\ SnapshotsFit(o) /\ PendingFits(o)
        /\ \A o \in Queues : o # q => Announced(o)
        /\ FlushTask(j)
    BY <1>2, BeforeWork
  <1>7. /\ \A o \in Queues : pend[o] # None =>
             o \in loc[j].queued /\ (o \in loc[j].todo \/ o = q)
        /\ Within(s, day) /\ q \notin loc[j].todo
        /\ loc[j].type = {} => pend[q] = None
    BY <1>2, <1>6 DEF FlushTask
  <1>8. \A o \in Queues : Within(src[o], day)'
    BY <1>4, <1>6 DEF Within
  <1>9. CASE FlushSend(j)
    <2>1. UNCHANGED stored /\ UNCHANGED snap /\ UNCHANGED pend
          /\ told' = [told EXCEPT ![q] = s] /\ Goto(j, "commit")
      BY <1>9 DEF FlushSend, dbVars
    <2>2. /\ loc'[j].pc = "commit" /\ loc'[j].todo = loc[j].todo
          /\ loc'[j].q = q /\ loc'[j].sched = s /\ loc'[j].type = loc[j].type
          /\ loc'[j].queued = loc[j].queued
      BY <1>1, <2>1, GotoEffect
    <2>3. told'[q] = s /\ \A o \in Queues : o # q => told'[o] = told[o]
      BY <1>1, <1>3, <2>1 DEF TypeOK
    <2>4. FlushTask(j)'
      BY <1>4, <1>7, <2>1, <2>2, <2>3 DEF FlushTask, Within
    <2>5. MidQueue(j)' /\ \A o \in Queues : loc'[j].q # o => Announced(o)'
      BY <1>6, <2>1, <2>2, <2>3 DEF Announced, MidQueue
    <2>6. \A o \in Queues : SnapshotsFit(o)' /\ PendingFits(o)'
      BY <1>4, <1>6, <2>1 DEF PendingFits, SnapshotsFit, Latest, Within, SnapshotOf
    <2> QED
      BY <1>2, <1>5, <1>8, <2>4, <2>5, <2>6, AtWork
  <1>10. CASE FlushCommit(j)
    <2>1. /\ UNCHANGED told /\ stored' = [stored EXCEPT ![q] = s]
          /\ snap' = Snapshotted(q, s, day) /\ NextQueue(j)
          /\ pend' = IF loc[j].type # {} THEN [pend EXCEPT ![q] = None] ELSE pend
      BY <1>10 DEF FlushCommit, Superseded
    <2>2. /\ loc'[j].pc = "queues" /\ loc'[j].todo = loc[j].todo
          /\ loc'[j].queued = loc[j].queued
      BY <1>1, <2>1, NextQueueEffect
    <2>3. s = told[q]
      BY <1>6, <1>10 DEF FlushTask, FlushCommit, At
    <2> HIDE DEF q, s
    <2>4. stored'[q] = s /\ \A o \in Queues : o # q => stored'[o] = stored[o]
      BY <1>1, <1>3, <2>1 DEF TypeOK
    <2>5. pend'[q] = None /\ \A o \in Queues : o # q => pend'[o] = pend[o]
      BY <1>1, <1>3, <1>7, <2>1 DEF TypeOK
    <2>6. \A o \in Queues : SnapshotsFit(o)'
      <3>1. day \in Days /\ day \in Nat /\ day <= day
        BY <1>1, DayNumbers DEF TypeOK
      <3>2. \A x \in 0..LastDay : x > day => snap[q][x] = None
        BY <1>3, <1>6 DEF SnapshotsFit
      <3> QED
        BY <1>1, <1>3, <1>4, <1>6, <1>7, <2>1, <2>4, <3>1, <3>2, SnapshotTaken
    <2>7. \A o \in Queues : PendingFits(o)'
      BY <1>4, <1>6, <2>5 DEF PendingFits, Within
    <2>8. \A o \in Queues : Announced(o)'
      BY <1>6, <2>1, <2>3, <2>4, <2>5 DEF Announced
    <2>9. FlushTask(j)'
      BY <1>7, <2>2, <2>5 DEF FlushTask
    <2> QED
      BY <1>2, <1>5, <1>8, <2>6, <2>7, <2>8, <2>9, AtWork
  <1> QED
    BY <1>9, <1>10

\* The purge finds nothing that is left.
LEMMA PurgeTruth ==
  ASSUME IInv, IInv', Truth, LockTrusted, NEW j \in Jobs, Purge(j), Calm'
  PROVE  Truth'
  <1>1. TypeOK /\ TypeOK'
    BY DEF IInv, TypeInv
  <1>2. PastLock(j) /\ ~ MidQueue(j) /\ loc[j].pc = "purge"
    BY DEF Purge, At, PastLock, MidQueue
  <1>3. loc'[j] = Resting /\ ~ PastLock(j)'
    BY <1>1, RestingType DEF Purge, TypeOK, PastLock
  <1>4. \A i \in Jobs : i # j => loc'[i] = loc[i]
    BY <1>1, OthersStay
  <1>5. /\ \A q \in Queues : Within(src[q], day) /\ SnapshotsFit(q) /\ PendingFits(q)
        /\ \A q \in Queues : Announced(q)
        /\ j \in Flushes => FlushTask(j)
    BY <1>2, BeforeWork
  <1>6. j \in Flushes /\ j \notin Checkers
    <2>1. \A i \in Jobs : i \in Checkers \/ i \in Flushes
      BY DEF Jobs, Kinds, Checkers, Flushes
    <2>2. j \notin Checkers
      BY <1>2, BeforeWork DEF CheckerTask
    <2> QED
      BY <2>1, <2>2
  <1>7. \A q \in Queues : pend[q] = None
    BY <1>2, <1>5, <1>6 DEF FlushTask
  <1>8. UNCHANGED src /\ UNCHANGED day /\ UNCHANGED told /\ UNCHANGED stored /\ UNCHANGED snap
    BY DEF Purge, envVars
  <1>9. \A q \in Queues : pend'[q] = None
    <2>1. ~ Spend("dbError")
      BY <1>1, LossEndsCalm DEF Losses
    <2> QED
      BY <1>7, <2>1 DEF Purge
  <1>10. \A q \in Queues : (Within(src[q], day) /\ SnapshotsFit(q) /\ PendingFits(q))'
    BY <1>5, <1>8, <1>9 DEF SnapshotsFit, Latest, PendingFits, Within, SnapshotOf
  <1>11. \A q \in Queues : Announced(q)'
    BY <1>5, <1>7, <1>8, <1>9 DEF Announced
  <1>12. FlushTask(j)'
    BY <1>3, RestingType DEF FlushTask
  <1> QED
    BY <1>2, <1>4, <1>6, <1>10, <1>11, <1>12, AtWork

\* Every step keeps what users are told in line with what is stored.
LEMMA StepTruth == IInv /\ IInv' /\ TruthInv /\ [Next]_vars => TruthInv'
  <1> SUFFICES ASSUME IInv, IInv', TruthInv, [Next]_vars, Calm', LockTrusted'
               PROVE  Truth'
    BY DEF TruthInv
  <1>1. TypeOK /\ Truth /\ LockTrusted
    BY CalmShrinks DEF IInv, TypeInv, TruthInv
  <1>2. \A k \in Losses : ~ Spend(k)
    BY <1>1, LossEndsCalm
  <1>3. loc \in [Jobs -> LocType]
    BY <1>1 DEF TypeOK
  <1>4. CASE Publish \/ Midnight
    BY <1>1, <1>4, EnvTruth
  <1>5. CASE SixOClock
    <2>1. ASSUME NEW i \in Jobs
          PROVE  \/ loc'[i] = loc[i]
                 \/ loc'[i].pc = "lock" /\ loc[i].pc = "idle"
      <3>1. \/ loc'[i] = loc[i]
            \/ /\ loc'[i] = [Resting EXCEPT !.pc = "lock"]
               /\ i[2] = "flush" /\ At(<<i[1], "flush">>, "idle")
        BY <1>5 DEF SixOClock
      <3>2. i = <<i[1], i[2]>>
        BY DEF Jobs
      <3>3. [Resting EXCEPT !.pc = "lock"].pc = "lock"
        BY RestingType DEF LocType
      <3> QED
        BY <3>1, <3>2, <3>3 DEF At
    <2> QED
      BY <1>1, <1>5, <2>1, Aside DEF SixOClock, MidQueue
  <1>6. ASSUME NEW r \in Replicas,
               PollNew(r) \/ PollSame(r) \/ PollError(r) \/ SaveCommitState(r) \/ Crash(r)
        PROVE  Truth'
    <2>1. ~ Crash(r)
      BY <1>2 DEF Crash, Losses
    <2>2. CASE PollNew(r) \/ PollError(r)
      <3>1. <<r, "checker">> \in Jobs
        BY DEF Jobs, Kinds
      <3>2. \A i \in Jobs : \/ loc'[i] = loc[i]
                            \/ loc'[i].pc = "lock" /\ ~ MidQueue(i)
        BY <1>3, <2>2, <3>1 DEF PollNew, PollError, Goto, LocType, At, MidQueue
      <3> QED
        BY <1>1, <2>2, <3>2, Aside DEF PollNew, PollError, envVars
    <2>3. CASE PollSame(r) \/ SaveCommitState(r)
      BY <1>1, <2>3, Aside DEF PollSame, SaveCommitState, vars, envVars
    <2> QED
      BY <1>6, <2>1, <2>2, <2>3
  <1>7. ASSUME NEW j \in Jobs, Work(j) \/ Fault(j)
        PROVE  Truth'
    <2>1. /\ (PastLock(j) /\ loc[j].pc \in {"same", "first", "write", "mark"} => j \in Checkers)
          /\ (PastLock(j) /\ loc[j].pc = "commit" => j \in Flushes)
      <3>1. j \in Checkers \/ j \in Flushes
        BY DEF Jobs, Kinds, Checkers, Flushes
      <3>2. PastLock(j) => /\ j \in Checkers => CheckerTask(j)
                           /\ j \in Flushes => FlushTask(j)
        BY <1>1, BeforeWork
      <3> QED
        BY <3>1, <3>2 DEF CheckerTask, FlushTask
    <2>2. CASE LockTaken(j) \/ LockBusy(j) \/ LockUnsupported(j) \/ TakeNotifyLock(j)
               \/ CheckerEnd(j)
      <3>1. UNCHANGED <<src, day, dbVars, told>>
        BY <2>2 DEF LockTaken, LockBusy, LockUnsupported, TakeNotifyLock, CheckerEnd, envVars
      <3>2. loc'[j].pc \in {"idle", "wait", "collect"} /\ ~ MidQueue(j)
        BY <1>3, <2>2, RestingType
        DEF LockTaken, LockBusy, LockUnsupported, TakeNotifyLock, CheckerEnd, Goto, At,
            MidQueue, LocType
      <3>3. \A i \in Jobs : i # j => loc'[i] = loc[i]
        BY <1>1, <2>2, OthersStay
      <3> QED
        BY <1>1, <3>1, <3>2, <3>3, Aside
    <2>3. CASE CheckerCollect(j) \/ \E q \in Queues : NoData(j, q) \/ ReadState(j, q)
      BY <1>1, <2>3, CheckerTakes
    <2>4. CASE WriteSame(j) \/ WriteChange(j)
      <3>1. j \in Checkers
        BY <2>1, <2>4 DEF WriteSame, WriteChange, At, PastLock
      <3> QED
        BY <1>1, <2>4, <3>1, CheckerWrites
    <2>5. CASE SendChange(j) \/ MarkSent(j)
      <3>1. j \in Checkers
        BY <2>1, <2>5 DEF SendChange, MarkSent, At, PastLock
      <3> QED
        BY <1>1, <2>5, <3>1, CheckerSends
    <2>6. CASE \/ FlushCollect(j) \/ FlushEnd(j)
               \/ \E q \in Queues : FlushPending(j, q) \/ FlushFresh(j, q)
      BY <1>1, <2>6, FlushTakes
    <2>7. CASE FlushSend(j) \/ FlushCommit(j)
      <3>1. j \in Flushes
        BY <2>1, <2>7 DEF FlushSend, FlushCommit, At, PastLock
      <3> QED
        BY <1>1, <2>7, <3>1, FlushWrites
    <2>8. CASE Purge(j)
      BY <1>1, <2>8, PurgeTruth
    <2>9. ~ CollectFails(j) /\ ~ QueueFails(j)
      BY <1>2 DEF CollectFails, QueueFails, Losses
    <2> QED
      BY <1>7, <2>2, <2>3, <2>4, <2>5, <2>6, <2>7, <2>8, <2>9 DEF Work, Fault
  <1>8. CASE UNCHANGED vars
    BY <1>1, <1>8, Aside DEF vars, envVars
  <1> QED
    BY <1>4, <1>5, <1>6, <1>7, <1>8 DEF Next

LEMMA InitTruth == Init => TruthInv
  <1> SUFFICES ASSUME Init
               PROVE  Truth
    BY DEF TruthInv
  <1>1. 1 \in Days /\ Dates \subseteq Nat
    BY DayNumbers, ScheduleNotifyAssumption DEF Days, Dates, ScheduleNotifyAssumption
  <1>2. \A s \in Contents(1) : Within(s, 1)
    <2>1. \A x \in Dates : x > 1 + 1 => x \notin {1, 1 + 1}
      BY <1>1
    <2> QED
      BY <2>1 DEF Contents, Within
  <1>3. \A q \in Queues : Within(src[q], day)
    BY <1>2 DEF Init
  <1>4. \A q \in Queues : SnapshotsFit(q) /\ PendingFits(q) /\ Announced(q)
    BY DEF Init, SnapshotsFit, Latest, PendingFits, Announced
  <1>5. \A j \in Jobs : loc[j].pc = "idle"
    BY RestingType DEF Init
  <1>6. (\A j \in Checkers : CheckerTask(j)) /\ \A j \in Flushes : FlushTask(j)
    BY <1>5 DEF CheckerTask, FlushTask, Checkers, Flushes
  <1> QED
    BY <1>3, <1>4, <1>6 DEF Truth
LEMMA TruthAlways == Spec => []TruthInv
  <1>1. Spec => []IInv
    BY HoldersAlways
  <1> QED
    BY <1>1, InitTruth, StepTruth, PTL DEF Spec

\* A checker about to send knows the queue, the schedule and what users were told.
LEMMA BeforeSend ==
  ASSUME IInv, TruthInv, Calm, LockTrusted, NEW j \in Checkers, SendChange(j)
  PROVE  /\ pend[loc[j].q] = None => told[loc[j].q] # loc[j].sched
         /\ Named(loc[j])
  <1>1. j \in Jobs /\ loc[j].pc = "send" /\ PastLock(j)
    BY DEF Checkers, SendChange, At, PastLock
  <1>2. CheckerTask(j)
    BY <1>1, BeforeWork DEF TruthInv
  <1> QED
    BY <1>1, <1>2 DEF CheckerTask

\* When nobody works on the queues, the hash the database takes for known is what
\* users were told last, or what is queued for 06:00, as long as no cycle of
\* _check_single_queue or of the flush has been cut short and no lock query failed.
THEOREM HashStaysAnnounced == Spec => [](LockTrusted => HashIsAnnounced)
  <1>1. TruthInv => (LockTrusted => HashIsAnnounced)
    <2> SUFFICES ASSUME TruthInv, LockTrusted, Calm, \A j \in Jobs : ~ Inside(j),
                        NEW q \in Queues
                 PROVE  stored[q] = IF pend[q] # None THEN pend[q].sched ELSE told[q]
      BY DEF HashIsAnnounced
    <2>1. Unattended(q)
      BY DEF Unattended, MidQueue, Inside
    <2> QED
      BY <2>1 DEF TruthInv, Truth, Announced
  <1> QED
    BY <1>1, TruthAlways, PTL

\* _send_notifications_for_pair is never called with what users were just told, by
\* any number of replicas that see the same commit.
THEOREM ChangesAreSentOnce == Spec => NoDuplicateSends
  <1>1. IInv /\ TruthInv =>
          \A j \in Checkers :
            Calm /\ LockTrusted /\ SendChange(j) /\ pend[loc[j].q] = None =>
              loc[j].sched # told[loc[j].q]
    BY BeforeSend
  <1> QED
    BY <1>1, HoldersAlways, TruthAlways, PTL DEF NoDuplicateSends

\* PostgreSQL answers every query of the advisory lock.
LockAnswers == Advisory /\ \A b \in Budgets : b["lockError"] = 0

\* The update type that a check computes from the snapshots of the day and of the
\* day before is that of the change from what users were told last, whatever the
\* schedules, unless no snapshot was taken for a whole day.
THEOREM ChangesAreNamed ==
  ASSUME LockAnswers
  PROVE  Spec => MessageNamesTheChange
  <1>1. IInv => LockTrusted
    <2>1. IInv => budget["lockError"] \in Nat
      BY DEF IInv, TypeInv, TypeOK, Events, Losses
    <2>2. budget["lockError"] \in Nat => budget["lockError"] >= 0
      OBVIOUS
    <2> QED
      BY <2>1, <2>2 DEF LockTrusted, LockAnswers
  <1>2. IInv /\ TruthInv =>
          \A j \in Checkers :
            /\ Calm /\ SendChange(j)
            /\ told[loc[j].q] # None /\ pend[loc[j].q] = None /\ ~ Gap(loc[j].q, loc[j].today)
            => NamesTheChange(loc[j])
    BY <1>1, BeforeSend DEF Named
  <1> QED
    BY <1>2, HoldersAlways, TruthAlways, PTL DEF MessageNamesTheChange
=============================================================================
