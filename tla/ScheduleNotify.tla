--------------------------- MODULE ScheduleNotify ---------------------------
(***************************************************************************)
(* The schedule checker and the 06:00 flush of bot/services/scheduler.py:  *)
(* two loops in each replica of the bot, the Postgres advisory lock and    *)
(* the process lock around them, and what they write to schedule_checks,   *)
(* schedule_daily_snapshots and pending_notifications.                     *)
(*                                                                         *)
(* A schedule is the outages of each date, one value standing for the      *)
(* events of a date; the hash of a schedule is the schedule itself.        *)
(***************************************************************************)
EXTENDS Naturals, FiniteSets

CONSTANTS
  Replicas,    \* processes that run the bot on one database
  Queues,      \* (region, queue) pairs with active users
  Vals,        \* outages a date can have
  None,        \* Python's None; a date without outages
  Advisory,    \* whether the database has advisory locks (PostgreSQL)
  LastDay,     \* the days 1..LastDay are modelled (a bound)
  MaxTries,    \* MAX_DAILY_FLUSH_RETRIES
  Budgets      \* budgets a run starts with: how often each event may happen (a bound)

\* Events that are bounded, among them those that lose what was being done; "calm"
\* is spent by the first of them.
Losses == {"dbError", "crash"}
Events == Losses \cup {"commit", "midnight", "poll", "fetch", "lockError", "calm"}
Kinds == {"checker", "flush"}
Jobs == Replicas \X Kinds
Days == 1..LastDay
Dates == 1..(LastDay + 1)
Schedules == [Dates -> Vals \cup {None}]

ASSUME ScheduleNotifyAssumption ==
  /\ None \notin Vals /\ None \notin Schedules /\ None \notin Kinds
  /\ None \notin Jobs /\ None \notin Queues /\ None \notin Nat
  /\ Advisory \in BOOLEAN
  /\ LastDay \in Nat \ {0}
  /\ MaxTries \in Nat \ {0}
  /\ Budgets \subseteq [Events -> Nat]

VARIABLES
  \* the source repository and the clock
  src,         \* src[q]: the published schedule
  head,        \* number of the last commit
  day,         \* today
  quiet,       \* _is_quiet_hours: 00:00-05:59
  \* the processes
  sha,         \* sha[r]: _last_commit_sha
  advisory,    \* the job whose session holds the advisory lock
  notifyLock,  \* notifyLock[r]: the kind of job that holds _notify_lock
  loc,         \* loc[j]: program counter and locals of a job
  tries,       \* tries[r]: attempts of the daily flush
  \* the database
  savedSha,    \* settings.last_commit_sha
  stored,      \* stored[q]: schedule_checks.last_hash
  snap,        \* snap[q][d]: the snapshot of date d
  pend,        \* pend[q]: the latest pending notification
  \* history, for the properties
  told,        \* told[q]: the schedule of the last message
  budget       \* what is left of the run's budget

envVars == <<src, head, day, quiet>>
lockVars == <<advisory, notifyLock>>
dbVars == <<stored, snap, pend>>
vars == <<envVars, sha, lockVars, loc, tries, savedSha, dbVars, told, budget>>
-----------------------------------------------------------------------------
(* Operators                                                               *)

Contents(d) == {s \in Schedules : \A x \in Dates : x \notin {d, d + 1} => s[x] = None}

\* today_hash and tomorrow_hash of a snapshot taken on day d.
SnapshotOf(s, d) == [today |-> s[d], tomorrow |-> s[d + 1]]

\* What the database says today's and tomorrow's outages were: on the first check
\* of a day, what yesterday's snapshot has for its tomorrow.
KnowsToday(now, before) == now # None \/ before # None

\* Mutant: yesterday's today in place of yesterday's tomorrow.
TodayWasYesterday(now, before) == IF now # None THEN now.today ELSE before.today

TodayWas(now, before) == IF now # None THEN now.today ELSE before.tomorrow
TomorrowWas(now) == IF now # None THEN now.tomorrow ELSE None

TodayTypes(now, before, t) ==
  IF KnowsToday(now, before) /\ TodayWas(now, before) # t THEN {"todayUpdated"} ELSE {}

TomorrowTypes(now, m) ==
  LET was == TomorrowWas(now) IN
  CASE was = m               -> {}
    [] was = None /\ m # was -> {"tomorrowAppeared"}
    [] m = None /\ m # was   -> {"tomorrowCancelled"}
    [] OTHER                 -> {"tomorrowUpdated"}

UnchangedTypes(now, before, t, m) ==
  IF /\ TomorrowTypes(now, m) # {}
     /\ KnowsToday(now, before) /\ TodayWas(now, before) = t
  THEN {"todayUnchanged"} ELSE {}

\* update_type of a changed hash: now and before are the snapshots of today and
\* yesterday, s is the new schedule, on day d.
UpdateType(known, now, before, s, d) ==
  LET found == TodayTypes(now, before, s[d]) \cup TomorrowTypes(now, s[d + 1])
               \cup UnchangedTypes(now, before, s[d], s[d + 1])
  IN CASE known = None                -> found \cup {"initial"}
       [] known # None /\ found = {} -> {"dailyPlanned"}
       [] OTHER                       -> found

DailyPlanned(type) == type \cap {"initial", "dailyPlanned"} # {}

Resting == [pc |-> "idle", todo |-> {}, got |-> [q \in Queues |-> None], q |-> None,
            sched |-> None, type |-> {}, today |-> 1, queued |-> {}]

Spend(k) ==
  /\ budget[k] > 0
  /\ budget' = [budget EXCEPT ![k] = @ - 1, !["calm"] = IF k \in Losses THEN 0 ELSE @]

\* fetch_schedule_data: the published schedule, or nothing.
Fetched(s) == {s} \cup (IF budget["fetch"] > 0 THEN {None} ELSE {})

PayForFetch(failed) ==
  IF failed THEN Spend("fetch") ELSE UNCHANGED budget

Init ==
  /\ src \in [Queues -> Contents(1)]
  /\ head = 0
  /\ day = 1
  /\ quiet = FALSE
  /\ sha = [r \in Replicas |-> None]
  /\ advisory = None
  /\ notifyLock = [r \in Replicas |-> None]
  /\ loc = [j \in Jobs |-> Resting]
  /\ tries = [r \in Replicas |-> 0]
  /\ savedSha = None
  /\ stored = [q \in Queues |-> None]
  /\ snap = [q \in Queues |-> [d \in 0..LastDay |-> None]]
  /\ pend = [q \in Queues |-> None]
  /\ told = [q \in Queues |-> None]
  /\ budget \in Budgets

Goto(j, pc) == loc' = [loc EXCEPT ![j].pc = pc]
At(j, pc) == loc[j].pc = pc

\* Within the try of one queue.
MidQueue(j) == loc[j].pc \in {"same", "first", "write", "send", "mark", "commit"}
-----------------------------------------------------------------------------
(* The source and the clock                                                *)

Publish ==
  /\ Spend("commit")
  /\ \E s \in [Queues -> Contents(day)] : src' = s
  /\ head' = head + 1
  /\ UNCHANGED <<day, quiet, sha, lockVars, loc, tries, savedSha, dbVars, told>>

Midnight ==
  /\ ~ quiet /\ day < LastDay
  /\ Spend("midnight")
  /\ day' = day + 1
  /\ quiet' = TRUE
  /\ UNCHANGED <<src, head, sha, lockVars, loc, tries, savedSha, dbVars, told>>

\* Every flush loop that sleeps wakes up.
SixOClock ==
  /\ quiet
  /\ quiet' = FALSE
  /\ LET due == {r \in Replicas : At(<<r, "flush">>, "idle")} IN
       /\ loc' = [j \in Jobs |-> IF j[2] = "flush" /\ j[1] \in due
                                 THEN [Resting EXCEPT !.pc = "lock"] ELSE loc[j]]
       /\ tries' = [r \in Replicas |-> IF r \in due THEN 1 ELSE tries[r]]
  /\ UNCHANGED <<src, head, day, sha, lockVars, savedSha, dbVars, told, budget>>
-----------------------------------------------------------------------------
(* check_source_repo_updated                                               *)

\* A new commit: it is remembered before it is acted upon.
PollNew(r) ==
  /\ At(<<r, "checker">>, "idle")
  /\ sha[r] # head
  /\ sha' = [sha EXCEPT ![r] = head]
  /\ Goto(<<r, "checker">>, "lock")
  /\ UNCHANGED <<envVars, lockVars, tries, savedSha, dbVars, told, budget>>

PollSame(r) ==
  /\ At(<<r, "checker">>, "idle")
  /\ sha[r] = head
  /\ UNCHANGED vars

\* An error of the API: everything is checked.
PollError(r) ==
  /\ At(<<r, "checker">>, "idle")
  /\ Spend("poll")
  /\ Goto(<<r, "checker">>, "lock")
  /\ UNCHANGED <<envVars, sha, lockVars, tries, savedSha, dbVars, told>>

\* The task started at a new commit.
SaveCommitState(r) ==
  /\ sha[r] \notin {None, savedSha}
  /\ savedSha' = sha[r]
  /\ UNCHANGED <<envVars, sha, lockVars, loc, tries, dbVars, told, budget>>
-----------------------------------------------------------------------------
(* The two locks                                                           *)

\* Mutant: the lock holds within a process only.
LockFreeHere(j) == advisory \notin {<<j[1], k>> : k \in Kinds}

LockFree(j) == advisory = None

LockTaken(j) ==
  /\ At(j, "lock") /\ Advisory
  /\ LockFree(j)
  /\ advisory' = j
  /\ Goto(j, "wait")
  /\ UNCHANGED <<envVars, sha, notifyLock, tries, savedSha, dbVars, told, budget>>

\* Somebody holds it: the checker waits for its next cycle, the flush, which has
\* raised nothing, for tomorrow.
LockBusy(j) ==
  /\ At(j, "lock") /\ Advisory
  /\ ~ LockFree(j)
  /\ loc' = [loc EXCEPT ![j] = Resting]
  /\ UNCHANGED <<envVars, sha, lockVars, tries, savedSha, dbVars, told, budget>>

\* The statement raises, in a backend without such locks or because of an error
\* of the database: "proceed as if uncontested".
LockUnsupported(j) ==
  /\ At(j, "lock")
  /\ IF Advisory THEN Spend("lockError") ELSE UNCHANGED budget
  /\ Goto(j, "wait")
  /\ UNCHANGED <<envVars, sha, lockVars, tries, savedSha, dbVars, told>>

NotifyLockFree(j) == notifyLock[j[1]] = None

TakeNotifyLock(j) ==
  /\ At(j, "wait")
  /\ NotifyLockFree(j)
  /\ notifyLock' = [notifyLock EXCEPT ![j[1]] = j[2]]
  /\ Goto(j, "collect")
  /\ UNCHANGED <<envVars, sha, advisory, tries, savedSha, dbVars, told, budget>>

Unlocked(j) == IF advisory = j THEN None ELSE advisory

\* Both locks are given back, the flush's second try included.
Leave(j) ==
  /\ advisory' = Unlocked(j)
  /\ notifyLock' = [notifyLock EXCEPT ![j[1]] = None]

\* Mutant: one attempt too many.
RetryMore(r) == tries[r] <= MaxTries

RetryLeft(r) == tries[r] < MaxTries

\* The query of the pairs raises: the checker gives up the cycle, the flush is
\* tried again after 30 seconds.
CollectFails(j) ==
  /\ At(j, "collect")
  /\ Spend("dbError")
  /\ Leave(j)
  /\ IF j[2] = "flush" /\ RetryLeft(j[1])
     THEN /\ tries' = [tries EXCEPT ![j[1]] = @ + 1]
          /\ loc' = [loc EXCEPT ![j] = [Resting EXCEPT !.pc = "lock"]]
     ELSE /\ UNCHANGED tries
          /\ loc' = [loc EXCEPT ![j] = Resting]
  /\ UNCHANGED <<envVars, sha, savedSha, dbVars, told>>

\* An exception inside one queue is logged and the next queue is taken.
QueueFails(j) ==
  /\ MidQueue(j)
  /\ Spend("dbError")
  /\ loc' = [loc EXCEPT ![j].pc = "queues", ![j].q = None]
  /\ UNCHANGED <<envVars, sha, lockVars, tries, savedSha, dbVars, told>>
-----------------------------------------------------------------------------
(* _check_all_schedules_locked and _check_single_queue                     *)

Checkers == {j \in Jobs : j[2] = "checker"}
Flushes == {j \in Jobs : j[2] = "flush"}

\* The regions are fetched together; a failure is None.
CheckerCollect(j) ==
  /\ At(j, "collect") /\ j \in Checkers
  /\ \E failed \in SUBSET Queues :
       /\ failed = {} \/ \A q \in failed : None \in Fetched(src[q])
       /\ PayForFetch(failed # {})
       /\ loc' = [loc EXCEPT ![j] = [Resting EXCEPT
            !.pc = "queues", !.todo = Queues,
            !.got = [q \in Queues |-> IF q \in failed THEN None ELSE src[q]]]]
  /\ UNCHANGED <<envVars, sha, lockVars, tries, savedSha, dbVars, told>>

\* A queue without data is fetched again, and left alone without data.
NoData(j, q) ==
  /\ At(j, "queues") /\ j \in Checkers /\ q \in loc[j].todo
  /\ loc[j].got[q] = None
  /\ Spend("fetch")
  /\ loc' = [loc EXCEPT ![j].todo = @ \ {q}]
  /\ UNCHANGED <<envVars, sha, lockVars, tries, savedSha, dbVars, told>>

\* Mutant: the hash covers today only.
SameToday(q, s) == stored[q] # None /\ stored[q][day] = s[day]

SameHash(q, s) == stored[q] = s

\* The stored hash and both snapshots are read; what is read decides everything
\* but the quiet hours.
ReadState(j, q) ==
  /\ At(j, "queues") /\ j \in Checkers /\ q \in loc[j].todo
  /\ LET s == IF loc[j].got[q] = None THEN src[q] ELSE loc[j].got[q] IN
       loc' = [loc EXCEPT ![j].todo = @ \ {q}, ![j].q = q, ![j].sched = s, ![j].today = day,
         ![j].pc = CASE ~ SameHash(q, s) -> "write"
                     [] SameHash(q, s) /\ snap[q][day] = None -> "first"
                     [] OTHER -> "same",
         ![j].type = IF SameHash(q, s) THEN {}
                     ELSE UpdateType(stored[q], snap[q][day], snap[q][day - 1], s, day)]
  /\ UNCHANGED <<envVars, sha, lockVars, tries, savedSha, dbVars, told, budget>>

NextQueue(j) == loc' = [loc EXCEPT ![j].pc = "queues", ![j].q = None]

\* upsert_daily_snapshot
Snapshotted(q, s, d) == [snap EXCEPT ![q][d] = SnapshotOf(s, d)]

\* The same hash: the first check of a day still takes the day's snapshot.
WriteSame(j) ==
  /\ loc[j].pc \in {"same", "first"}
  /\ LET l == loc[j] IN
       snap' = IF l.pc = "same" THEN snap
               ELSE Snapshotted(l.q, l.sched, l.today)
  /\ NextQueue(j)
  /\ UNCHANGED <<envVars, sha, lockVars, tries, savedSha, stored, pend, told, budget>>

\* save_pending_notification
QueueForMorning(l) ==
  [pend EXCEPT ![l.q] = [sched |-> l.sched, type |-> l.type, day |-> day]]

\* One transaction: hash, snapshot, and by night the pending notification.
WriteChange(j) ==
  /\ At(j, "write")
  /\ LET l == loc[j] IN
       /\ stored' = [stored EXCEPT ![l.q] = l.sched]
       /\ snap' = Snapshotted(l.q, l.sched, l.today)
       /\ pend' = IF quiet THEN QueueForMorning(l) ELSE pend
       /\ IF quiet THEN NextQueue(j) ELSE Goto(j, "send")
  /\ UNCHANGED <<envVars, sha, lockVars, tries, savedSha, told, budget>>

\* _send_notifications_for_pair
SendChange(j) ==
  /\ At(j, "send") /\ j \in Checkers
  /\ told' = [told EXCEPT ![loc[j].q] = loc[j].sched]
  /\ Goto(j, "mark")
  /\ UNCHANGED <<envVars, sha, lockVars, tries, savedSha, dbVars, budget>>

\* Mutant: the queued notifications are not superseded.
SupersededNever(q) == pend

\* mark_pending_notifications_sent
Superseded(q) == [pend EXCEPT ![q] = None]

MarkSent(j) ==
  /\ At(j, "mark")
  /\ pend' = Superseded(loc[j].q)
  /\ NextQueue(j)
  /\ UNCHANGED <<envVars, sha, lockVars, tries, savedSha, stored, snap, told, budget>>

CheckerEnd(j) ==
  /\ At(j, "queues") /\ j \in Checkers /\ loc[j].todo = {}
  /\ Leave(j)
  /\ loc' = [loc EXCEPT ![j] = Resting]
  /\ UNCHANGED <<envVars, sha, tries, savedSha, dbVars, told, budget>>
-----------------------------------------------------------------------------
(* flush_pending_notifications                                             *)

FlushCollect(j) ==
  /\ At(j, "collect") /\ j \in Flushes
  /\ loc' = [loc EXCEPT ![j] = [Resting EXCEPT
       !.pc = "queues", !.todo = Queues, !.queued = {q \in Queues : pend[q] # None}]]
  /\ UNCHANGED <<envVars, sha, lockVars, tries, savedSha, dbVars, told, budget>>

HasPending(j, q) == q \in loc[j].queued /\ pend[q] # None

FlushPending(j, q) ==
  /\ At(j, "queues") /\ j \in Flushes /\ q \in loc[j].todo
  /\ HasPending(j, q)
  /\ loc' = [loc EXCEPT ![j].todo = @ \ {q}, ![j].q = q, ![j].pc = "send",
               ![j].sched = pend[q].sched, ![j].type = pend[q].type]
  /\ UNCHANGED <<envVars, sha, lockVars, tries, savedSha, dbVars, told, budget>>

\* "No overnight changes": the schedule is fetched and sent as the day's plan; a
\* queue whose data cannot be fetched is left out.
FlushFresh(j, q) ==
  /\ At(j, "queues") /\ j \in Flushes /\ q \in loc[j].todo
  /\ ~ HasPending(j, q)
  /\ \E s \in Fetched(src[q]) :
       /\ PayForFetch(s = None)
       /\ loc' = IF s = None THEN [loc EXCEPT ![j].todo = @ \ {q}]
                 ELSE [loc EXCEPT ![j].todo = @ \ {q}, ![j].q = q, ![j].pc = "send",
                                  ![j].sched = s, ![j].type = {}]
  /\ UNCHANGED <<envVars, sha, lockVars, tries, savedSha, dbVars, told>>

FlushSend(j) ==
  /\ At(j, "send") /\ j \in Flushes
  /\ told' = [told EXCEPT ![loc[j].q] = loc[j].sched]
  /\ Goto(j, "commit")
  /\ UNCHANGED <<envVars, sha, lockVars, tries, savedSha, dbVars, budget>>

\* One transaction, after the messages: only a flushed notification is marked.
FlushCommit(j) ==
  /\ At(j, "commit")
  /\ LET l == loc[j] IN
       /\ pend' = IF l.type # {} THEN Superseded(l.q) ELSE pend
       /\ stored' = [stored EXCEPT ![l.q] = l.sched]
       /\ snap' = Snapshotted(l.q, l.sched, day)
  /\ NextQueue(j)
  /\ UNCHANGED <<envVars, sha, lockVars, tries, savedSha, told, budget>>

FlushEnd(j) ==
  /\ At(j, "queues") /\ j \in Flushes /\ loc[j].todo = {}
  /\ notifyLock' = [notifyLock EXCEPT ![j[1]] = None]
  /\ loc' = [loc EXCEPT ![j] = [Resting EXCEPT !.pc = "purge"]]
  /\ UNCHANGED <<envVars, sha, advisory, tries, savedSha, dbVars, told, budget>>

\* Notifications older than 48 hours go, sent or not; an error is swallowed.
Purge(j) ==
  /\ At(j, "purge")
  /\ \/ /\ pend' = [q \in Queues |->
             IF pend[q] # None /\ pend[q].day + 2 <= day THEN None ELSE pend[q]]
        /\ UNCHANGED budget
     \/ Spend("dbError") /\ UNCHANGED pend
  /\ advisory' = Unlocked(j)
  /\ loc' = [loc EXCEPT ![j] = Resting]
  /\ UNCHANGED <<envVars, sha, notifyLock, tries, savedSha, stored, snap, told>>
-----------------------------------------------------------------------------
\* A process dies and is started again: load_last_commit_sha.
Crash(r) ==
  /\ Spend("crash")
  /\ loc' = [j \in Jobs |-> IF j[1] = r THEN Resting ELSE loc[j]]
  /\ advisory' = IF advisory \in {<<r, k>> : k \in Kinds} THEN None ELSE advisory
  /\ notifyLock' = [notifyLock EXCEPT ![r] = None]
  /\ sha' = [sha EXCEPT ![r] = savedSha]
  /\ tries' = [tries EXCEPT ![r] = 0]
  /\ UNCHANGED <<envVars, savedSha, dbVars, told>>

\* What the event loop goes on with; failures are apart.
Work(j) ==
  \/ LockTaken(j) \/ LockBusy(j) \/ (~ Advisory /\ LockUnsupported(j)) \/ TakeNotifyLock(j)
  \/ CheckerCollect(j)
  \/ \E q \in Queues : ReadState(j, q) \/ FlushPending(j, q) \/ FlushFresh(j, q)
  \/ WriteSame(j) \/ WriteChange(j) \/ SendChange(j) \/ MarkSent(j) \/ CheckerEnd(j)
  \/ FlushCollect(j) \/ FlushSend(j) \/ FlushCommit(j) \/ FlushEnd(j) \/ Purge(j)

Fault(j) ==
  \/ Advisory /\ LockUnsupported(j)
  \/ CollectFails(j) \/ QueueFails(j)
  \/ \E q \in Queues : NoData(j, q)

Next ==
  \/ Publish \/ Midnight \/ SixOClock
  \/ \E r \in Replicas : PollNew(r) \/ PollSame(r) \/ PollError(r) \/ SaveCommitState(r) \/ Crash(r)
  \/ \E j \in Jobs : Work(j) \/ Fault(j)

Spec == Init /\ [][Next]_vars

\* The loops run for ever and time passes; the source and failures owe nothing.
Fairness ==
  /\ WF_vars(Midnight) /\ WF_vars(SixOClock)
  /\ \A r \in Replicas : WF_vars(PollNew(r))
  /\ \A j \in Jobs : WF_vars(Work(j))

FairSpec == Spec /\ Fairness
-----------------------------------------------------------------------------
(* Properties                                                              *)

MessageTypes == {"todayUpdated", "todayUnchanged", "tomorrowAppeared", "tomorrowUpdated",
                 "tomorrowCancelled", "initial", "dailyPlanned"}
Pcs == {"idle", "lock", "wait", "collect", "queues", "same", "first", "write", "send", "mark",
        "commit", "purge"}
LocType ==
  [pc : Pcs, todo : SUBSET Queues, got : [Queues -> Schedules \cup {None}],
   q : Queues \cup {None}, sched : Schedules \cup {None}, type : SUBSET MessageTypes,
   today : Days, queued : SUBSET Queues]
SnapType == [today : Vals \cup {None}, tomorrow : Vals \cup {None}]
PendType == [sched : Schedules, type : SUBSET MessageTypes, day : Days]

\* None is no row of the two tables.
ASSUME RowAssumption == None \notin SnapType /\ None \notin PendType

\* The variables keep the shapes the code gives them.
TypeOK ==
  /\ src \in [Queues -> Schedules]
  /\ head \in Nat /\ day \in Days /\ quiet \in BOOLEAN
  /\ sha \in [Replicas -> Nat \cup {None}]
  /\ advisory \in Jobs \cup {None}
  /\ notifyLock \in [Replicas -> Kinds \cup {None}]
  /\ loc \in [Jobs -> LocType]
  /\ tries \in [Replicas -> 0..MaxTries]
  /\ savedSha \in Nat \cup {None}
  /\ stored \in [Queues -> Schedules \cup {None}]
  /\ snap \in [Queues -> [0..LastDay -> SnapType \cup {None}]]
  /\ pend \in [Queues -> PendType \cup {None}]
  /\ told \in [Queues -> Schedules \cup {None}]
  /\ budget \in [Events -> Nat]

\* Between reading the hash and writing or sending what follows from it.
Inside(j) == loc[j].pc \notin {"idle", "lock", "wait", "purge"}

\* The lock query has not failed yet.
LockTrusted == Advisory /\ \A b \in Budgets : budget["lockError"] >= b["lockError"]

\* Two jobs never work on the queues at once: within one process by _notify_lock,
\* across replicas as long as the advisory lock could be asked for.
OneSender ==
  \A i, j \in Jobs :
    Inside(i) /\ Inside(j) /\ (LockTrusted \/ i[1] = j[1]) => i = j

\* No cycle has raised or died yet.
Calm == budget["calm"] > 0

\* When nobody works on the queues, the hash the database takes for known is what
\* users were told last, or what is queued to be told at 06:00.  A cycle that
\* raises or dies between its two writes breaks it for good.
HashIsAnnounced ==
  Calm /\ (\A j \in Jobs : ~ Inside(j)) =>
    \A q \in Queues : stored[q] # None =>
      stored[q] = IF pend[q] # None THEN pend[q].sched ELSE told[q]

\* A change is not sent to users who were just told of it: replicas "skip cleanly
\* rather than send duplicates".  (A message queued by night may be undone by day.)
NoDuplicateSends ==
  [][\A j \in Checkers :
       LET l == loc[j] IN
       Calm /\ LockTrusted /\ SendChange(j) /\ pend[l.q] = None => l.sched # told[l.q]]_vars

\* No snapshot was taken on the day before d: neither a check nor the 06:00 flush got
\* that far, and what users know of d is then not looked up.
Gap(q, d) == snap[q][d - 1] = None /\ \E x \in 0..(d - 1) : snap[q][x] # None

\* The type that a change from what users were told last has.
NamesTheChange(l) ==
  l.type = UpdateType(told[l.q], SnapshotOf(told[l.q], l.today), None, l.sched, l.today)

\* A change message names what changed against what users were told last, although
\* it is computed from the snapshots of the day and of the day before; unless there
\* is a gap, or it supersedes a queued message that nobody was told of.
MessageNamesTheChange ==
  [][\A j \in Checkers :
       LET l == loc[j] IN
       /\ Calm /\ SendChange(j)
       /\ told[l.q] # None /\ pend[l.q] = None /\ ~ Gap(l.q, l.today)
       => NamesTheChange(l)]_vars

\* Who skips, skips for another replica; jobs of one process wait for each other.
SkipsForOthersOnly ==
  [][\A j \in Jobs : LockBusy(j) => advisory[1] # j[1]]_vars

\* A published schedule reaches the users, unless it is replaced before.
ChangesArrive ==
  \A q \in Queues : \A s \in Schedules :
    src[q] = s ~> told[q] = s \/ src[q] # s

\* What is queued by night is sent.
PendingIsFlushed ==
  \A q \in Queues : pend[q] # None ~> pend[q] = None
=============================================================================
