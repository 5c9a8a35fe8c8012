------------------------- MODULE PowerMonitorProofs -------------------------
(***************************************************************************)
(* Proofs about PowerMonitor, for any users, slots, settings and budget:   *)
(* the type invariant, that a sleeping timer always guards the candidate   *)
(* of its entry, that the persisted rows are snapshots of an entry, that   *)
(* handlers of one user do not overlap, and what database, history and     *)
(* users know as long as nothing fails.                                    *)
(*                                                                         *)
(* None of them is inductive.  IInv adds what the code relies on but does  *)
(* not say: a check between setting a candidate and creating its task      *)
(* finds the candidate as it left it, the task an entry refers to sleeps,  *)
(* checks run inside a cycle only, and a process that is down has no task. *)
(* HandlersInv adds how long a timer outlasts a handler; CalmInv and       *)
(* ToldInv what a calm run, and one whose timers outlast the cooldown,     *)
(* keep besides.                                                           *)
(***************************************************************************)
EXTENDS PowerMonitor, FiniteSetTheorems, TLAPS

\* A row as a flush takes it: its candidate, if any, contradicts its state.
GoodRow(r) == r.pending # r.current

RowsInv ==
  /\ \A f \in Flushers, u \in Users : flushRows[f][u] # None => GoodRow(flushRows[f][u])
  /\ RowsAreSnapshots

\* The loop rests while the process is down, checks run in a cycle, and the loop
\* waits for its own flush.
LoopInv ==
  /\ mode = "down" => loop = "sleeping"
  /\ flushPc["loop"] # "idle" => loop = "flushing"
  /\ \A u \in Users : chk[u] # "out" => loop = "checking"

\* TimerGuardsCandidate for one task.
Guarded(u, k) ==
  jobs[u][k].pc = "sleep" =>
    /\ debounceTask[u] = k
    /\ pending[u] = jobs[u][k].to
    /\ current[u] \in States \ {jobs[u][k].to}
    /\ ~ jobs[u][k].orphan

UserInv(u) ==
  /\ \A k \in Slots : Guarded(u, k)
  /\ debounceTask[u] # None => pending[u] # None /\ jobs[u][debounceTask[u]].pc = "sleep"
  /\ pending[u] # None => current[u] \in States \ {pending[u]}
  /\ chk[u] = "seed" => chkTo[u] \in States
  /\ chk[u] \in {"persist", "timer"} =>
       /\ chkTo[u] \in States
       /\ pending[u] = chkTo[u]
       /\ debounceTask[u] = None
  /\ mode = "down" => current[u] = None /\ \A k \in Slots : jobs[u][k] = IdleJob

IInv ==
  /\ TypeOK
  /\ RowsInv
  /\ LoopInv
  /\ \A u \in Users : UserInv(u)
-----------------------------------------------------------------------------
(* Jobs *)

\* Values a debounce task takes are jobs.
LEMMA JobValues ==
  /\ IdleJob \in JobType /\ IdleJob.pc = "idle"
  /\ \A s \in States, r \in BOOLEAN, d \in Nat :
       /\ SleepingJob(s, r, d) \in JobType
       /\ SleepingJob(s, r, d).pc = "sleep"
       /\ SleepingJob(s, r, d).to = s
       /\ ~ SleepingJob(s, r, d).orphan
  <1>1. 0 \in Nat /\ 0 \in 0..Cooldown
    BY PowerMonitorAssumption DEF PowerMonitorAssumption
  <1>2. IdleJob \in JobType /\ IdleJob.pc = "idle"
    BY <1>1 DEF IdleJob, JobType
  <1>3. ASSUME NEW s \in States, NEW r \in BOOLEAN, NEW d \in Nat
        PROVE  /\ SleepingJob(s, r, d) \in JobType
               /\ SleepingJob(s, r, d).pc = "sleep"
               /\ SleepingJob(s, r, d).to = s
               /\ ~ SleepingJob(s, r, d).orphan
    BY <1>1 DEF IdleJob, SleepingJob, JobType
  <1> QED
    BY <1>2, <1>3

LEMMA SleepingValues ==
  ASSUME NEW s, NEW r, NEW d
  PROVE  /\ SleepingJob(s, r, d).restored = r
         /\ SleepingJob(s, r, d).left = d
  BY DEF SleepingJob, IdleJob

\* The jobs of one user, with the task of the entry cancelled.
LEMMA CancelledJobs ==
  ASSUME TypeOK, NEW u \in Users
  PROVE  /\ Cancelled(u) \in [Slots -> JobType]
         /\ \A k \in Slots : Cancelled(u)[k] = IF k = debounceTask[u] THEN IdleJob ELSE jobs[u][k]
  <1>1. jobs[u] \in [Slots -> JobType]
    BY DEF TypeOK
  <1>2. debounceTask[u] \in Slots \cup {None}
    BY DEF TypeOK, MemTypeOK
  <1>3. CASE debounceTask[u] = None
    BY <1>1, <1>3, PowerMonitorAssumption DEF PowerMonitorAssumption, Cancelled
  <1>4. CASE debounceTask[u] # None
    BY <1>1, <1>2, <1>4, JobValues DEF Cancelled
  <1> QED
    BY <1>3, <1>4

\* An update of one job.
LEMMA OneJob ==
  ASSUME TypeOK, NEW u \in Users, NEW k \in Slots, NEW j \in JobType,
         jobs' = [jobs EXCEPT ![u][k] = j]
  PROVE  /\ (jobs \in [Users -> [Slots -> JobType]])'
         /\ jobs'[u][k] = j
         /\ \A v \in Users, l \in Slots : v # u \/ l # k => jobs'[v][l] = jobs[v][l]
  BY DEF TypeOK

\* An update of the jobs of one user.
LEMMA UserJobs ==
  ASSUME TypeOK, NEW u \in Users, NEW js \in [Slots -> JobType],
         jobs' = [jobs EXCEPT ![u] = js]
  PROVE  /\ (jobs \in [Users -> [Slots -> JobType]])'
         /\ jobs'[u] = js
         /\ \A v \in Users : v # u => jobs'[v] = jobs[v]
  BY DEF TypeOK
-----------------------------------------------------------------------------
(* Types *)

\* A check, up to its first await.
LEMMA CheckTypes ==
  ASSUME TypeOK, NEW u \in Users, NEW s \in States,
         \/ FirstCheckRestore(u) \/ FirstCheckSeed(u, s) \/ CheckUnchanged(u, s)
         \/ CheckFlapBack(u, s) \/ CheckAlreadyWaiting(u, s) \/ CheckNewPending(u, s)
  PROVE  TypeOK'
  <1> USE DEF MemTypeOK, LoopTypeOK, FlushTypeOK, DbTypeOK, Moves
  <1>1. CASE FirstCheckRestore(u)
    BY <1>1 DEF TypeOK, FirstCheckRestore, flushVars, dbVars, ghostVars
  <1>2. CASE FirstCheckSeed(u, s)
    BY <1>2 DEF TypeOK, FirstCheckSeed, flushVars, dbVars, ghostVars
  <1>3. CASE CheckUnchanged(u, s)
    BY <1>3 DEF TypeOK, CheckUnchanged, flushVars, dbVars, ghostVars
  <1>4. CASE CheckFlapBack(u, s)
    <2>1. (jobs \in [Users -> [Slots -> JobType]])'
      BY <1>4, CancelledJobs, UserJobs DEF CheckFlapBack
    <2> QED
      BY <1>4, <2>1 DEF TypeOK, CheckFlapBack, flushVars, dbVars, ghostVars
  <1>5. CASE CheckAlreadyWaiting(u, s)
    BY <1>5 DEF TypeOK, CheckAlreadyWaiting, flushVars, dbVars, ghostVars
  <1>6. CASE CheckNewPending(u, s)
    <2>1. (jobs \in [Users -> [Slots -> JobType]])'
      BY <1>6, CancelledJobs, UserJobs DEF CheckNewPending
    <2> QED
      BY <1>6, <2>1 DEF TypeOK, CheckNewPending, flushVars, dbVars, ghostVars
  <1> QED
    BY <1>1, <1>2, <1>3, <1>4, <1>5, <1>6

\* A budget never goes below zero.
LEMMA BudgetTypes ==
  ASSUME TypeOK, NEW k \in Events, Spend(k) \/ UNCHANGED budget
  PROVE  budget' \in [Events -> Nat]
  <1>1. budget \in [Events -> Nat]
    BY DEF TypeOK
  <1>2. CASE Spend(k)
    BY <1>1, <1>2 DEF Spend, Events
  <1> QED
    BY <1>1, <1>2

\* What a check does after an await.
LEMMA AwaitTypes ==
  ASSUME TypeOK, NEW u \in Users, UserInv(u),
         \/ SeedWrite(u) \/ ClearWrite(u) \/ PersistPending(u) \/ CreateTimer(u)
  PROVE  TypeOK'
  <1> USE DEF MemTypeOK, LoopTypeOK, FlushTypeOK, DbTypeOK
  <1>0. "dbError" \in Events
    BY DEF Events, Failures
  <1>1. CASE SeedWrite(u)
    <2>1. budget' \in [Events -> Nat]
      BY <1>0, <1>1, BudgetTypes DEF SeedWrite, Fails
    <2> QED
      BY <1>1, <2>1 DEF TypeOK, SeedWrite, memVars, flushVars, ghostVars
  <1>2. CASE ClearWrite(u)
    <2>1. budget' \in [Events -> Nat]
      BY <1>0, <1>2, BudgetTypes DEF ClearWrite, Fails
    <2> QED
      BY <1>2, <2>1 DEF TypeOK, ClearWrite, memVars, flushVars, ghostVars
  <1>3. CASE PersistPending(u)
    <2>1. budget' \in [Events -> Nat]
      BY <1>0, <1>3, BudgetTypes DEF PersistPending, Fails
    <2> QED
      BY <1>3, <2>1 DEF TypeOK, PersistPending, memVars, flushVars, ghostVars
  <1>4. CASE CreateTimer(u)
    <2>1. PICK k \in Slots, d \in Settings :
            /\ jobs[u][k].pc = "idle"
            /\ jobs' = [jobs EXCEPT ![u][k] = SleepingJob(chkTo[u], FALSE, Stabilization(d))]
            /\ debounceTask' = [debounceTask EXCEPT ![u] = k]
      BY <1>4 DEF CreateTimer
    <2>2. Stabilization(d) \in Nat
      BY PowerMonitorAssumption DEF PowerMonitorAssumption, Stabilization
    <2>3. SleepingJob(chkTo[u], FALSE, Stabilization(d)) \in JobType
      BY <1>4, <2>2, JobValues DEF CreateTimer, UserInv
    <2>4. (jobs \in [Users -> [Slots -> JobType]])'
      BY <2>1, <2>3, OneJob
    <2> QED
      BY <1>4, <2>1, <2>4 DEF TypeOK, CreateTimer, flushVars, dbVars, ghostVars
  <1> QED
    BY <1>1, <1>2, <1>3, <1>4

\* The cycle around the checks.
LEMMA CycleTypes ==
  ASSUME TypeOK, StartCycle \/ EmptyCycle \/ EndCycle \/ CycleTimeout
  PROVE  TypeOK'
  <1> USE DEF MemTypeOK, LoopTypeOK, FlushTypeOK, DbTypeOK
  <1>1. CASE StartCycle
    <2>1. PICK over \in SUBSET (Present \cap active) :
            LET gone == (Present \ active) \cup over IN
            /\ current' = [u \in Users |-> IF u \in gone THEN None ELSE current[u]]
            /\ pending' = [u \in Users |-> IF u \in gone THEN None ELSE pending[u]]
            /\ cool' = [u \in Users |-> IF u \in gone THEN 0 ELSE cool[u]]
            /\ debounceTask' = [u \in Users |-> IF u \in gone THEN None ELSE debounceTask[u]]
            /\ dirty' = dirty \ gone
            /\ jobs' = [u \in Users |->
                         IF u \notin gone THEN jobs[u]
                         ELSE [k \in Slots |->
                                IF Cancelled(u)[k].pc = "idle" THEN IdleJob
                                ELSE [Cancelled(u)[k] EXCEPT !.orphan = TRUE]]]
      BY <1>1 DEF StartCycle
    <2>2. ASSUME NEW j \in JobType
          PROVE  [j EXCEPT !.orphan = TRUE] \in JobType
      BY DEF JobType
    <2>3. (jobs \in [Users -> [Slots -> JobType]])'
      <3>1. ASSUME NEW u \in Users
            PROVE  jobs'[u] \in [Slots -> JobType]
        <4>1. jobs[u] \in [Slots -> JobType] /\ Cancelled(u) \in [Slots -> JobType]
          BY CancelledJobs DEF TypeOK
        <4> QED
          BY <2>1, <2>2, <4>1, JobValues
      <3> QED
        BY <2>1, <3>1
    <2>4. MemTypeOK'
      BY <2>1, PowerMonitorAssumption DEF PowerMonitorAssumption, TypeOK
    <2>5. budget' \in [Events -> Nat]
      BY <1>1, BudgetTypes DEF StartCycle, OverTheCap, Events, Failures
    <2> QED
      BY <1>1, <2>3, <2>4, <2>5 DEF TypeOK, StartCycle, flushVars, dbVars, ghostVars
  <1>2. CASE EmptyCycle
    BY <1>2 DEF TypeOK, EmptyCycle, memVars, flushVars, dbVars, ghostVars
  <1>3. CASE EndCycle
    BY <1>3 DEF TypeOK, EndCycle, LeaveCycle, memVars, flushVars, dbVars, ghostVars
  <1>4. CASE CycleTimeout
    <2>1. budget' \in [Events -> Nat]
      BY <1>4, BudgetTypes DEF CycleTimeout, Events, Failures
    <2> QED
      BY <1>4, <2>1 DEF TypeOK, CycleTimeout, LeaveCycle, memVars, flushVars, dbVars, ghostVars
  <1> QED
    BY <1>1, <1>2, <1>3, <1>4

\* A debounce task that wakes up.
LEMMA ConfirmTypes ==
  ASSUME TypeOK, NEW u \in Users, NEW k \in Slots, Confirm(u, k)
  PROVE  TypeOK'
  <1> DEFINE j == jobs[u][k]
             elsewhere == IF j.restored THEN pending[u] # j.to ELSE j.orphan
             new == IF elsewhere /\ j.restored THEN IdleJob
                    ELSE HandlerJob([j EXCEPT !.orphan = elsewhere], cool[u] = 0)
  <1>1. j \in JobType
    BY DEF TypeOK
  <1>2. elsewhere \in BOOLEAN
    BY <1>1 DEF JobType
  <1>3. new \in JobType
    <2>1. HandlerLimit \in Nat /\ Cooldown \in 0..Cooldown
      BY PowerMonitorAssumption DEF PowerMonitorAssumption
    <2>2. [j EXCEPT !.orphan = elsewhere] \in JobType
      BY <1>1, <1>2 DEF JobType
    <2>3. ASSUME NEW i \in JobType, NEW b \in BOOLEAN
          PROVE  HandlerJob(i, b) \in JobType
      BY <2>1 DEF HandlerJob, JobType, HandlerPcs
    <2> QED
      BY <2>2, <2>3, JobValues
  <1>4. jobs' = [jobs EXCEPT ![u][k] = new]
    BY DEF Confirm
  <1>5. (jobs \in [Users -> [Slots -> JobType]])'
    BY <1>3, <1>4, OneJob
  <1>6. MemTypeOK'
    BY <1>1 DEF TypeOK, MemTypeOK, Confirm, JobType
  <1> QED
    BY <1>5, <1>6 DEF TypeOK, LoopTypeOK, FlushTypeOK, DbTypeOK, Confirm,
                      loopVars, flushVars, dbVars, ghostVars

\* Changes of a job while its handler runs.
LEMMA HandlerValues ==
  ASSUME NEW j \in JobType
  PROVE  /\ [j EXCEPT !.pc = "session2"] \in JobType
         /\ [j EXCEPT !.left = Dec(j.left), !.stamp = Dec(j.stamp)] \in JobType
  <1>1. Dec(j.left) \in Nat /\ Dec(j.stamp) \in 0..Cooldown
    BY PowerMonitorAssumption DEF PowerMonitorAssumption, Dec, JobType
  <1> QED
    BY <1>1 DEF JobType, HandlerPcs

\* A handler, from its first session to its end.
LEMMA HandlerTypes ==
  ASSUME TypeOK, NEW u \in Users, NEW k \in Slots,
         \/ Session1Commit(u, k) \/ Session1Fail(u, k) \/ Send(u, k)
         \/ SendForbidden(u, k) \/ SkipSend(u, k) \/ Finish(u, k) \/ HandlerTimeout(u, k)
  PROVE  TypeOK'
  <1> USE DEF MemTypeOK, LoopTypeOK, FlushTypeOK, DbTypeOK
  <1> DEFINE j == jobs[u][k]
             after == [j EXCEPT !.pc = "session2"]
             sending == [j EXCEPT !.pc = "send", !.notify = @ /\ (j.orphan \/ cool[u] = 0)]
  <1>1. j \in JobType
    BY DEF TypeOK
  <1>2. after \in JobType /\ sending \in JobType /\ IdleJob \in JobType
    <2>1. after \in JobType /\ IdleJob \in JobType
      BY <1>1, JobValues, HandlerValues
    <2>2. sending \in JobType
      BY <1>1 DEF JobType, HandlerPcs
    <2> QED
      BY <2>1, <2>2
  <1>3. j.to \in States \cup {None} /\ j.stamp \in 0..Cooldown
    BY <1>1 DEF JobType
  <1>4. ASSUME Stamp(u, k)
        PROVE  cool' \in [Users -> 0..Cooldown]
    BY <1>3, <1>4 DEF Stamp, TypeOK
  <1>5. CASE Session1Commit(u, k)
    <2>1. jobs' = [jobs EXCEPT ![u][k] = sending]
      BY <1>5 DEF Session1Commit, TypeOK
    <2>2. (jobs \in [Users -> [Slots -> JobType]])'
      BY <1>2, <2>1, OneJob
    <2> QED
      BY <1>3, <1>5, <2>2 DEF TypeOK, Session1Commit, memVars, loopVars, flushVars, ghostVars
  <1>6. CASE Session1Fail(u, k)
    <2>1. \/ jobs' = [jobs EXCEPT ![u][k] = IdleJob]
          \/ jobs' = [jobs EXCEPT ![u][k] = sending]
      <3>1. [jobs EXCEPT ![u][k].pc = "send",
                         ![u][k].notify = @ /\ (jobs[u][k].orphan \/ cool[u] = 0)]
              = [jobs EXCEPT ![u][k] = sending]
        BY DEF TypeOK
      <3> QED
        BY <1>6, <3>1 DEF Session1Fail
    <2>2. (jobs \in [Users -> [Slots -> JobType]])'
      BY <1>2, <2>1, OneJob
    <2>3. budget' \in [Events -> Nat]
      BY <1>6, BudgetTypes DEF Session1Fail, Fails, Events, Failures
    <2> QED
      BY <1>6, <2>2, <2>3 DEF TypeOK, Session1Fail, memVars, loopVars, flushVars, dbVars, ghostVars
  <1>7. CASE Send(u, k)
    <2>1. jobs' = [jobs EXCEPT ![u][k] = after]
      BY <1>7 DEF Send, TypeOK
    <2>2. (jobs \in [Users -> [Slots -> JobType]])'
      BY <1>2, <2>1, OneJob
    <2>3. budget' \in [Events -> Nat]
      BY <1>7, BudgetTypes DEF Send, Events, Failures
    <2>4. cool' \in [Users -> 0..Cooldown]
      BY <1>4, <1>7 DEF Send
    <2>5. notified' \in [Users -> States \cup {None}]
      BY <1>3, <1>7 DEF Send, TypeOK
    <2> QED
      BY <1>7, <2>2, <2>3, <2>4, <2>5 DEF TypeOK, Send, loopVars, flushVars, dbVars
  <1>8. CASE SendForbidden(u, k)
    <2>1. (jobs \in [Users -> [Slots -> JobType]])'
      BY <1>2, <1>8, OneJob DEF SendForbidden
    <2>2. budget' \in [Events -> Nat]
      BY <1>8, BudgetTypes DEF SendForbidden, Events, Failures
    <2>3. cool' \in [Users -> 0..Cooldown]
      BY <1>4, <1>8 DEF SendForbidden
    <2> QED
      BY <1>8, <2>1, <2>2, <2>3 DEF TypeOK, SendForbidden, loopVars, flushVars, ghostVars
  <1>9. CASE SkipSend(u, k)
    <2>1. jobs' = [jobs EXCEPT ![u][k] = after]
      BY <1>9 DEF SkipSend, TypeOK
    <2>2. (jobs \in [Users -> [Slots -> JobType]])'
      BY <1>2, <2>1, OneJob
    <2> QED
      BY <1>9, <2>2 DEF TypeOK, SkipSend, memVars, loopVars, flushVars, dbVars, ghostVars
  <1>10. CASE Finish(u, k)
    <2>1. (jobs \in [Users -> [Slots -> JobType]])'
      BY <1>2, <1>10, OneJob DEF Finish
    <2> QED
      BY <1>10, <2>1 DEF TypeOK, Finish, loopVars, flushVars, dbVars, ghostVars
  <1>11. CASE HandlerTimeout(u, k)
    <2>1. (jobs \in [Users -> [Slots -> JobType]])'
      BY <1>2, <1>11, OneJob DEF HandlerTimeout
    <2>2. budget' \in [Events -> Nat]
      BY <1>11, BudgetTypes DEF HandlerTimeout, Events, Failures
    <2> QED
      BY <1>11, <2>1, <2>2 DEF TypeOK, HandlerTimeout, memVars, loopVars, flushVars, dbVars, ghostVars
  <1> QED
    BY <1>5, <1>6, <1>7, <1>8, <1>9, <1>10, <1>11

\* Time passes.
LEMMA TickTypes ==
  ASSUME TypeOK, Tick
  PROVE  TypeOK'
  <1>1. ASSUME NEW u \in Users, NEW k \in Slots
        PROVE  [jobs[u][k] EXCEPT !.left = Dec(@), !.stamp = Dec(@)] \in JobType
    <2>1. jobs[u][k] \in JobType
      BY DEF TypeOK
    <2> QED
      BY <2>1, HandlerValues
  <1>2. (jobs \in [Users -> [Slots -> JobType]])'
    BY <1>1 DEF Tick
  <1>3. ASSUME NEW n \in 0..Cooldown
        PROVE  Dec(n) \in 0..Cooldown
    BY PowerMonitorAssumption DEF PowerMonitorAssumption, Dec
  <1>4. cool' \in [Users -> 0..Cooldown]
    BY <1>3 DEF Tick, TypeOK, MemTypeOK
  <1> QED
    BY <1>2, <1>4 DEF TypeOK, MemTypeOK, LoopTypeOK, FlushTypeOK, DbTypeOK, Tick,
                      loopVars, flushVars, dbVars, ghostVars

\* A snapshot consists of complete rows.
LEMMA SnapshotRows ==
  ASSUME TypeOK, \A u \in Users : UserInv(u)
  PROVE  /\ Snapshot \in [Users -> RowType \cup {None}]
         /\ \A u \in Users : Snapshot[u] # None => GoodRow(Snapshot[u])
  <1>1. ASSUME NEW u \in Present
        PROVE  EntryRow(u) \in RowType /\ GoodRow(EntryRow(u))
    BY <1>1 DEF Present, EntryRow, RowType, GoodRow, TypeOK, MemTypeOK, UserInv, States
  <1> QED
    BY <1>1 DEF Snapshot, Present

LEMMA NoRowsType ==
  /\ NoRows \in [Users -> RowType \cup {None}]
  /\ \A u \in Users : NoRows[u] = None
  BY DEF NoRows

\* The start and the end of a flush.
LEMMA FlushStartsTypes ==
  ASSUME TypeOK, \A u \in Users : UserInv(u), NEW f \in Flushers,
         FlushStarts(f) \/ FlushEnds(f)
  PROVE  FlushTypeOK'
  <1>1. FlushTypeOK /\ dirty \subseteq Users
    BY DEF TypeOK, MemTypeOK
  <1>2. CASE FlushStarts(f)
    BY <1>1, <1>2, SnapshotRows DEF FlushStarts, FlushTypeOK
  <1>3. CASE FlushEnds(f)
    BY <1>1, <1>3, NoRowsType DEF FlushEnds, FlushTypeOK
  <1> QED
    BY <1>2, <1>3

\* The write-behind.
LEMMA FlushTypes ==
  ASSUME TypeOK, \A u \in Users : UserInv(u), NEW f \in Flushers,
         FlushBegin \/ FlushSkip \/ FlushCommit(f) \/ FlushFail(f) \/ FlushClear(f)
  PROVE  TypeOK'
  <1> USE DEF MemTypeOK, LoopTypeOK, DbTypeOK, LoopAfter
  <1>1. CASE FlushBegin
    <2>1. FlushTypeOK'
      BY <1>1, FlushStartsTypes DEF FlushBegin, Flushers
    <2> QED
      BY <1>1, <2>1 DEF TypeOK, FlushBegin, memVars, dbVars, ghostVars
  <1>2. CASE FlushSkip
    BY <1>2 DEF TypeOK, FlushTypeOK, FlushSkip, memVars, flushVars, dbVars, ghostVars
  <1>3. CASE FlushCommit(f)
    <2>1. flushRows[f] \in [Users -> RowType \cup {None}]
      BY DEF TypeOK, FlushTypeOK
    <2>2. saved' \in [Users -> RowType \cup {None}] /\ recent' \subseteq Users
      BY <1>3, <2>1 DEF TypeOK, FlushCommit
    <2>3. FlushTypeOK'
      BY <1>3 DEF TypeOK, FlushTypeOK, FlushCommit
    <2> QED
      BY <1>3, <2>2, <2>3 DEF TypeOK, FlushCommit, memVars, loopVars
  <1>4. CASE FlushFail(f)
    <2>1. FlushTypeOK'
      BY <1>4, FlushStartsTypes DEF FlushFail
    <2>2. budget' \in [Events -> Nat]
      BY <1>4, BudgetTypes DEF FlushFail, Fails, Events, Failures
    <2> QED
      BY <1>4, <2>1, <2>2 DEF TypeOK, FlushFail, memVars, dbVars, ghostVars
  <1>5. CASE FlushClear(f)
    <2>1. FlushTypeOK'
      BY <1>5, FlushStartsTypes DEF FlushClear
    <2> QED
      BY <1>5, <2>1 DEF TypeOK, FlushClear, dbVars, ghostVars
  <1> QED
    BY <1>1, <1>2, <1>3, <1>4, <1>5

\* Shutdown and crash.
LEMMA StopTypes ==
  ASSUME TypeOK, \A u \in Users : UserInv(u),
         ShutdownSave \/ StopMonitor \/ Crash \/ Exit
  PROVE  TypeOK'
  <1> USE DEF MemTypeOK, LoopTypeOK, DbTypeOK
  <1>1. CASE ShutdownSave
    <2>1. FlushTypeOK'
      BY <1>1, FlushStartsTypes DEF ShutdownSave, Flushers, TypeOK, FlushTypeOK, flushVars
    <2>2. budget' \in [Events -> Nat]
      BY <1>1, BudgetTypes DEF ShutdownSave, Events, Failures
    <2> QED
      BY <1>1, <2>1, <2>2 DEF TypeOK, ShutdownSave, memVars, dbVars, ghostVars
  <1>2. CASE StopMonitor
    <2>1. FlushTypeOK'
      BY <1>2, FlushStartsTypes DEF StopMonitor, Flushers
    <2>2. budget' \in [Events -> Nat]
      BY <1>2, BudgetTypes DEF StopMonitor, Fails, Events, Failures
    <2>3. (jobs \in [Users -> [Slots -> JobType]])'
      BY <1>2, CancelledJobs DEF StopMonitor
    <2> QED
      BY <1>2, <2>1, <2>2, <2>3 DEF TypeOK, StopMonitor, dbVars, ghostVars
  <1>3. CASE Crash \/ Exit
    <2>1. ProcessEnds
      BY <1>3 DEF Crash, Exit
    <2>2. budget' \in [Events -> Nat]
      BY <1>3, BudgetTypes DEF Crash, Exit, Events, Failures
    <2>3. (jobs \in [Users -> [Slots -> JobType]])'
      BY <2>1, JobValues DEF ProcessEnds
    <2>4. FlushTypeOK'
      BY <2>1, NoRowsType DEF ProcessEnds, FlushTypeOK
    <2>5. MemTypeOK'
      BY <2>1, PowerMonitorAssumption DEF PowerMonitorAssumption, ProcessEnds
    <2> QED
      BY <2>1, <2>2, <2>3, <2>4, <2>5 DEF TypeOK, ProcessEnds, dbVars, ghostVars
  <1> QED
    BY <1>1, <1>2, <1>3

\* A restart arms one timer for every restored candidate.
LEMMA BootJobs ==
  ASSUME TypeOK, RowsInv, Boot
  PROVE  \E k \in Slots :
           \A u \in Users :
             /\ debounceTask'[u] = IF u \in Waiting THEN k ELSE None
             /\ jobs'[u] \in [Slots -> JobType]
             /\ \A l \in Slots : u \notin Waiting \/ l # k => jobs'[u][l] = jobs[u][l]
             /\ u \in Waiting => /\ jobs'[u][k].pc = "sleep"
                                 /\ jobs'[u][k].to = saved[u].pending
                                 /\ ~ jobs'[u][k].orphan
                                 /\ jobs'[u][k].restored
  <1>0. PICK k \in Slots, d \in Settings : \E left \in [Users -> 0..d] :
          /\ debounceTask' = [u \in Users |-> IF u \in Waiting THEN k ELSE None]
          /\ jobs' = [u \in Users |->
               IF u \in Waiting
               THEN [jobs[u] EXCEPT ![k] = SleepingJob(saved[u].pending, TRUE, left[u])]
               ELSE jobs[u]]
    BY DEF Boot
  <1>1. PICK left \in [Users -> 0..d] :
          /\ debounceTask' = [u \in Users |-> IF u \in Waiting THEN k ELSE None]
          /\ jobs' = [u \in Users |->
               IF u \in Waiting
               THEN [jobs[u] EXCEPT ![k] = SleepingJob(saved[u].pending, TRUE, left[u])]
               ELSE jobs[u]]
    BY <1>0
  <1>2. ASSUME NEW u \in Waiting
        PROVE  u \in Users /\ saved[u].pending \in States /\ left[u] \in Nat
    BY PowerMonitorAssumption
    DEF PowerMonitorAssumption, Waiting, TypeOK, DbTypeOK, RowType, RowsInv, RowsAreSnapshots
  <1>3. \A u \in Users : jobs[u] \in [Slots -> JobType]
    BY DEF TypeOK
  <1>4. ASSUME NEW u \in Users
        PROVE  /\ debounceTask'[u] = IF u \in Waiting THEN k ELSE None
               /\ jobs'[u] \in [Slots -> JobType]
               /\ \A l \in Slots : u \notin Waiting \/ l # k => jobs'[u][l] = jobs[u][l]
               /\ u \in Waiting => /\ jobs'[u][k].pc = "sleep"
                                   /\ jobs'[u][k].to = saved[u].pending
                                   /\ ~ jobs'[u][k].orphan
                                   /\ jobs'[u][k].restored
    <2>1. CASE u \in Waiting
      <3> DEFINE job == SleepingJob(saved[u].pending, TRUE, left[u])
      <3>1. /\ job \in JobType /\ job.pc = "sleep"
            /\ job.to = saved[u].pending /\ ~ job.orphan /\ job.restored
        <4>1. saved[u].pending \in States /\ left[u] \in Nat /\ TRUE \in BOOLEAN
          BY <1>2, <2>1
        <4> HIDE DEF States
        <4> QED
          <5>1. /\ job \in JobType /\ job.pc = "sleep"
                /\ job.to = saved[u].pending /\ ~ job.orphan
            BY ONLY <4>1, JobValues DEF job
          <5>2. job.restored
            BY ONLY SleepingValues DEF job
          <5> QED
            BY ONLY <5>1, <5>2
      <3>2. jobs'[u] = [jobs[u] EXCEPT ![k] = job]
        BY <1>1, <2>1
      <3>3. debounceTask'[u] = k
        BY <1>1, <2>1
      <3> HIDE DEF job
      <3>4. /\ jobs'[u] \in [Slots -> JobType]
            /\ jobs'[u][k] = job
            /\ \A l \in Slots : l # k => jobs'[u][l] = jobs[u][l]
        BY <1>3, <3>1, <3>2
      <3> QED
        BY <2>1, <3>1, <3>3, <3>4
    <2>2. CASE u \notin Waiting
      BY <1>1, <1>3, <2>2
    <2> QED
      BY <2>1, <2>2
  <1> QED
    BY <1>4

LEMMA BootTypes ==
  ASSUME TypeOK, RowsInv, Boot
  PROVE  TypeOK'
  <1>1. PICK k \in Slots : \A u \in Users : debounceTask'[u] = IF u \in Waiting THEN k ELSE None
    BY BootJobs
  <1>2. debounceTask' \in [Users -> Slots \cup {None}]
    BY DEF Boot
  <1>3. (jobs \in [Users -> [Slots -> JobType]])'
    BY BootJobs DEF Boot
  <1>4. ASSUME NEW u \in recent
        PROVE  u \in Users /\ saved[u] \in RowType
    BY DEF TypeOK, DbTypeOK, RowsInv, RowsAreSnapshots
  <1>5. cool' \in [Users -> 0..Cooldown]
    BY DEF Boot
  <1>6. current' \in [Users -> States \cup {None}] /\ pending' \in [Users -> States \cup {None}]
    BY <1>4 DEF Boot, RowType
  <1> QED
    BY <1>2, <1>3, <1>5, <1>6
    DEF Boot, TypeOK, MemTypeOK, LoopTypeOK, FlushTypeOK, DbTypeOK, flushVars, dbVars, ghostVars

\* The environment.
LEMMA EnvironmentTypes ==
  ASSUME TypeOK, NEW u \in Users, Toggle(u) \/ HourPasses(u)
  PROVE  TypeOK'
  <1>1. budget' \in [Events -> Nat]
    BY BudgetTypes DEF Toggle, HourPasses, Events, Failures
  <1> USE DEF TypeOK, MemTypeOK, LoopTypeOK, FlushTypeOK, DbTypeOK
  <1>2. CASE Toggle(u)
    BY <1>1, <1>2 DEF Toggle, memVars, loopVars, flushVars, ghostVars
  <1>3. CASE HourPasses(u)
    BY <1>1, <1>3 DEF HourPasses, memVars, loopVars, flushVars
  <1> QED
    BY <1>2, <1>3
-----------------------------------------------------------------------------
(* Timers and candidates *)

\* As far as timers are concerned, job k of u is what it was.
SameTimer(u, k) ==
  /\ jobs'[u][k].pc = "sleep" <=> jobs[u][k].pc = "sleep"
  /\ jobs[u][k].pc = "sleep" =>
       jobs'[u][k].to = jobs[u][k].to /\ jobs'[u][k].orphan = jobs[u][k].orphan

\* A step that leaves the entry and the timers of u alone, and whose check of u,
\* if there is one, does not enter a stage that promises something.
LEMMA UserFrame ==
  ASSUME TypeOK, NEW u \in Users, UserInv(u),
         current'[u] = current[u], pending'[u] = pending[u],
         debounceTask'[u] = debounceTask[u],
         \A k \in Slots : SameTimer(u, k),
         \/ chk'[u] \in {"out", "todo", "clear"}
         \/ chk'[u] = chk[u] /\ chkTo'[u] = chkTo[u]
         \/ chk[u] = "persist" /\ chk'[u] = "timer" /\ chkTo'[u] = chkTo[u],
         mode' = "down" => current[u] = None /\ \A k \in Slots : jobs'[u][k] = IdleJob
  PROVE  UserInv(u)'
  <1>1. debounceTask[u] \in Slots \cup {None}
    BY DEF TypeOK, MemTypeOK
  <1> QED
    BY <1>1 DEF UserInv, Guarded, SameTimer

\* The same, for all users and a step that leaves all of this alone.
LEMMA AllUsersFrame ==
  ASSUME IInv, UNCHANGED <<current, pending, debounceTask, jobs, chk, chkTo, mode>>
  PROVE  \A u \in Users : UserInv(u)'
  BY UserFrame DEF IInv, SameTimer, UserInv

\* A check, up to its first await.
LEMMA CheckUsers ==
  ASSUME IInv, NEW u \in Users, NEW s \in States,
         \/ FirstCheckRestore(u) \/ FirstCheckSeed(u, s) \/ CheckUnchanged(u, s)
         \/ CheckFlapBack(u, s) \/ CheckAlreadyWaiting(u, s) \/ CheckNewPending(u, s)
  PROVE  \A v \in Users : UserInv(v)'
  <1> USE DEF IInv
  <1>0. /\ chk[u] = "todo" /\ mode' = mode /\ mode # "down"
        /\ chk \in [Users -> {"out", "todo", "seed", "clear", "persist", "timer"}]
    BY DEF LoopInv, FirstCheckRestore, FirstCheckSeed, CheckUnchanged, CheckFlapBack,
           CheckAlreadyWaiting, CheckNewPending, Moves, TypeOK, LoopTypeOK
  <1>a. /\ debounceTask \in [Users -> Slots \cup {None}]
        /\ current \in [Users -> States \cup {None}]
        /\ pending \in [Users -> States \cup {None}]
        /\ chkTo \in [Users -> States \cup {None}]
        /\ loaded \in [Users -> States \cup {None}]
    BY DEF TypeOK, MemTypeOK, LoopTypeOK
  <1>b. /\ Cancelled(u) \in [Slots -> JobType]
        /\ \A k \in Slots : Cancelled(u)[k] = IF k = debounceTask[u] THEN IdleJob ELSE jobs[u][k]
    BY CancelledJobs
  <1>c. None \notin States
    BY PowerMonitorAssumption DEF PowerMonitorAssumption
  <1>1. ASSUME NEW v \in Users, v # u
        PROVE  UserInv(v)'
    <2>1. /\ current'[v] = current[v] /\ pending'[v] = pending[v]
          /\ debounceTask'[v] = debounceTask[v] /\ jobs'[v] = jobs[v]
          /\ chk'[v] = chk[v] /\ chkTo'[v] = chkTo[v]
      <3>1. jobs'[v] = jobs[v]
        <4>1. jobs' = jobs \/ jobs' = [jobs EXCEPT ![u] = Cancelled(u)]
          BY DEF FirstCheckRestore, FirstCheckSeed, CheckUnchanged, CheckFlapBack,
                 CheckAlreadyWaiting, CheckNewPending
        <4> QED
          BY <1>1, <1>b, <4>1, UserJobs
      <3> QED
        BY <1>0, <1>1, <1>a, <3>1
        DEF FirstCheckRestore, FirstCheckSeed, CheckUnchanged, CheckFlapBack,
            CheckAlreadyWaiting, CheckNewPending, Moves
    <2> QED
      BY <1>0, <2>1, UserFrame DEF SameTimer
  <1>2. UserInv(u)
    OBVIOUS
  <1>3. CASE FirstCheckRestore(u)
    BY <1>0, <1>1, <1>2, <1>3, <1>a, <1>c DEF FirstCheckRestore, Moves, UserInv, Guarded
  <1>4. CASE FirstCheckSeed(u, s)
    BY <1>0, <1>1, <1>2, <1>4, <1>a, <1>c DEF FirstCheckSeed, Moves, UserInv, Guarded
  <1>5. CASE CheckUnchanged(u, s) \/ CheckAlreadyWaiting(u, s)
    BY <1>0, <1>1, <1>2, <1>5, <1>a, UserFrame
    DEF CheckUnchanged, CheckAlreadyWaiting, Moves, SameTimer
  <1>6. CASE CheckFlapBack(u, s) \/ CheckNewPending(u, s)
    <2>1. /\ jobs' = [jobs EXCEPT ![u] = Cancelled(u)]
          /\ debounceTask'[u] = None /\ current'[u] = current[u]
      BY <1>6, <1>a DEF CheckFlapBack, CheckNewPending
    <2>2. ASSUME NEW k \in Slots
          PROVE  jobs'[u][k].pc # "sleep"
      <3>1. jobs'[u] = Cancelled(u)
        BY <1>b, <2>1, UserJobs
      <3>2. IdleJob.pc # "sleep"
        BY JobValues
      <3>3. jobs[u][k].pc = "sleep" => debounceTask[u] = k
        BY <1>2 DEF UserInv, Guarded
      <3> QED
        BY <1>b, <3>1, <3>2, <3>3
    <2>3. CASE CheckFlapBack(u, s)
      <3>1. pending'[u] = None /\ chk'[u] = "clear"
        BY <1>0, <1>a, <2>3 DEF CheckFlapBack, Moves
      <3> QED
        BY <1>0, <1>1, <2>1, <2>2, <3>1 DEF UserInv, Guarded
    <2>4. CASE CheckNewPending(u, s)
      <3>1. /\ pending'[u] = s /\ chk'[u] = "persist" /\ chkTo'[u] = s
            /\ current[u] \in States \ {s}
        BY <1>0, <1>a, <2>4 DEF CheckNewPending, Contradicts, Moves
      <3> QED
        BY <1>0, <1>1, <2>1, <2>2, <3>1 DEF UserInv, Guarded
    <2> QED
      BY <1>6, <2>3, <2>4
  <1> QED
    BY <1>3, <1>4, <1>5, <1>6

\* What a check does after an await.
LEMMA AwaitUsers ==
  ASSUME IInv, NEW u \in Users,
         \/ SeedWrite(u) \/ ClearWrite(u) \/ PersistPending(u) \/ CreateTimer(u)
  PROVE  \A v \in Users : UserInv(v)'
  <1> USE DEF IInv
  <1>1. /\ mode' = mode /\ mode # "down"
        /\ chk \in [Users -> {"out", "todo", "seed", "clear", "persist", "timer"}]
        /\ chkTo \in [Users -> States \cup {None}]
    BY DEF LoopInv, SeedWrite, ClearWrite, PersistPending, CreateTimer, TypeOK, LoopTypeOK
  <1>2. CASE SeedWrite(u) \/ ClearWrite(u) \/ PersistPending(u)
    <2>1. UNCHANGED <<current, pending, debounceTask, jobs>>
      BY <1>2 DEF SeedWrite, ClearWrite, PersistPending, memVars
    <2>2. ASSUME NEW v \in Users
          PROVE  \/ chk'[v] = "out"
                 \/ chk'[v] = chk[v] /\ chkTo'[v] = chkTo[v]
                 \/ chk[v] = "persist" /\ chk'[v] = "timer" /\ chkTo'[v] = chkTo[v]
      BY <1>1, <1>2 DEF SeedWrite, ClearWrite, PersistPending
    <2> QED
      BY <1>1, <2>1, <2>2, UserFrame DEF SameTimer
  <1>3. CASE CreateTimer(u)
    <2>1. PICK k \in Slots, d \in Settings :
            /\ jobs[u][k].pc = "idle"
            /\ jobs' = [jobs EXCEPT ![u][k] = SleepingJob(chkTo[u], FALSE, Stabilization(d))]
            /\ debounceTask' = [debounceTask EXCEPT ![u] = k]
      BY <1>3 DEF CreateTimer
    <2> DEFINE job == SleepingJob(chkTo[u], FALSE, Stabilization(d))
    <2>2. /\ chkTo[u] \in States /\ pending[u] = chkTo[u] /\ debounceTask[u] = None
          /\ chk' = [chk EXCEPT ![u] = "out"] /\ chkTo' = [chkTo EXCEPT ![u] = None]
          /\ UNCHANGED <<current, pending>>
      BY <1>3 DEF CreateTimer, UserInv
    <2>3. /\ job \in JobType /\ job.pc = "sleep" /\ job.to = chkTo[u] /\ ~ job.orphan
      <3>1. Stabilization(d) \in Nat
        BY PowerMonitorAssumption DEF PowerMonitorAssumption, Stabilization
      <3> QED
        BY <2>2, <3>1, JobValues
    <2> HIDE DEF job
    <2>a. jobs' = [jobs EXCEPT ![u][k] = job]
      BY <2>1 DEF job
    <2>4. /\ jobs'[u][k] = job
          /\ \A v \in Users, l \in Slots : v # u \/ l # k => jobs'[v][l] = jobs[v][l]
      <3>1. jobs \in [Users -> [Slots -> JobType]]
        BY DEF TypeOK
      <3> QED
        BY <2>a, <3>1
    <2>5. debounceTask'[u] = k /\ \A v \in Users : v # u => debounceTask'[v] = debounceTask[v]
      BY <2>1 DEF TypeOK, MemTypeOK
    <2>6. ASSUME NEW v \in Users, v # u
          PROVE  UserInv(v)'
      <3>1. /\ \A l \in Slots : SameTimer(v, l)
            /\ chk'[v] = chk[v] /\ chkTo'[v] = chkTo[v]
        BY <1>1, <2>2, <2>4, <2>6 DEF SameTimer
      <3> QED
        BY <1>1, <2>2, <2>5, <2>6, <3>1, UserFrame
    <2>7. UserInv(u)'
      <3>1. chk'[u] = "out" /\ pending'[u] = chkTo[u] /\ current'[u] \in States \ {chkTo[u]}
        BY <1>1, <2>2, PowerMonitorAssumption DEF PowerMonitorAssumption, UserInv
      <3>2. ASSUME NEW l \in Slots, l # k
            PROVE  jobs'[u][l].pc # "sleep"
        BY <2>2, <2>4, <3>2, PowerMonitorAssumption DEF PowerMonitorAssumption, UserInv, Guarded
      <3>3. \A l \in Slots : Guarded(u, l)'
        BY <2>2, <2>3, <2>4, <2>5, <3>1, <3>2 DEF Guarded
      <3> QED
        BY <1>1, <2>2, <2>3, <2>4, <2>5, <3>1, <3>3, PowerMonitorAssumption
        DEF PowerMonitorAssumption, UserInv
    <2> QED
      BY <2>6, <2>7
  <1> QED
    BY <1>2, <1>3

\* The cycle around the checks.
LEMMA CycleUsers ==
  ASSUME IInv, StartCycle \/ EmptyCycle \/ EndCycle \/ CycleTimeout
  PROVE  \A v \in Users : UserInv(v)'
  <1> USE DEF IInv
  <1>1. CASE StartCycle
    <2>1. PICK over \in SUBSET (Present \cap active) :
            LET gone == (Present \ active) \cup over IN
            /\ current' = [u \in Users |-> IF u \in gone THEN None ELSE current[u]]
            /\ pending' = [u \in Users |-> IF u \in gone THEN None ELSE pending[u]]
            /\ debounceTask' = [u \in Users |-> IF u \in gone THEN None ELSE debounceTask[u]]
            /\ jobs' = [u \in Users |->
                         IF u \notin gone THEN jobs[u]
                         ELSE [k \in Slots |->
                                IF Cancelled(u)[k].pc = "idle" THEN IdleJob
                                ELSE [Cancelled(u)[k] EXCEPT !.orphan = TRUE]]]
      BY <1>1 DEF StartCycle
    <2> DEFINE gone == (Present \ active) \cup over
    <2>2. mode' = mode /\ mode # "down" /\ chk' = [u \in Users |-> IF u \in active THEN "todo" ELSE "out"]
      BY <1>1 DEF StartCycle
    <2>3. ASSUME NEW u \in Users, u \notin gone
          PROVE  UserInv(u)'
      BY <2>1, <2>2, <2>3, UserFrame DEF SameTimer
    <2>4. ASSUME NEW u \in Users, u \in gone
          PROVE  UserInv(u)'
      <3>1. current'[u] = None /\ pending'[u] = None /\ debounceTask'[u] = None
        BY <2>1, <2>4
      <3>2. ASSUME NEW k \in Slots
            PROVE  jobs'[u][k].pc # "sleep"
        <4>1. Cancelled(u)[k] \in JobType /\ Cancelled(u)[k].pc # "sleep"
          BY CancelledJobs, JobValues DEF UserInv, Guarded
        <4>2. jobs'[u][k] = IF Cancelled(u)[k].pc = "idle" THEN IdleJob
                            ELSE [Cancelled(u)[k] EXCEPT !.orphan = TRUE]
          BY <2>1, <2>4
        <4> QED
          BY <4>1, <4>2, JobValues DEF JobType
      <3> QED
        BY <2>2, <3>1, <3>2 DEF UserInv, Guarded
    <2> QED
      BY <2>3, <2>4
  <1>2. CASE EmptyCycle
    BY <1>2, AllUsersFrame DEF EmptyCycle, memVars
  <1>3. CASE EndCycle \/ CycleTimeout
    <2>1. UNCHANGED <<current, pending, debounceTask, jobs, mode>>
      BY <1>3 DEF EndCycle, CycleTimeout, memVars
    <2>2. chk' = [u \in Users |-> "out"]
      BY <1>3 DEF EndCycle, CycleTimeout, LeaveCycle
    <2> QED
      BY <2>1, <2>2, UserFrame DEF SameTimer, UserInv
  <1> QED
    BY <1>1, <1>2, <1>3

\* A debounce task that wakes up finds its candidate, and is the only one.
LEMMA ConfirmUsers ==
  ASSUME IInv, NEW u \in Users, NEW k \in Slots, Confirm(u, k)
  PROVE  \A v \in Users : UserInv(v)'
  <1> USE DEF IInv
  <1> DEFINE j == jobs[u][k]
             new == HandlerJob([j EXCEPT !.orphan = FALSE], cool[u] = 0)
  <1>1. /\ j \in JobType /\ j.pc = "sleep"
        /\ debounceTask[u] = k /\ pending[u] = j.to /\ j.orphan = FALSE
        /\ current[u] # None
    <2>1. j \in JobType /\ j.pc = "sleep"
      BY DEF Confirm, TypeOK
    <2>2. Guarded(u, k) /\ UserInv(u)
      BY DEF UserInv
    <2>3. j.orphan \in BOOLEAN
      BY <2>1 DEF JobType
    <2>4. /\ debounceTask[u] = k /\ pending[u] = j.to /\ j.orphan = FALSE
          /\ current[u] \in States
      BY <2>1, <2>2, <2>3 DEF Guarded
    <2> QED
      BY <2>1, <2>4, PowerMonitorAssumption DEF PowerMonitorAssumption
  <1>2. /\ current' = [current EXCEPT ![u] = j.to]
        /\ pending' = [pending EXCEPT ![u] = None]
        /\ debounceTask' = [debounceTask EXCEPT ![u] = None]
        /\ jobs' = [jobs EXCEPT ![u][k] = new]
        /\ UNCHANGED <<mode, chk, chkTo>>
    BY <1>1 DEF Confirm, loopVars, JobType
  <1>3. new \in JobType /\ new.pc = "session1"
    <2>1. Cooldown \in 0..Cooldown /\ HandlerLimit \in Nat
      BY PowerMonitorAssumption DEF PowerMonitorAssumption
    <2> QED
      BY <1>1, <2>1 DEF HandlerJob, JobType, HandlerPcs
  <1> HIDE DEF new
  <1>4. /\ jobs'[u][k] = new
        /\ \A v \in Users, l \in Slots : v # u \/ l # k => jobs'[v][l] = jobs[v][l]
    <2>1. jobs \in [Users -> [Slots -> JobType]]
      BY DEF TypeOK
    <2> QED
      BY <1>2, <2>1
  <1>5. mode # "down"
    BY <1>1, JobValues DEF UserInv
  <1>6. ASSUME NEW v \in Users, v # u
        PROVE  UserInv(v)'
    <2>1. /\ current'[v] = current[v] /\ pending'[v] = pending[v]
          /\ debounceTask'[v] = debounceTask[v]
      BY <1>2, <1>6 DEF TypeOK, MemTypeOK
    <2>2. \A l \in Slots : SameTimer(v, l)
      BY <1>4, <1>6 DEF SameTimer
    <2> QED
      BY <1>2, <1>5, <1>6, <2>1, <2>2, UserFrame
  <1>7. UserInv(u)'
    <2>1. current'[u] = j.to /\ pending'[u] = None /\ debounceTask'[u] = None
      BY <1>2 DEF TypeOK, MemTypeOK
    <2>2. ASSUME NEW l \in Slots
          PROVE  jobs'[u][l].pc # "sleep"
      BY <1>1, <1>3, <1>4 DEF UserInv, Guarded
    <2>3. /\ chk[u] \notin {"persist", "timer"}
          /\ chk[u] = "seed" => chkTo[u] \in States
      BY <1>1, PowerMonitorAssumption DEF PowerMonitorAssumption, UserInv
    <2> QED
      BY <1>2, <1>5, <2>1, <2>2, <2>3 DEF UserInv, Guarded
  <1> QED
    BY <1>6, <1>7

\* Handlers and the clock leave entries and timers alone.
LEMMA HandlerUsers ==
  ASSUME IInv, NEW u \in Users, NEW k \in Slots,
         \/ Session1Commit(u, k) \/ Session1Fail(u, k) \/ Send(u, k)
         \/ SendForbidden(u, k) \/ SkipSend(u, k) \/ Finish(u, k) \/ HandlerTimeout(u, k)
  PROVE  \A v \in Users : UserInv(v)'
  <1> USE DEF IInv
  <1>1. jobs[u][k].pc \in HandlerPcs
    BY DEF Session1Commit, Session1Fail, Send, SendForbidden, SkipSend, Finish,
           HandlerTimeout, HandlerPcs
  <1>2. UNCHANGED <<current, pending, debounceTask, chk, chkTo, mode>>
    BY DEF Session1Commit, Session1Fail, Send, SendForbidden, SkipSend, Finish,
           HandlerTimeout, memVars, loopVars
  <1>3. mode # "down"
    <2>1. UserInv(u)
      OBVIOUS
    <2> QED
      BY <1>1, <2>1, JobValues DEF UserInv, HandlerPcs
  <1>4. jobs[u][k].pc # "sleep" /\ IdleJob.pc # "sleep"
    BY <1>1, JobValues DEF HandlerPcs
  <1>5. ASSUME NEW v \in Users, NEW l \in Slots
        PROVE  SameTimer(v, l)
    <2>1. v # u \/ l # k => jobs'[v][l] = jobs[v][l]
      BY DEF Session1Commit, Session1Fail, Send, SendForbidden, SkipSend, Finish,
             HandlerTimeout, TypeOK
    <2>2. jobs'[u][k].pc \in {"send", "session2", IdleJob.pc}
      BY DEF Session1Commit, Session1Fail, Send, SendForbidden, SkipSend, Finish,
             HandlerTimeout, TypeOK, JobType
    <2> QED
      BY <1>4, <2>1, <2>2 DEF SameTimer
  <1> QED
    BY <1>2, <1>3, <1>5, UserFrame

LEMMA TickUsers ==
  ASSUME IInv, Tick
  PROVE  \A v \in Users : UserInv(v)'
  <1> USE DEF IInv
  <1>1. UNCHANGED <<current, pending, debounceTask, chk, chkTo, mode>> /\ mode # "down"
    BY DEF Tick, loopVars
  <1>2. ASSUME NEW v \in Users, NEW l \in Slots
        PROVE  SameTimer(v, l)
    <2>1. jobs[v][l] \in JobType
      BY DEF TypeOK
    <2>2. jobs'[v][l] = [jobs[v][l] EXCEPT !.left = Dec(@), !.stamp = Dec(@)]
      BY DEF Tick
    <2> QED
      BY <2>1, <2>2 DEF SameTimer, JobType
  <1> QED
    BY <1>1, <1>2, UserFrame

\* The shutdown cancels the timers; with the process everything is gone.
LEMMA StopUsers ==
  ASSUME IInv, ShutdownSave \/ StopMonitor \/ Crash \/ Exit
  PROVE  \A v \in Users : UserInv(v)'
  <1> USE DEF IInv
  <1>1. CASE ShutdownSave
    BY <1>1, UserFrame DEF ShutdownSave, memVars, SameTimer
  <1>2. CASE StopMonitor
    <2>1. /\ UNCHANGED <<current, pending, chk, chkTo>> /\ mode' = "stopped"
          /\ jobs' = [v \in Users |-> Cancelled(v)]
          /\ debounceTask' = [v \in Users |-> None]
      BY <1>2 DEF StopMonitor
    <2>2. ASSUME NEW v \in Users
          PROVE  UserInv(v)'
      <3>1. ASSUME NEW l \in Slots
            PROVE  jobs'[v][l].pc # "sleep"
        BY <2>1, CancelledJobs, JobValues DEF UserInv, Guarded
      <3> QED
        BY <2>1, <3>1 DEF UserInv, Guarded
    <2> QED
      BY <2>2
  <1>3. CASE Crash \/ Exit
    <2>1. ProcessEnds
      BY <1>3 DEF Crash, Exit
    <2> QED
      BY <2>1, JobValues DEF ProcessEnds, UserInv, Guarded
  <1> QED
    BY <1>1, <1>2, <1>3

LEMMA BootUsers ==
  ASSUME IInv, Boot
  PROVE  \A v \in Users : UserInv(v)'
  <1> USE DEF IInv
  <1>1. PICK k \in Slots :
          \A u \in Users :
            /\ debounceTask'[u] = IF u \in Waiting THEN k ELSE None
            /\ jobs'[u] \in [Slots -> JobType]
            /\ \A l \in Slots : u \notin Waiting \/ l # k => jobs'[u][l] = jobs[u][l]
            /\ u \in Waiting => /\ jobs'[u][k].pc = "sleep"
                                /\ jobs'[u][k].to = saved[u].pending
                                /\ ~ jobs'[u][k].orphan
    BY BootJobs
  <1>2. /\ mode = "down" /\ mode' = "up" /\ UNCHANGED <<chk, chkTo>>
        /\ loop = "sleeping"
    BY DEF Boot, LoopInv
  <1>3. ASSUME NEW u \in Users
        PROVE  UserInv(u)'
    <2>1. \A l \in Slots : jobs[u][l].pc = "idle"
      BY <1>2, JobValues DEF UserInv
    <2>2. chk'[u] = "out"
      BY <1>2 DEF LoopInv
    <2>3. CASE u \in Waiting
      <3>1. /\ current'[u] = saved[u].current /\ pending'[u] = saved[u].pending
            /\ saved[u].current \in States \ {saved[u].pending}
        BY <2>3 DEF Boot, Waiting, RowsInv, RowsAreSnapshots, TypeOK, DbTypeOK, RowType
      <3> QED
        BY <1>1, <1>2, <2>1, <2>2, <2>3, <3>1 DEF UserInv, Guarded, Waiting
    <2>4. CASE u \notin Waiting
      <3>1. pending'[u] = None
        BY <2>4 DEF Boot, Waiting
      <3> QED
        BY <1>1, <1>2, <2>1, <2>2, <2>4, <3>1 DEF UserInv, Guarded
    <2> QED
      BY <2>3, <2>4
  <1> QED
    BY <1>3
-----------------------------------------------------------------------------
(* Rows and the loop *)

\* What is on its way to the database, and what is there, are snapshots.
LEMMA RowsStep ==
  ASSUME IInv, [Next]_vars
  PROVE  RowsInv'
  <1> USE DEF IInv
  <1>1. ASSUME UNCHANGED <<flushRows, saved, recent>>
        PROVE  RowsInv'
    BY <1>1 DEF RowsInv, RowsAreSnapshots
  <1>2. ASSUME NEW f \in Flushers, FlushStarts(f) \/ FlushEnds(f), UNCHANGED <<saved, recent>>
        PROVE  RowsInv'
    <2>1. flushRows' = [flushRows EXCEPT ![f] = Snapshot] \/ flushRows' = [flushRows EXCEPT ![f] = NoRows]
      BY <1>2 DEF FlushStarts, FlushEnds
    <2>2. DOMAIN flushRows = Flushers
      BY DEF TypeOK, FlushTypeOK
    <2>3. ASSUME NEW g \in Flushers, NEW u \in Users, flushRows'[g][u] # None
          PROVE  GoodRow(flushRows'[g][u])
      <3>1. CASE g = f
        BY <2>1, <2>2, <2>3, <3>1, SnapshotRows, NoRowsType
      <3>2. CASE g # f
        BY <2>1, <2>2, <2>3, <3>2 DEF RowsInv
      <3> QED
        BY <3>1, <3>2
    <2> QED
      BY <1>2, <2>3 DEF RowsInv, RowsAreSnapshots
  <1>3. ASSUME NEW f \in Flushers, FlushCommit(f)
        PROVE  RowsInv'
    <2>1. \A u \in Users : flushRows[f][u] # None => GoodRow(flushRows[f][u])
      BY DEF RowsInv
    <2>2. \A u \in Users : saved'[u] = IF flushRows[f][u] # None THEN flushRows[f][u] ELSE saved[u]
      BY <1>3 DEF FlushCommit
    <2>3. RowsAreSnapshots'
      BY <1>3, <2>1, <2>2 DEF FlushCommit, RowsInv, RowsAreSnapshots, GoodRow
    <2> QED
      BY <1>3, <2>3 DEF FlushCommit, RowsInv
  <1>4. CASE ProcessEnds
    BY <1>4, NoRowsType DEF ProcessEnds, RowsInv, RowsAreSnapshots, dbVars
  <1>5. ASSUME NEW u \in Users, HourPasses(u)
        PROVE  RowsInv'
    BY <1>5 DEF HourPasses, RowsInv, RowsAreSnapshots, flushVars
  <1>6. ASSUME NEW u \in Users, Check(u)
        PROVE  RowsInv'
    BY <1>1, <1>6
    DEF Check, FirstCheckRestore, FirstCheckSeed, CheckUnchanged, CheckFlapBack,
        CheckAlreadyWaiting, CheckNewPending, SeedWrite, ClearWrite, PersistPending,
        CreateTimer, flushVars, dbVars
  <1>7. ASSUME NEW u \in Users, NEW k \in Slots, Run(u, k)
        PROVE  RowsInv'
    BY <1>1, <1>7
    DEF Run, Confirm, Session1Commit, Session1Fail, Send, SendForbidden, SkipSend, Finish,
        HandlerTimeout, flushVars, dbVars
  <1>8. CASE StartCycle \/ EmptyCycle \/ EndCycle \/ CycleTimeout \/ Tick \/ FlushSkip \/ Boot
    BY <1>1, <1>8
    DEF StartCycle, EmptyCycle, EndCycle, CycleTimeout, Tick, FlushSkip, Boot, flushVars, dbVars
  <1>9. CASE FlushBegin \/ ShutdownSave \/ StopMonitor
    BY <1>1, <1>2, <1>9
    DEF FlushBegin, ShutdownSave, StopMonitor, Flushers, flushVars, dbVars
  <1>10. ASSUME NEW f \in Flushers, FlushFail(f) \/ FlushClear(f)
         PROVE  RowsInv'
    BY <1>2, <1>10 DEF FlushFail, FlushClear, dbVars
  <1>11. CASE Crash \/ Exit
    BY <1>4, <1>11 DEF Crash, Exit
  <1>12. ASSUME NEW u \in Users, Toggle(u)
         PROVE  RowsInv'
    BY <1>1, <1>12 DEF Toggle, flushVars
  <1>13. CASE UNCHANGED vars
    BY <1>1, <1>13 DEF vars, flushVars, dbVars
  <1> QED
    BY <1>3, <1>5, <1>6, <1>7, <1>8, <1>9, <1>10, <1>11, <1>12, <1>13 DEF Next

\* Checks run inside a cycle, and no cycle runs in a process that is down.
LEMMA LoopStep ==
  ASSUME IInv, [Next]_vars
  PROVE  LoopInv'
  <1> USE DEF IInv
  <1>f. Flushers = {"loop", "shutdown"} /\ DOMAIN flushPc = Flushers
    BY DEF Flushers, TypeOK, FlushTypeOK
  <1>1. ASSUME UNCHANGED <<mode, loop, chk, flushPc>>
        PROVE  LoopInv'
    BY <1>1 DEF LoopInv
  <1>2. ASSUME NEW u \in Users, Check(u)
        PROVE  LoopInv'
    <2>1. mode' = mode /\ loop' = loop /\ loop = "checking" /\ flushPc' = flushPc
      BY <1>2 DEF LoopInv, Check, FirstCheckRestore, FirstCheckSeed, CheckUnchanged,
                  CheckFlapBack, CheckAlreadyWaiting, CheckNewPending, Moves, SeedWrite,
                  ClearWrite, PersistPending, CreateTimer, flushVars
    <2> QED
      BY <2>1 DEF LoopInv
  <1>3. ASSUME NEW u \in Users, NEW k \in Slots, Run(u, k)
        PROVE  LoopInv'
    BY <1>1, <1>3
    DEF Run, Confirm, Session1Commit, Session1Fail, Send, SendForbidden, SkipSend, Finish,
        HandlerTimeout, loopVars, flushVars
  <1>4. CASE StartCycle \/ EmptyCycle \/ EndCycle \/ CycleTimeout
    BY <1>4 DEF StartCycle, EmptyCycle, EndCycle, CycleTimeout, LeaveCycle, LoopInv, flushVars
  <1>5. CASE Tick \/ \E u \in Users : Toggle(u) \/ HourPasses(u)
    BY <1>1, <1>5 DEF Tick, Toggle, HourPasses, loopVars, flushVars
  <1>6. CASE FlushBegin \/ FlushSkip
    BY <1>6, <1>f DEF FlushBegin, FlushSkip, FlushStarts, LoopInv, flushVars
  <1>7. ASSUME NEW f \in Flushers, FlushCommit(f) \/ FlushFail(f) \/ FlushClear(f)
        PROVE  LoopInv'
    <2>1. CASE FlushCommit(f)
      BY <2>1, <1>f DEF FlushCommit, LoopInv, loopVars
    <2>2. CASE FlushFail(f) \/ FlushClear(f)
      BY <2>2, <1>f DEF FlushFail, FlushClear, FlushEnds, LoopAfter, LoopInv
    <2> QED
      BY <1>7, <2>1, <2>2
  <1>8. CASE ShutdownSave \/ StopMonitor \/ Boot
    BY <1>8, <1>f
    DEF ShutdownSave, StopMonitor, Boot, FlushStarts, FlushEnds, LoopInv, flushVars
  <1>9. CASE Crash \/ Exit
    BY <1>9, <1>f DEF Crash, Exit, ProcessEnds, LoopInv
  <1>10. CASE UNCHANGED vars
    BY <1>1, <1>10 DEF vars, loopVars, flushVars
  <1> QED
    BY <1>2, <1>3, <1>4, <1>5, <1>6, <1>7, <1>8, <1>9, <1>10 DEF Next
-----------------------------------------------------------------------------
(* Theorems *)

LEMMA InitIInv == Init => IInv
  <1> SUFFICES ASSUME Init PROVE IInv
    OBVIOUS
  <1>1. (jobs \in [Users -> [Slots -> JobType]]) /\ cool \in [Users -> 0..Cooldown]
    BY JobValues, PowerMonitorAssumption DEF PowerMonitorAssumption, Init
  <1>2. FlushTypeOK
    BY NoRowsType DEF Init, FlushTypeOK
  <1>3. TypeOK
    BY <1>1, <1>2, PowerMonitorAssumption
    DEF PowerMonitorAssumption, Init, TypeOK, MemTypeOK, LoopTypeOK, DbTypeOK
  <1>4. RowsInv
    BY NoRowsType DEF Init, RowsInv, RowsAreSnapshots
  <1>5. LoopInv
    BY DEF Init, LoopInv, Flushers
  <1>6. ASSUME NEW u \in Users
        PROVE  UserInv(u)
    BY JobValues DEF Init, UserInv, Guarded
  <1> QED
    BY <1>3, <1>4, <1>5, <1>6 DEF IInv

LEMMA NextIInv == IInv /\ [Next]_vars => IInv'
  <1> SUFFICES ASSUME IInv, [Next]_vars PROVE IInv'
    OBVIOUS
  <1> USE DEF IInv
  <1>1. RowsInv' /\ LoopInv'
    BY RowsStep, LoopStep
  <1>2. TypeOK' /\ \A v \in Users : UserInv(v)'
    <2>1. CASE StartCycle \/ EmptyCycle \/ EndCycle \/ CycleTimeout
      BY <2>1, CycleTypes, CycleUsers
    <2>2. ASSUME NEW u \in Users, Check(u)
          PROVE  TypeOK' /\ \A v \in Users : UserInv(v)'
      <3>1. CASE SeedWrite(u) \/ ClearWrite(u) \/ PersistPending(u) \/ CreateTimer(u)
        BY <3>1, AwaitTypes, AwaitUsers
      <3>2. ASSUME NEW s \in States,
                   \/ FirstCheckRestore(u) \/ FirstCheckSeed(u, s) \/ CheckUnchanged(u, s)
                   \/ CheckFlapBack(u, s) \/ CheckAlreadyWaiting(u, s) \/ CheckNewPending(u, s)
            PROVE  TypeOK' /\ \A v \in Users : UserInv(v)'
        BY <3>2, CheckTypes, CheckUsers
      <3>3. "on" \in States
        BY DEF States
      <3> QED
        BY <2>2, <3>1, <3>2, <3>3 DEF Check
    <2>3. ASSUME NEW u \in Users, NEW k \in Slots, Run(u, k)
          PROVE  TypeOK' /\ \A v \in Users : UserInv(v)'
      BY <2>3, ConfirmTypes, ConfirmUsers, HandlerTypes, HandlerUsers DEF Run
    <2>4. CASE Tick
      BY <2>4, TickTypes, TickUsers
    <2>5. ASSUME NEW f \in Flushers,
                 FlushBegin \/ FlushSkip \/ FlushCommit(f) \/ FlushFail(f) \/ FlushClear(f)
          PROVE  TypeOK' /\ \A v \in Users : UserInv(v)'
      <3>1. UNCHANGED <<current, pending, debounceTask, jobs, chk, chkTo, mode>>
        BY <2>5 DEF FlushBegin, FlushSkip, FlushCommit, FlushFail, FlushClear, memVars, loopVars
      <3> QED
        BY <2>5, <3>1, FlushTypes, AllUsersFrame
    <2>6. CASE ShutdownSave \/ StopMonitor \/ Crash \/ Exit
      BY <2>6, StopTypes, StopUsers
    <2>7. CASE Boot
      BY <2>7, BootTypes, BootUsers
    <2>8. ASSUME NEW u \in Users, Toggle(u) \/ HourPasses(u)
          PROVE  TypeOK' /\ \A v \in Users : UserInv(v)'
      <3>1. UNCHANGED <<current, pending, debounceTask, jobs, chk, chkTo, mode>>
        BY <2>8 DEF Toggle, HourPasses, memVars, loopVars
      <3> QED
        BY <2>8, <3>1, EnvironmentTypes, AllUsersFrame
    <2>9. CASE UNCHANGED vars
      <3>1. UNCHANGED <<current, pending, debounceTask, jobs, chk, chkTo, mode>>
        BY <2>9 DEF vars, memVars, loopVars
      <3>2. TypeOK'
        BY <2>9 DEF vars, memVars, loopVars, flushVars, dbVars, ghostVars, TypeOK, MemTypeOK,
                    LoopTypeOK, FlushTypeOK, DbTypeOK
      <3> QED
        BY <3>1, <3>2, AllUsersFrame
    <2>10. "loop" \in Flushers
      BY DEF Flushers
    <2> QED
      BY <2>1, <2>2, <2>3, <2>4, <2>5, <2>6, <2>7, <2>8, <2>9, <2>10 DEF Next
  <1> QED
    BY <1>1, <1>2

\* IInv holds in every state the monitor reaches.
THEOREM InductiveInvariant == Spec => []IInv
  BY InitIInv, NextIInv, PTL DEF Spec

\* Every variable keeps its type, whatever fails and however often the process
\* restarts: _save_all_user_states writes complete rows only, and what
\* _restore_user_states reads are complete rows.
THEOREM TypeCorrect == Spec => []TypeOK
  <1>1. IInv => TypeOK
    BY DEF IInv
  <1> QED
    BY <1>1, InductiveInvariant, PTL

\* A debounce task of _check_user_power or _restart_pending_debounce_tasks that
\* sleeps is the task its entry refers to, and the entry still observes the state
\* the task is going to confirm, for any number of users, tasks and events.
THEOREM TimersGuardCandidates == Spec => []TimerGuardsCandidate
  <1>1. IInv => TimerGuardsCandidate
    BY DEF IInv, UserInv, Guarded, TimerGuardsCandidate
  <1> QED
    BY <1>1, InductiveInvariant, PTL

\* A row of user_power_states never has a candidate equal to its state, and the
\* rows get_recent_user_power_states returns exist.
THEOREM RowsStaySnapshots == Spec => []RowsAreSnapshots
  <1>1. IInv => RowsAreSnapshots
    BY DEF IInv, RowsInv
  <1> QED
    BY <1>1, InductiveInvariant, PTL

\* The eviction of _check_all_ips leaves no sleeping timer of an inactive user.
THEOREM EvictionLeavesNoTimer == Spec => EvictionStopsTimers
  <1>1. ASSUME IInv, StartCycle, NEW u \in Users \ active, NEW k \in Slots
        PROVE  jobs'[u][k].pc # "sleep"
    <2> USE DEF IInv
    <2>1. \A v \in Users : UserInv(v)'
      BY <1>1, CycleUsers
    <2>2. debounceTask'[u] = None
      <3>1. CASE u \in Present
        BY <1>1, <3>1 DEF StartCycle
      <3>2. CASE u \notin Present
        <4>1. current[u] = None
          BY <3>2 DEF Present
        <4>2. debounceTask[u] = None
          BY <1>1, <4>1, PowerMonitorAssumption
          DEF PowerMonitorAssumption, UserInv, Guarded, TypeOK, MemTypeOK
        <4> QED
          BY <1>1, <4>2 DEF StartCycle
      <3> QED
        BY <3>1, <3>2
    <2> QED
      BY <2>1, <2>2, PowerMonitorAssumption DEF PowerMonitorAssumption, UserInv, Guarded
  <1>2. IInv => (StartCycle => \A u \in Users \ active, k \in Slots : jobs'[u][k].pc # "sleep")
    BY <1>1
  <1> QED
    BY <1>2, InductiveInvariant, PTL DEF EvictionStopsTimers
-----------------------------------------------------------------------------
(* What a step does to the tasks *)

\* A task that wakes up starts the handler, in the entry that refers to it.
LEMMA ConfirmEffect ==
  ASSUME IInv, NEW u \in Users, NEW k \in Slots, Confirm(u, k)
  PROVE  /\ jobs[u][k].pc = "sleep" /\ jobs[u][k].left = 0
         /\ current[u] \in States \ {jobs[u][k].to} /\ jobs[u][k].to \in States
         /\ current' = [current EXCEPT ![u] = jobs[u][k].to]
         /\ jobs'[u][k].pc = "session1" /\ jobs'[u][k].to = jobs[u][k].to
         /\ jobs'[u][k].restored = jobs[u][k].restored /\ ~ jobs'[u][k].orphan
         /\ jobs'[u][k].left = HandlerLimit /\ jobs'[u][k].stamp = Cooldown
         /\ jobs'[u][k].notify = (cool[u] = 0)
         /\ \A v \in Users, l \in Slots : v # u \/ l # k => jobs'[v][l] = jobs[v][l]
         /\ UNCHANGED <<cool, loopVars, dbVars, notified, budget>>
  <1> USE DEF IInv
  <1> DEFINE j == jobs[u][k]
             new == HandlerJob([j EXCEPT !.orphan = FALSE], cool[u] = 0)
  <1>1. j \in JobType /\ j.pc = "sleep" /\ j.left = 0
    BY DEF Confirm, TypeOK
  <1>2. /\ debounceTask[u] = k /\ pending[u] = j.to /\ ~ j.orphan
        /\ current[u] \in States \ {j.to} /\ j.to \in States
    <2>1. Guarded(u, k) /\ UserInv(u)
      BY DEF UserInv
    <2>2. debounceTask[u] # None
      BY <1>1, <2>1, PowerMonitorAssumption DEF PowerMonitorAssumption, Guarded
    <2> QED
      BY <1>1, <2>1, <2>2 DEF Guarded, UserInv, JobType
  <1>3. /\ current' = [current EXCEPT ![u] = j.to]
        /\ jobs' = [jobs EXCEPT ![u][k] = new]
        /\ UNCHANGED <<cool, loopVars, dbVars, notified, budget>>
    <2>1. j.orphan = FALSE
      BY <1>1, <1>2 DEF JobType
    <2> QED
      BY <1>2, <2>1 DEF Confirm, ghostVars
  <1>4. /\ new \in JobType /\ new.pc = "session1" /\ new.to = j.to
        /\ new.restored = j.restored /\ ~ new.orphan /\ new.left = HandlerLimit
        /\ new.stamp = Cooldown /\ new.notify = (cool[u] = 0)
    <2>1. Cooldown \in 0..Cooldown /\ HandlerLimit \in Nat
      BY PowerMonitorAssumption DEF PowerMonitorAssumption
    <2> QED
      BY <1>1, <2>1 DEF HandlerJob, JobType, HandlerPcs
  <1> HIDE DEF new
  <1>5. /\ jobs'[u][k] = new
        /\ \A v \in Users, l \in Slots : v # u \/ l # k => jobs'[v][l] = jobs[v][l]
    <2>1. jobs \in [Users -> [Slots -> JobType]]
      BY DEF TypeOK
    <2> QED
      BY <1>3, <2>1
  <1> QED
    BY <1>1, <1>2, <1>3, <1>4, <1>5

\* A check that has nobody to wait for any more creates a task of its own.
LEMMA CreateEffect ==
  ASSUME IInv, NEW u \in Users, CreateTimer(u)
  PROVE  /\ chk[u] = "timer" /\ chkTo[u] \in States /\ pending[u] = chkTo[u]
         /\ \A k \in Slots : jobs[u][k].pc # "sleep"
         /\ \E k \in Slots, d \in Settings :
              /\ jobs[u][k].pc = "idle"
              /\ jobs'[u][k].pc = "sleep" /\ jobs'[u][k].to = chkTo[u]
              /\ ~ jobs'[u][k].restored /\ ~ jobs'[u][k].orphan
              /\ jobs'[u][k].left = Stabilization(d)
              /\ \A v \in Users, l \in Slots : v # u \/ l # k => jobs'[v][l] = jobs[v][l]
  <1> USE DEF IInv
  <1>1. PICK k \in Slots, d \in Settings :
          /\ jobs[u][k].pc = "idle"
          /\ jobs' = [jobs EXCEPT ![u][k] = SleepingJob(chkTo[u], FALSE, Stabilization(d))]
    BY DEF CreateTimer
  <1>2. /\ chk[u] = "timer" /\ chkTo[u] \in States /\ pending[u] = chkTo[u]
        /\ debounceTask[u] = None
    BY DEF CreateTimer, UserInv
  <1>3. \A l \in Slots : jobs[u][l].pc # "sleep"
    BY <1>2, PowerMonitorAssumption DEF PowerMonitorAssumption, UserInv, Guarded
  <1> DEFINE job == SleepingJob(chkTo[u], FALSE, Stabilization(d))
  <1>4. /\ job \in JobType /\ job.pc = "sleep" /\ job.to = chkTo[u]
        /\ ~ job.restored /\ ~ job.orphan /\ job.left = Stabilization(d)
    <2>1. Stabilization(d) \in Nat
      BY PowerMonitorAssumption DEF PowerMonitorAssumption, Stabilization
    <2>2. job \in JobType /\ job.pc = "sleep" /\ job.to = chkTo[u] /\ ~ job.orphan
      BY <1>2, <2>1, JobValues
    <2>3. job.restored = FALSE /\ job.left = Stabilization(d)
      BY ONLY TRUE DEF job, SleepingJob, IdleJob
    <2> QED
      BY <2>2, <2>3
  <1> HIDE DEF job
  <1>5. /\ jobs'[u][k] = job
        /\ \A v \in Users, l \in Slots : v # u \/ l # k => jobs'[v][l] = jobs[v][l]
    <2>1. jobs' = [jobs EXCEPT ![u][k] = job]
      BY <1>1 DEF job
    <2>2. jobs \in [Users -> [Slots -> JobType]]
      BY DEF TypeOK
    <2> HIDE DEF IInv
    <2> QED
      BY <2>1, <2>2
  <1> QED
    BY <1>1, <1>2, <1>3, <1>4, <1>5

\* A handler goes on with its job, or is done with it.
LEMMA HandlerEffect ==
  ASSUME TypeOK, NEW u \in Users, NEW k \in Slots,
         \/ Session1Commit(u, k) \/ Session1Fail(u, k) \/ Send(u, k)
         \/ SendForbidden(u, k) \/ SkipSend(u, k) \/ Finish(u, k) \/ HandlerTimeout(u, k)
  PROVE  /\ jobs[u][k].pc \in HandlerPcs
         /\ \/ jobs'[u][k] = IdleJob
            \/ /\ jobs'[u][k].pc \in {"send", "session2"} /\ jobs'[u][k].to = jobs[u][k].to
               /\ jobs'[u][k].restored = jobs[u][k].restored
               /\ jobs'[u][k].orphan = jobs[u][k].orphan
               /\ jobs'[u][k].left = jobs[u][k].left /\ jobs'[u][k].stamp = jobs[u][k].stamp
         /\ \A v \in Users, l \in Slots : v # u \/ l # k => jobs'[v][l] = jobs[v][l]
         /\ UNCHANGED <<current, pending, debounceTask, loopVars>>
  <1>1. jobs[u][k].pc \in HandlerPcs
    BY DEF Session1Commit, Session1Fail, Send, SendForbidden, SkipSend, Finish,
           HandlerTimeout, HandlerPcs
  <1>2. UNCHANGED <<current, pending, debounceTask, loopVars>>
    BY DEF Session1Commit, Session1Fail, Send, SendForbidden, SkipSend, Finish,
           HandlerTimeout, memVars
  <1>3. jobs[u][k] \in JobType /\ jobs \in [Users -> [Slots -> JobType]]
    BY DEF TypeOK
  <1>4. \A v \in Users, l \in Slots : v # u \/ l # k => jobs'[v][l] = jobs[v][l]
    BY <1>3 DEF Session1Commit, Session1Fail, Send, SendForbidden, SkipSend, Finish, HandlerTimeout
  <1>5. CASE Session1Commit(u, k)
    BY <1>1, <1>2, <1>3, <1>4, <1>5 DEF Session1Commit, JobType
  <1>6. CASE Session1Fail(u, k)
    BY <1>1, <1>2, <1>3, <1>4, <1>6 DEF Session1Fail, JobType
  <1>7. CASE Send(u, k) \/ SkipSend(u, k)
    BY <1>1, <1>2, <1>3, <1>4, <1>7 DEF Send, SkipSend, JobType
  <1>8. CASE SendForbidden(u, k) \/ Finish(u, k) \/ HandlerTimeout(u, k)
    BY <1>1, <1>2, <1>3, <1>4, <1>8 DEF SendForbidden, Finish, HandlerTimeout
  <1> QED
    BY <1>5, <1>6, <1>7, <1>8

\* A handler loses its entry, and nothing else.
Orphaned(u, k) ==
  LET j == jobs[u][k]  i == jobs'[u][k] IN
  /\ j.pc \in HandlerPcs /\ i.pc = j.pc /\ i.to = j.to /\ i.restored = j.restored
  /\ i.orphan /\ i.notify = j.notify /\ i.left = j.left /\ i.stamp = j.stamp

\* The eviction cancels the sleeping task of an entry; a handler goes on without it.
LEMMA StartEffect ==
  ASSUME IInv, StartCycle
  PROVE  \E over \in SUBSET (Present \cap active) :
           /\ OverTheCap(over, Present \cap active)
           /\ \A u \in Users : IF u \in (Present \ active) \cup over
                THEN /\ current'[u] = None /\ cool'[u] = 0
                     /\ \A k \in Slots : jobs'[u][k] = IdleJob \/ Orphaned(u, k)
                ELSE /\ current'[u] = current[u] /\ cool'[u] = cool[u]
                     /\ \A k \in Slots : jobs'[u][k] = jobs[u][k]
  <1> USE DEF IInv
  <1>1. PICK over \in SUBSET (Present \cap active) :
          LET gone == (Present \ active) \cup over IN
          /\ OverTheCap(over, Present \cap active)
          /\ current' = [u \in Users |-> IF u \in gone THEN None ELSE current[u]]
          /\ cool' = [u \in Users |-> IF u \in gone THEN 0 ELSE cool[u]]
          /\ jobs' = [u \in Users |->
                       IF u \notin gone THEN jobs[u]
                       ELSE [k \in Slots |->
                              IF Cancelled(u)[k].pc = "idle" THEN IdleJob
                              ELSE [Cancelled(u)[k] EXCEPT !.orphan = TRUE]]]
    BY DEF StartCycle
  <1> DEFINE gone == (Present \ active) \cup over
  <1>2. ASSUME NEW u \in Users, u \in gone, NEW k \in Slots
        PROVE  jobs'[u][k] = IdleJob \/ Orphaned(u, k)
    <2>1. jobs'[u][k] = IF Cancelled(u)[k].pc = "idle" THEN IdleJob
                        ELSE [Cancelled(u)[k] EXCEPT !.orphan = TRUE]
      BY <1>1, <1>2
    <2>2. /\ jobs[u][k] \in JobType
          /\ Cancelled(u)[k] = IF k = debounceTask[u] THEN IdleJob ELSE jobs[u][k]
      BY CancelledJobs DEF TypeOK
    <2>3. jobs[u][k].pc = "sleep" => debounceTask[u] = k
      BY DEF UserInv, Guarded
    <2>4. CASE jobs[u][k].pc \in {"idle", "sleep"}
      BY <2>1, <2>2, <2>3, <2>4, JobValues
    <2>5. CASE jobs[u][k].pc \in HandlerPcs
      <3>1. Cancelled(u)[k] \in {IdleJob, jobs[u][k]}
        BY <2>2
      <3>2. jobs'[u][k] = IdleJob \/ jobs'[u][k] = [jobs[u][k] EXCEPT !.orphan = TRUE]
        BY <2>1, <3>1, JobValues
      <3> QED
        BY <2>2, <2>5, <3>2 DEF Orphaned, JobType
    <2> QED
      BY <2>2, <2>4, <2>5 DEF JobType
  <1> QED
    BY <1>1, <1>2

\* A check up to its first await at most cancels the sleeping task of its entry.
LEMMA CheckEffect ==
  ASSUME IInv, NEW u \in Users, NEW s \in States,
         \/ FirstCheckRestore(u) \/ FirstCheckSeed(u, s) \/ CheckUnchanged(u, s)
         \/ CheckFlapBack(u, s) \/ CheckAlreadyWaiting(u, s) \/ CheckNewPending(u, s)
  PROVE  \A v \in Users, k \in Slots :
           \/ jobs'[v][k] = jobs[v][k]
           \/ v = u /\ jobs[v][k].pc \in {"idle", "sleep"} /\ jobs'[v][k] = IdleJob
  <1> USE DEF IInv
  <1>1. jobs' = jobs \/ jobs' = [jobs EXCEPT ![u] = Cancelled(u)]
    BY DEF FirstCheckRestore, FirstCheckSeed, CheckUnchanged, CheckFlapBack,
           CheckAlreadyWaiting, CheckNewPending
  <1>2. CASE jobs' = [jobs EXCEPT ![u] = Cancelled(u)]
    <2>1. ASSUME NEW k \in Slots
          PROVE  \/ Cancelled(u)[k] = jobs[u][k]
                 \/ jobs[u][k].pc \in {"idle", "sleep"} /\ Cancelled(u)[k] = IdleJob
      <3>1. debounceTask[u] = k => jobs[u][k].pc = "sleep"
        BY PowerMonitorAssumption DEF PowerMonitorAssumption, UserInv
      <3> QED
        BY <3>1, CancelledJobs
    <2> QED
      BY <1>2, <2>1, CancelledJobs, UserJobs
  <1> QED
    BY <1>1, <1>2
-----------------------------------------------------------------------------
(* One handler per user *)

\* The handler of a task that _check_user_power created, under its limit.
Handles(j) == j.pc \in HandlerPcs /\ ~ j.restored

\* A timer such a handler leaves behind it is a later one, and sleeps longer than
\* the handler may still run.
HandlersApart(u) ==
  \A k, l \in Slots : Handles(jobs[u][k]) =>
    /\ jobs[u][k].left <= HandlerLimit
    /\ Handles(jobs[u][l]) => k = l
    /\ jobs[u][l].pc = "sleep" /\ ~ jobs[u][l].restored => jobs[u][k].left < jobs[u][l].left

HandlersInv == \A u \in Users : HandlersApart(u)

\* Job k of u is no more than it was, and has as much time left.
NoNewWork(u, k) ==
  /\ jobs'[u][k].pc = "sleep" => jobs[u][k].pc = "sleep"
  /\ jobs'[u][k].pc \in HandlerPcs => jobs[u][k].pc \in HandlerPcs
  /\ jobs'[u][k].pc \in HandlerPcs \cup {"sleep"} =>
       jobs'[u][k].restored = jobs[u][k].restored /\ jobs'[u][k].left = jobs[u][k].left

LEMMA HandlersFrame ==
  ASSUME NEW u \in Users, HandlersApart(u), \A k \in Slots : NoNewWork(u, k)
  PROVE  HandlersApart(u)'
  BY DEF HandlersApart, Handles, NoNewWork

\* A task that begins to handle finds no other handler, since none outlasts it.
LEMMA ConfirmHandlers ==
  ASSUME IInv, HandlersInv, NEW u \in Users, NEW k \in Slots, Confirm(u, k)
  PROVE  HandlersInv'
  <1> USE DEF IInv
  <1>1. /\ jobs[u][k].pc = "sleep" /\ jobs[u][k].left = 0
        /\ jobs'[u][k].pc = "session1" /\ jobs'[u][k].restored = jobs[u][k].restored
        /\ jobs'[u][k].left = HandlerLimit /\ HandlerLimit <= HandlerLimit
        /\ \A v \in Users, l \in Slots : v # u \/ l # k => jobs'[v][l] = jobs[v][l]
    BY ConfirmEffect, PowerMonitorAssumption DEF PowerMonitorAssumption
  <1>2. ASSUME NEW l \in Slots
        PROVE  jobs[u][l].left \in Nat /\ (l # k => jobs[u][l].pc # "sleep")
    BY <1>1, PowerMonitorAssumption DEF PowerMonitorAssumption, TypeOK, JobType, UserInv, Guarded
  <1>3. ASSUME NEW l \in Slots, Handles(jobs[u][l])
        PROVE  jobs[u][k].restored
    <2>1. ~ jobs[u][k].restored => jobs[u][l].left < jobs[u][k].left
      BY <1>1, <1>3 DEF HandlersInv, HandlersApart
    <2> QED
      BY <1>1, <1>2, <2>1
  <1>4. HandlersApart(u)'
    <2>1. HandlersApart(u)
      BY DEF HandlersInv
    <2> QED
      BY <1>1, <1>2, <1>3, <2>1 DEF HandlersApart, Handles, HandlerPcs
  <1>5. ASSUME NEW v \in Users, v # u
        PROVE  HandlersApart(v)'
    BY <1>1, <1>5, HandlersFrame DEF HandlersInv, NoNewWork
  <1> QED
    BY <1>4, <1>5 DEF HandlersInv

\* A new timer sleeps longer than any handler runs.
LEMMA CreateHandlers ==
  ASSUME IInv, HandlersInv, NEW u \in Users, CreateTimer(u)
  PROVE  HandlersInv'
  <1> USE DEF IInv
  <1>1. PICK k \in Slots, d \in Settings :
          /\ jobs[u][k].pc = "idle"
          /\ jobs'[u][k].pc = "sleep" /\ ~ jobs'[u][k].restored
          /\ jobs'[u][k].left = Stabilization(d)
          /\ \A v \in Users, l \in Slots : v # u \/ l # k => jobs'[v][l] = jobs[v][l]
    BY CreateEffect
  <1>2. ASSUME NEW l \in Slots, Handles(jobs[u][l])
        PROVE  jobs[u][l].left < Stabilization(d)
    <2>1. jobs[u][l].left \in Nat /\ jobs[u][l].left <= HandlerLimit
      BY <1>2 DEF HandlersInv, HandlersApart, Handles, TypeOK, JobType
    <2>2. HandlerLimit \in Nat /\ HandlerLimit < Stabilization(d) /\ Stabilization(d) \in Nat
      BY PowerMonitorAssumption, StabilizationAssumption
      DEF PowerMonitorAssumption, Stabilization
    <2> QED
      BY <2>1, <2>2
  <1>3. HandlersApart(u)'
    <2>1. HandlersApart(u)
      BY DEF HandlersInv
    <2> QED
      BY <1>1, <1>2, <2>1 DEF HandlersApart, Handles, HandlerPcs
  <1>4. ASSUME NEW v \in Users, v # u
        PROVE  HandlersApart(v)'
    BY <1>1, <1>4, HandlersFrame DEF HandlersInv, NoNewWork
  <1> QED
    BY <1>3, <1>4 DEF HandlersInv

\* A tick takes the same from timers and handlers, and none of either is at its end.
LEMMA TickHandlers ==
  ASSUME IInv, HandlersInv, Tick
  PROVE  HandlersInv'
  <1> USE DEF IInv
  <1>1. ASSUME NEW u \in Users, NEW k \in Slots
        PROVE  /\ jobs'[u][k].pc = jobs[u][k].pc /\ jobs'[u][k].restored = jobs[u][k].restored
               /\ jobs'[u][k].left = Dec(jobs[u][k].left) /\ jobs[u][k].left \in Nat
               /\ jobs[u][k].pc = "sleep" \/ Handles(jobs[u][k]) => jobs[u][k].left > 0
    <2>1. jobs[u][k] \in JobType
      BY DEF TypeOK
    <2>2. jobs'[u][k] = [jobs[u][k] EXCEPT !.left = Dec(@), !.stamp = Dec(@)]
      BY DEF Tick
    <2> QED
      BY <2>1, <2>2 DEF JobType, Tick, Limited, Handles
  <1>2. ASSUME NEW m \in Nat, NEW n \in Nat, m > 0
        PROVE  /\ n > 0 /\ m < n => Dec(m) < Dec(n)
               /\ m <= n => Dec(m) <= n
    BY <1>2 DEF Dec
  <1>3. ASSUME NEW u \in Users, NEW k \in Slots, NEW l \in Slots, Handles(jobs'[u][k])
        PROVE  /\ jobs'[u][k].left <= HandlerLimit
               /\ Handles(jobs'[u][l]) => k = l
               /\ jobs'[u][l].pc = "sleep" /\ ~ jobs'[u][l].restored =>
                    jobs'[u][k].left < jobs'[u][l].left
    <2>1. Handles(jobs[u][k]) /\ HandlerLimit \in Nat
      BY <1>1, <1>3, PowerMonitorAssumption DEF Handles, PowerMonitorAssumption
    <2>2. /\ jobs[u][k].left <= HandlerLimit
          /\ Handles(jobs[u][l]) => k = l
          /\ jobs[u][l].pc = "sleep" /\ ~ jobs[u][l].restored =>
               jobs[u][k].left < jobs[u][l].left
      BY <2>1 DEF HandlersInv, HandlersApart
    <2> QED
      BY <1>1, <1>2, <2>1, <2>2 DEF Handles
  <1> QED
    BY <1>3 DEF HandlersInv, HandlersApart

LEMMA HandlersStep == IInv /\ HandlersInv /\ [Next]_vars => HandlersInv'
  <1> SUFFICES ASSUME IInv, HandlersInv, [Next]_vars PROVE HandlersInv'
    OBVIOUS
  <1> USE DEF IInv
  <1>1. ASSUME \A u \in Users, k \in Slots : NoNewWork(u, k)
        PROVE  HandlersInv'
    BY <1>1, HandlersFrame DEF HandlersInv
  <1>2. ASSUME UNCHANGED jobs
        PROVE  HandlersInv'
    BY <1>1, <1>2 DEF NoNewWork
  <1>3. IdleJob.pc = "idle" /\ "idle" \notin HandlerPcs \cup {"sleep"}
    BY JobValues DEF HandlerPcs
  <1>4. CASE StartCycle
    <2>1. ASSUME NEW u \in Users, NEW k \in Slots
          PROVE  \/ jobs'[u][k] = IdleJob
                 \/ jobs'[u][k] = jobs[u][k]
                 \/ Orphaned(u, k)
      BY <1>4, StartEffect
    <2>2. \A u \in Users, k \in Slots : NoNewWork(u, k)
      BY <1>3, <2>1 DEF NoNewWork, Orphaned, HandlerPcs
    <2> QED
      BY <1>1, <2>2
  <1>5. CASE EmptyCycle \/ EndCycle \/ CycleTimeout \/ FlushBegin \/ FlushSkip \/ ShutdownSave
    BY <1>2, <1>5 DEF EmptyCycle, EndCycle, CycleTimeout, FlushBegin, FlushSkip, ShutdownSave
  <1>6. ASSUME NEW u \in Users, Check(u)
        PROVE  HandlersInv'
    <2>1. CASE SeedWrite(u) \/ ClearWrite(u) \/ PersistPending(u)
      BY <1>2, <2>1 DEF SeedWrite, ClearWrite, PersistPending
    <2>2. CASE CreateTimer(u)
      BY <2>2, CreateHandlers
    <2>3. ASSUME NEW s \in States,
                 \/ FirstCheckRestore(u) \/ FirstCheckSeed(u, s) \/ CheckUnchanged(u, s)
                 \/ CheckFlapBack(u, s) \/ CheckAlreadyWaiting(u, s) \/ CheckNewPending(u, s)
          PROVE  HandlersInv'
      BY <1>1, <1>3, <2>3, CheckEffect DEF NoNewWork
    <2>4. "on" \in States
      BY DEF States
    <2> QED
      BY <1>6, <2>1, <2>2, <2>3, <2>4 DEF Check
  <1>7. ASSUME NEW u \in Users, NEW k \in Slots, Run(u, k)
        PROVE  HandlersInv'
    <2>1. CASE Confirm(u, k)
      BY <2>1, ConfirmHandlers
    <2>2. CASE \/ Session1Commit(u, k) \/ Session1Fail(u, k) \/ Send(u, k)
               \/ SendForbidden(u, k) \/ SkipSend(u, k) \/ Finish(u, k) \/ HandlerTimeout(u, k)
      BY <1>1, <1>3, <2>2, HandlerEffect DEF NoNewWork
    <2> QED
      BY <1>7, <2>1, <2>2 DEF Run
  <1>8. CASE Tick
    BY <1>8, TickHandlers
  <1>9. ASSUME NEW f \in Flushers, FlushCommit(f) \/ FlushFail(f) \/ FlushClear(f)
        PROVE  HandlersInv'
    BY <1>2, <1>9 DEF FlushCommit, FlushFail, FlushClear
  <1>10. CASE StopMonitor
    <2>1. \A u \in Users, k \in Slots : jobs'[u][k] \in {IdleJob, jobs[u][k]}
      BY <1>10, CancelledJobs DEF StopMonitor
    <2> QED
      BY <1>1, <1>3, <2>1 DEF NoNewWork
  <1>11. CASE Crash \/ Exit
    BY <1>1, <1>3, <1>11 DEF Crash, Exit, ProcessEnds, NoNewWork
  <1>12. CASE Boot
    <2>1. \A u \in Users, k \in Slots : jobs[u][k] = IdleJob
      BY <1>12 DEF Boot, UserInv
    <2>2. ASSUME NEW u \in Users, NEW k \in Slots
          PROVE  ~ Handles(jobs'[u][k])
      BY <1>3, <1>12, <2>1, BootJobs DEF Handles, HandlerPcs
    <2> QED
      BY <2>2 DEF HandlersInv, HandlersApart
  <1>13. ASSUME NEW u \in Users, Toggle(u) \/ HourPasses(u)
         PROVE  HandlersInv'
    BY <1>2, <1>13 DEF Toggle, HourPasses
  <1>14. CASE UNCHANGED vars
    BY <1>2, <1>14 DEF vars
  <1> QED
    BY <1>4, <1>5, <1>6, <1>7, <1>8, <1>9, <1>10, <1>11, <1>12, <1>13, <1>14 DEF Next

LEMMA InitHandlers == Init => HandlersInv
  BY JobValues DEF Init, HandlersInv, HandlersApart, Handles, HandlerPcs

\* Two handlers of one user that _check_user_power's tasks run are never on their
\* way at once: a handler is over when its 30 s are, and the next timer of its user
\* was set after it began.
THEOREM HandlersNeverMeet == Spec => []OneHandlerPerUser
  <1>1. HandlersInv => OneHandlerPerUser
    BY DEF HandlersInv, HandlersApart, Handles, OneHandlerPerUser
  <1>2. Spec => []HandlersInv
    BY InitHandlers, HandlersStep, InductiveInvariant, PTL DEF Spec
  <1> QED
    BY <1>1, <1>2, PTL
-----------------------------------------------------------------------------
(* As long as nothing has failed *)

Committing(u) == \E k \in Slots : jobs[u][k].pc = "session1"

\* While all is calm: only a user who has left has a handler without an entry; a
\* handler confirms the state its entry has by now, and the database does not have
\* it before session 1; a first check finds no task, and the database as the cycle
\* has read it.
CalmUser(u) ==
  /\ \A k \in Slots :
       /\ ~ jobs[u][k].restored
       /\ jobs[u][k].orphan => u \notin active /\ current[u] = None /\ chk[u] = "out"
       /\ jobs[u][k].pc \in HandlerPcs =>
            /\ jobs[u][k].to \in States
            /\ ~ jobs[u][k].orphan => current[u] = jobs[u][k].to
       /\ jobs[u][k].pc = "session1" => powerState[u] # jobs[u][k].to
  /\ chk[u] = "seed" => current[u] = chkTo[u] /\ \A k \in Slots : jobs[u][k].pc = "idle"
  /\ chk[u] = "todo" /\ current[u] = None => loaded[u] = powerState[u]
  /\ current[u] # None /\ chk[u] # "seed" /\ ~ Committing(u) => powerState[u] = current[u]

CalmUsers == mode = "up" /\ \A u \in Users : CalmUser(u)

CalmInv == Calm => CalmUsers

\* The cap of _user_states is not reached.
CapHolds == IsFiniteSet(Users) /\ Cardinality(Users) <= MaxEntries

\* A failure ends the calm ...
LEMMA FailuresEndCalm ==
  ASSUME TypeOK, Calm', NEW k \in Failures
  PROVE  ~ Spend(k)
  <1>1. budget \in [Events -> Nat] /\ "calm" \in Events
    BY DEF TypeOK, Events
  <1> QED
    BY <1>1 DEF Spend, Calm

\* ... and what has ended stays so.
LEMMA CalmBefore ==
  ASSUME TypeOK, [Next]_vars, Calm'
  PROVE  Calm
  <1>1. budget \in [Events -> Nat] /\ "calm" \in Events
    BY DEF TypeOK, Events
  <1>2. ASSUME UNCHANGED budget \/ \E k \in Events : Spend(k)
        PROVE  Calm
    <2>1. CASE UNCHANGED budget
      BY <2>1 DEF Calm
    <2>2. CASE \E k \in Events : Spend(k)
      <3>1. PICK k \in Events : Spend(k)
        BY <2>2
      <3>2. budget'["calm"] \in {0, budget["calm"], budget["calm"] - 1}
        BY <1>1, <3>1 DEF Spend
      <3> QED
        BY <1>1, <3>2 DEF Calm
    <2> QED
      BY <1>2, <2>1, <2>2
  <1>e. Failures \cup {"blocked", "hour"} \subseteq Events
    BY DEF Events
  <1>f. {"cycleTimeout", "handlerTimeout", "dbError", "sendError", "toggle",
         "shutdown", "crash", "crowd"} = Failures
    BY DEF Failures
  <1>3. CASE StartCycle \/ EmptyCycle \/ EndCycle \/ CycleTimeout
    BY <1>2, <1>3, <1>e, <1>f DEF StartCycle, OverTheCap, EmptyCycle, EndCycle, CycleTimeout
  <1>4. ASSUME NEW u \in Users, Check(u)
        PROVE  Calm
    BY <1>2, <1>4, <1>e, <1>f
    DEF Check, FirstCheckRestore, FirstCheckSeed, CheckUnchanged, CheckFlapBack,
        CheckAlreadyWaiting, CheckNewPending, SeedWrite, ClearWrite, PersistPending,
        CreateTimer, Fails
  <1>5. ASSUME NEW u \in Users, NEW k \in Slots, Run(u, k)
        PROVE  Calm
    BY <1>2, <1>5, <1>e, <1>f
    DEF Run, Confirm, Session1Commit, Session1Fail, Send, SendForbidden, SkipSend, Finish,
        HandlerTimeout, Fails
  <1>6. ASSUME NEW f \in Flushers, FlushCommit(f) \/ FlushFail(f) \/ FlushClear(f)
        PROVE  Calm
    BY <1>2, <1>6, <1>e, <1>f DEF FlushCommit, FlushFail, FlushClear, Fails
  <1>7. CASE Tick \/ FlushBegin \/ FlushSkip \/ ShutdownSave \/ StopMonitor \/ Crash \/ Exit \/ Boot
    BY <1>2, <1>7, <1>e, <1>f
    DEF Tick, FlushBegin, FlushSkip, ShutdownSave, StopMonitor, Crash, Exit, Boot, Fails
  <1>8. ASSUME NEW u \in Users, Toggle(u) \/ HourPasses(u)
        PROVE  Calm
    BY <1>2, <1>8, <1>e, <1>f DEF Toggle, HourPasses
  <1>9. CASE UNCHANGED vars
    BY <1>2, <1>9 DEF vars
  <1> QED
    BY <1>3, <1>4, <1>5, <1>6, <1>7, <1>8, <1>9 DEF Next

\* A step that has nothing to do with u.
LEMMA CalmFrame ==
  ASSUME NEW u \in Users, CalmUser(u), \A k \in Slots : jobs'[u][k] = jobs[u][k],
         current'[u] = current[u], chk'[u] = chk[u], chkTo'[u] = chkTo[u],
         loaded'[u] = loaded[u], powerState'[u] = powerState[u],
         u \in active' <=> u \in active
  PROVE  CalmUser(u)'
  BY DEF CalmUser, Committing

\* A first check finds no task of its user.
LEMMA FirstCheckIdle ==
  ASSUME IInv, CalmUsers, NEW u \in Users, current[u] = None, chk[u] = "todo", NEW k \in Slots
  PROVE  jobs[u][k].pc = "idle"
  <1> USE DEF IInv
  <1>1. CalmUser(u) /\ None \notin States
    BY PowerMonitorAssumption DEF PowerMonitorAssumption, CalmUsers
  <1>2. jobs[u][k].pc \notin HandlerPcs
    BY <1>1 DEF CalmUser
  <1>3. jobs[u][k].pc # "sleep"
    BY <1>1 DEF UserInv, Guarded
  <1> QED
    BY <1>2, <1>3 DEF TypeOK, JobType

\* A check up to its first await.
LEMMA CheckCalm ==
  ASSUME IInv, CalmUsers, NEW u \in Users, NEW s \in States,
         \/ FirstCheckRestore(u) \/ FirstCheckSeed(u, s) \/ CheckUnchanged(u, s)
         \/ CheckFlapBack(u, s) \/ CheckAlreadyWaiting(u, s) \/ CheckNewPending(u, s)
  PROVE  \A v \in Users : CalmUser(v)'
  <1> USE DEF IInv
  <1>1. /\ chk[u] = "todo" /\ chk'[u] # "todo" /\ \A v \in Users : v # u => chk'[v] = chk[v]
        /\ UNCHANGED <<loaded, powerState, active>>
    BY DEF FirstCheckRestore, FirstCheckSeed, CheckUnchanged, CheckFlapBack,
           CheckAlreadyWaiting, CheckNewPending, Moves, TypeOK, LoopTypeOK, dbVars
  <1>2. \A v \in Users, k \in Slots :
          \/ jobs'[v][k] = jobs[v][k]
          \/ v = u /\ jobs[v][k].pc \in {"idle", "sleep"} /\ jobs'[v][k] = IdleJob
    BY CheckEffect
  <1>3. /\ current \in [Users -> States \cup {None}]
        /\ chkTo \in [Users -> States \cup {None}]
        /\ None \notin States
    BY PowerMonitorAssumption DEF PowerMonitorAssumption, TypeOK, MemTypeOK, LoopTypeOK
  <1>4. ASSUME NEW v \in Users, v # u
        PROVE  CalmUser(v)'
    <2>1. current'[v] = current[v] /\ chkTo'[v] = chkTo[v]
      BY <1>3, <1>4 DEF FirstCheckRestore, FirstCheckSeed, CheckUnchanged, CheckFlapBack,
                        CheckAlreadyWaiting, CheckNewPending
    <2> QED
      BY <1>1, <1>2, <1>4, <2>1, CalmFrame DEF CalmUsers
  <1>5. CalmUser(u)
    BY DEF CalmUsers
  <1>6. ASSUME current[u] = None, NEW k \in Slots
        PROVE  jobs[u][k].pc = "idle"
    BY <1>1, <1>6, FirstCheckIdle
  <1>7. IdleJob.pc = "idle" /\ ~ IdleJob.restored /\ ~ IdleJob.orphan
    BY DEF IdleJob
  <1>8. CASE FirstCheckRestore(u)
    <2>1. current[u] = None /\ current'[u] = loaded[u] /\ chk'[u] = "out" /\ jobs' = jobs
      BY <1>1, <1>3, <1>8 DEF FirstCheckRestore, Moves, TypeOK, LoopTypeOK
    <2>2. CalmUser(u)'
      BY <1>1, <1>5, <1>6, <2>1 DEF CalmUser, Committing, HandlerPcs
    <2> QED
      BY <1>4, <2>2
  <1>9. CASE FirstCheckSeed(u, s)
    <2>1. /\ current[u] = None /\ current'[u] = s /\ chkTo'[u] = s /\ chk'[u] = "seed"
          /\ jobs' = jobs
      BY <1>1, <1>3, <1>9 DEF FirstCheckSeed, Moves, TypeOK, LoopTypeOK
    <2>2. CalmUser(u)'
      BY <1>1, <1>5, <1>6, <2>1 DEF CalmUser, Committing, HandlerPcs
    <2> QED
      BY <1>4, <2>2
  <1>10. CASE CheckUnchanged(u, s) \/ CheckFlapBack(u, s) \/ CheckAlreadyWaiting(u, s)
              \/ CheckNewPending(u, s)
    <2>1. current'[u] = current[u] /\ chk'[u] \in {"out", "clear", "persist"}
      BY <1>1, <1>10 DEF CheckUnchanged, CheckFlapBack, CheckAlreadyWaiting,
                         CheckNewPending, Moves, TypeOK, LoopTypeOK
    <2>2. current[u] # None
      BY <1>3, <1>10 DEF CheckUnchanged, CheckFlapBack, CheckAlreadyWaiting,
                         CheckNewPending, Contradicts
    <2>3. \A k \in Slots :
            \/ jobs'[u][k] = jobs[u][k]
            \/ jobs[u][k].pc \in {"idle", "sleep"} /\ jobs'[u][k] = IdleJob
      BY <1>2
    <2>4. CalmUser(u)'
      BY <1>1, <1>5, <1>7, <2>1, <2>2, <2>3 DEF CalmUser, Committing, HandlerPcs
    <2> QED
      BY <1>4, <2>4
  <1> QED
    BY <1>8, <1>9, <1>10

\* What a check does after an await; no session fails.
LEMMA AwaitCalm ==
  ASSUME IInv, CalmUsers, Calm', NEW u \in Users,
         \/ SeedWrite(u) \/ ClearWrite(u) \/ PersistPending(u) \/ CreateTimer(u)
  PROVE  \A v \in Users : CalmUser(v)'
  <1> USE DEF IInv
  <1>1. /\ UNCHANGED <<current, loaded, active>>
        /\ chk[u] \in {"seed", "clear", "persist", "timer"} /\ chk'[u] \in {"out", "timer"}
        /\ \A v \in Users : v # u => chk'[v] = chk[v] /\ chkTo'[v] = chkTo[v]
    BY DEF SeedWrite, ClearWrite, PersistPending, CreateTimer, TypeOK, LoopTypeOK, memVars,
           dbVars
  <1>2. ~ Fails
    BY FailuresEndCalm DEF Fails, Failures
  <1>3. CalmUser(u)
    BY DEF CalmUsers
  <1>4. CASE SeedWrite(u)
    <2>1. chk[u] = "seed" /\ jobs' = jobs /\ powerState' = [powerState EXCEPT ![u] = chkTo[u]]
      BY <1>2, <1>4 DEF SeedWrite
    <2>2. powerState'[u] = chkTo[u] /\ \A v \in Users : v # u => powerState'[v] = powerState[v]
      BY <2>1 DEF TypeOK, DbTypeOK
    <2>3. CalmUser(u)'
      BY <1>1, <1>3, <2>1, <2>2 DEF CalmUser, Committing, HandlerPcs
    <2> QED
      BY <1>1, <2>1, <2>2, <2>3, CalmFrame DEF CalmUsers
  <1>5. CASE ClearWrite(u) \/ PersistPending(u)
    <2>1. chk[u] # "seed" /\ jobs' = jobs /\ powerState' = powerState
      BY <1>5 DEF ClearWrite, PersistPending
    <2>2. CalmUser(u)'
      BY <1>1, <1>3, <2>1 DEF CalmUser, Committing
    <2> QED
      BY <1>1, <2>1, <2>2, CalmFrame DEF CalmUsers
  <1>6. CASE CreateTimer(u)
    <2>1. chk[u] = "timer" /\ powerState' = powerState
      BY <1>6 DEF CreateTimer, dbVars
    <2>2. PICK k \in Slots :
            /\ jobs[u][k].pc = "idle" /\ jobs'[u][k].pc = "sleep"
            /\ ~ jobs'[u][k].restored /\ ~ jobs'[u][k].orphan
            /\ \A v \in Users, l \in Slots : v # u \/ l # k => jobs'[v][l] = jobs[v][l]
      BY <1>6, CreateEffect
    <2>3. CalmUser(u)'
      BY <1>1, <1>3, <2>1, <2>2 DEF CalmUser, Committing, HandlerPcs
    <2> QED
      BY <1>1, <2>1, <2>2, <2>3, CalmFrame DEF CalmUsers
  <1> QED
    BY <1>4, <1>5, <1>6

\* Below the cap the eviction only takes entries of users who have left.
LEMMA StartsCalmly ==
  ASSUME IInv, CapHolds, Calm', StartCycle
  PROVE  \A u \in Users :
           IF u \in Present \ active
           THEN /\ current'[u] = None /\ cool'[u] = 0
                /\ \A k \in Slots : jobs'[u][k] = IdleJob \/ Orphaned(u, k)
           ELSE /\ current'[u] = current[u] /\ cool'[u] = cool[u]
                /\ \A k \in Slots : jobs'[u][k] = jobs[u][k]
  <1>1. PICK over \in SUBSET (Present \cap active) :
          /\ OverTheCap(over, Present \cap active)
          /\ \A u \in Users : IF u \in (Present \ active) \cup over
               THEN /\ current'[u] = None /\ cool'[u] = 0
                    /\ \A k \in Slots : jobs'[u][k] = IdleJob \/ Orphaned(u, k)
               ELSE /\ current'[u] = current[u] /\ cool'[u] = cool[u]
                    /\ \A k \in Slots : jobs'[u][k] = jobs[u][k]
    BY StartEffect
  <1>2. over = {}
    <2>1. Present \cap active \in SUBSET Users /\ over \in SUBSET Users
      BY DEF Present
    <2>2. /\ IsFiniteSet(over) /\ Cardinality(Present \cap active) <= Cardinality(Users)
          /\ Cardinality(Present \cap active) \in Nat /\ Cardinality(Users) \in Nat
      BY <2>1, FS_Subset, FS_CardinalityType DEF CapHolds
    <2>3. Overflow(Present \cap active) = 0
      BY <2>2, PowerMonitorAssumption DEF PowerMonitorAssumption, CapHolds, Overflow
    <2>4. ~ Spend("crowd")
      BY FailuresEndCalm DEF Failures, IInv
    <2>5. Cardinality(over) = 0
      BY <1>1, <2>3, <2>4 DEF OverTheCap
    <2> QED
      BY <2>2, <2>5, FS_EmptySet
  <1> QED
    BY <1>1, <1>2

LEMMA CycleCalm ==
  ASSUME IInv, CapHolds, CalmUsers, Calm',
         StartCycle \/ EmptyCycle \/ EndCycle \/ CycleTimeout
  PROVE  \A v \in Users : CalmUser(v)'
  <1> USE DEF IInv
  <1>1. CASE StartCycle
    <2>1. /\ UNCHANGED <<chkTo, powerState, active>>
          /\ chk' = [u \in Users |-> IF u \in active THEN "todo" ELSE "out"]
          /\ loaded' = [u \in Users |-> IF u \in active THEN powerState[u] ELSE None]
      BY <1>1 DEF StartCycle, dbVars
    <2>2. \A u \in Users : chk[u] = "out"
      BY <1>1 DEF StartCycle, LoopInv
    <2>3. ASSUME NEW u \in Users, u \in Present \ active
          PROVE  CalmUser(u)'
      <3>1. /\ current'[u] = None
            /\ \A k \in Slots : jobs'[u][k] = IdleJob \/ Orphaned(u, k)
        BY <1>1, <2>3, StartsCalmly
      <3>2. chk'[u] = "out" /\ CalmUser(u)
        BY <2>1, <2>3 DEF CalmUsers
      <3>3. IdleJob.pc = "idle" /\ ~ IdleJob.restored /\ ~ IdleJob.orphan
        BY DEF IdleJob
      <3> QED
        BY <2>1, <2>3, <3>1, <3>2, <3>3 DEF CalmUser, Orphaned, HandlerPcs
    <2>4. ASSUME NEW u \in Users, u \notin Present \ active
          PROVE  CalmUser(u)'
      <3>1. /\ current'[u] = current[u] /\ \A k \in Slots : jobs'[u][k] = jobs[u][k]
        BY <1>1, <2>4, StartsCalmly
      <3>2. /\ chk'[u] \in {"todo", "out"} /\ (u \notin active => chk'[u] = "out")
            /\ chk'[u] = "todo" => loaded'[u] = powerState[u]
            /\ CalmUser(u) /\ chk[u] = "out"
        BY <2>1, <2>2 DEF CalmUsers
      <3> QED
        BY <2>1, <3>1, <3>2 DEF CalmUser, Committing
    <2> QED
      BY <2>3, <2>4
  <1>2. CASE EmptyCycle
    BY <1>2, CalmFrame DEF CalmUsers, EmptyCycle, memVars, dbVars
  <1>3. CASE EndCycle
    <2>1. /\ UNCHANGED <<current, jobs, powerState, active>>
          /\ \A u \in Users : chk[u] = "out" /\ chk'[u] = "out"
      BY <1>3 DEF EndCycle, LeaveCycle, memVars, dbVars
    <2> QED
      BY <2>1 DEF CalmUsers, CalmUser, Committing
  <1>4. CASE CycleTimeout
    BY <1>4, FailuresEndCalm DEF CycleTimeout, Failures
  <1> QED
    BY <1>1, <1>2, <1>3, <1>4

\* A calm user has one handler at most.
LEMMA OneHandler ==
  ASSUME HandlersInv, CalmUsers, NEW u \in Users, NEW k \in Slots, NEW l \in Slots,
         jobs[u][k].pc \in HandlerPcs, jobs[u][l].pc \in HandlerPcs
  PROVE  k = l
  BY DEF HandlersInv, HandlersApart, Handles, CalmUsers, CalmUser

\* A timer that has run out finds no handler on its way.
LEMMA ConfirmsAlone ==
  ASSUME IInv, HandlersInv, CalmUsers, NEW u \in Users, NEW k \in Slots, Confirm(u, k),
         NEW l \in Slots
  PROVE  jobs[u][l].pc \notin HandlerPcs
  <1>1. jobs[u][k].pc = "sleep" /\ jobs[u][k].left = 0
    BY ConfirmEffect
  <1>2. jobs[u][l].left \in Nat /\ ~ jobs[u][k].restored /\ ~ jobs[u][l].restored
    BY DEF IInv, TypeOK, JobType, CalmUsers, CalmUser
  <1>3. jobs[u][l].pc \in HandlerPcs => jobs[u][l].left < jobs[u][k].left
    BY <1>1, <1>2 DEF HandlersInv, HandlersApart, Handles
  <1> QED
    BY <1>1, <1>2, <1>3

\* The state a timer confirms is new to the database.
LEMMA ConfirmCalm ==
  ASSUME IInv, HandlersInv, CalmUsers, NEW u \in Users, NEW k \in Slots, Confirm(u, k)
  PROVE  \A v \in Users : CalmUser(v)'
  <1> USE DEF IInv
  <1>1. /\ jobs[u][k].pc = "sleep"
        /\ current[u] \in States \ {jobs[u][k].to} /\ jobs[u][k].to \in States
        /\ current' = [current EXCEPT ![u] = jobs[u][k].to]
        /\ jobs'[u][k].pc = "session1" /\ jobs'[u][k].to = jobs[u][k].to
        /\ jobs'[u][k].restored = jobs[u][k].restored /\ ~ jobs'[u][k].orphan
        /\ \A v \in Users, l \in Slots : v # u \/ l # k => jobs'[v][l] = jobs[v][l]
        /\ UNCHANGED <<chk, chkTo, loaded, powerState, active>>
    BY ConfirmEffect DEF loopVars, dbVars
  <1>2. /\ current'[u] = jobs[u][k].to /\ \A v \in Users : v # u => current'[v] = current[v]
        /\ None \notin States
    BY <1>1, PowerMonitorAssumption DEF PowerMonitorAssumption, TypeOK, MemTypeOK
  <1>3. CalmUser(u)
    BY DEF CalmUsers
  <1>4. \A l \in Slots : jobs[u][l].pc \notin HandlerPcs
    BY ConfirmsAlone
  <1>5. chk[u] # "seed" /\ powerState[u] = current[u]
    BY <1>1, <1>2, <1>3, <1>4 DEF CalmUser, Committing, HandlerPcs
  <1>6. ASSUME NEW l \in Slots
        PROVE  /\ ~ jobs'[u][l].restored /\ ~ jobs'[u][l].orphan
               /\ jobs'[u][l].pc \in HandlerPcs => l = k
    BY <1>1, <1>2, <1>3, <1>4 DEF CalmUser
  <1>7. CalmUser(u)'
    BY <1>1, <1>2, <1>5, <1>6 DEF CalmUser, Committing, HandlerPcs
  <1> QED
    BY <1>1, <1>2, <1>7, CalmFrame DEF CalmUsers

\* A handler, from its first session to its end.
LEMMA HandlerCalm ==
  ASSUME IInv, HandlersInv, CalmUsers, Calm', NEW u \in Users, NEW k \in Slots,
         \/ Session1Commit(u, k) \/ Session1Fail(u, k) \/ Send(u, k)
         \/ SendForbidden(u, k) \/ SkipSend(u, k) \/ Finish(u, k) \/ HandlerTimeout(u, k)
  PROVE  \A v \in Users : CalmUser(v)'
  <1> USE DEF IInv
  <1>1. /\ jobs[u][k].pc \in HandlerPcs
        /\ \/ jobs'[u][k] = IdleJob
           \/ /\ jobs'[u][k].pc \in {"send", "session2"} /\ jobs'[u][k].to = jobs[u][k].to
              /\ jobs'[u][k].restored = jobs[u][k].restored
              /\ jobs'[u][k].orphan = jobs[u][k].orphan
        /\ \A v \in Users, l \in Slots : v # u \/ l # k => jobs'[v][l] = jobs[v][l]
        /\ UNCHANGED <<current, chk, chkTo, loaded>>
    BY HandlerEffect DEF loopVars
  <1>2. CalmUser(u) /\ \A l \in Slots : jobs[u][l].pc \in HandlerPcs => l = k
    BY <1>1, OneHandler DEF CalmUsers
  <1>3. IdleJob.pc = "idle" /\ ~ IdleJob.restored /\ ~ IdleJob.orphan
    BY DEF IdleJob
  <1>4. ~ Fails /\ ~ Spend("handlerTimeout")
    BY FailuresEndCalm DEF Fails, Failures
  <1>5. CASE Session1Commit(u, k)
    <2>1. jobs[u][k].pc = "session1" /\ powerState' = [powerState EXCEPT ![u] = jobs[u][k].to]
          /\ UNCHANGED active
      BY <1>5 DEF Session1Commit
    <2>2. /\ powerState'[u] = jobs[u][k].to
          /\ \A v \in Users : v # u => powerState'[v] = powerState[v]
      BY <2>1 DEF TypeOK, DbTypeOK
    <2>3. jobs'[u][k].pc = "send"
      BY <1>5 DEF Session1Commit, TypeOK, JobType
    <2>4. chk[u] # "seed" /\ (chk[u] = "todo" => current[u] # None)
      BY <1>1, <1>2, PowerMonitorAssumption DEF CalmUser, PowerMonitorAssumption, HandlerPcs
    <2>5. current[u] # None => current[u] = jobs[u][k].to
      BY <1>1, <1>2 DEF CalmUser
    <2>6. ASSUME NEW l \in Slots
          PROVE  /\ jobs'[u][l].pc # "session1" /\ ~ jobs'[u][l].restored
                 /\ jobs'[u][l].orphan => u \notin active /\ current[u] = None /\ chk[u] = "out"
                 /\ jobs'[u][l].pc \in HandlerPcs =>
                      /\ jobs'[u][l].to \in States
                      /\ ~ jobs'[u][l].orphan => current[u] = jobs'[u][l].to
      <3>1. CASE l = k
        BY <1>1, <1>2, <1>3, <2>3, <3>1 DEF CalmUser
      <3>2. CASE l # k
        BY <1>1, <1>2, <3>2 DEF CalmUser, HandlerPcs
      <3> QED
        BY <3>1, <3>2
    <2>7. CalmUser(u)'
      BY <1>1, <2>1, <2>2, <2>4, <2>5, <2>6 DEF CalmUser, Committing
    <2> QED
      BY <1>1, <2>1, <2>2, <2>7, CalmFrame DEF CalmUsers
  <1>6. CASE Session1Fail(u, k) \/ HandlerTimeout(u, k)
    BY <1>4, <1>6 DEF Session1Fail, HandlerTimeout
  <1>7. CASE Send(u, k) \/ SkipSend(u, k) \/ Finish(u, k) \/ SendForbidden(u, k)
    <2>1. /\ UNCHANGED powerState /\ active' \in {active, active \ {u}}
          /\ jobs[u][k].pc # "session1" /\ jobs'[u][k].pc \notin {"session1", "sleep"}
      BY <1>3, <1>7 DEF Send, SkipSend, Finish, SendForbidden, dbVars, TypeOK, JobType
    <2>2. CalmUser(u)'
      BY <1>1, <1>2, <1>3, <2>1 DEF CalmUser, Committing, HandlerPcs
    <2> QED
      BY <1>1, <2>1, <2>2, CalmFrame DEF CalmUsers
  <1> QED
    BY <1>5, <1>6, <1>7

LEMMA TickCalm ==
  ASSUME IInv, CalmUsers, Tick
  PROVE  \A v \in Users : CalmUser(v)'
  <1>1. /\ UNCHANGED <<current, chk, chkTo, loaded, powerState, active>>
    BY DEF Tick, loopVars, dbVars
  <1>2. ASSUME NEW u \in Users, NEW k \in Slots
        PROVE  /\ jobs'[u][k].pc = jobs[u][k].pc /\ jobs'[u][k].to = jobs[u][k].to
               /\ jobs'[u][k].restored = jobs[u][k].restored
               /\ jobs'[u][k].orphan = jobs[u][k].orphan
    <2>1. jobs[u][k] \in JobType
      BY DEF IInv, TypeOK
    <2>2. jobs'[u][k] = [jobs[u][k] EXCEPT !.left = Dec(@), !.stamp = Dec(@)]
      BY DEF Tick
    <2> QED
      BY <2>1, <2>2 DEF JobType
  <1> QED
    BY <1>1, <1>2 DEF CalmUsers, CalmUser, Committing

LEMMA CalmStep ==
  ASSUME IInv, HandlersInv, CapHolds, CalmInv, [Next]_vars
  PROVE  CalmInv'
  <1> SUFFICES ASSUME Calm' PROVE CalmUsers'
    BY DEF CalmInv
  <1>1. CalmUsers /\ mode = "up"
    BY CalmBefore DEF IInv, CalmInv, CalmUsers
  <1>2. ASSUME \A v \in Users : CalmUser(v)', UNCHANGED mode
        PROVE  CalmUsers'
    BY <1>1, <1>2 DEF CalmUsers
  <1>3. ASSUME UNCHANGED <<current, jobs, chk, chkTo, loaded, powerState, active, mode>>
        PROVE  CalmUsers'
    BY <1>1, <1>2, <1>3, CalmFrame DEF CalmUsers
  <1>4. ASSUME NEW k \in Failures
        PROVE  ~ Spend(k) /\ ~ Fails
    BY <1>4, FailuresEndCalm DEF IInv, Fails, Failures
  <1>5. CASE StartCycle \/ EmptyCycle \/ EndCycle \/ CycleTimeout
    BY <1>1, <1>2, <1>5, CycleCalm DEF StartCycle, EmptyCycle, EndCycle, CycleTimeout
  <1>6. ASSUME NEW u \in Users, Check(u)
        PROVE  CalmUsers'
    <2>1. CASE SeedWrite(u) \/ ClearWrite(u) \/ PersistPending(u) \/ CreateTimer(u)
      BY <1>1, <1>2, <2>1, AwaitCalm DEF SeedWrite, ClearWrite, PersistPending, CreateTimer
    <2>2. ASSUME NEW s \in States,
                 \/ FirstCheckRestore(u) \/ FirstCheckSeed(u, s) \/ CheckUnchanged(u, s)
                 \/ CheckFlapBack(u, s) \/ CheckAlreadyWaiting(u, s) \/ CheckNewPending(u, s)
          PROVE  CalmUsers'
      <3>1. UNCHANGED mode
        BY <2>2 DEF FirstCheckRestore, FirstCheckSeed, CheckUnchanged, CheckFlapBack,
                    CheckAlreadyWaiting, CheckNewPending
      <3> QED
        BY <1>1, <1>2, <2>2, <3>1, CheckCalm
    <2>3. "on" \in States
      BY DEF States
    <2> QED
      BY <1>6, <2>1, <2>2, <2>3 DEF Check
  <1>7. ASSUME NEW u \in Users, NEW k \in Slots, Run(u, k)
        PROVE  CalmUsers'
    <2>1. CASE Confirm(u, k)
      BY <1>1, <1>2, <2>1, ConfirmCalm DEF Confirm, loopVars
    <2>2. CASE \/ Session1Commit(u, k) \/ Session1Fail(u, k) \/ Send(u, k)
               \/ SendForbidden(u, k) \/ SkipSend(u, k) \/ Finish(u, k) \/ HandlerTimeout(u, k)
      <3>1. UNCHANGED mode
        BY <2>2, HandlerEffect DEF IInv, loopVars
      <3> QED
        BY <1>1, <1>2, <2>2, <3>1, HandlerCalm
    <2> QED
      BY <1>7, <2>1, <2>2 DEF Run
  <1>8. CASE Tick
    BY <1>1, <1>2, <1>8, TickCalm DEF Tick, loopVars
  <1>9. ASSUME NEW f \in Flushers,
               FlushBegin \/ FlushSkip \/ FlushCommit(f) \/ FlushFail(f) \/ FlushClear(f)
        PROVE  CalmUsers'
    BY <1>3, <1>9
    DEF FlushBegin, FlushSkip, FlushCommit, FlushFail, FlushClear, memVars, loopVars, dbVars
  <1>10. CASE ShutdownSave \/ StopMonitor \/ Crash \/ Exit \/ Boot
    BY <1>1, <1>4, <1>10 DEF ShutdownSave, StopMonitor, Crash, Exit, Boot, Failures
  <1>11. ASSUME NEW u \in Users, Toggle(u) \/ HourPasses(u)
         PROVE  CalmUsers'
    BY <1>3, <1>4, <1>11 DEF Toggle, HourPasses, Failures, memVars, loopVars
  <1>12. CASE UNCHANGED vars
    BY <1>3, <1>12 DEF vars, memVars, loopVars, dbVars
  <1>13. "loop" \in Flushers
    BY DEF Flushers
  <1> QED
    BY <1>5, <1>6, <1>7, <1>8, <1>9, <1>10, <1>11, <1>12, <1>13 DEF Next

LEMMA InitCalm == Init => CalmInv
  BY PowerMonitorAssumption
  DEF PowerMonitorAssumption, Init, CalmInv, CalmUsers, CalmUser, IdleJob, HandlerPcs

LEMMA CalmAlways ==
  ASSUME CapHolds
  PROVE  Spec => []CalmInv
  <1>1. IInv /\ HandlersInv /\ CalmInv /\ [Next]_vars => CalmInv'
    BY CalmStep
  <1>2. Spec => []HandlersInv
    BY InitHandlers, HandlersStep, InductiveInvariant, PTL DEF Spec
  <1> QED
    BY <1>1, <1>2, InitCalm, InductiveInvariant, PTL DEF Spec

\* As long as no session has failed, nobody has been cut short or has left, and the
\* users fit below the cap of _user_states, user_power_tracking holds the confirmed
\* state of every user whose handler is not on its way to session 1.
THEOREM DatabaseKeepsUp ==
  ASSUME CapHolds
  PROVE  Spec => []DatabaseAgrees
  <1>1. CalmInv => DatabaseAgrees
    BY DEF CalmInv, CalmUsers, CalmUser, Committing, DatabaseAgrees, Quiet
  <1> QED
    BY <1>1, CalmAlways, PTL

\* Session 1 of _handle_power_state_change only adds an event to power_history that
\* differs from the last one, under the same conditions.
THEOREM EventsAlternate ==
  ASSUME CapHolds
  PROVE  Spec => HistoryAlternates
  <1>1. CalmInv => (Calm => \A u \in Users, k \in Slots :
                      Session1Commit(u, k) => powerState[u] # jobs[u][k].to)
    BY DEF CalmInv, CalmUsers, CalmUser, Session1Commit
  <1> QED
    BY <1>1, CalmAlways, PTL DEF HistoryAlternates
-----------------------------------------------------------------------------
(* What users are told *)

Telling(u) == \E k \in Slots : jobs[u][k].pc \in {"session1", "send"}

\* The cooldown of u, or the one that the handler on its way will set, is over
\* when the next timer is; so every handler sends.
ToldUser(u) ==
  /\ \A k \in Slots :
       /\ jobs[u][k].pc = "sleep" =>
            /\ cool[u] <= jobs[u][k].left
            /\ \A l \in Slots : jobs[u][l].pc \in HandlerPcs => jobs[u][l].stamp <= jobs[u][k].left
       /\ jobs[u][k].pc = "session1" => cool[u] = 0
       /\ jobs[u][k].pc \in {"session1", "send"} => jobs[u][k].notify
  /\ u \in active /\ ~ Telling(u) => notified[u] \in {None, current[u]}

ToldUsers == \A u \in Users : ToldUser(u)

ToldInv == Calm => ToldUsers

\* A fresh timer takes at least as long as the cooldown.
TimersCoolDown == \A d \in Settings : Cooldown <= Stabilization(d)

LEMMA ToldFrame ==
  ASSUME NEW u \in Users, ToldUser(u), \A k \in Slots : jobs'[u][k] = jobs[u][k],
         current'[u] = current[u], cool'[u] = cool[u], notified'[u] = notified[u],
         u \in active' => u \in active
  PROVE  ToldUser(u)'
  BY DEF ToldUser, Telling

LEMMA CheckTold ==
  ASSUME IInv, CalmUsers, ToldUsers, NEW u \in Users, NEW s \in States,
         \/ FirstCheckRestore(u) \/ FirstCheckSeed(u, s) \/ CheckUnchanged(u, s)
         \/ CheckFlapBack(u, s) \/ CheckAlreadyWaiting(u, s) \/ CheckNewPending(u, s)
  PROVE  ToldUsers'
  <1> USE DEF IInv
  <1>1. chk[u] = "todo" /\ UNCHANGED <<cool, active, notified>>
    BY DEF FirstCheckRestore, FirstCheckSeed, CheckUnchanged, CheckFlapBack,
           CheckAlreadyWaiting, CheckNewPending, Moves, dbVars, ghostVars
  <1>2. \A v \in Users, k \in Slots :
          \/ jobs'[v][k] = jobs[v][k]
          \/ v = u /\ jobs[v][k].pc \in {"idle", "sleep"} /\ jobs'[v][k] = IdleJob
    BY CheckEffect
  <1>3. ASSUME NEW v \in Users, v # u
        PROVE  current'[v] = current[v]
    BY <1>3 DEF FirstCheckRestore, FirstCheckSeed, CheckUnchanged, CheckFlapBack,
                CheckAlreadyWaiting, CheckNewPending, TypeOK, MemTypeOK
  <1>4. current[u] = None \/ current'[u] = current[u]
    BY DEF FirstCheckRestore, FirstCheckSeed, CheckUnchanged, CheckFlapBack,
           CheckAlreadyWaiting, CheckNewPending
  <1>5. ToldUser(u) /\ IdleJob.pc = "idle"
    BY JobValues DEF ToldUsers
  <1>6. u \in active /\ ~ Telling(u)' => notified[u] \in {None, current'[u]}
    <2>1. CASE current[u] = None
      <3>1. ~ Telling(u)
        BY <1>1, <2>1, FirstCheckIdle DEF Telling
      <3> QED
        BY <1>5, <2>1, <3>1 DEF ToldUser
    <2>2. CASE current'[u] = current[u]
      <3>1. ~ Telling(u)' => ~ Telling(u)
        BY <1>2 DEF Telling
      <3> QED
        BY <1>5, <2>2, <3>1 DEF ToldUser
    <2> QED
      BY <1>4, <2>1, <2>2
  <1>7. ToldUser(u)'
    BY <1>1, <1>2, <1>5, <1>6 DEF ToldUser, HandlerPcs
  <1> QED
    BY <1>1, <1>2, <1>3, <1>7, ToldFrame DEF ToldUsers

\* A new timer outlasts every cooldown there is.
LEMMA CreateTold ==
  ASSUME IInv, TimersCoolDown, ToldUsers, NEW u \in Users, CreateTimer(u)
  PROVE  ToldUsers'
  <1> USE DEF IInv
  <1>1. PICK k \in Slots, d \in Settings :
          /\ jobs[u][k].pc = "idle"
          /\ jobs'[u][k].pc = "sleep" /\ jobs'[u][k].left = Stabilization(d)
          /\ \A v \in Users, l \in Slots : v # u \/ l # k => jobs'[v][l] = jobs[v][l]
    BY CreateEffect
  <1>2. UNCHANGED <<current, cool, active, notified>>
    BY DEF CreateTimer, dbVars, ghostVars
  <1>3. ToldUser(u) /\ \A l \in Slots : jobs[u][l].pc # "sleep"
    BY CreateEffect DEF ToldUsers
  <1>4. cool[u] <= Stabilization(d) /\ \A l \in Slots : jobs[u][l].stamp <= Stabilization(d)
    <2>1. Stabilization(d) \in Nat /\ Cooldown \in Nat /\ Cooldown <= Stabilization(d)
      BY PowerMonitorAssumption DEF PowerMonitorAssumption, Stabilization, TimersCoolDown
    <2>2. cool[u] \in 0..Cooldown /\ \A l \in Slots : jobs[u][l].stamp \in 0..Cooldown
      BY DEF TypeOK, MemTypeOK, JobType
    <2> QED
      BY <2>1, <2>2
  <1>5. ToldUser(u)'
    BY <1>1, <1>2, <1>3, <1>4 DEF ToldUser, Telling, HandlerPcs
  <1> QED
    BY <1>1, <1>2, <1>5, ToldFrame DEF ToldUsers

LEMMA StartTold ==
  ASSUME IInv, CapHolds, ToldUsers, Calm', StartCycle
  PROVE  ToldUsers'
  <1>1. UNCHANGED <<active, notified>>
    BY DEF StartCycle, dbVars, ghostVars
  <1>2. ASSUME NEW u \in Users, u \in Present \ active
        PROVE  ToldUser(u)'
    <2>1. cool'[u] = 0 /\ \A k \in Slots : jobs'[u][k] = IdleJob \/ Orphaned(u, k)
      BY <1>2, StartsCalmly
    <2>2. ToldUser(u) /\ IdleJob.pc = "idle"
      BY JobValues DEF ToldUsers
    <2> QED
      BY <1>1, <1>2, <2>1, <2>2 DEF ToldUser, Orphaned, HandlerPcs
  <1>3. ASSUME NEW u \in Users, u \notin Present \ active
        PROVE  ToldUser(u)'
    BY <1>1, <1>3, StartsCalmly, ToldFrame DEF ToldUsers
  <1> QED
    BY <1>2, <1>3 DEF ToldUsers

\* The cooldown is over: the handler will send.
LEMMA ConfirmTold ==
  ASSUME IInv, HandlersInv, CalmUsers, ToldUsers, NEW u \in Users, NEW k \in Slots, Confirm(u, k)
  PROVE  ToldUsers'
  <1> USE DEF IInv
  <1>1. /\ jobs[u][k].pc = "sleep" /\ jobs[u][k].left = 0
        /\ jobs'[u][k].pc = "session1" /\ jobs'[u][k].notify = (cool[u] = 0)
        /\ current' = [current EXCEPT ![u] = jobs[u][k].to]
        /\ \A v \in Users, l \in Slots : v # u \/ l # k => jobs'[v][l] = jobs[v][l]
        /\ UNCHANGED <<cool, active, notified>>
    BY ConfirmEffect DEF dbVars
  <1>2. \A v \in Users : v # u => current'[v] = current[v]
    BY <1>1 DEF TypeOK, MemTypeOK
  <1>3. ToldUser(u) /\ \A l \in Slots : jobs[u][l].pc \notin HandlerPcs
    BY ConfirmsAlone DEF ToldUsers
  <1>4. cool[u] = 0
    <2>1. cool[u] \in Nat /\ cool[u] <= jobs[u][k].left
      BY <1>1, <1>3 DEF ToldUser, TypeOK, MemTypeOK
    <2> QED
      BY <1>1, <2>1
  <1>5. \A l \in Slots : l # k => jobs[u][l].pc # "sleep"
    BY <1>1, PowerMonitorAssumption DEF PowerMonitorAssumption, UserInv, Guarded
  <1>6. ToldUser(u)'
    BY <1>1, <1>3, <1>4, <1>5 DEF ToldUser, Telling, HandlerPcs
  <1> QED
    BY <1>1, <1>2, <1>6, ToldFrame DEF ToldUsers

LEMMA HandlerTold ==
  ASSUME IInv, HandlersInv, CalmUsers, ToldUsers, Calm', NEW u \in Users, NEW k \in Slots,
         \/ Session1Commit(u, k) \/ Session1Fail(u, k) \/ Send(u, k)
         \/ SendForbidden(u, k) \/ SkipSend(u, k) \/ Finish(u, k) \/ HandlerTimeout(u, k)
  PROVE  ToldUsers'
  <1> USE DEF IInv
  <1>1. /\ jobs[u][k].pc \in HandlerPcs
        /\ \/ jobs'[u][k] = IdleJob
           \/ /\ jobs'[u][k].pc \in {"send", "session2"}
              /\ jobs'[u][k].stamp = jobs[u][k].stamp
        /\ \A v \in Users, l \in Slots : v # u \/ l # k => jobs'[v][l] = jobs[v][l]
        /\ UNCHANGED current
    BY HandlerEffect
  <1>2. /\ ToldUser(u) /\ CalmUser(u) /\ IdleJob.pc = "idle"
        /\ \A l \in Slots : jobs[u][l].pc \in HandlerPcs => l = k
    BY <1>1, OneHandler, JobValues DEF CalmUsers, ToldUsers
  <1>3. ~ Fails /\ ~ Spend("handlerTimeout") /\ ~ Spend("sendError")
    BY FailuresEndCalm DEF Fails, Failures
  <1>4. \A l \in Slots : l # k => jobs'[u][l] = jobs[u][l] /\ jobs[u][l].pc \notin HandlerPcs
    BY <1>1, <1>2
  <1>5. CASE Session1Commit(u, k)
    <2>1. /\ jobs[u][k].pc = "session1" /\ UNCHANGED <<cool, notified, active>>
          /\ jobs'[u][k].pc = "send"
          /\ jobs'[u][k].notify = (jobs[u][k].notify /\ (jobs[u][k].orphan \/ cool[u] = 0))
      BY <1>5 DEF Session1Commit, memVars, ghostVars, TypeOK, JobType
    <2>2. jobs'[u][k].notify
      BY <1>2, <2>1 DEF ToldUser
    <2>3. ToldUser(u)'
      BY <1>1, <1>2, <1>4, <2>1, <2>2 DEF ToldUser, Telling, HandlerPcs
    <2> QED
      BY <1>1, <2>1, <2>3, ToldFrame DEF ToldUsers
  <1>6. CASE Session1Fail(u, k) \/ HandlerTimeout(u, k)
    BY <1>3, <1>6 DEF Session1Fail, HandlerTimeout
  <1>7. CASE SkipSend(u, k)
    BY <1>2, <1>7 DEF SkipSend, ToldUser
  <1>8. CASE Finish(u, k)
    <2>1. /\ jobs[u][k].pc = "session2" /\ UNCHANGED <<cool, notified, active>>
          /\ jobs'[u][k].pc = "idle"
      BY <1>2, <1>8 DEF Finish, dbVars, ghostVars, TypeOK
    <2>2. ToldUser(u)'
      BY <1>1, <1>2, <1>4, <2>1 DEF ToldUser, Telling, HandlerPcs
    <2> QED
      BY <1>1, <2>1, <2>2, ToldFrame DEF ToldUsers
  <1>9. CASE Send(u, k) \/ SendForbidden(u, k)
    <2>1. /\ jobs'[u][k].pc \in {"session2", "idle"} /\ jobs[u][k].pc = "send"
          /\ cool' = IF jobs[u][k].orphan THEN cool ELSE [cool EXCEPT ![u] = jobs[u][k].stamp]
      BY <1>2, <1>9 DEF Send, SendForbidden, Stamp, TypeOK, JobType
    <2>2. /\ cool'[u] \in {cool[u], jobs[u][k].stamp}
          /\ \A v \in Users : v # u => cool'[v] = cool[v]
      BY <2>1 DEF TypeOK, MemTypeOK
    <2>3. /\ \/ notified' = [notified EXCEPT ![u] = jobs[u][k].to] /\ active' = active
             \/ notified' = notified /\ active' = active \ {u}
      BY <1>3, <1>9 DEF Send, SendForbidden, dbVars, ghostVars
    <2>4. u \in active' => notified'[u] = current[u]
      BY <1>1, <1>2, <2>3 DEF CalmUser, TypeOK
    <2>5. ToldUser(u)'
      BY <1>1, <1>2, <1>4, <2>1, <2>2, <2>4 DEF ToldUser, HandlerPcs
    <2>6. \A v \in Users : v # u => notified'[v] = notified[v] /\ (v \in active' => v \in active)
      BY <2>3 DEF TypeOK
    <2> QED
      BY <1>1, <2>2, <2>5, <2>6, ToldFrame DEF ToldUsers
  <1> QED
    BY <1>5, <1>6, <1>7, <1>8, <1>9

LEMMA TickTold ==
  ASSUME IInv, ToldUsers, Tick
  PROVE  ToldUsers'
  <1> USE DEF IInv
  <1>1. UNCHANGED <<current, active, notified>>
    BY DEF Tick, dbVars, ghostVars
  <1>2. ASSUME NEW u \in Users, NEW k \in Slots
        PROVE  /\ jobs'[u][k].pc = jobs[u][k].pc /\ jobs'[u][k].notify = jobs[u][k].notify
               /\ jobs'[u][k].left = Dec(jobs[u][k].left) /\ jobs[u][k].left \in Nat
               /\ jobs'[u][k].stamp = Dec(jobs[u][k].stamp) /\ jobs[u][k].stamp \in Nat
               /\ cool'[u] = Dec(cool[u]) /\ cool[u] \in Nat
    <2>1. jobs[u][k] \in JobType /\ cool[u] \in 0..Cooldown
      BY DEF TypeOK, MemTypeOK
    <2>2. /\ jobs'[u][k] = [jobs[u][k] EXCEPT !.left = Dec(@), !.stamp = Dec(@)]
          /\ cool'[u] = Dec(cool[u])
      BY DEF Tick
    <2> QED
      BY <2>1, <2>2, PowerMonitorAssumption DEF PowerMonitorAssumption, JobType
  <1>3. Dec(0) = 0 /\ \A m, n \in Nat : m <= n => Dec(m) <= Dec(n)
    BY DEF Dec
  <1> QED
    BY <1>1, <1>2, <1>3 DEF ToldUsers, ToldUser, Telling

LEMMA ToldStep ==
  ASSUME IInv, HandlersInv, CapHolds, TimersCoolDown, CalmInv, ToldInv, [Next]_vars
  PROVE  ToldInv'
  <1> SUFFICES ASSUME Calm' PROVE ToldUsers'
    BY DEF ToldInv
  <1>1. CalmUsers /\ ToldUsers /\ mode = "up"
    BY CalmBefore DEF IInv, CalmInv, ToldInv, CalmUsers
  <1>2. ASSUME UNCHANGED <<current, jobs, cool, active, notified>>
        PROVE  ToldUsers'
    BY <1>1, <1>2, ToldFrame DEF ToldUsers
  <1>3. ASSUME NEW k \in Failures
        PROVE  ~ Spend(k) /\ ~ Fails
    BY <1>3, FailuresEndCalm DEF IInv, Fails, Failures
  <1>4. CASE StartCycle
    BY <1>1, <1>4, StartTold
  <1>5. CASE EmptyCycle \/ EndCycle \/ CycleTimeout
    BY <1>2, <1>5 DEF EmptyCycle, EndCycle, CycleTimeout, memVars, dbVars, ghostVars
  <1>6. ASSUME NEW u \in Users, Check(u)
        PROVE  ToldUsers'
    <2>1. CASE SeedWrite(u) \/ ClearWrite(u) \/ PersistPending(u)
      BY <1>2, <2>1 DEF SeedWrite, ClearWrite, PersistPending, memVars, ghostVars
    <2>2. CASE CreateTimer(u)
      BY <1>1, <2>2, CreateTold
    <2>3. ASSUME NEW s \in States,
                 \/ FirstCheckRestore(u) \/ FirstCheckSeed(u, s) \/ CheckUnchanged(u, s)
                 \/ CheckFlapBack(u, s) \/ CheckAlreadyWaiting(u, s) \/ CheckNewPending(u, s)
          PROVE  ToldUsers'
      BY <1>1, <2>3, CheckTold
    <2>4. "on" \in States
      BY DEF States
    <2> QED
      BY <1>6, <2>1, <2>2, <2>3, <2>4 DEF Check
  <1>7. ASSUME NEW u \in Users, NEW k \in Slots, Run(u, k)
        PROVE  ToldUsers'
    BY <1>1, <1>7, ConfirmTold, HandlerTold DEF Run
  <1>8. CASE Tick
    BY <1>1, <1>8, TickTold
  <1>9. ASSUME NEW f \in Flushers,
               FlushBegin \/ FlushSkip \/ FlushCommit(f) \/ FlushFail(f) \/ FlushClear(f)
        PROVE  ToldUsers'
    BY <1>2, <1>9
    DEF FlushBegin, FlushSkip, FlushCommit, FlushFail, FlushClear, memVars, dbVars, ghostVars
  <1>10. CASE ShutdownSave \/ StopMonitor \/ Crash \/ Exit \/ Boot
    BY <1>1, <1>3, <1>10 DEF ShutdownSave, StopMonitor, Crash, Exit, Boot, Failures
  <1>11. ASSUME NEW u \in Users, Toggle(u) \/ HourPasses(u)
         PROVE  ToldUsers'
    BY <1>2, <1>3, <1>11 DEF Toggle, HourPasses, Failures, memVars
  <1>12. CASE UNCHANGED vars
    BY <1>2, <1>12 DEF vars, memVars, dbVars, ghostVars
  <1>13. "loop" \in Flushers
    BY DEF Flushers
  <1> QED
    BY <1>4, <1>5, <1>6, <1>7, <1>8, <1>9, <1>10, <1>11, <1>12, <1>13 DEF Next

LEMMA InitTold == Init => ToldInv
  BY PowerMonitorAssumption
  DEF PowerMonitorAssumption, Init, ToldInv, ToldUsers, ToldUser, IdleJob, HandlerPcs

\* Under the same conditions, and when no timer is shorter than the cooldown of
\* messages, the last message to a user who has not blocked the bot names the
\* confirmed state: _handle_power_state_change leaves no message out for good.
THEOREM MessagesEndTrue ==
  ASSUME CapHolds, TimersCoolDown
  PROVE  Spec => []LastMessageIsTrue
  <1>1. IInv /\ ToldInv => LastMessageIsTrue
    BY DEF IInv, TypeOK, DbTypeOK, ToldInv, ToldUsers, ToldUser, Telling, LastMessageIsTrue, Quiet
  <1>2. IInv /\ HandlersInv /\ CalmInv /\ ToldInv /\ [Next]_vars => ToldInv'
    BY ToldStep
  <1>3. Spec => []HandlersInv
    BY InitHandlers, HandlersStep, InductiveInvariant, PTL DEF Spec
  <1>4. Spec => []ToldInv
    BY <1>2, <1>3, InitTold, CalmAlways, InductiveInvariant, PTL DEF Spec
  <1> QED
    BY <1>1, <1>4, InductiveInvariant, PTL
=============================================================================
