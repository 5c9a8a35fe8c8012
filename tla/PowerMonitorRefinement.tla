----------------------- MODULE PowerMonitorRefinement -----------------------
(***************************************************************************)
(* PowerMonitor implements DebouncedPower, for any users, slots, settings  *)
(* and budget: every step of the monitor, with its cycles, tasks, flushes, *)
(* crashes and restarts, moves each user by a step of the debounce machine *)
(* or leaves the user where it was.                                        *)
(***************************************************************************)
EXTENDS PowerMonitorProofs

\* What a step does to one user, seen by DebouncedPower.
Moved(u) ==
  \/ Debounced!UserNext(u)
  \/ Debounced!Becomes(u, current[u], pending[u], TimeLeft[u])

\* The time left of the timer an entry refers to.
LEMMA TimeLeftOf ==
  ASSUME NEW u \in Users
  PROVE  /\ TimeLeft[u] = IF debounceTask[u] = None THEN None ELSE jobs[u][debounceTask[u]].left
         /\ TimeLeft'[u] = IF debounceTask'[u] = None THEN None ELSE jobs'[u][debounceTask'[u]].left
  BY DEF TimeLeft

\* A step that leaves the entry of u and the time left of its timer alone.
LEMMA UserStutters ==
  ASSUME NEW u \in Users,
         current'[u] = current[u], pending'[u] = pending[u],
         debounceTask'[u] = debounceTask[u],
         debounceTask[u] # None =>
           jobs'[u][debounceTask[u]].left = jobs[u][debounceTask[u]].left
  PROVE  Moved(u)
  BY TimeLeftOf DEF Moved, Debounced!Becomes

\* An entry without a state has no candidate and no timer.
LEMMA Absent ==
  ASSUME IInv, NEW u \in Users, current[u] = None
  PROVE  pending[u] = None /\ debounceTask[u] = None /\ TimeLeft[u] = None
  BY TimeLeftOf, PowerMonitorAssumption
  DEF PowerMonitorAssumption, IInv, UserInv, Guarded, TypeOK, MemTypeOK

\* A step that leaves all entries and jobs alone.
LEMMA AllStutter ==
  ASSUME UNCHANGED <<current, pending, debounceTask, jobs>>
  PROVE  \A u \in Users : Moved(u)
  BY UserStutters
-----------------------------------------------------------------------------
\* A check seeds, withdraws, proposes, or leaves its user alone.
LEMMA CheckMoves ==
  ASSUME IInv, IInv', NEW u \in Users, NEW s \in States,
         \/ FirstCheckRestore(u) \/ FirstCheckSeed(u, s) \/ CheckUnchanged(u, s)
         \/ CheckFlapBack(u, s) \/ CheckAlreadyWaiting(u, s) \/ CheckNewPending(u, s)
  PROVE  \A v \in Users : Moved(v)
  <1>1. /\ current \in [Users -> States \cup {None}] /\ pending \in [Users -> States \cup {None}]
        /\ debounceTask \in [Users -> Slots \cup {None}]
        /\ loaded \in [Users -> States \cup {None}]
    BY DEF IInv, TypeOK, MemTypeOK, LoopTypeOK
  <1>2. None \notin States
    BY PowerMonitorAssumption DEF PowerMonitorAssumption
  <1>3. ASSUME NEW v \in Users, v # u
        PROVE  Moved(v)
    <2>1. \/ jobs' = jobs
          \/ jobs' = [jobs EXCEPT ![u] = Cancelled(u)]
      BY DEF FirstCheckRestore, FirstCheckSeed, CheckUnchanged, CheckFlapBack,
             CheckAlreadyWaiting, CheckNewPending
    <2>2. jobs'[v] = jobs[v]
      BY <1>3, <2>1 DEF IInv, TypeOK
    <2>3. /\ current'[v] = current[v] /\ pending'[v] = pending[v]
          /\ debounceTask'[v] = debounceTask[v]
      BY <1>1, <1>3 DEF FirstCheckRestore, FirstCheckSeed, CheckUnchanged, CheckFlapBack,
                        CheckAlreadyWaiting, CheckNewPending
    <2> QED
      BY <2>2, <2>3, UserStutters
  <1>4. CASE FirstCheckRestore(u) \/ FirstCheckSeed(u, s)
    <2>1. current[u] = None /\ current'[u] \in States
      BY <1>1, <1>4 DEF FirstCheckRestore, FirstCheckSeed
    <2>2. pending'[u] = None /\ TimeLeft'[u] = None
      BY <1>4, <2>1, Absent, TimeLeftOf DEF FirstCheckRestore, FirstCheckSeed
    <2>3. Debounced!Seed(u)
      BY <2>1, <2>2 DEF Debounced!Seed, Debounced!Becomes, Debounced!States, States
    <2> QED
      BY <1>3, <2>3 DEF Moved, Debounced!UserNext
  <1>5. CASE CheckUnchanged(u, s) \/ CheckAlreadyWaiting(u, s)
    BY <1>3, <1>5, UserStutters DEF CheckUnchanged, CheckAlreadyWaiting
  <1>6. CASE CheckFlapBack(u, s)
    <2>1. /\ pending[u] # None /\ current'[u] = current[u]
          /\ pending'[u] = None /\ TimeLeft'[u] = None
      BY <1>1, <1>6, TimeLeftOf DEF CheckFlapBack
    <2>2. Debounced!Withdraw(u)
      BY <2>1 DEF Debounced!Withdraw, Debounced!Becomes
    <2> QED
      BY <1>3, <2>2 DEF Moved, Debounced!UserNext
  <1>7. CASE CheckNewPending(u, s)
    <2>1. /\ current[u] \in States \ {s} /\ pending[u] # s
          /\ current'[u] = current[u] /\ pending'[u] = s /\ TimeLeft'[u] = None
      BY <1>1, <1>7, TimeLeftOf DEF CheckNewPending, Contradicts
    <2>2. pending[u] = None
      BY <1>1, <2>1 DEF IInv, UserInv, States
    <2>3. Debounced!Propose(u)
      BY <1>2, <2>1, <2>2 DEF Debounced!Propose, Debounced!Becomes, Debounced!States, States
    <2> QED
      BY <1>3, <2>3 DEF Moved, Debounced!UserNext
  <1> QED
    BY <1>4, <1>5, <1>6, <1>7

\* Of the steps a check takes after an await, only the last one moves its user.
LEMMA AwaitMoves ==
  ASSUME IInv, IInv', NEW u \in Users,
         \/ SeedWrite(u) \/ ClearWrite(u) \/ PersistPending(u) \/ CreateTimer(u)
  PROVE  \A v \in Users : Moved(v)
  <1>1. CASE SeedWrite(u) \/ ClearWrite(u) \/ PersistPending(u)
    BY <1>1, AllStutter DEF SeedWrite, ClearWrite, PersistPending, memVars
  <1>2. CASE CreateTimer(u)
    <2>1. PICK k \in Slots, d \in Settings :
            /\ jobs' = [jobs EXCEPT ![u][k] = SleepingJob(chkTo[u], FALSE, Stabilization(d))]
            /\ debounceTask' = [debounceTask EXCEPT ![u] = k]
      BY <1>2 DEF CreateTimer
    <2>2. UNCHANGED <<current, pending>> /\ pending[u] # None /\ debounceTask[u] = None
      BY <1>2, PowerMonitorAssumption
      DEF PowerMonitorAssumption, CreateTimer, IInv, UserInv
    <2>3. debounceTask'[u] = k /\ k # None
      BY <2>1, PowerMonitorAssumption DEF PowerMonitorAssumption, IInv, TypeOK, MemTypeOK
    <2>4. jobs'[u][k].left = Stabilization(d)
      BY <2>1 DEF IInv, TypeOK, SleepingJob, IdleJob
    <2>5. Stabilization(d) \in Waits
      BY DEF Waits
    <2>6. Debounced!Arm(u)
      BY <2>2, <2>3, <2>4, <2>5, TimeLeftOf DEF Debounced!Arm, Debounced!Becomes
    <2>7. ASSUME NEW v \in Users, v # u
          PROVE  Moved(v)
      <3>1. jobs'[v] = jobs[v] /\ debounceTask'[v] = debounceTask[v]
        BY <2>1, <2>7 DEF IInv, TypeOK, MemTypeOK
      <3> QED
        BY <2>2, <3>1, UserStutters
    <2> QED
      BY <2>6, <2>7 DEF Moved, Debounced!UserNext
  <1> QED
    BY <1>1, <1>2

\* A cycle forgets the users it evicts.
LEMMA CycleMoves ==
  ASSUME IInv, StartCycle \/ EmptyCycle \/ EndCycle \/ CycleTimeout
  PROVE  \A v \in Users : Moved(v)
  <1>1. CASE StartCycle
    <2>1. PICK over \in SUBSET (Present \cap active) :
            LET gone == (Present \ active) \cup over IN
            /\ current' = [u \in Users |-> IF u \in gone THEN None ELSE current[u]]
            /\ pending' = [u \in Users |-> IF u \in gone THEN None ELSE pending[u]]
            /\ debounceTask' = [u \in Users |-> IF u \in gone THEN None ELSE debounceTask[u]]
            /\ jobs' = [u \in Users |->
                         IF u \notin gone THEN jobs[u]
                         ELSE [k \in Slots |->
                                IF Cancelled(u)[k].pc = "idle" THEN IdleJob
                                ELSE [Cancelled(u)[k] EXCEPT !.orphan = TRUE]]]
      BY <1>1 DEF StartCycle
    <2> DEFINE gone == (Present \ active) \cup over
    <2>2. ASSUME NEW v \in Users, v \in gone
          PROVE  Debounced!Forget(v)
      BY <2>1, <2>2, TimeLeftOf DEF Debounced!Forget, Debounced!Becomes
    <2>3. ASSUME NEW v \in Users, v \notin gone
          PROVE  Moved(v)
      BY <2>1, <2>3, UserStutters
    <2> QED
      BY <2>2, <2>3 DEF Moved, Debounced!UserNext
  <1>2. CASE EmptyCycle \/ EndCycle \/ CycleTimeout
    BY <1>2, AllStutter DEF EmptyCycle, EndCycle, CycleTimeout, memVars
  <1> QED
    BY <1>1, <1>2

\* A task that wakes up confirms the candidate.
LEMMA ConfirmMoves ==
  ASSUME IInv, NEW u \in Users, NEW k \in Slots, Confirm(u, k)
  PROVE  \A v \in Users : Moved(v)
  <1> DEFINE j == jobs[u][k]
  <1>1. j \in JobType /\ j.pc = "sleep" /\ j.left = 0
    BY DEF Confirm, IInv, TypeOK
  <1>2. UserInv(u) /\ Guarded(u, k)
    BY DEF IInv, UserInv
  <1>3. /\ debounceTask[u] = k /\ pending[u] = j.to /\ j.orphan = FALSE
        /\ pending[u] # None /\ k # None
    BY <1>1, <1>2, PowerMonitorAssumption
    DEF PowerMonitorAssumption, UserInv, Guarded, JobType
  <1>4. /\ current' = [current EXCEPT ![u] = j.to]
        /\ pending' = [pending EXCEPT ![u] = None]
        /\ debounceTask' = [debounceTask EXCEPT ![u] = None]
    BY <1>1, <1>3 DEF Confirm, JobType
  <1>5. ASSUME NEW v \in Users, NEW l \in Slots, v # u
        PROVE  jobs'[v][l] = jobs[v][l]
    BY <1>5 DEF Confirm, IInv, TypeOK
  <1>6. Debounced!Confirm(u)
    <2>1. current'[u] = pending[u] /\ pending'[u] = None /\ debounceTask'[u] = None
      BY <1>3, <1>4 DEF IInv, TypeOK, MemTypeOK
    <2>2. TimeLeft[u] = 0 /\ TimeLeft'[u] = None
      BY <1>1, <1>3, <2>1, TimeLeftOf
    <2> QED
      BY <1>3, <2>1, <2>2 DEF Debounced!Confirm, Debounced!Becomes
  <1>7. ASSUME NEW v \in Users, v # u
        PROVE  Moved(v)
    <2>1. /\ current'[v] = current[v] /\ pending'[v] = pending[v]
          /\ debounceTask'[v] = debounceTask[v] /\ debounceTask[v] \in Slots \cup {None}
      BY <1>4, <1>7 DEF IInv, TypeOK, MemTypeOK
    <2> QED
      BY <1>5, <1>7, <2>1, UserStutters
  <1> QED
    BY <1>6, <1>7 DEF Moved, Debounced!UserNext

\* Handlers do not move anyone: the timer of an entry is not a running handler.
LEMMA HandlerMoves ==
  ASSUME IInv, NEW u \in Users, NEW k \in Slots,
         \/ Session1Commit(u, k) \/ Session1Fail(u, k) \/ Send(u, k)
         \/ SendForbidden(u, k) \/ SkipSend(u, k) \/ Finish(u, k) \/ HandlerTimeout(u, k)
  PROVE  \A v \in Users : Moved(v)
  <1>1. UNCHANGED <<current, pending, debounceTask>>
    BY DEF Session1Commit, Session1Fail, Send, SendForbidden, SkipSend, Finish,
           HandlerTimeout, memVars
  <1>2. jobs[u][k].pc # "sleep"
    BY DEF Session1Commit, Session1Fail, Send, SendForbidden, SkipSend, Finish,
           HandlerTimeout, HandlerPcs
  <1>3. ASSUME NEW v \in Users, NEW l \in Slots, v # u \/ l # k
        PROVE  jobs'[v][l] = jobs[v][l]
    BY <1>3 DEF Session1Commit, Session1Fail, Send, SendForbidden, SkipSend, Finish,
                HandlerTimeout, IInv, TypeOK
  <1>4. ASSUME NEW v \in Users, debounceTask[v] # None
        PROVE  /\ debounceTask[v] \in Slots
               /\ v # u \/ debounceTask[v] # k
    BY <1>2, <1>4 DEF IInv, UserInv, TypeOK, MemTypeOK
  <1> QED
    BY <1>1, <1>3, <1>4, UserStutters

\* The clock moves every timer: none is due, so each has time left.
LEMMA TickMoves ==
  ASSUME IInv, Tick
  PROVE  \A v \in Users : Moved(v)
  <1>1. ASSUME NEW v \in Users
        PROVE  Moved(v)
    <2>1. UNCHANGED <<current, pending, debounceTask>>
      BY DEF Tick
    <2>2. CASE debounceTask[v] = None
      BY <2>1, <2>2, UserStutters
    <2>3. CASE debounceTask[v] # None
      <3> DEFINE k == debounceTask[v]
                 j == jobs[v][k]
      <3>1. k \in Slots /\ j \in JobType /\ j.pc = "sleep"
        BY <2>3 DEF IInv, UserInv, TypeOK, MemTypeOK
      <3>2. j.left > 0 /\ j.left \in Nat
        BY <3>1 DEF Tick, Limited, JobType
      <3>3. jobs'[v][k] = [j EXCEPT !.left = Dec(@), !.stamp = Dec(@)]
        BY <3>1 DEF Tick
      <3>4. jobs'[v][k].left = j.left - 1
        BY <3>1, <3>2, <3>3 DEF Dec, JobType
      <3>5. TimeLeft[v] = j.left /\ TimeLeft'[v] = j.left - 1 /\ j.left # None
        BY <2>1, <2>3, <3>2, <3>4, TimeLeftOf, PowerMonitorAssumption DEF PowerMonitorAssumption
      <3>6. Debounced!Wait(v)
        BY <2>1, <3>2, <3>5 DEF Debounced!Wait, Debounced!Becomes
      <3> QED
        BY <3>6 DEF Moved, Debounced!UserNext
    <2> QED
      BY <2>2, <2>3
  <1> QED
    BY <1>1

\* The shutdown disarms the timers, and the end of the process forgets everyone.
LEMMA StopMoves ==
  ASSUME IInv, ShutdownSave \/ StopMonitor \/ Crash \/ Exit
  PROVE  \A v \in Users : Moved(v)
  <1>1. CASE ShutdownSave
    BY <1>1, AllStutter DEF ShutdownSave, memVars
  <1>2. CASE StopMonitor
    <2>1. ASSUME NEW v \in Users
          PROVE  Moved(v)
      <3>1. UNCHANGED <<current, pending>> /\ debounceTask'[v] = None /\ TimeLeft'[v] = None
        BY <1>2, TimeLeftOf DEF StopMonitor
      <3>2. CASE debounceTask[v] = None
        <4>1. TimeLeft[v] = None
          BY <3>2, TimeLeftOf
        <4> QED
          BY <3>1, <4>1 DEF Moved, Debounced!Becomes
      <3>3. CASE debounceTask[v] # None
        <4>1. TimeLeft[v] = jobs[v][debounceTask[v]].left /\ TimeLeft[v] \in Nat
          BY <3>3, TimeLeftOf DEF IInv, TypeOK, MemTypeOK, JobType
        <4>2. Debounced!Disarm(v)
          BY <3>1, <4>1, PowerMonitorAssumption
          DEF PowerMonitorAssumption, Debounced!Disarm, Debounced!Becomes
        <4> QED
          BY <4>2 DEF Moved, Debounced!UserNext
      <3> QED
        BY <3>2, <3>3
    <2> QED
      BY <2>1
  <1>3. CASE Crash \/ Exit
    <2>1. ProcessEnds
      BY <1>3 DEF Crash, Exit
    <2>2. ASSUME NEW v \in Users
          PROVE  Debounced!Forget(v)
      BY <2>1, TimeLeftOf DEF ProcessEnds, Debounced!Forget, Debounced!Becomes
    <2> QED
      BY <2>2 DEF Moved, Debounced!UserNext
  <1> QED
    BY <1>1, <1>2, <1>3

\* A restart brings users back.
LEMMA BootMoves ==
  ASSUME IInv, Boot
  PROVE  \A v \in Users : Moved(v)
  <1>1. PICK k \in Slots, d \in Settings : \E left \in [Users -> 0..d] :
          /\ debounceTask' = [u \in Users |-> IF u \in Waiting THEN k ELSE None]
          /\ jobs' = [u \in Users |->
               IF u \in Waiting
               THEN [jobs[u] EXCEPT ![k] = SleepingJob(saved[u].pending, TRUE, left[u])]
               ELSE jobs[u]]
    BY DEF Boot
  <1>2. PICK left \in [Users -> 0..d] :
          jobs' = [u \in Users |->
               IF u \in Waiting
               THEN [jobs[u] EXCEPT ![k] = SleepingJob(saved[u].pending, TRUE, left[u])]
               ELSE jobs[u]]
    BY <1>1
  <1>3. /\ current' = [u \in Users |-> IF u \in recent THEN saved[u].current ELSE None]
        /\ pending' = [u \in Users |-> IF u \in recent THEN saved[u].pending ELSE None]
        /\ mode = "down"
    BY DEF Boot
  <1>4. k # None /\ d \in Waits
    BY PowerMonitorAssumption DEF PowerMonitorAssumption, Waits
  <1>5. ASSUME NEW v \in Users
        PROVE  Moved(v)
    <2>1. /\ current[v] = None /\ pending[v] = None /\ debounceTask[v] = None
          /\ TimeLeft[v] = None
      BY <1>3, Absent DEF IInv, UserInv
    <2>2. CASE v \notin recent
      <3>1. TimeLeft'[v] = None
        BY <1>1, <2>2, TimeLeftOf DEF Waiting
      <3> QED
        BY <1>3, <2>1, <2>2, <3>1 DEF Moved, Debounced!Becomes
    <2>3. CASE v \in recent
      <3>1. /\ saved[v].current \in States /\ saved[v].pending \in States \cup {None}
            /\ saved[v].pending # saved[v].current
        BY <2>3 DEF IInv, TypeOK, DbTypeOK, RowType, RowsInv, RowsAreSnapshots
      <3>2. CASE v \in Waiting
        <4>1. saved[v].pending # None
          BY <3>2 DEF Waiting
        <4>2. debounceTask'[v] = k /\ jobs'[v][k].left = left[v]
          BY <1>1, <1>2, <3>2 DEF IInv, TypeOK, SleepingJob, IdleJob
        <4>3. TimeLeft'[v] = left[v] /\ left[v] \in 0..d
          BY <1>4, <4>2, TimeLeftOf
        <4>4. Debounced!Recover(v)
          BY <1>3, <1>4, <2>1, <2>3, <3>1, <4>1, <4>3
          DEF Debounced!Recover, Debounced!Becomes, Debounced!States, States
        <4> QED
          BY <4>4 DEF Moved, Debounced!UserNext
      <3>3. CASE v \notin Waiting
        <4>1. saved[v].pending = None /\ TimeLeft'[v] = None
          BY <1>1, <2>3, <3>3, TimeLeftOf DEF Waiting
        <4>2. Debounced!Recover(v)
          BY <1>3, <2>1, <2>3, <3>1, <4>1
          DEF Debounced!Recover, Debounced!Becomes, Debounced!States, States
        <4> QED
          BY <4>2 DEF Moved, Debounced!UserNext
      <3> QED
        BY <3>2, <3>3
    <2> QED
      BY <2>2, <2>3
  <1> QED
    BY <1>5
-----------------------------------------------------------------------------
LEMMA StepMoves ==
  ASSUME IInv, IInv', [Next]_vars
  PROVE  \A v \in Users : Moved(v)
  <1>1. CASE StartCycle \/ EmptyCycle \/ EndCycle \/ CycleTimeout
    BY <1>1, CycleMoves
  <1>2. ASSUME NEW u \in Users, Check(u)
        PROVE  \A v \in Users : Moved(v)
    <2>1. "on" \in States
      BY DEF States
    <2> QED
      BY <1>2, <2>1, CheckMoves, AwaitMoves DEF Check
  <1>3. ASSUME NEW u \in Users, NEW k \in Slots, Run(u, k)
        PROVE  \A v \in Users : Moved(v)
    BY <1>3, ConfirmMoves, HandlerMoves DEF Run
  <1>4. CASE Tick
    BY <1>4, TickMoves
  <1>5. ASSUME NEW f \in Flushers,
               FlushBegin \/ FlushSkip \/ FlushCommit(f) \/ FlushFail(f) \/ FlushClear(f)
        PROVE  \A v \in Users : Moved(v)
    BY <1>5, AllStutter DEF FlushBegin, FlushSkip, FlushCommit, FlushFail, FlushClear, memVars
  <1>6. CASE ShutdownSave \/ StopMonitor \/ Crash \/ Exit
    BY <1>6, StopMoves
  <1>7. CASE Boot
    BY <1>7, BootMoves
  <1>8. ASSUME NEW u \in Users, Toggle(u) \/ HourPasses(u)
        PROVE  \A v \in Users : Moved(v)
    BY <1>8, AllStutter DEF Toggle, HourPasses, memVars
  <1>9. CASE UNCHANGED vars
    BY <1>9, AllStutter DEF vars, memVars
  <1>10. "loop" \in Flushers
    BY DEF Flushers
  <1> QED
    BY <1>1, <1>2, <1>3, <1>4, <1>5, <1>6, <1>7, <1>8, <1>9, <1>10 DEF Next

\* _check_user_power, the debounce tasks, the eviction, the shutdown and the
\* restart together implement one debounce machine per user: a confirmed state
\* changes only to a candidate whose stabilisation time ran to its end.
THEOREM ImplementsDebounced == Spec => ImplementsDebouncedPower
  <1>1. Init => Debounced!Init
    BY DEF Init, Debounced!Init, TimeLeft
  <1>2. IInv /\ IInv' /\ [Next]_vars => [Debounced!Next]_(Debounced!vars)
    <2> SUFFICES ASSUME IInv, IInv', [Next]_vars PROVE Debounced!Next
      OBVIOUS
    <2>1. /\ current' \in [Users -> Debounced!States \cup {None}]
          /\ pending' \in [Users -> Debounced!States \cup {None}]
      BY DEF IInv, TypeOK, MemTypeOK, States, Debounced!States
    <2>2. DOMAIN TimeLeft' = Users
      BY DEF TimeLeft
    <2>3. \A v \in Users : Moved(v)
      BY StepMoves
    <2> QED
      BY <2>1, <2>2, <2>3 DEF Moved, Debounced!Next
  <1> QED
    BY <1>1, <1>2, InductiveInvariant, PTL DEF Spec, ImplementsDebouncedPower, Debounced!Spec
=============================================================================
