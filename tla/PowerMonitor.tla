---------------------------- MODULE PowerMonitor ----------------------------
(***************************************************************************)
(* The power monitor of bot/services/power_monitor.py: the check cycle,    *)
(* the per-user debounce machine, the debounce tasks and the handler they  *)
(* run, the write-behind of _user_states, and crash, shutdown and restart. *)
(*                                                                         *)
(* asyncio runs one coroutine at a time, so an action is the code between  *)
(* two awaits.  _user_states_lock is never held across an await: a section *)
(* under it is part of the action it occurs in.                            *)
(*                                                                         *)
(* Time is counted in ticks.  A tick passes only when no timer is due, the *)
(* order in which the event loop runs its timers.                          *)
(***************************************************************************)
EXTENDS Naturals, FiniteSets

CONSTANTS
  Users,            \* telegram ids
  Slots,            \* names for the debounce tasks of one user (a bound)
  None,             \* Python's None
  Settings,         \* debounce values, in ticks, an admin may choose
  MinStabilization, \* POWER_MIN_STABILIZATION_S, used when the setting is 0
  HandlerLimit,     \* the wait_for timeout around the handler
  Cooldown,         \* POWER_NOTIFICATION_COOLDOWN_S
  MaxEntries,       \* USER_STATES_MAX
  OthersActive,     \* whether users outside Users are monitored too
  Budgets           \* budgets a run starts with: how often each event may happen (a bound)

States == {"on", "off"}

\* Events that are bounded: failures, restarts, edits of the user's row, and the
\* hour after which get_recent_user_power_states no longer returns a row.
Failures == {"cycleTimeout", "handlerTimeout", "dbError", "sendError", "toggle",
             "shutdown", "crash", "crowd"}

\* "calm" is spent by the first of the failures.
Events == Failures \cup {"blocked", "hour", "calm"}

ASSUME PowerMonitorAssumption ==
  /\ None \notin States
  /\ None \notin Slots
  /\ None \notin Nat
  /\ Slots # {}
  /\ Settings \subseteq Nat
  /\ MinStabilization \in Nat \ {0}
  /\ HandlerLimit \in Nat
  /\ Cooldown \in Nat
  /\ MaxEntries \in Nat
  /\ OthersActive \in BOOLEAN
  /\ Budgets \subseteq [Events -> Nat]

VARIABLES
  \* _user_states[u]; an entry without a state never survives an await
  current,        \* current_state, None: there is no entry
  pending,        \* pending_state
  debounceTask,   \* debounce_task; None also stands for a finished task
  cool,           \* what is left of the cooldown after last_notification_at
  dirty,          \* _dirty_states
  \* the debounce tasks: sleeping, then running the handler
  jobs,
  \* the main loop
  mode,           \* up, saving (shutdown flush), stopped, down
  loop,           \* sleeping, checking, checked or flushing
  chk,            \* chk[u]: where _check_user_power(u) is in this cycle
  chkTo,          \* chkTo[u]: its new_state
  loaded,         \* loaded[u]: power_tracking.power_state read by the cycle
  \* _save_all_user_states, called by the loop and by the shutdown
  flushPc,        \* idle, write (the upsert), clear (after its commit)
  flushIds,       \* save_ids
  flushRows,      \* snapshot; None: no row for this user
  \* the database
  active,         \* users get_users_with_ip_cursor returns
  powerState,     \* user_power_tracking.power_state
  pendingAt,      \* user_power_tracking.pending_power_state (and its time)
  saved,          \* user_power_states rows, None: no row
  recent,         \* rows whose updated_at is less than an hour old
  \* history, for the properties
  notified,       \* the last state a message told the user
  budget          \* what is left of the run's budget

memVars   == <<current, pending, debounceTask, cool, dirty>>
loopVars  == <<mode, loop, chk, chkTo, loaded>>
flushVars == <<flushPc, flushIds, flushRows>>
dbVars    == <<active, powerState, pendingAt, saved, recent>>
ghostVars == <<notified>>
vars == <<memVars, jobs, loopVars, flushVars, dbVars, ghostVars, budget>>
-----------------------------------------------------------------------------
Present == {u \in Users : current[u] # None}

Flushers == {"loop", "shutdown"}

\* Mutant: a setting of 0 is taken as it is.
StabilizationAsSet(d) == d

\* The stabilisation time of a fresh timer: 0 means the minimum.
Stabilization(d) == IF d = 0 THEN MinStabilization ELSE d

\* A handler has 30 s.  The timer after it takes at least as long, and it is set
\* later: its check awaits two sessions first.
ASSUME StabilizationAssumption ==
  HandlerLimit < MinStabilization /\ \A d \in Settings \ {0} : HandlerLimit < d

Waits == {Stabilization(d) : d \in Settings} \cup Settings

Dec(n) == IF n = 0 THEN 0 ELSE n - 1

IdleJob == [pc |-> "idle", to |-> None, restored |-> FALSE, orphan |-> FALSE,
            notify |-> FALSE, left |-> 0, stamp |-> 0]

SleepingJob(s, restored, d) ==
  [IdleJob EXCEPT !.pc = "sleep", !.to = s, !.restored = restored, !.left = d]

HandlerPcs == {"session1", "send", "session2"}

\* Mutant: the task is forgotten, not cancelled.
CancelledNever(u) == jobs[u]

\* task.cancel() on the task an entry refers to; a sleeping task is gone before
\* it can resume.
Cancelled(u) ==
  IF debounceTask[u] = None THEN jobs[u]
  ELSE [jobs[u] EXCEPT ![debounceTask[u]] = IdleJob]

Spend(k) ==
  /\ budget[k] > 0
  /\ budget' = [budget EXCEPT ![k] = @ - 1, !["calm"] = IF k \in Failures THEN 0 ELSE @]

\* A database session either commits or raises; the code swallows the error.
Fails == Spend("dbError")

NoRows == [u \in Users |-> None]

EntryRow(u) == [current |-> current[u], pending |-> pending[u], cool |-> cool[u]]

Init ==
  /\ current = [u \in Users |-> None]
  /\ pending = [u \in Users |-> None]
  /\ debounceTask = [u \in Users |-> None]
  /\ cool = [u \in Users |-> 0]
  /\ dirty = {}
  /\ jobs = [u \in Users |-> [k \in Slots |-> IdleJob]]
  /\ mode = "up"
  /\ loop = "sleeping"
  /\ chk = [u \in Users |-> "out"]
  /\ chkTo = [u \in Users |-> None]
  /\ loaded = [u \in Users |-> None]
  /\ flushPc = [f \in Flushers |-> "idle"]
  /\ flushIds = [f \in Flushers |-> {}]
  /\ flushRows = [f \in Flushers |-> NoRows]
  /\ active = Users
  /\ powerState = [u \in Users |-> None]
  /\ pendingAt = [u \in Users |-> None]
  /\ saved = [u \in Users |-> None]
  /\ recent = {}
  /\ notified = [u \in Users |-> None]
  /\ budget \in Budgets
-----------------------------------------------------------------------------
(* The check cycle: _check_all_ips and _check_user_power                   *)

\* How many entries the cap leaves too many.
Overflow(P) == IF Cardinality(P) > MaxEntries THEN Cardinality(P) - MaxEntries ELSE 0

\* The entries touched longest ago go, any choice of so many; more of them when the
\* entries of other users fill the cap.
OverTheCap(over, P) ==
  \/ Cardinality(over) = Overflow(P) /\ UNCHANGED budget
  \/ OthersActive /\ Cardinality(over) > Overflow(P) /\ Spend("crowd")

\* Users are loaded with their power_tracking row; entries of users that are no
\* longer active, and those over the cap, leave memory and their timers are
\* cancelled.  Without any active user the cycle returns before the eviction.
StartCycle ==
  /\ mode \in {"up", "saving"}
  /\ loop = "sleeping"
  /\ active # {} \/ OthersActive
  /\ \E over \in SUBSET (Present \cap active) :
       LET gone == (Present \ active) \cup over IN
       /\ OverTheCap(over, Present \cap active)
       /\ current' = [u \in Users |-> IF u \in gone THEN None ELSE current[u]]
       /\ pending' = [u \in Users |-> IF u \in gone THEN None ELSE pending[u]]
       /\ cool' = [u \in Users |-> IF u \in gone THEN 0 ELSE cool[u]]
       /\ debounceTask' = [u \in Users |-> IF u \in gone THEN None ELSE debounceTask[u]]
       /\ dirty' = dirty \ gone
       /\ jobs' = [u \in Users |->
                    IF u \notin gone THEN jobs[u]
                    ELSE [k \in Slots |->
                           IF Cancelled(u)[k].pc = "idle" THEN IdleJob
                           ELSE [Cancelled(u)[k] EXCEPT !.orphan = TRUE]]]
  /\ loop' = "checking"
  /\ chk' = [u \in Users |-> IF u \in active THEN "todo" ELSE "out"]
  /\ loaded' = [u \in Users |-> IF u \in active THEN powerState[u] ELSE None]
  /\ UNCHANGED <<mode, chkTo, flushVars, dbVars, ghostVars>>

\* A check of u moves on to the await (or the end) called next.
Moves(u, next) == chk[u] = "todo" /\ loop = "checking" /\ chk' = [chk EXCEPT ![u] = next]

\* First check with a power_tracking row: its state is taken, the ping is not.
FirstCheckRestore(u) ==
  /\ current[u] = None /\ loaded[u] # None
  /\ Moves(u, "out")
  /\ current' = [current EXCEPT ![u] = loaded[u]]
  /\ dirty' = dirty \cup {u}
  /\ UNCHANGED <<pending, debounceTask, cool, jobs, mode, loop, chkTo, loaded,
                 flushVars, dbVars, ghostVars, budget>>

\* First check without one: the ping decides, without a notification.
FirstCheckSeed(u, s) ==
  /\ current[u] = None /\ loaded[u] = None
  /\ Moves(u, "seed")
  /\ chkTo' = [chkTo EXCEPT ![u] = s]
  /\ current' = [current EXCEPT ![u] = s]
  /\ dirty' = dirty \cup {u}
  /\ UNCHANGED <<pending, debounceTask, cool, jobs, mode, loop, loaded, flushVars,
                 dbVars, ghostVars, budget>>

\* The ping agrees with the confirmed state, and nothing is under observation.
CheckUnchanged(u, s) ==
  /\ current[u] = s /\ pending[u] \in {None, s}
  /\ Moves(u, "out")
  /\ dirty' = dirty \cup {u}
  /\ UNCHANGED <<current, pending, debounceTask, cool, jobs, mode, loop, chkTo,
                 loaded, flushVars, dbVars, ghostVars, budget>>

\* The ping agrees with the confirmed state again: the candidate is dropped.
CheckFlapBack(u, s) ==
  /\ current[u] = s /\ pending[u] \notin {None, s}
  /\ Moves(u, "clear")
  /\ jobs' = [jobs EXCEPT ![u] = Cancelled(u)]
  /\ debounceTask' = [debounceTask EXCEPT ![u] = None]
  /\ pending' = [pending EXCEPT ![u] = None]
  /\ dirty' = dirty \cup {u}
  /\ UNCHANGED <<current, cool, mode, loop, chkTo, loaded, flushVars, dbVars,
                 ghostVars, budget>>

\* Mutant: the branch for an unchanged state does not return.
ContradictsAny(u, s) == current[u] # None

\* The ping contradicts the confirmed state.
Contradicts(u, s) == current[u] \notin {None, s}

\* "Already waiting for this new state - do nothing"
CheckAlreadyWaiting(u, s) ==
  /\ Contradicts(u, s) /\ pending[u] = s
  /\ Moves(u, "out")
  /\ dirty' = dirty \cup {u}
  /\ UNCHANGED <<current, pending, debounceTask, cool, jobs, mode, loop, chkTo,
                 loaded, flushVars, dbVars, ghostVars, budget>>

\* A new candidate: it is set before the two awaits that precede its timer.
CheckNewPending(u, s) ==
  /\ Contradicts(u, s) /\ pending[u] # s
  /\ Moves(u, "persist")
  /\ chkTo' = [chkTo EXCEPT ![u] = s]
  /\ jobs' = [jobs EXCEPT ![u] = Cancelled(u)]
  /\ debounceTask' = [debounceTask EXCEPT ![u] = None]
  /\ pending' = [pending EXCEPT ![u] = s]
  /\ dirty' = dirty \cup {u}
  /\ UNCHANGED <<current, cool, mode, loop, loaded, flushVars, dbVars, ghostVars, budget>>

\* The database writes a check waits for.
SeedWrite(u) ==
  /\ chk[u] = "seed"
  /\ \/ powerState' = [powerState EXCEPT ![u] = chkTo[u]] /\ UNCHANGED budget
     \/ Fails /\ UNCHANGED powerState
  /\ chk' = [chk EXCEPT ![u] = "out"]
  /\ chkTo' = [chkTo EXCEPT ![u] = None]
  /\ UNCHANGED <<memVars, jobs, mode, loop, loaded, flushVars, active, pendingAt,
                 saved, recent, ghostVars>>

ClearWrite(u) ==
  /\ chk[u] = "clear"
  /\ \/ pendingAt' = [pendingAt EXCEPT ![u] = None] /\ UNCHANGED budget
     \/ Fails /\ UNCHANGED pendingAt
  /\ chk' = [chk EXCEPT ![u] = "out"]
  /\ UNCHANGED <<memVars, jobs, mode, loop, chkTo, loaded, flushVars, active,
                 powerState, saved, recent, ghostVars>>

PersistPending(u) ==
  /\ chk[u] = "persist"
  /\ \/ pendingAt' = [pendingAt EXCEPT ![u] = chkTo[u]] /\ UNCHANGED budget
     \/ Fails /\ UNCHANGED pendingAt
  /\ chk' = [chk EXCEPT ![u] = "timer"]
  /\ UNCHANGED <<memVars, jobs, mode, loop, chkTo, loaded, flushVars, active,
                 powerState, saved, recent, ghostVars>>

\* The debounce setting is read, then the task is created.
CreateTimer(u) ==
  /\ chk[u] = "timer"
  /\ \E k \in Slots, d \in Settings :
       /\ jobs[u][k].pc = "idle"
       /\ jobs' = [jobs EXCEPT ![u][k] = SleepingJob(chkTo[u], FALSE, Stabilization(d))]
       /\ debounceTask' = [debounceTask EXCEPT ![u] = k]
  /\ chk' = [chk EXCEPT ![u] = "out"]
  /\ chkTo' = [chkTo EXCEPT ![u] = None]
  /\ UNCHANGED <<current, pending, cool, dirty, mode, loop, loaded, flushVars,
                 dbVars, ghostVars, budget>>

\* The cycle is over, and what it loaded is forgotten.
LeaveCycle ==
  /\ loop = "checking"
  /\ loop' = "checked"
  /\ chk' = [u \in Users |-> "out"]
  /\ chkTo' = [u \in Users |-> None]
  /\ loaded' = [u \in Users |-> None]

EmptyCycle ==
  /\ mode \in {"up", "saving"}
  /\ loop = "sleeping"
  /\ active = {} /\ ~ OthersActive
  /\ loop' = "checked"
  /\ UNCHANGED <<memVars, jobs, mode, chk, chkTo, loaded, flushVars, dbVars, ghostVars, budget>>

EndCycle ==
  /\ \A u \in Users : chk[u] = "out"
  /\ LeaveCycle
  /\ UNCHANGED <<memVars, jobs, mode, flushVars, dbVars, ghostVars, budget>>

\* wait_for(_check_all_ips(bot), timeout=300) cancels every check at its await.
CycleTimeout ==
  /\ Spend("cycleTimeout")
  /\ \E u \in Users : chk[u] # "out"
  /\ LeaveCycle
  /\ UNCHANGED <<memVars, jobs, mode, flushVars, dbVars, ghostVars>>
-----------------------------------------------------------------------------
(* The debounce tasks: _confirm_state, _confirm_restored and               *)
(* _handle_power_state_change                                              *)

\* Mutant: the message goes out, the database is left as it was.
HandlerJobUnsaved(j, quiet) ==
  [j EXCEPT !.pc = "send", !.notify = quiet, !.left = HandlerLimit, !.stamp = Cooldown]

\* Mutant: "<=" for "<", the cooldown lasts a tick longer.
HandlerJobLonger(j, quiet) ==
  [j EXCEPT !.pc = "session1", !.notify = quiet, !.left = HandlerLimit,
            !.stamp = Cooldown + 1]

\* The handler of job j starts; the cooldown is measured from here.
HandlerJob(j, quiet) ==
  [j EXCEPT !.pc = "session1", !.notify = quiet, !.left = HandlerLimit,
            !.stamp = Cooldown]

\* A slept-out task writes the entry it was created for, whatever the entry holds
\* by then, even one that was evicted and that nobody else sees.  A restored task
\* looks the entry up again, and gives up if its candidate is gone.
Confirm(u, k) ==
  LET j == jobs[u][k]
      elsewhere == IF j.restored THEN pending[u] # j.to ELSE j.orphan
      Written(f, v) == IF elsewhere THEN f ELSE [f EXCEPT ![u] = v]
  IN
  /\ j.pc = "sleep" /\ j.left = 0
  /\ current' = Written(current, j.to)
  /\ pending' = Written(pending, None)
  /\ debounceTask' = Written(debounceTask, None)
  /\ dirty' = IF elsewhere /\ j.restored THEN dirty ELSE dirty \cup {u}
  /\ jobs' = [jobs EXCEPT ![u][k] =
                IF elsewhere /\ j.restored THEN IdleJob
                ELSE HandlerJob([j EXCEPT !.orphan = elsewhere], cool[u] = 0)]
  /\ UNCHANGED <<cool, loopVars, flushVars, dbVars, ghostVars, budget>>

\* Session 1 commits the new state, the history row and the cleared candidate.
\* After a database error the handler goes on if it had already read the user.
\* Then the cooldown is looked up.
Session1Commit(u, k) ==
  /\ jobs[u][k].pc = "session1"
  /\ powerState' = [powerState EXCEPT ![u] = jobs[u][k].to]
  /\ pendingAt' = [pendingAt EXCEPT ![u] = None]
  /\ jobs' = [jobs EXCEPT ![u][k].pc = "send",
                          ![u][k].notify = @ /\ (jobs[u][k].orphan \/ cool[u] = 0)]
  /\ UNCHANGED <<memVars, loopVars, flushVars, active, saved, recent, ghostVars, budget>>

Session1Fail(u, k) ==
  /\ jobs[u][k].pc = "session1"
  /\ Fails
  /\ \/ jobs' = [jobs EXCEPT ![u][k] = IdleJob]
     \/ jobs' = [jobs EXCEPT ![u][k].pc = "send",
                             ![u][k].notify = @ /\ (jobs[u][k].orphan \/ cool[u] = 0)]
  /\ UNCHANGED <<memVars, loopVars, flushVars, dbVars, ghostVars>>

\* Mutant: the cooldown is counted from the send, not from the handler's start.
StampAtSend(u, k) ==
  cool' = IF jobs[u][k].orphan THEN cool ELSE [cool EXCEPT ![u] = Cooldown]

\* last_notification_at is set in the entry the handler holds.
Stamp(u, k) ==
  cool' = IF jobs[u][k].orphan THEN cool ELSE [cool EXCEPT ![u] = jobs[u][k].stamp]

\* The message is sent, or sending it fails and is logged.
Send(u, k) ==
  /\ jobs[u][k].pc = "send" /\ jobs[u][k].notify
  /\ \/ notified' = [notified EXCEPT ![u] = jobs[u][k].to] /\ UNCHANGED budget
     \/ Spend("sendError") /\ UNCHANGED notified
  /\ Stamp(u, k)
  /\ dirty' = dirty \cup {u}
  /\ jobs' = [jobs EXCEPT ![u][k].pc = "session2"]
  /\ UNCHANGED <<current, pending, debounceTask, loopVars, flushVars, dbVars>>

\* Telegram answers Forbidden: the user is deactivated, nothing else is sent.
SendForbidden(u, k) ==
  /\ jobs[u][k].pc = "send" /\ jobs[u][k].notify
  /\ Spend("blocked")
  /\ active' = active \ {u}
  /\ Stamp(u, k)
  /\ dirty' = dirty \cup {u}
  /\ jobs' = [jobs EXCEPT ![u][k] = IdleJob]
  /\ UNCHANGED <<current, pending, debounceTask, loopVars, flushVars, powerState,
                 pendingAt, saved, recent, ghostVars>>

SkipSend(u, k) ==
  /\ jobs[u][k].pc = "send" /\ ~ jobs[u][k].notify
  /\ jobs' = [jobs EXCEPT ![u][k].pc = "session2"]
  /\ UNCHANGED <<memVars, loopVars, flushVars, dbVars, ghostVars, budget>>

\* Session 2 stores message ids; the last_stable_* bookkeeping marks u dirty.
Finish(u, k) ==
  /\ jobs[u][k].pc = "session2"
  /\ dirty' = dirty \cup {u}
  /\ jobs' = [jobs EXCEPT ![u][k] = IdleJob]
  /\ UNCHANGED <<current, pending, debounceTask, cool, loopVars, flushVars, dbVars,
                 ghostVars, budget>>

\* wait_for cancels the handler; only _confirm_state has such a limit.
HandlerTimeout(u, k) ==
  /\ jobs[u][k].pc \in HandlerPcs
  /\ ~ jobs[u][k].restored /\ jobs[u][k].left = 0
  /\ Spend("handlerTimeout")
  /\ jobs' = [jobs EXCEPT ![u][k] = IdleJob]
  /\ UNCHANGED <<memVars, loopVars, flushVars, dbVars, ghostVars>>

Limited(j) == j.pc = "sleep" \/ (j.pc \in HandlerPcs /\ ~ j.restored)

Tick ==
  /\ mode # "down"
  /\ \A u \in Users, k \in Slots : Limited(jobs[u][k]) => jobs[u][k].left > 0
  /\ jobs' = [u \in Users |-> [k \in Slots |->
                [jobs[u][k] EXCEPT !.left = Dec(@), !.stamp = Dec(@)]]]
  /\ cool' = [u \in Users |-> Dec(cool[u])]
  /\ UNCHANGED <<current, pending, debounceTask, dirty, loopVars, flushVars, dbVars,
                 ghostVars, budget>>
-----------------------------------------------------------------------------
(* Write-behind: _save_all_user_states                                     *)

\* The rows of the dirty ids that still have an entry.
Snapshot == [u \in Users |-> IF u \in dirty \cap Present THEN EntryRow(u) ELSE None]

\* Nothing dirty, or only ids without an entry: the flush returns at once.
FlushStarts(f) ==
  /\ dirty \cap Present # {}
  /\ flushPc[f] = "idle"
  /\ flushPc' = [flushPc EXCEPT ![f] = "write"]
  /\ flushIds' = [flushIds EXCEPT ![f] = dirty]
  /\ flushRows' = [flushRows EXCEPT ![f] = Snapshot]

FlushEnds(f) ==
  /\ flushPc' = [flushPc EXCEPT ![f] = "idle"]
  /\ flushIds' = [flushIds EXCEPT ![f] = {}]
  /\ flushRows' = [flushRows EXCEPT ![f] = NoRows]

\* After a check the loop flushes if the last flush is a minute ago.
FlushBegin ==
  /\ loop = "checked"
  /\ loop' = "flushing"
  /\ FlushStarts("loop")
  /\ UNCHANGED <<memVars, jobs, mode, chk, chkTo, loaded, dbVars, ghostVars, budget>>

FlushSkip ==
  /\ loop = "checked"
  /\ loop' = "sleeping"
  /\ UNCHANGED <<memVars, jobs, mode, chk, chkTo, loaded, flushVars, dbVars, ghostVars, budget>>

\* The loop goes on when its own flush is done.
LoopAfter(f) == loop' = IF f = "loop" THEN "sleeping" ELSE loop

\* ON CONFLICT DO UPDATE sets the listed columns only: updated_at is the time of
\* the first insert.
FlushCommit(f) ==
  /\ flushPc[f] = "write"
  /\ LET rows == flushRows[f]
         written == {u \in Users : rows[u] # None}
     IN
     /\ saved' = [u \in Users |-> IF u \in written THEN rows[u] ELSE saved[u]]
     /\ recent' = recent \cup {u \in written : saved[u] = None}
  /\ flushPc' = [flushPc EXCEPT ![f] = "clear"]
  /\ UNCHANGED <<memVars, jobs, loopVars, flushIds, flushRows, active, powerState,
                 pendingAt, notified, budget>>

\* A failed upsert leaves the ids dirty for the next flush.
FlushFail(f) ==
  /\ flushPc[f] = "write"
  /\ Fails
  /\ FlushEnds(f)
  /\ LoopAfter(f)
  /\ UNCHANGED <<memVars, jobs, mode, chk, chkTo, loaded, dbVars, ghostVars>>

FlushClear(f) ==
  /\ flushPc[f] = "clear"
  /\ dirty' = dirty \ flushIds[f]
  /\ FlushEnds(f)
  /\ LoopAfter(f)
  /\ UNCHANGED <<current, pending, debounceTask, cool, jobs, mode, chk, chkTo,
                 loaded, dbVars, ghostVars, budget>>
-----------------------------------------------------------------------------
(* Shutdown, crash and restart                                             *)

\* on_shutdown calls save_states_on_shutdown first ...
ShutdownSave ==
  /\ mode = "up"
  /\ Spend("shutdown")
  /\ mode' = "saving"
  /\ \/ FlushStarts("shutdown")
     \/ dirty \cap Present = {} /\ UNCHANGED flushVars
  /\ UNCHANGED <<memVars, jobs, loop, chk, chkTo, loaded, dbVars, ghostVars>>

\* ... and then stop_power_monitor, when the flush is done or timed out; the
\* cancelled tasks stay in their entries as finished tasks.
StopMonitor ==
  /\ mode = "saving"
  /\ \/ flushPc["shutdown"] = "idle" /\ UNCHANGED budget
     \/ flushPc["shutdown"] # "idle" /\ Fails
  /\ mode' = "stopped"
  /\ jobs' = [u \in Users |-> Cancelled(u)]
  /\ debounceTask' = [u \in Users |-> None]
  /\ FlushEnds("shutdown")
  /\ UNCHANGED <<current, pending, cool, dirty, loop, chk, chkTo, loaded, dbVars, ghostVars>>

\* Everything in memory is gone.
ProcessEnds ==
  /\ mode' = "down"
  /\ current' = [u \in Users |-> None]
  /\ pending' = [u \in Users |-> None]
  /\ debounceTask' = [u \in Users |-> None]
  /\ cool' = [u \in Users |-> 0]
  /\ dirty' = {}
  /\ jobs' = [u \in Users |-> [k \in Slots |-> IdleJob]]
  /\ loop' = "sleeping"
  /\ chk' = [u \in Users |-> "out"]
  /\ chkTo' = [u \in Users |-> None]
  /\ loaded' = [u \in Users |-> None]
  /\ flushPc' = [f \in Flushers |-> "idle"]
  /\ flushIds' = [f \in Flushers |-> {}]
  /\ flushRows' = [f \in Flushers |-> NoRows]
  /\ UNCHANGED <<dbVars, ghostVars>>

Crash == mode \in {"up", "saving"} /\ Spend("crash") /\ ProcessEnds

Exit == mode = "stopped" /\ ProcessEnds /\ UNCHANGED budget

\* Mutant: no timer is restarted.
NotWaiting == {}

\* Restored entries whose candidate needs a new timer.
Waiting == {u \in recent : saved[u].pending # None}

\* _restore_user_states, then _restart_pending_debounce_tasks: nothing else of
\* the monitor runs before they end.  The time already waited is not known; a
\* setting of 0 is not raised to the minimum here.
Boot ==
  /\ mode = "down"
  /\ mode' = "up"
  /\ current' = [u \in Users |-> IF u \in recent THEN saved[u].current ELSE None]
  /\ pending' = [u \in Users |-> IF u \in recent THEN saved[u].pending ELSE None]
  /\ \E c \in [Users -> 0..Cooldown] :
       /\ \A u \in Users : c[u] <= (IF u \in recent THEN saved[u].cool ELSE 0)
       /\ cool' = c
  /\ \E k \in Slots, d \in Settings : \E left \in [Users -> 0..d] :
       /\ debounceTask' = [u \in Users |-> IF u \in Waiting THEN k ELSE None]
       /\ jobs' = [u \in Users |->
                    IF u \in Waiting
                    THEN [jobs[u] EXCEPT ![k] = SleepingJob(saved[u].pending, TRUE, left[u])]
                    ELSE jobs[u]]
  /\ UNCHANGED <<dirty, loop, chk, chkTo, loaded, flushVars, dbVars, ghostVars, budget>>
-----------------------------------------------------------------------------
(* The environment                                                         *)

\* Handlers switch a user's monitoring on or off: the IP address is set or
\* removed, the user is activated or deactivated.
Toggle(u) ==
  /\ Spend("toggle")
  /\ active' = IF u \in active THEN active \ {u} ELSE active \cup {u}
  /\ UNCHANGED <<memVars, jobs, loopVars, flushVars, powerState, pendingAt, saved,
                 recent, ghostVars>>

\* The row of u was inserted an hour ago.
HourPasses(u) ==
  /\ u \in recent
  /\ Spend("hour")
  /\ recent' = recent \ {u}
  /\ UNCHANGED <<memVars, jobs, loopVars, flushVars, active, powerState, pendingAt,
                 saved, notified>>

Check(u) ==
  \/ FirstCheckRestore(u)
  \/ \E s \in States :
       \/ FirstCheckSeed(u, s) \/ CheckUnchanged(u, s) \/ CheckFlapBack(u, s)
       \/ CheckAlreadyWaiting(u, s) \/ CheckNewPending(u, s)
  \/ SeedWrite(u) \/ ClearWrite(u) \/ PersistPending(u) \/ CreateTimer(u)

Run(u, k) ==
  \/ Confirm(u, k) \/ Session1Commit(u, k) \/ Session1Fail(u, k)
  \/ Send(u, k) \/ SendForbidden(u, k) \/ SkipSend(u, k) \/ Finish(u, k)
  \/ HandlerTimeout(u, k)

Next ==
  \/ StartCycle \/ EmptyCycle \/ EndCycle \/ CycleTimeout
  \/ \E u \in Users : Check(u)
  \/ \E u \in Users, k \in Slots : Run(u, k)
  \/ Tick
  \/ FlushBegin \/ FlushSkip
  \/ \E f \in Flushers : FlushCommit(f) \/ FlushFail(f) \/ FlushClear(f)
  \/ ShutdownSave \/ StopMonitor \/ Crash \/ Exit \/ Boot
  \/ \E u \in Users : Toggle(u) \/ HourPasses(u)

Spec == Init /\ [][Next]_vars

\* The loop sleeps and checks for ever, every coroutine that can go on is run,
\* and the clock advances; failures and the environment owe nothing.
Fairness ==
  /\ WF_vars(StartCycle) /\ WF_vars(EmptyCycle) /\ WF_vars(EndCycle)
  /\ WF_vars(FlushBegin \/ FlushSkip) /\ WF_vars(Tick)
  /\ \A u \in Users : WF_vars(Check(u))
  /\ \A u \in Users, k \in Slots : WF_vars(Run(u, k))
  /\ \A f \in Flushers : WF_vars(FlushCommit(f)) /\ WF_vars(FlushClear(f))

FairSpec == Spec /\ Fairness
-----------------------------------------------------------------------------
(* Properties                                                              *)

JobType ==
  [pc : {"idle", "sleep"} \cup HandlerPcs, to : States \cup {None},
   restored : BOOLEAN, orphan : BOOLEAN, notify : BOOLEAN, left : Nat, stamp : 0..Cooldown]

RowType == [current : States, pending : States \cup {None}, cool : 0..Cooldown]

MemTypeOK ==
  /\ current \in [Users -> States \cup {None}]
  /\ pending \in [Users -> States \cup {None}]
  /\ debounceTask \in [Users -> Slots \cup {None}]
  /\ cool \in [Users -> 0..Cooldown]
  /\ dirty \subseteq Users

LoopTypeOK ==
  /\ mode \in {"up", "saving", "stopped", "down"}
  /\ loop \in {"sleeping", "checking", "checked", "flushing"}
  /\ chk \in [Users -> {"out", "todo", "seed", "clear", "persist", "timer"}]
  /\ chkTo \in [Users -> States \cup {None}]
  /\ loaded \in [Users -> States \cup {None}]

FlushTypeOK ==
  /\ flushPc \in [Flushers -> {"idle", "write", "clear"}]
  /\ flushIds \in [Flushers -> SUBSET Users]
  /\ flushRows \in [Flushers -> [Users -> RowType \cup {None}]]

DbTypeOK ==
  /\ active \subseteq Users
  /\ powerState \in [Users -> States \cup {None}]
  /\ pendingAt \in [Users -> States \cup {None}]
  /\ saved \in [Users -> RowType \cup {None}]
  /\ recent \subseteq Users

\* The variables keep the shapes the code gives them; in particular the rows a
\* flush writes and a restart reads are complete ones, of entries with a state.
TypeOK ==
  /\ MemTypeOK
  /\ jobs \in [Users -> [Slots -> JobType]]
  /\ LoopTypeOK
  /\ FlushTypeOK
  /\ DbTypeOK
  /\ notified \in [Users -> States \cup {None}]
  /\ budget \in [Events -> Nat]

\* _confirm_state writes its entry without looking at it.  That is sound only if,
\* as long as a task sleeps, its entry exists, refers to it, and still observes
\* the state the task will confirm, which is not the confirmed one: every check,
\* eviction, flap and restart has to keep this.
TimerGuardsCandidate ==
  \A u \in Users, k \in Slots : jobs[u][k].pc = "sleep" =>
    /\ debounceTask[u] = k
    /\ pending[u] = jobs[u][k].to
    /\ current[u] \in States \ {jobs[u][k].to}
    /\ ~ jobs[u][k].orphan

\* Two handlers of one user never run at once (the restored ones, which have no
\* timeout, aside): the shortest stabilisation outlasts the longest handler, so
\* "off" and "on" messages of a flapping line keep their order.
OneHandlerPerUser ==
  \A u \in Users : \A k, l \in Slots :
    /\ jobs[u][k].pc \in HandlerPcs /\ ~ jobs[u][k].restored
    /\ jobs[u][l].pc \in HandlerPcs /\ ~ jobs[u][l].restored
    => k = l

\* Nothing has failed or been cut short, and nobody left, yet.
Calm == budget["calm"] > 0

\* No session is under way that will change what users and database are told.
Quiet(u) ==
  /\ current[u] # None
  /\ chk[u] # "seed"
  /\ \A k \in Slots : jobs[u][k].pc \notin {"session1", "send"}

\* When every session succeeds, power_tracking agrees with the confirmed state in
\* memory as soon as no handler is on its way to the database.
DatabaseAgrees == Calm => \A u \in Users : Quiet(u) => powerState[u] = current[u]

\* When every send succeeds and stabilising takes at least the cooldown, what a
\* user who has not blocked the bot was told last is the confirmed state: the
\* cooldown swallows no message for good.
LastMessageIsTrue ==
  Calm => \A u \in active : Quiet(u) /\ notified[u] # None => notified[u] = current[u]

\* power_history never gets two events of one type in a row: session 1 is only
\* reached with a state the database does not have yet.
HistoryAlternates ==
  [][Calm => \A u \in Users, k \in Slots :
       Session1Commit(u, k) => powerState[u] # jobs[u][k].to]_vars

\* After the eviction of a cycle no timer is left for a user who is not active
\* any more: such a user is not told of a change seen before the deactivation.
EvictionStopsTimers ==
  [][StartCycle => \A u \in Users \ active, k \in Slots :
       jobs'[u][k].pc # "sleep"]_vars

\* "Already waiting for this new state": a check that leaves a candidate alone
\* does so because a timer is running for it.
AlreadyWaitingHasTimer ==
  [][\A u \in Users, s \in States :
       CheckAlreadyWaiting(u, s) => debounceTask[u] # None]_vars

\* A restored entry never waits for the state it already has: rows are snapshots
\* of an entry, whichever flush wrote them last.
RowsAreSnapshots ==
  /\ \A u \in Users : saved[u] # None => saved[u].pending # saved[u].current
  /\ recent \subseteq {u \in Users : saved[u] # None}

\* Every candidate is confirmed or dropped; none is observed for ever.
CandidatesResolve ==
  \A u \in Users, s \in States : pending[u] = s ~> pending[u] # s

\* The monitor implements the debounced power state of one timer per user.
TimeLeft ==
  [u \in Users |-> IF debounceTask[u] = None THEN None
                   ELSE jobs[u][debounceTask[u]].left]

Debounced == INSTANCE DebouncedPower WITH
  conf <- current, cand <- pending, left <- TimeLeft, Waits <- Waits

ImplementsDebouncedPower == Debounced!Spec
=============================================================================
