# Voltyk bot: a TLA+ model

Voltyk is a Telegram bot, one asyncio process over Postgres, optional Redis and a
public repository of outage schedules.  It tells users when the schedule of
their region and queue changes, reminds them of outages, watches the IP address
of their router to tell when the power is on, and posts all of this to a channel
of theirs.  This directory models the parts of it where the order of steps
matters, checks them with TLC on small instances and proves the most important
properties with TLAPS.

## Inventory

| component | state | operations | hard because |
|---|---|---|---|
| power monitor (`services/power_monitor.py`) | `_user_states`, `_dirty_states`, tasks; tables `user_power_tracking`, `user_power_states`, `power_history` | check cycle, debounce task, handler, flush, shutdown, restore | a task acts on an entry that checks, evictions, flaps and restarts change; write-behind; timeouts that cancel in the middle |
| ping-error alerts (same file) | `ping_error_alerts` | daily pass | reads, pings, sends and stamps in separate sessions, beside the handlers of the address |
| schedule checker and 06:00 flush (`services/scheduler.py`) | last commit, `schedule_checks.last_hash`, `daily_snapshots`, `pending_notifications` | check of all queues, flush, retry | two loops and several replicas around an advisory lock and a process lock; hash written before the messages go out |
| reminders (same file) | `sent_reminders`, message ids | checker, catch-up, clean-up | check, send and mark are three steps, of two loops |
| source client and caches (`services/api.py`, `chart_cache.py`) | commit id, region cache, date cache, charts in memory and in Redis | poll, fetch, conditional request, draw, store | answers overtake each other, stale entries, keys that depend on two dates |
| circuit breaker, rate limiter (`utils/`) | state, counters, tokens | call, acquire | concurrent calls across awaits, a sleep under the lock |
| message clean-up (`services/auto_cleanup.py`, middleware) | `auto_delete_queue` | enqueue, worker pass | two replicas, row locks, a pass that is killed before its commit |
| channel connection (`handlers/chat_member.py`, `handlers/channel/`) | pending channel, `user_channel_config`, FSM | membership event, connect, replace, name, disconnect, pause | two users and one channel; state read before a Telegram call and used after |
| users (`handlers/start.py`, `handlers/settings/`) | FSM, `users` and its settings rows | wizard, region, IP, alerts, deletion | old buttons, presses that overlap, a row deleted and made anew |
| sessions and middlewares (`db/session.py`, `middlewares/`) | transaction, throttle map, maintenance copy | per update | unit of work: what was loaded, what differs, commit after the handler |
| broadcast (`handlers/admin/broadcast.py`) | FSM data, one task | compose, confirm, page, cancel | one task at a time, a cursor among people who come and go |
| admin panel (`handlers/admin/`) | `settings`, copies in the process, `pause_log` | switches, texts, intervals | a copy and its row |
| life cycle (`app.py`, `utils/heartbeat.py`) | supervised tasks, flags, heartbeats | start, back-off, shutdown, notices | order of shutdown, a loop that dies meanwhile |
| parsing and formatting, charts, keyboards, configuration, tickets, migrations | none that steps of two actors share | | |

Components share the database, the module-level dictionaries and the Telegram
client.  The loops of `app.py` run beside the update handlers in one event loop:
code between two awaits is atomic, everything else interleaves.

What makes each correct: the monitor confirms a state only after it was stable
for its time and tells each confirmed change once; the checker tells each change
of a schedule once, by day or at 06:00; a reminder is sent once for an event; a
warning about the router comes once a day; a channel belongs to one user, who
added the bot to it; a wizard's step finds its data; a profile that is deleted
leaves nothing to the next; no answer of the source is older than its TTL and a
source whose calls fail is spared; sends are paced; the loops stop when they are
told; what the process goes by is what is stored; a broadcast reaches everybody
once and stops when told; a message to be deleted stays queued until it is.

`PROJECT.json` lists the components with their status and the hazards with their
lines.

## Modules

Six compositions, each with one `MC` module:

| composition | made of | proofs |
|---|---|---|
| `PowerMonitor` | implements `DebouncedPower`, the abstract specification: per user a confirmed state, a candidate, and what is left of its stabilisation time | `PowerMonitorProofs`, `PowerMonitorRefinement` |
| `ScheduleNotify` | checker, 06:00 flush and their locks, in several replicas | `ScheduleNotifyProofs` |
| `Reminders` | reminder checker, catch-up, deletion of old reminders | `RemindersProofs` |
| `UserHandlers` | `Sessions` (middleware and unit of work), `Accounts` (wizard, settings, address, daily alerts), `ChannelLinks` (channels) | `UserHandlersProofs` |
| `BotProcess` | `Lifecycle` (start, loops, shutdown), `AdminPanel` (settings and copies), `Broadcast`, `AutoDelete` | `BotProcessProofs` |
| `SourceClient` | `Gates` (throttle and cooldown of refreshes), `CircuitBreaker`, `SourceCache` (files and dates), `ChartCache` (pictures), `RateLimiter` | `SourceClientProofs`, `BreakerProofs` |

Each `MC` module defines the budgets of events, called scenes where one run
starts from any of several: a behaviour takes its scene at the start and may use
up what it names.  Events with no entry cannot happen in that scene.

### PowerMonitor

An action is the code between two awaits.  `_user_states_lock` is never held
across an await, so a section under it belongs to the action it is in.

| code | model |
|---|---|
| `_user_states[u]` | `current`, `pending`, `debounceTask`, `cool` (what is left of the cooldown since `last_notification_at`) |
| a debounce task and the handler it calls | `jobs[u][k]`: `sleep`, then `session1`, `send`, `session2`; `left` is the time to the end of its sleep or of `wait_for` |
| `_check_all_ips` | `StartCycle` (load, eviction) or `EmptyCycle`, the checks, `EndCycle`; `CycleTimeout` is the `wait_for` of the loop |
| `_check_user_power` | one action per branch up to its first await, then `SeedWrite`, `ClearWrite`, `PersistPending`, `CreateTimer` |
| `_confirm_state`, `_confirm_restored` | `Confirm`; `HandlerTimeout` only for the former, only it has a limit |
| `_handle_power_state_change` | `Session1Commit` or `Session1Fail`, `Send`, `SendForbidden` or `SkipSend`, `Finish` |
| `_save_all_user_states` | `FlushBegin`/`FlushSkip`, `FlushCommit` or `FlushFail`, `FlushClear`, once for the loop and once for the shutdown |
| `on_shutdown`, a killed process, start | `ShutdownSave`, `StopMonitor`, `Exit`; `Crash`; `Boot` |
| handlers that set the IP, block, reactivate | `Toggle` |

Time is counted in ticks, and a tick passes only when no timer is due, the order
in which asyncio runs its timers.  A ping is an input of the check.  The text of
messages, metrics and history lengths are left out, and so are the switches and
the channel guards that `Send` asks (`power_monitor.py:437-442`, 461-468): whoever
is to be told has his notices on.  The eviction of users not pinged for 48 h is the
same as that of inactive ones and is not a separate action.  The entry of a user
blocked during the handler stays, as in the code. `OthersActive` fills the map of
states with users the model does not name, which makes the cap bite with one user.

### ScheduleNotify

| code | model |
|---|---|
| `schedule_checker_loop`, `daily_flush_loop` | the jobs `<<r, "checker">>` and `<<r, "flush">>` of replica `r`, with program counter and locals in `loc` |
| `check_source_repo_updated`, `_save_commit_state`, restart | `PollNew`, `PollSame`, `PollError`; `SaveCommitState`; `Crash` |
| `_scheduler_advisory_lock` | `LockTaken`, `LockBusy`, `LockUnsupported` (its `except`); given back by `Leave`, `Purge`, `Crash` |
| `_notify_lock` | `TakeNotifyLock`, `Leave`, `FlushEnd` |
| `_check_single_queue` | `NoData` or `ReadState` (fetch, read session, decision), then `WriteSame`, or `WriteChange`, `SendChange`, `MarkSent` |
| `_flush_pending_notifications_locked` | `FlushCollect`, `FlushPending` or `FlushFresh`, `FlushSend`, `FlushCommit`, `FlushEnd`, `Purge` |
| `schedule_checks`, `schedule_daily_snapshots`, `pending_notifications` | `stored`, `snap`, `pend` (only the latest pending row is ever read) |
| the messages | `told` (the schedule of the last one, a history variable) |

A schedule is a function from dates to outages, and its hash is the schedule
itself: the hash of the code covers start and end of every event, so equal hashes
are equal schedules.  The dates move: at midnight yesterday's tomorrow becomes
today, which is what the snapshots are for.  A fetch returns what is published or
nothing: the stale file that an open breaker yields, also to a fetch that insists
(`api.py:331-339`, 401-405), is in `SourceClient` and not here.  Each queue is its
own region.  A message to the users of a queue is one step.  The ETag is not
separated from the SHA.  The texts, the lists of added and removed events, the
charts and the edit of power messages after a change are left out.

### Reminders

| code | model |
|---|---|
| `reminder_checker_loop`, `catch_up_missed_reminders` | the jobs `<<r, "checker">>` and `<<r, "catchup">>`, with program counter and locals in `loc` |
| the quiet hours, the anchors of passed events | `SkipQuiet`; `StartCycle`, whose users are `PassedAnchors` |
| `find_next_event`, the users of the pair | `ReadEvent`: the next start or end of an outage, what is due (`Due`, a window of three minutes) or was missed (`Missed`) |
| `check_reminders_sent_batch`, then `_send_reminder` for each user, then `mark_reminder_sent` | `CheckSent`; `DeleteMessages`, `ForgetIds`, `SendReminder`/`SendFails`/`SendForbidden`, `SaveIds`; `SendsDone`, `Mark` |
| `_delete_reminder_messages` | `DeleteMessages` (reads the ids, deletes), `ForgetIds` (its session) |
| `sent_reminders`; `last_reminder_message_id`, `last_channel_reminder_message_id` | `marked`, and `latest`, the newest row; `tracked` |
| exceptions of a session or of the fetch | `GiveUp`; `Spend("dbError")` in the steps whose exception is caught on the spot |
| a killed process | `Crash`; after 06:00 its flush, and so its catch-up, waits for the next day |

The clock counts minutes; what happens in minute `c` happens after it has begun,
so that the minutes left to an event at `a` round to `a - c - 1`.  Leads are
scaled, the windows of one minute are not.  A minute passes when the cycle of the
minute is over; a slow call of Telegram or of the database holds a cycle up while
minutes pass (`slow`).  A mishap is counted by chat, so an attempt that fails at
two chats takes two of the budget; a catch-up begins in the first minutes after
the night, where the flush that calls it may retry for longer.  A fetch returns
what is published or nothing.  All users have one region and queue; pairs share
only the order they are worked on in. Left out: the purge of rows after 48 h, the
texts, the messages to administrators about tickets.

### UserHandlers

| code | model |
|---|---|
| `DbSessionMiddleware`, `FSMContext` | a handler `loc[h]`: it loads and decides in its first action, then `Flush` (takes the row's lock), `Answer` (the conversation in Redis), `Commit` (the columns that differ from what was loaded) or `Fail` (rollback) |
| `users` and its four settings tables | `row[u]`, a record of columns, `None` without a row; `id` is the primary key, new in each life of the profile |
| `PendingChannel`, `PingErrorAlert` | `pending[c]`; `alert[u]` |
| the handlers of `start.py`, `settings/`, `channel/` | one action each, of the handler's name; those that differ in a column only (`notif_*`, `ch_notif_*`, format switches) share one with the column as input |
| `on_my_chat_member` | `Hear`, of the first of Telegram's `updates`; `HandleBotAdded`, `HandleBotRemoved` |
| `_send_daily_ping_error_alerts` | `DailyRead` (the page), then per user `DailyAlive`/`DailyDrop`/`DailySend`/`DailyForbidden` and `DailyStamp`; `DailyDone` |

A query reads the row and the conversation at one instant, when the handler
begins; the statements of a session take effect at its commit, except that a
flush waits for and holds the row's lock.  A commit whose row is gone fails
(`StaleDataError`), one that inserts a second row too (`Fits`).  A row that is
inserted takes its number from the sequence when it is flushed, and the number is
used up even if the insert is rolled back (`Numbered`).  Handlers that
change nothing but a page are left out, and so are the ids of the last messages
and the title and description that the first conversation about a channel stores
(`conversation.py:33-35`): of `HandleTitle` and its like only the state is left.
`other` and `chOther` stand for the columns that no property tells apart.
`touched` and `switchedOff` are history: whose present row a handler has seen, and
whose deactivate_user has switched off.

### BotProcess

| code | model |
|---|---|
| `on_startup` | `Boot` (migrations, `get_me`, modes), `AskNotice` and `SendNotice`, `Spawn` |
| `_bg`, `_restart_with_backoff`, `heartbeat` | `Beat`, `LoopEnds`, `LoopFails`, `LoopRestarts`; the first line of a loop puts its module's flag `go` up |
| `on_shutdown` | `Shutdown`, notice, `StopLoops`, `CancelLoops` (after 10 s), `Close` |
| a killed process, the owner's restart (`sys.exit`) | `Kill` |
| `set_setting`, `get_setting` | `Writes`, `Setting`: the row, or what the caller takes for a missing one |
| modes of charts and buttons, maintenance mode | `live`, the copies; `Reloaded` at the start; written after the commit (`SetChartRender`, `AdminButtonEmojiSet`) or before it (`Persist`, the maintenance mode) |
| `_run_broadcast` | a task: `ReadPage`, `Pick`, `Deliver`/`RetryAfter`/`Refused`, `Deactivate`, `PageDone`, `Summary` or `Interrupt` |
| `broadcast_confirm_send` | `ConfirmSend` (the check under the lock), `ConfirmClear` (an await later, the flag), `ConfirmCreate` |
| `auto_cleanup_loop` of this process and of another replica | `Claim` (`SKIP LOCKED`), `TryDelete`, `CommitDeletes` or `RollBack` |
| middlewares that queue messages | `Say`; `QueueMessage`: `Enqueue` (an upsert that keeps the earlier time, and the owner) or `NotQueued` |
| `auto_delete_queue.user_id`, `ON DELETE CASCADE` | `owner`; `Cascade`, with every step that changes `rows`; `orphans` is history, the messages whose rows went so |

Each message is in the chat of a user who has a row at the start (`Chat`); when it
is deleted, a row he makes later is his again (`ProfilesOf`).  Ticks are scaled: one
is a round of the fast loops.  The pause log is ordered by
the start of the transactions (`now()` of Postgres), so presses that overlap are
exempt from what is said of it.  `safe_edit_text` at the end of `ConfirmClear`
always returns: if it raised (`broadcast.py:118`), no task would be made.

### SourceClient

| code | model |
|---|---|
| versions of the file in the repository | `head`, a number; `was[t]`, the number at time `t` |
| a request of the checker, a reader or a button | `ask[c]`, with what it has learnt; `stage` says who asks |
| `fetch_schedule_data`, `_do_fetch` | `Fetch` (cache, breaker), `Serve` (the source answers, with the version of that moment), `Arrive` (parse, stamp, store); `LimitedFetch` and `EndLimited` for the callers inside a `wait_for`, the 06:00 flush and the handler of the power monitor |
| `get_queue_source_updated_at` | `AskDate`, `Unmodified` (304), `DateAnswer` |
| `fetch_schedule_image`, `chart_cache` | `Show` (the key), `LookInMemory`, `LookInRedis`, `Draw` or `GitHubImage`, `Keep` |
| `_check_single_queue`, `_prerender_chart` | `Compare`, `Prerender`, then the notification, which asks for the picture as a reader does |
| `CircuitBreaker.call`, `_on_success`, `_on_failure` | `BeginCall`, `Succeed`, `FailCall`; `CutCall`, when the caller cancels it |
| `TokenBucketRateLimiter.acquire` | `Acquire` up to its sleep, `Awake`; `wakeAt` is who sleeps with the lock |
| `ThrottleMiddleware`, `schedule_check` | `Throttle`; `Cool`, `Marked`, `Uncool`, with their evictions |
| | history: `handled` and `begun`, when a press and a refresh of a user were last let through, and `failed`, whose refresh has failed since |

One region and one queue.  The retries of a request are one step, and so are the
stores of a picture in memory and in Redis.  Of the two throttles of
`app.py:384-385`, one for messages and one for buttons with maps of their own, one
is modelled.  `update_rate` of the limiter is never called by the bot.

## Runs

| run | question | answer |
|---|---|---|
| `power` | crash, shutdown, failing database, eviction, cap, cycles and handlers cut off: does a timer or a second handler survive its entry, are saved rows consistent, is the abstract machine implemented? | no; yes; yes |
| `power_live` | do database, last message and history agree with the confirmed state, and is every candidate confirmed or dropped? | yes, if no cycle is cut off |
| `waits_forever` | `power_monitor.py:628` "Already waiting" | violated: a cycle cut off between setting the candidate and creating its task leaves it without one |
| `nights` | one process: is the hash the database holds what users were told or will be told at 06:00, and does each message name the change? | yes, without failures of the database |
| `replicas` | two replicas, commits, failing polls and fetches, failures of the database, retries, a crash: do two jobs get in, is a change sent twice? | no |
| `schedule_live` | does each schedule reach the users, and each queued message? | yes, without advisory locks and failures |
| `self_skip` | `scheduler.py:79` "Any same-process attempt just falls through" | violated: the flush skips its day because of the checker of its own process |
| `reminders` | with checker and catch-up and any two mishaps, is each reminder sent once, in time and by one message, do passed ones go and only those, is nothing missed by night? | yes, within what the properties assume |
| `user_handlers` | handlers of two users, two at a time, old buttons, deletions and failures: does every step find its data, does a switch stay whole, does anything of a deleted profile come back but its deactivation, does a channel have one owner, who added the bot, is a warning sent once a day? | yes, within what the properties assume |
| `process` | start, stop, kill, failing loops and administrators: do the loops stop, are copies what is stored, is one announcement on its way and reaches everybody once, is no queued message forgotten, are notices apart? | yes, but the deletion of a profile forgets its messages |
| `source` | requests that overtake each other, failures, callers that give up, full caches: is an answer recent, is a source whose calls fail spared, are presses apart, are sends paced? | yes, but calls that are cancelled spare nothing |
| `picture` | `scheduler.py:887` "Called immediately after a schedule change is detected and *before* notifications are sent so that every user in the blast receives the same pre-rendered image" | violated: the notification of a change may go out with the chart of the schedule before it |

`picture`: `_prerender_chart` stores the new chart under a fingerprint with the
date in the file; `fetch_schedule_image` (`api.py:550-558`) replaces that date by
the date of the last commit, which it may have read up to ten minutes ago, looks
under another key and finds the old chart.

The properties say what they assume.  `Calm` of `Reminders` is: no transaction,
deletion or process has failed, and checker and catch-up have not overlapped.
`RemindedInTime` allows for two lost minutes or attempts, what the window of three
minutes can make up for; `NothingMissedByNight` for none.  `mixed` of
`UserHandlers` and `crossed` of `BotProcess` and `SourceClient` are history
variables that say that two handlers, or two requests, have overlapped: what the
code promises only without that is stated as `mixed \/ ...`, and everything else
holds with overlaps.

### Known disagreements no run repeats

Met while modelling; most were counterexamples of TLC before their property was
given up for one the code keeps.

- `power_monitor.py:878` "no changes are silently dropped": `difference_update`
  at line 920 also removes an id that was dirty before the snapshot and was
  marked again during the upsert.
- `scheduler.py:431` "Only claim "today unchanged" when comparison actually
  succeeded": by night a change is compared with the snapshot the night's
  previous change has written.  After a change of today and then one of
  tomorrow, the flush sends the latter alone, and users read that today is
  unchanged.
- `scheduler.py:607` "No overnight changes": no pending row says only that no
  check has seen a change.  The flush sends fresh data as the day's plan and
  stores their hash, and the change is never announced as one.
- `scheduler.py:78-79` "to prevent cross-replica duplicate notification sends":
  replicas that reach the flush one after the other both send the day's plan.
- `power_monitor.py:928` rows "updated in the last hour": the upsert of
  `power.py:82-99` does not set `updated_at` of a row that exists, and the
  `onupdate` of the model is not applied by it, so an hour after a user's first
  row nothing of theirs is restored.
- `scheduler.py:675-676` "prevents double-sends when the regular checker fires
  around the same time": check, send and mark are three steps, and when the checker
  begins a round while the catch-up is in the same one, both send.
- `scheduler.py:668-669` "a 06:00 outage whose 15-min reminder was due at 05:45":
  at 06:00 the outage has begun and the next event is its end, so the example of
  the comment is one the catch-up never sends.
- `scheduler.py:1370` "Delete previous reminder before sending the new one": the
  messages of both chats are deleted, also when the new one goes to one of them or
  to none.
- `scheduler.py:88-90` "False when another replica holds it": the `except` of
  line 114 yields True for every error of the lock query, those of PostgreSQL
  included.
- `power.py:198` "when IP is deleted or ping succeeds": a ping that succeeds when
  an address is entered (`settings/ip.py:329`) leaves the alert of the old one
  active; the daily loop ends it later.
- `circuit_breaker.py:7` "one probe call allowed": half open lets every caller
  through until the first of them ends (line 85).  `FailingSourceIsSpared` counts a
  round of probes for that reason.
- `api.py:313-315` "When the upstream source has been failing repeatedly the circuit
  breaker opens": a failure is an exception.
  A call that its caller cancels ends in `CancelledError`, which `call` does not catch
  (`circuit_breaker.py:87`), and counts for nothing: when the source hangs, the 06:00
  flush and the handler of the power monitor, whose `wait_for` takes 30 s like the
  first attempt of the fetch, call it once each and open nothing.  An answer with a status
  of 500, or one that cannot be read, ends without an exception and closes the
  breaker.  `FailingSourceIsSpared` counts the first beside its bound and begins to
  count anew after the second.
- `auto_cleanup.py:20`, `models.py:222`: the rows of the queue go with the profile
  (`ON DELETE CASCADE`), and nobody deletes the messages they were for, the answer to
  the deletion itself, which finds no profile, included.  `NoneForgotten` exempts
  what was queued.
- `users.py:128-130`: `deactivate_user` finds the row by `telegram_id`, so one that was
  under way when the profile was deleted, or that follows Telegram's refusal of a
  message to the old one, switches off the profile made since.  `NewProfileIsNew`
  names it as the only step that does.
- `app.py:462-464` "so /health does not 503 on a healthy low-cadence loop", "~60s
  cadence": the panel offers intervals of 5 to 15 minutes for the checker, whose
  threshold stays at 300 s.
- `broadcast.py:220` "SIGTERM → on_shutdown cancels background tasks": the task of
  an announcement is not one of the tasks `on_shutdown` cancels; it goes on until
  the event loop is closed.  And its summary says "completed" after an error or an
  interruption, too; `EverybodyOnce` exempts both.
- `app.py:134-150`: the time of a notice is read and written without a lock; two
  replicas that start at once both send it.
- `button_emoji.py:69`, `set_chart_render`: of two presses that overlap the copy
  may be of one and the row of the other.
- `connect.py:147-150`: a replaced channel keeps `channel_paused` of the old one.
- `start.py:98`: the button of an old message starts a registration when
  registrations are closed (`cmd_start` asks, `create_new_profile` does not).
- `api.py:481`: a 304 stores the date that was read before the request: when two
  requests cross, the older date comes back for another TTL.

## Bounds

Power monitor.  One user, who shares with the others only the flush, the cycle
and the cap, for which `OthersActive` stands; the proofs cover any number.  Two
task slots are enough because a third task of one user needs two cancelled ones,
which are idle.  Settings are 0 (not raised to the minimum on a restart) and 1,
and in `power_live` a stabilisation as long as the cooldown: below that
`LastMessageIsTrue` is not promised by the code.  Each scene combines the
failures that act on the same state, one or two of each.

Schedules.  One queue: queues share only the cycle they are worked on in.  One
value of a day's outages, next to none, is what the comparisons of hashes tell
apart: a date gains outages, loses them, or both dates do.  Two replicas are the
least that can meet, one is enough for what a single process reads and writes;
two days have a midnight, a night and a flush, three (in `nights`) a day without a
check; three commits are a change, its
undoing and another change; failures and crashes have budgets.

Reminders.  One user: what two users share is the session of a round's check and
that of its mark, which the proof covers for any number.  Two chats; two leads;
fourteen minutes with an outage in the evening, a night of two minutes, and a
morning whose outage comes three minutes after the night, with one lead missed and
the other due, or five, with one lead missed and one to come.  The schedule may
change between the two.  Any two mishaps, of one kind or of two, are what
`RemindedInTime` allows for.  One night: the catch-up of a replica is made once,
and `OneNight` says so.  One replica: two checkers overlap as checker and
catch-up do.

User handlers.  Two handlers at a time, since a third meets the others only
through the same rows; two users only where they share something, which is a
channel; two regions whose queues differ; two addresses.  A scene is one part of
the bot with the deletion of a profile where it matters, because parts that write
different columns commute: the wizard (as many presses as it has steps, and one
more; three where handlers overlap), switches, a press around a deletion and a new
profile, the address with three passes of the daily loop, two users with two
channels (three presses, two where handlers overlap), the texts.  The press around
a deletion may be the deactivation, which then meets the new profile.

Process.  Three loops: one that sets its flag, beats often and works on the
database, one whose threshold is of its own, and the schedule's.  One restart
each, two administrators with two presses at a time, three people and one who
joins, pages of two, one retry, two messages and two replicas of the clean-up
with batches of one; and, for the cascade, a profile that goes and one that is made
while messages are shown and edited.

Source.  TTLs, reset and cooldown of two or three ticks: an entry can be fresh, at
its limit and past it. Two callers, who can cross; three users, one more than each
map of the gates holds, and a refresh that fails and is tried again; four images
asked for at most, two kept; seven requests, enough to open, to probe and to open
again with two on their way, four that are given up where the source hangs; a rate
limiter with half a token per tick, so that a sender sleeps past a refill.

## Fairness

`schedule_live`: the polls find what is new, a job that can go on is resumed, the
clock reaches midnight and 06:00.  Commits and failures are owed nothing.  The run
has no advisory lock, as in a single process on another backend: with it,
`self_skip` shows that a flush may be lost, and a checker that meets the lock has
already stored the commit it skips.

`power_live`: the loop sleeps and checks for ever, each coroutine that can go on is
resumed by the event loop, the clock advances.  Nothing is assumed of failures, of
the environment, of boots or of shutdowns.  It has no `cycleTimeout`:
`waits_forever` shows what one of them does.

The other compositions are checked for safety and for the absence of deadlock:
each has a step `Rest`, possible only when nothing in it waits, so a handler that
waits for a row for good, a request that is never answered or a sender that is
never woken is a deadlock.

## Proofs

`PowerMonitorProofs` proves, for every set of users, slots, settings and budget
that satisfies `PowerMonitorAssumption` (the constants are numbers, `None` is
none of the values, the minimum stabilisation is positive) and
`StabilizationAssumption` (a timer takes longer than the 30 s of a handler: the
least is 30 s too, but it is set later, by a check that awaits two sessions
first):

- `TypeCorrect`: the type invariant;
- `TimersGuardCandidates`: a sleeping task's entry exists, refers to it and
  observes the state it will confirm;
- `RowsStaySnapshots`: a saved row never waits for the state it has;
- `EvictionLeavesNoTimer`: no task of an inactive user survives `StartCycle`;
- `HandlersNeverMeet`: handlers of one user that his tasks run do not overlap;
- `DatabaseKeepsUp`, `EventsAlternate`: in a calm run the database holds the
  confirmed state of whoever's handler is not on its way to session 1, and events
  alternate;
- `MessagesEndTrue`: in a calm run the last message names the confirmed state.

None of these is inductive.  `IInv` adds what the code relies on and does not
say: between setting a candidate and creating its task the check finds the
candidate as it left it and no task; a task an entry refers to sleeps; checks run
inside a cycle; a process that is down has no task; rows on their way to the
database are snapshots too.  `InductiveInvariant` proves `IInv`; like the three
below it was first checked by TLC.

`HandlersInv`, for the handlers, is about time: what is left of a timer is more
than what is left of the handler that runs, and while one is about to begin its
first session no timer sleeps.  `CalmInv` is about what a check, a handler and the
database know of each other: without failures a handler finds in the database the
state before the one it confirms, since handlers do not meet.  `ToldInv` adds that
the cooldown of a user is over when his next timer is, so no message is left out.
The last three have hypotheses.  `CapHolds`: the users are no more than the
entries `_user_states` may have (`USER_STATES_MAX`, 200,000); an eviction by the
cap forgets a confirmed state.  `TimersCoolDown`, for the messages: no
stabilisation is shorter than the cooldown.  By default the one is 30 s at least
and the other 60 s, so for shorter stabilisations the code promises less: a
second change within the cooldown is not told, and the next cycle does not make
up for it.

`PowerMonitorRefinement` proves `ImplementsDebounced`: with `conf`, `cand` and
`left` read from the entry and its task, every step is, for every user, a step of
`DebouncedPower` or leaves it alone.  It uses `IInv` for the steps that act on a
task's behalf.

`ScheduleNotifyProofs` proves, for any replicas, queues, outages and bounds that
satisfy `ScheduleNotifyAssumption`:

- `ScheduleTypeCorrect`: the type invariant;
- `SendersExclude`: no two jobs work on the queues at once, of one process ever,
  of two as long as no lock query has failed;
- `HashStaysAnnounced`: in a calm run in which no lock query has failed, what the
  database takes for known was told or is queued for 06:00;
- `ChangesAreSentOnce`: under the same conditions no change is sent to users who
  were just told of it;
- `ChangesAreNamed`: when every lock query is answered (`LockAnswers`) each change
  message has the type of the change from what users were told last.

The types need that a job in the middle of a queue has a queue and a schedule
(`LocalsInv`).  Mutual exclusion follows from who holds what (`HoldersInv`): a job
inside holds `_notify_lock` of its process, and a job past the advisory lock holds
it unless its query was answered by an exception.

The last three follow from `TruthInv`.  A queue nobody works on is `Announced`;
a job in the middle of one knows what it read to be still so, since nobody else
writes (`CheckerTask`, `FlushTask`); a flush that is done leaves nothing queued,
so its purge, which runs outside `_notify_lock`, finds nothing.  The types need
the history of the snapshots (`SnapshotsFit`): the latest one is of the stored
schedule and covers all its outages, so on the first check of a day yesterday's
tomorrow is what users know of today, and nobody was told of tomorrow.  That
fails when a day passes without a snapshot (`Gap`, possible when the source was
silent for a day and its 06:00 flush was skipped or could not fetch): the check
of the day after sees no earlier snapshot and reports no change of today.  The
property leaves these messages out; `nights`, with three days, reaches them.

`RemindersProofs` proves, for any replicas, users, chats, leads, schedules and
budgets that satisfy `RemindersAssumption`:

- `RemindersTypeCorrect`: the type invariant;
- `RemindersAreSentOnce`: no chat gets a second reminder of one kind for one event,
  in a calm run;
- `OneReminderShown`: nor shows it two, and the one it shows is the one whose id is
  stored, but while `_send_reminder` stores it;
- `OnlyPassedAreCleaned`: the clean-up deletes reminders of passed events only;
- `PassedRemindersAreGone`: after a cycle no reminder is left whose event passed
  before the minutes that slow cycles took;
- `RemindedWithinWindow`: whatever takes two of the three minutes of the window, who
  wants the reminder gets it;
- `MorningMakesUp`: with `OneNight`, a catch-up that is over has left out nobody whose
  reminder was due by night.

The types need that a job has the event, lead and user its program counter speaks
of, that `find_next_event` finds a least time (the library's well-foundedness of
the numbers), and that histories are finite.  `ReminderSentOnce` follows from
`OnceInv`: one job works; what was sent has its row or is in the `mark` of the
round that sent it; whoever is still to be messaged in a round has neither.

The three properties of the chats follow from `ChatsInv`.  `ShownInv`: a chat shows
what is tracked, or nothing between a deletion and the next message, or what was
sent and is being saved.  `RowsInv`: the event of what is shown is that of the
newest row, or of the round whose `mark` waits for its row, so the anchor the
clean-up reads is the message's.  `AheadInv`: what is shown is ahead of the clock,
less the minutes that were slow, or the cycle at work still has its user to clean;
this is why a cycle that has ended leaves none behind.  `PassedRemindersGo` was
stated for a moment when all jobs rest, a minute later, on a day without a night
within reach; the invariant shows, and TLC confirms, that none of the three is
needed.

`RemindedInTime` follows from `PromptInv`, which counts.  While an event that is
known by day is to be announced to a user (`Expects`), as much has been lost as
minutes of the window have passed, and one more if the cycle of this minute is over
or has given the user up (`Tried`).  A job that works and has not given him up has
him before it (`Promised`), and keeps that promise with each step that loses
nothing (`PromiseKept`).  `NothingMissedByNight` follows the catch-up with the same
promise (`NightInv`): the event it reads is still the one that was next at dawn
(`SameAnchor`), and no second dawn comes after it began, which is `OneNight`: the
quiet hours modelled are one night, as a replica's catch-up is made once.

`SourceClientProofs` proves `SendsStayPaced`: no stretch of time gets more sends
than the burst and what comes back in it, for any senders, token, refill and
burst that satisfy `LimiterAssumption`.  That is not inductive: `LimiterInv` says
that what was sent ahead is missing from the bucket, what has come back since the
last refill counted in, that at most one sender sleeps, since it keeps the lock,
and that its token is there when it wakes, however late that is.

`AnswersStayRecent` is proved for any requests, TTLs and patience, from `AnswerInv`.
The history `was` never goes back (`Log`); a cached file is one the source has had
since the time it is stamped with (`Cached`), and what a request has been served is
one it has had since the request began (`Fine`), which is why a late answer stamped
with the time it was asked for does no harm.  The date has no such stamp: a 304
brings back the date that was read before the request.  `Dates` says that as long
as no two requests have crossed, the entry and the etag are of one version and a
request on its way has read both as they still are, so the 304 confirms the entry
that is there; its age is bounded by the TTL and the patience.  A cache entry is not
`None` (`CacheAssumption`).

`PressesStayApart` is proved for any users, requests, rate, cooldown and sizes of the
two maps, from `GateInv`: an entry of a map is the time of the user's last press (or
refresh), and where it is missing, that time is past the TTL (or cooldown), or more
have come since than the map keeps, or the refresh has failed.  The second case is
the point: when the oldest go, those who stay are younger (`OldestGo`), so all of
them count among those who came since.  The throttle keeps `MaxEntries` of them; the
cooldown evicts a tenth of its map at once, so a refresh may begin again after
`MaxChecks + 2 - Evicted` users, the two included, and not after `MaxChecks + 1`.
Proving it corrected two things that hold only where a tenth is one entry and nobody
fails: the property had no `Evicted`, and a failed refresh reset its history.

`BreakerProofs` proves `FailingSourceStaysSpared`, for any finite set of callers, any
limit of failures and any reset time.  The breaker looks at its state when a call
begins and changes it when one ends, so `BreakerInv` counts the calls on their
way (`Getting`) and those that were cut: a closed breaker has let through the
failures it has counted and both of them; one that is open, what the bound allowed
when it opened and what was cut since; one that is half open, that and those on their
way, a reset time later at least.  A first part shows that
whatever a step of the whole source client does, to the breaker it is nothing,
the beginning of a call or one of its three ends (`Breaks`).

`BotProcessProofs` proves every property of the run `process`, for any loops,
modules, administrators, handlers, people, tasks, messages and replicas that
satisfy the assumptions of its four parts.  Lemmas say first which part leaves
which variables alone (`PanelKeeps`, `CastKeeps`, `CleanKeeps`), so each invariant
looks at its own part and at the start and the end of the process:

- `StopStaysKept`: from `StopInv`; what comes back from its back-off finds
  `_bg_restart_enabled` down with the flags.
- `NoticesStayApart`: from `NoticeInv`; as long as the database has not failed the
  stored time is no older than the last notice, and fresh while one is on its way.
- `NoMessageForgotten`: from `QueueInv`; a transaction holds only messages that
  were sent, and has handled only those that are gone or cannot be deleted.  What a
  cascade takes is in `orphans` until it is queued anew.
- `OneBroadcastAtATime`, `EverybodyIsReachedOnce`, `StopIsAlwaysHeeded`: from
  `CastInv`.  The task on its way is the present one, and whoever is in the
  section of the lock has found none (`AloneInv`); after the message that was on
  its way no attempt begins (`HeedInv`); whoever was tried has a number up to
  `last_id`, and whoever has been active all the time and has a number above it is
  in the page or behind all of it (`Paging`).  That a page of the first rows of a
  set misses none of them needs that sets of numbers have a least element, which
  the library proves.
- `CopiesStayStored`: from `PanelInv`; a copy that differs from its row is one the
  handler at work is about to write (`Pending`), and what a handler writes of the
  pause it logs too (`Proper`).

`UserHandlersProofs` proves every property of the run `user_handlers`, for any
users, handlers, regions, queues, addresses and channels that satisfy
`SessionsAssumption` (each region has a queue, `None` is none of the values) and
`NoneAssumption`.  What a handler takes in when it begins says what it may do
later, so lemmas say first that each of the handlers begins with one of eight kinds
of work (`Kind`, `Opened`, `Heard`), and the invariants look at the kinds:

- `SwitchesStayWhole`, `WarnedOnceADay`: from `Inv`.  `Base` is what holds of rows,
  offers, conversations and updates; `Jobs`, that a handler at work is about to
  write columns that agree (`Works`); `Daily`, that an alert
  the daily loop has read tells of a warning of the last day, and that one that was
  sent is stamped before the next is taken up.
- `NothingOldInANewProfile`: from `Numbers`.  The number of a row
  that is being made is nobody's yet, and whoever works for the user of a row nobody
  has touched has seen another row, or none, so what he does fits no row.  Only what
  is found by `telegram_id` fits: `Lively` says that a row nobody has touched is active
  until deactivate_user has been at it.
- `WizardHasItsData`, `ChannelHasOneOwner`, `NoChannelIsAGhost`: from `Alone`, which
  holds until two handlers have overlapped.  A conversation has its region and queue
  (`Ready`), rows have their queues and channels one owner (`Good`), a channel that
  is used has the bot in it or a removal on its way (`Supported`), every addition in
  the queue is still true or has its removal behind it, and what the one handler at
  work would leave is as good (`Safe`).

Only model-checked: the liveness properties (fairness and ENABLED are out of the
prover's reach).  Every safety property of a run that passes is proved.

## Not modelled

- Support tickets, statistics, the lists of the admin panel, the growth stages'
  texts: single-session reads and writes with no state between their steps.
- The edit of power notifications after a schedule change
  (`power_monitor.py:1278-1480`): it rewrites a text in Telegram and changes no
  other state.
- Parsing of the file into slots, formatting, charts: pure conversions; the models
  take a schedule's slots as given.
- Keyboards, constants, configuration, logging, metrics, migrations.
- In the modelled components: message texts, ids of last messages, pool limits, the
  retries inside one request, the purges of old rows, several regions in the
  source cache.

## Plan

Done: the three loops that send (`PowerMonitor`, `ScheduleNotify`, `Reminders`)
with their proofs; the handlers (`UserHandlers`) with the proofs of all that is checked of
them; the process and what depends on
it (`BotProcess`) with its proofs; the source, its caches, breaker and limiter
(`SourceClient`) with the proofs about answers, presses, breaker and limiter.

Left:

1. An abstract specification of `ScheduleNotify`: each change of a queue's schedule
   reaches its users once.
2. Pure operators: slots to events and next event, against reference definitions.
3. `SourceClient` with two queues, whose pictures share the map.
