------------------------------ MODULE Broadcast ------------------------------
(***************************************************************************)
(* Announcements to all active users (handlers/admin/broadcast.py): an     *)
(* administrator writes a text, looks at it and sends it; a task of its    *)
(* own then pages through the users by id and can be stopped.  The task is *)
(* not one of the background loops: on_shutdown does not wait for it.      *)
(***************************************************************************)
EXTENDS AdminPanel

CONSTANTS
  People,     \* numbers of the rows of users that are there at the start
  Latecomers, \* numbers of the rows that can be added later, all greater
  Batch,      \* batch_size
  Retries,    \* TELEGRAM_MAX_RETRIES
  Tasks       \* tasks that have been created and are not done (a bound)

ASSUME BroadcastAssumption ==
  /\ People \cup Latecomers \subseteq Nat \ {0}
  /\ \A p \in People, l \in Latecomers : p < l
  /\ Batch \in Nat \ {0} /\ Retries \in Nat /\ Tasks # {} /\ None \notin Tasks \cup {"clear", "create"}

VARIABLES
  active,   \* rows with is_active
  rows,     \* rows of users
  blocked,  \* people who have blocked the bot, in Telegram
  task,     \* task[k]: a task of _run_broadcast
  current,  \* _active_broadcast, None before the first
  cancel,   \* _broadcast_cancel
  sender,   \* sender[a]: where a is in the section of _broadcast_lock, None outside
  \* history
  reached,  \* rows that got, or could not get, the present announcement
  present,  \* rows that have been active ever since it was begun
  verdict,  \* what the last summary said and whether something cut the task short
  late,     \* messages sent since the present announcement was to be stopped
  twice     \* some row got the same announcement twice

castVars == <<active, rows, blocked, task, current, cancel, sender, reached, present, verdict, late, twice>>

Gone == [pc |-> "done", batch |-> {}, last |-> 0, tries |-> 0, cut |-> FALSE]

CastInit ==
  /\ active = People /\ rows = People /\ blocked = {}
  /\ task = [k \in Tasks |-> Gone]
  /\ current = None
  /\ cancel = FALSE
  /\ sender = [a \in Admins |-> None]
  /\ reached = {} /\ present = {} /\ verdict = None /\ late = 0 /\ twice = FALSE

\* is_broadcast_running
Running == current # None /\ task[current].pc # "done"

history == <<reached, present, verdict, late, twice>>

AdminIdle == <<stored, live, lastLog, router, work, unsaved, crossed>>
-----------------------------------------------------------------------------
(* The administrators                                                      *)

\* a presses a button or writes a text.
Speak(a, state, words) ==
  /\ phase = "up"
  /\ Spend("broadcast")
  /\ talk' = [talk EXCEPT ![a] = state]
  /\ draft' = [draft EXCEPT ![a] = words]
  /\ UNCHANGED <<processVars, stamp, said, blind, AdminIdle>>

Compose(a, state, words) == Speak(a, state, words) /\ UNCHANGED castVars

AdminBroadcast(a) == ~ Running /\ Compose(a, "waiting_for_text", draft[a])

BroadcastText(a) == talk[a] = "waiting_for_text" /\ Compose(a, "preview", "words")

BroadcastEditText(a) == Compose(a, "waiting_for_text", draft[a])

BroadcastCancel(a) == Compose(a, None, None)

\* Mutant: there is no lock.
LockIgnored == TRUE

LockFree == \A a \in Admins : sender[a] = None

\* broadcast_confirm_send: the conversation is over, then the flag is put down.  There is
\* no guard on its state: an old button sends an empty text.
ConfirmSend(a) ==
  /\ LockFree
  /\ ~ Running
  /\ Speak(a, None, None)
  /\ sender' = [sender EXCEPT ![a] = "clear"]
  /\ UNCHANGED <<active, rows, blocked, task, current, cancel, history>>

\* callback.answer can raise: the text is lost.
ConfirmClear(a) ==
  /\ sender[a] = "clear"
  /\ \/ cancel' = FALSE /\ sender' = [sender EXCEPT ![a] = "create"] /\ UNCHANGED left
     \/ sender' = [sender EXCEPT ![a] = None] /\ Spend("error") /\ UNCHANGED cancel
  /\ UNCHANGED <<processVars, stamp, said, blind, panelVars, active, rows, blocked, task, current, history>>

ConfirmCreate(a) ==
  /\ sender[a] = "create"
  /\ \E k \in Tasks :
       /\ task[k].pc = "done"
       /\ task' = [task EXCEPT ![k] = [Gone EXCEPT !.pc = "page"]]
       /\ current' = k
  /\ sender' = [sender EXCEPT ![a] = None]
  /\ reached' = {} /\ present' = active /\ verdict' = None /\ late' = 0 /\ twice' = FALSE
  /\ UNCHANGED <<lifeVars, panelVars, active, rows, blocked, cancel>>

BroadcastCancelActive(a) ==
  /\ Running
  /\ Speak(a, talk[a], draft[a])
  /\ cancel' = TRUE
  /\ UNCHANGED <<active, rows, blocked, task, current, sender, history>>
-----------------------------------------------------------------------------
(* The task                                                                *)

At(k, pc) == phase # "down" /\ task[k].pc = pc

To(k, t) == task' = [task EXCEPT ![k] = t]

Before(S, i) == {j \in S : j < i}

\* ORDER BY id LIMIT batch_size; a page is read from its least row on.
Page(S) == {i \in S : Cardinality(Before(S, i)) < Batch}

First(S) == CHOOSE i \in S : \A j \in S : i <= j

\* Mutant: get_active_user_ids_paginated, with the number of rows passed as the offset.
OffsetBatch(last) == Page({i \in active : Cardinality(Before(active, i)) >= Cardinality(reached)})

\* get_active_user_ids_cursor
NextBatch(last) == Page({i \in active : i > last})

\* Mutant: the flag is looked at between the pages only.
CancelSeen(pc) == pc = "page" /\ cancel

StopHere(pc) == cancel

ReadPage(k) ==
  /\ At(k, "page")
  /\ \/ /\ StopHere("page") \/ NextBatch(task[k].last) = {}
        /\ To(k, [task[k] EXCEPT !.pc = "summary"])
        /\ UNCHANGED left
     \/ /\ ~ StopHere("page") /\ NextBatch(task[k].last) # {}
        /\ To(k, [task[k] EXCEPT !.pc = "send", !.batch = NextBatch(task[k].last)])
        /\ UNCHANGED left
     \/ Spend("error") /\ To(k, [task[k] EXCEPT !.pc = "summary", !.cut = TRUE])
  /\ UNCHANGED <<processVars, stamp, said, blind, panelVars, active, rows, blocked, current, cancel, sender, history>>

\* last_id becomes the last of the page that was read.
PageDone(k) ==
  /\ At(k, "send")
  /\ task[k].batch = {} \/ StopHere("send")
  /\ To(k, [task[k] EXCEPT !.pc = "page", !.batch = {}])
  /\ UNCHANGED <<lifeVars, panelVars, active, rows, blocked, current, cancel, sender, history>>

\* The next one, as soon as the rate limiter lets the task.
Pick(k) ==
  /\ At(k, "send") /\ task[k].batch # {}
  /\ ~ StopHere("send")
  /\ To(k, [task[k] EXCEPT !.pc = "attempt"])
  /\ UNCHANGED <<lifeVars, panelVars, active, rows, blocked, current, cancel, sender, history>>

Passed(t) == [t EXCEPT !.pc = "send", !.batch = @ \ {First(@)}, !.last = First(t.batch), !.tries = 0]

\* One attempt: the message arrives, or Telegram fails for good.
Deliver(k) ==
  LET u == First(task[k].batch)
  IN  /\ At(k, "attempt")
      /\ \/ u \notin blocked /\ UNCHANGED left
         \/ Spend("error")
      /\ To(k, Passed(task[k]))
      /\ reached' = reached \cup {u}
      /\ twice' = (twice \/ u \in reached)
      /\ late' = IF cancel THEN late + 1 ELSE late
      /\ UNCHANGED <<processVars, stamp, said, blind, panelVars, active, rows, blocked, current, cancel, sender, present, verdict>>

\* Telegram asks to wait; the flag is not looked at before the next attempt.
RetryAfter(k) ==
  /\ At(k, "attempt")
  /\ Spend("error")
  /\ IF task[k].tries < Retries
     THEN To(k, [task[k] EXCEPT !.tries = @ + 1]) /\ UNCHANGED reached
     ELSE To(k, Passed(task[k])) /\ reached' = reached \cup {First(task[k].batch)}
  /\ UNCHANGED <<processVars, stamp, said, blind, panelVars, active, rows, blocked, current, cancel, sender,
                 present, verdict, late, twice>>

\* TelegramForbiddenError, then deactivate_user in a session of its own.
Refused(k) ==
  /\ At(k, "attempt")
  /\ First(task[k].batch) \in blocked
  /\ To(k, [task[k] EXCEPT !.pc = "deactivate"])
  /\ UNCHANGED <<lifeVars, panelVars, active, rows, blocked, current, cancel, sender, history>>

Deactivate(k) ==
  LET u == First(task[k].batch)
  IN  /\ At(k, "deactivate")
      /\ \/ active' = active \ {u} /\ UNCHANGED left
         \/ Spend("error") /\ UNCHANGED active
      /\ To(k, Passed(task[k]))
      /\ reached' = reached \cup {u}
      /\ present' = present \cap active'
      /\ UNCHANGED <<processVars, stamp, said, blind, panelVars, rows, blocked, current, cancel, sender, verdict, late, twice>>

\* Whatever ended the task but the flag, the summary says "completed".
Summary(k) ==
  /\ At(k, "summary")
  /\ To(k, Gone)
  /\ verdict' = [said |-> IF cancel THEN "stopped" ELSE "completed", cut |-> task[k].cut]
  /\ UNCHANGED <<lifeVars, panelVars, active, rows, blocked, current, cancel, sender, reached, present, late, twice>>

\* asyncio.run cancels the task when the bot has shut down; it still sends its summary.
Interrupt(k) ==
  /\ phase = "closing"
  /\ task[k].pc \in {"page", "send", "attempt", "deactivate"}
  /\ To(k, [task[k] EXCEPT !.pc = "summary", !.cut = TRUE])
  /\ UNCHANGED <<lifeVars, panelVars, active, rows, blocked, current, cancel, sender, history>>
-----------------------------------------------------------------------------
(* The people                                                              *)

\* The bot listens, and MaintenanceMiddleware turns everybody away but the administrators.
Admitted == phase = "up" /\ ~ live["enabled"]

PeopleStep(newRows, newActive, newBlocked) ==
  /\ Spend("people")
  /\ rows' = newRows /\ active' = newActive /\ blocked' = newBlocked
  /\ present' = present \cap newActive
  /\ UNCHANGED <<processVars, stamp, said, blind, panelVars, task, current, cancel, sender, reached, verdict, late, twice>>

Joins(u) ==
  /\ u \notin rows
  /\ \A r \in rows : r < u
  /\ Admitted
  /\ PeopleStep(rows \cup {u}, active \cup {u}, blocked)

\* Somebody who does not want to hear from the bot, and comes back.
Blocks(u) == u \in rows \ blocked /\ PeopleStep(rows, active, blocked \cup {u})

Returns(u) == u \in blocked /\ Admitted /\ PeopleStep(rows, active \cup {u}, blocked \ {u})

Deletes(u) == u \in rows /\ Admitted /\ PeopleStep(rows \ {u}, active \ {u}, blocked \ {u})

ForgetCast ==
  /\ task' = [k \in Tasks |-> Gone]
  /\ current' = None /\ cancel' = FALSE /\ sender' = [a \in Admins |-> None]
  /\ UNCHANGED <<active, rows, blocked, history>>

CastNext ==
  \/ \E a \in Admins :
       \/ AdminBroadcast(a) \/ BroadcastText(a) \/ BroadcastEditText(a) \/ BroadcastCancel(a)
       \/ ConfirmSend(a) \/ ConfirmClear(a) \/ ConfirmCreate(a) \/ BroadcastCancelActive(a)
  \/ \E k \in Tasks :
       \/ ReadPage(k) \/ PageDone(k) \/ Pick(k) \/ Deliver(k) \/ RetryAfter(k) \/ Refused(k) \/ Deactivate(k)
       \/ Summary(k) \/ Interrupt(k)
  \/ \E u \in People \cup Latecomers : Joins(u) \/ Blocks(u) \/ Returns(u) \/ Deletes(u)
-----------------------------------------------------------------------------
(* Properties                                                              *)

\* However many administrators confirm, and however slowly, one announcement is on its
\* way at a time.
OneBroadcast == Cardinality({k \in Tasks : task[k].pc # "done"}) <= 1

\* Also when people come, go and are deactivated while the pages are read, no row gets
\* an announcement twice, and one that is said to be completed has been tried on
\* everybody who was active all the time, unless an error or a restart cut it short.
EverybodyOnce ==
  /\ ~ twice
  /\ verdict # None /\ verdict.said = "completed" /\ ~ verdict.cut => present \subseteq reached

\* Once an administrator was told that it stops, at most the message on its way still
\* arrives.
StopIsHeeded == late <= 1
=============================================================================
