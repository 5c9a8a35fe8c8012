------------------------------ MODULE Reminders ------------------------------
(***************************************************************************)
(* Reminders of bot/services/scheduler.py: the checker, which runs every   *)
(* minute outside the quiet hours, and the catch-up after the 06:00 flush. *)
(* Both read sent_reminders, send, and write sent_reminders in separate    *)
(* sessions, and both delete the user's previous reminder.                 *)
(*                                                                         *)
(* All users share one region and queue.  The clock shows minutes; what    *)
(* happens in minute c happens strictly after c.                           *)
(***************************************************************************)
EXTENDS Integers, FiniteSets

CONSTANTS
  Replicas,   \* processes that run the bot on one database
  Users,
  Chats,      \* the chats of a user: with the bot, and the channel
  Leads,      \* _REMIND_MINUTES
  Reach,      \* Reach[u][k][m]: chats that get the reminder of kind k, m minutes ahead
  Asked,      \* Asked[u]: the <<kind, minutes>> the user's settings ask for
  Schedules,  \* published schedules: sets of minutes without power
  Quiet,      \* the minutes of the quiet hours
  Horizon,    \* last minute modelled (a bound)
  None,       \* Python's None
  Budget      \* Budget[k]: how often event k, or any of them, may happen (a bound)

Events == {"any", "publish", "slow", "fetch", "sendError", "deleteError", "blocked", "dbError", "crash"}
EventKinds == {"power_off", "power_on"}
Jobs == Replicas \X {"checker", "catchup"}
Minutes == 0..Horizon
Anchors == 0..(Horizon + 1)
Rows == Anchors \X Leads

ASSUME RemindersAssumption ==
  /\ IsFiniteSet(Leads) /\ Leads \subseteq Nat
  /\ \A m, n \in Leads : m < n => m + 2 < n
  /\ Horizon \in Nat
  /\ Schedules \subseteq SUBSET Minutes /\ Schedules # {}
  /\ Quiet \subseteq Minutes
  /\ Reach \in [Users -> [EventKinds -> [Leads -> SUBSET Chats]]]
  /\ Asked \in [Users -> SUBSET (EventKinds \X Leads)]
  /\ Budget \in [Events -> Nat]
  /\ None \notin Users \cup Nat
  /\ None \notin Anchors \X Leads \X Nat

\* The catch-up of a replica runs once: one night is modelled.
ASSUME OneNight == \A c, d \in Quiet : c..d \subseteq Quiet

VARIABLES
  clock,    \* the current minute
  off,      \* the published schedule
  loc,      \* loc[j]: program counter and locals of a job
  last,     \* last[r]: minute in which the last cycle of the checker ended
  caughtUp, \* replicas whose catch-up has begun
  active,   \* users.is_active
  marked,   \* marked[u]: rows of sent_reminders
  latest,   \* latest[u]: period_key of the newest row
  tracked,  \* tracked[u][c]: last_(channel_)reminder_message_id
  visible,  \* visible[u][c]: the reminders in a chat
  \* history, for the properties
  sent,     \* sent[u][c]: all reminders sent to a chat
  changed,  \* minute of the last change of the schedule
  clashed,  \* whether two jobs have ever worked at the same time
  budget    \* what is left of Budget

envVars == <<clock, off, changed>>
procVars == <<last, caughtUp, clashed>>
dbVars == <<active, marked, latest, tracked>>
chatVars == <<visible, sent>>
vars == <<envVars, loc, procVars, dbVars, chatVars, budget>>
-----------------------------------------------------------------------------
(* Operators                                                               *)

Spend(k) ==
  /\ budget[k] > 0 /\ budget["any"] > 0
  /\ budget' = [budget EXCEPT ![k] = @ - 1, !["any"] = @ - 1]

Earliest(S) == IF S = {} THEN None ELSE CHOOSE t \in S : \A x \in S : t <= x

\* find_next_event at minute c of schedule o: outages that touch are one.
NextKind(o, c) == IF c \in o THEN "power_on" ELSE "power_off"

NextAnchor(o, c) ==
  Earliest(IF c \in o THEN {t \in Anchors : t > c /\ t \notin o} ELSE {t \in o : t > c})

\* "minutes", rounded towards zero.
MinutesUntil(a, c) == a - c - 1

\* Mutant: exactly the minute of the reminder.
DueExactly(a, c) == {m \in Leads : MinutesUntil(a, c) = m}

\* The reminders the checker sends for an event at a, within a minute of their time.
Due(a, c) == {m \in Leads : m - 1 <= MinutesUntil(a, c) /\ MinutesUntil(a, c) <= m + 1}

\* Mutant: the window of the checker.
MissedDue(a, c) == Due(a, c)

\* Those the catch-up sends: their time is now or has passed.
Missed(a, c) == {m \in Leads : MinutesUntil(a, c) > 0 /\ MinutesUntil(a, c) <= m + 1}

NoMessages == [c \in Chats |-> None]

Resting == [pc |-> "idle", todo |-> {}, kind |-> "power_off", anchor |-> None, rounds |-> {},
            lead |-> None, users |-> {}, user |-> None, msg |-> NoMessages, mark |-> {}]

At(j, pc) == loc[j].pc = pc

Init ==
  /\ clock = 0
  /\ off \in Schedules
  /\ loc = [j \in Jobs |-> Resting]
  /\ last = [r \in Replicas |-> None]
  /\ caughtUp = {}
  /\ active = Users
  /\ marked = [u \in Users |-> {}]
  /\ latest = [u \in Users |-> None]
  /\ tracked = [u \in Users |-> NoMessages]
  /\ visible = [u \in Users |-> [c \in Chats |-> {}]]
  /\ sent = [u \in Users |-> [c \in Chats |-> {}]]
  /\ changed = -1
  /\ clashed = FALSE
  /\ budget = Budget
-----------------------------------------------------------------------------
(* The clock and the source                                                *)

\* A minute passes when all is done that this minute has to do, or while slow
\* calls of Telegram or of the database hold a cycle up.
Tick ==
  /\ clock < Horizon
  /\ clock' = clock + 1
  /\ IF /\ \A j \in Jobs : At(j, "idle")
        /\ \A r \in Replicas : last[r] = clock
     THEN UNCHANGED budget
     ELSE Spend("slow")
  /\ UNCHANGED <<off, changed, loc, procVars, dbVars, chatVars>>

Publish ==
  /\ Spend("publish")
  /\ \E s \in Schedules \ {off} : off' = s
  /\ changed' = clock
  /\ UNCHANGED <<clock, loc, procVars, dbVars, chatVars>>
-----------------------------------------------------------------------------
(* A cycle of the checker up to its sends                                  *)

\* Whether j starts while another job works.
Meets(j) == \E i \in Jobs \ {j} : ~ At(i, "idle")

SkipQuiet(j) ==
  /\ At(j, "idle") /\ j[2] = "checker"
  /\ last[j[1]] # clock
  /\ clock \in Quiet
  /\ last' = [last EXCEPT ![j[1]] = clock]
  /\ UNCHANGED <<envVars, loc, caughtUp, clashed, dbVars, chatVars, budget>>

\* Mutant: any user with a row, whether or not the event has passed.
PassedAnchorsAll == {u \in Users : latest[u] # None}

\* get_active_reminder_anchors, those for which _event_anchor_passed
PassedAnchors == {u \in Users : latest[u] # None /\ latest[u] <= clock}

\* The anchors are read; an error only leaves out the clean-up.
StartCycle(j) ==
  /\ At(j, "idle") /\ j[2] = "checker"
  /\ last[j[1]] # clock
  /\ clock \notin Quiet
  /\ \/ /\ loc' = [loc EXCEPT ![j] = [Resting EXCEPT !.pc = "clean", !.todo = PassedAnchors]]
        /\ UNCHANGED budget
     \/ /\ Spend("dbError")
        /\ loc' = [loc EXCEPT ![j] = [Resting EXCEPT !.pc = "clean"]]
  /\ clashed' = (clashed \/ Meets(j))
  /\ UNCHANGED <<envVars, last, caughtUp, dbVars, chatVars>>

\* The catch-up starts when the flush is over, at 06:00 or later.
StartCatchUp(j) ==
  /\ At(j, "idle") /\ j[2] = "catchup"
  /\ j[1] \notin caughtUp
  /\ clock - 1 \in Quiet \/ clock - 2 \in Quiet
  /\ clock \notin Quiet
  /\ caughtUp' = caughtUp \cup {j[1]}
  /\ loc' = [loc EXCEPT ![j] = [Resting EXCEPT !.pc = "clean"]]
  /\ clashed' = (clashed \/ Meets(j))
  /\ UNCHANGED <<envVars, last, dbVars, chatVars, budget>>

\* The checker sleeps for a minute.
Finished(j) ==
  /\ loc' = [loc EXCEPT ![j] = Resting]
  /\ last' = IF j[2] = "checker" THEN [last EXCEPT ![j[1]] = clock] ELSE last

\* Which reminders of the next event are to be sent now.
RoundsOf(j, a) ==
  IF a = None THEN {} ELSE IF j[2] = "checker" THEN Due(a, clock) ELSE Missed(a, clock)

\* The schedule and the users are read.
ReadEvent(j) ==
  /\ At(j, "clean") /\ loc[j].todo = {}
  /\ LET a == NextAnchor(off, clock)
         rounds == RoundsOf(j, a)
     IN IF rounds = {} THEN Finished(j)
        ELSE /\ loc' = [loc EXCEPT ![j] = [Resting EXCEPT
                          !.pc = "check", !.anchor = a, !.kind = NextKind(off, clock),
                          !.rounds = rounds, !.users = active]]
             /\ UNCHANGED last
  /\ UNCHANGED <<envVars, caughtUp, clashed, dbVars, chatVars, budget>>

\* Nothing is fetched, or a session raises: the pair is given up.
GiveUp(j) ==
  /\ \/ At(j, "clean") /\ loc[j].todo = {} /\ (Spend("fetch") \/ Spend("dbError"))
     \/ At(j, "check") /\ Spend("dbError")
     \/ At(j, "mark") /\ loc[j].mark # {} /\ Spend("dbError")
  /\ Finished(j)
  /\ UNCHANGED <<envVars, caughtUp, clashed, dbVars, chatVars>>
-----------------------------------------------------------------------------
(* One kind of reminder: check, send, mark                                 *)

\* Mutant: sent_reminders is not asked.
SentBeforeNever(u, a, m) == FALSE

\* check_reminders_sent_batch
SentBefore(u, a, m) == <<a, m>> \in marked[u]

\* The longest lead first: who asked for it and has not got it.
CheckSent(j) ==
  /\ At(j, "check")
  /\ \E m \in loc[j].rounds :
       /\ \A n \in loc[j].rounds : n <= m
       /\ LET asking == {u \in loc[j].users : <<loc[j].kind, m>> \in Asked[u]}
          IN loc' = [loc EXCEPT ![j].pc = "send", ![j].lead = m, ![j].rounds = @ \ {m},
                       ![j].mark = {},
                       ![j].todo = {u \in asking : ~ SentBefore(u, loc[j].anchor, m)}]
  /\ UNCHANGED <<envVars, procVars, dbVars, chatVars, budget>>

\* Mutant: the channel is forgotten.
DeletedFromBot(u) ==
  [visible EXCEPT ![u] = [c \in Chats |-> IF c = "bot" THEN @[c] \ {tracked[u][c]} ELSE @[c]]]

DeletedFromChats(u) ==
  [visible EXCEPT ![u] = [c \in Chats |-> @[c] \ {tracked[u][c]}]]

\* _delete_reminder_messages, for a passed event or before a new reminder: the
\* ids are read and the messages deleted, whether or not Telegram does it ...
DeleteMessages(j, u) ==
  /\ loc[j].pc \in {"clean", "send"} /\ u \in loc[j].todo
  /\ \/ visible' = DeletedFromChats(u) /\ UNCHANGED budget
     \/ Spend("deleteError") /\ UNCHANGED visible
  /\ loc' = [loc EXCEPT ![j].todo = @ \ {u}, ![j].user = u, ![j].msg = tracked[u],
                        ![j].pc = IF @ = "clean" THEN "forget" ELSE "forgetOld"]
  /\ UNCHANGED <<envVars, procVars, dbVars, sent>>

\* ... and then set to None, those that were read.
Forgotten(u, msg) ==
  [tracked EXCEPT ![u] = [c \in Chats |-> IF msg[c] # None THEN None ELSE @[c]]]

ForgetIds(j) ==
  /\ loc[j].pc \in {"forget", "forgetOld"}
  /\ \/ tracked' = Forgotten(loc[j].user, loc[j].msg) /\ UNCHANGED budget
     \/ Spend("dbError") /\ UNCHANGED tracked
  /\ loc' = [loc EXCEPT ![j].pc = IF @ = "forget" THEN "clean" ELSE "message",
                        ![j].msg = NoMessages,
                        ![j].user = IF loc[j].pc = "forget" THEN None ELSE @]
  /\ UNCHANGED <<envVars, procVars, active, marked, latest, chatVars>>

\* The next message about <<anchor, minutes>> in a chat.
NewMessage(u, c, a, m) ==
  <<a, m, 1 + Cardinality({x \in sent[u][c] : x[1] = a /\ x[2] = m})>>

\* _send_reminder to the bot's chat and the channel: the messages of ok arrive.
Delivered(j, ok) ==
  LET l == loc[j]
      new == [c \in Chats |->
               IF c \in ok THEN NewMessage(l.user, c, l.anchor, l.lead) ELSE None]
  IN
  /\ visible' = [visible EXCEPT ![l.user] =
                   [c \in Chats |-> IF c \in ok THEN @[c] \cup {new[c]} ELSE @[c]]]
  /\ sent' = [sent EXCEPT ![l.user] =
                [c \in Chats |-> IF c \in ok THEN @[c] \cup {new[c]} ELSE @[c]]]
  /\ loc' = [loc EXCEPT ![j].msg = new,
               ![j].pc = IF ok = {} THEN "send" ELSE "save",
               ![j].user = IF ok = {} THEN None ELSE @,
               ![j].mark = IF ok = {} THEN @ ELSE @ \cup {l.user}]

ReachNow(j) == Reach[loc[j].user][loc[j].kind][loc[j].lead]

SendReminder(j) ==
  /\ At(j, "message")
  /\ Delivered(j, ReachNow(j))
  /\ UNCHANGED <<envVars, procVars, dbVars, budget>>

\* One of the messages cannot be sent.
SendFails(j) ==
  /\ At(j, "message")
  /\ \E c \in ReachNow(j) : Delivered(j, ReachNow(j) \ {c})
  /\ Spend("sendError")
  /\ UNCHANGED <<envVars, procVars, dbVars>>

\* The user has blocked the bot.
SendForbidden(j) ==
  /\ At(j, "message")
  /\ "bot" \in ReachNow(j)
  /\ Delivered(j, ReachNow(j) \ {"bot"})
  /\ Spend("blocked")
  /\ active' = active \ {loc[j].user}
  /\ UNCHANGED <<envVars, procVars, marked, latest, tracked>>

\* The ids are stored; an error is logged.
SaveIds(j) ==
  /\ At(j, "save")
  /\ \/ /\ tracked' = [tracked EXCEPT ![loc[j].user] =
                         [c \in Chats |-> IF loc[j].msg[c] # None THEN loc[j].msg[c] ELSE @[c]]]
        /\ UNCHANGED budget
     \/ Spend("dbError") /\ UNCHANGED tracked
  /\ loc' = [loc EXCEPT ![j].pc = "send", ![j].user = None, ![j].msg = NoMessages]
  /\ UNCHANGED <<envVars, procVars, active, marked, latest, chatVars>>

SendsDone(j) ==
  /\ At(j, "send") /\ loc[j].todo = {}
  /\ loc' = [loc EXCEPT ![j].pc = "mark"]
  /\ UNCHANGED <<envVars, procVars, dbVars, chatVars, budget>>

\* mark_reminder_sent for all of them in one transaction: a row that exists
\* stays as it is.
Mark(j) ==
  /\ At(j, "mark")
  /\ LET l == loc[j]
         new == {u \in l.mark : <<l.anchor, l.lead>> \notin marked[u]}
     IN /\ marked' = [u \in Users |->
                       IF u \in new THEN marked[u] \cup {<<l.anchor, l.lead>>} ELSE marked[u]]
        /\ latest' = [u \in Users |-> IF u \in new THEN l.anchor ELSE latest[u]]
        /\ IF l.rounds = {} THEN Finished(j)
           ELSE /\ loc' = [loc EXCEPT ![j].pc = "check", ![j].mark = {}]
                /\ UNCHANGED last
  /\ UNCHANGED <<envVars, caughtUp, clashed, active, tracked, chatVars, budget>>
-----------------------------------------------------------------------------
\* A process dies and is started again; after 06:00 its flush waits for tomorrow.
Crash(r) ==
  /\ Spend("crash")
  /\ loc' = [j \in Jobs |-> IF j[1] = r THEN Resting ELSE loc[j]]
  /\ last' = [last EXCEPT ![r] = None]
  /\ caughtUp' = IF \E c \in Quiet : clock <= c THEN caughtUp ELSE caughtUp \cup {r}
  /\ UNCHANGED <<envVars, clashed, dbVars, chatVars>>

\* The bound of the model: nothing is left to be done in the last minute.
Over ==
  /\ clock = Horizon
  /\ \A r \in Replicas : last[r] = clock
  /\ UNCHANGED vars

Work(j) ==
  \/ SkipQuiet(j) \/ StartCycle(j) \/ StartCatchUp(j) \/ ReadEvent(j) \/ GiveUp(j)
  \/ CheckSent(j) \/ \E u \in Users : DeleteMessages(j, u)
  \/ ForgetIds(j) \/ SendReminder(j) \/ SendFails(j) \/ SendForbidden(j)
  \/ SaveIds(j) \/ SendsDone(j) \/ Mark(j)

Next ==
  \/ Tick \/ Publish \/ Over
  \/ \E j \in Jobs : Work(j)
  \/ \E r \in Replicas : Crash(r)

Spec == Init /\ [][Next]_vars
-----------------------------------------------------------------------------
(* Properties                                                              *)

Pcs == {"idle", "clean", "check", "send", "forget", "forgetOld", "message", "save", "mark"}
Messages == Anchors \X Leads \X (Nat \ {0})
MessageIds == [Chats -> Messages \cup {None}]
LocType ==
  [pc : Pcs, todo : SUBSET Users, kind : EventKinds, anchor : Anchors \cup {None},
   rounds : SUBSET Leads, lead : Leads \cup {None}, users : SUBSET Users,
   user : Users \cup {None}, msg : MessageIds, mark : SUBSET Users]

\* The variables keep the shapes the code gives them.
TypeOK ==
  /\ clock \in Minutes /\ off \in Schedules /\ changed \in Minutes \cup {-1}
  /\ loc \in [Jobs -> LocType]
  /\ last \in [Replicas -> Minutes \cup {None}]
  /\ caughtUp \subseteq Replicas /\ active \subseteq Users /\ clashed \in BOOLEAN
  /\ marked \in [Users -> SUBSET Rows]
  /\ latest \in [Users -> Anchors \cup {None}]
  /\ tracked \in [Users -> MessageIds]
  /\ visible \in [Users -> [Chats -> SUBSET Messages]]
  /\ sent \in [Users -> [Chats -> SUBSET Messages]]
  /\ budget \in [Events -> Nat]

Spent(k) == Budget[k] - budget[k]

\* No transaction and no deletion has failed, no process has died, and the two loops
\* have never worked at the same time.
Calm ==
  /\ \A k \in {"dbError", "deleteError", "crash"} : Spent(k) = 0
  /\ ~ clashed

\* "Deduplication via the SentReminder table prevents double-sends": as long as
\* the loops do not overlap and no step is lost.
ReminderSentOnce ==
  Calm => \A u \in Users, c \in Chats : \A x \in sent[u][c] : x[3] = 1

\* "Delete previous reminder before sending the new one": one reminder in a chat,
\* and the database knows it.
OneReminder ==
  Calm => \A u \in Users, c \in Chats :
    /\ Cardinality(visible[u][c]) <= 1
    /\ (\A j \in Jobs : loc[j].pc = "save" => loc[j].user # u) =>
         visible[u][c] \subseteq {tracked[u][c]}

\* Cleaning up takes away the reminders of passed events only, although it goes by
\* the newest row of sent_reminders and not by the message.
CleansPassedOnly ==
  [][Calm => \A j \in Jobs, u \in Users :
       At(j, "clean") /\ DeleteMessages(j, u) =>
         \A c \in Chats : \A x \in visible[u][c] \ visible'[u][c] : x[1] <= clock]_vars

\* Once a cycle of this minute is over, the reminders of events that have passed are
\* gone, but for those that passed in the minutes that slow cycles took.
PassedRemindersGo ==
  Calm /\ clock \notin Quiet /\ (\E r \in Replicas : last[r] = clock) =>
    \A u \in Users, c \in Chats : \A x \in visible[u][c] :
      x[1] > clock - Spent("slow")

Lost == Spent("slow") + Spent("fetch") + Spent("sendError") + Spent("dbError") + Spent("crash")

\* The user wants the reminder, and some chat can get it.
Wants(u, k, m) == <<k, m>> \in Asked[u] /\ Reach[u][k][m] # {}

\* The window of three minutes allows for two minutes or attempts that are lost:
\* at its end an event that was known all along has been announced.
RemindedInTime ==
  \A r \in Replicas, u \in active, m \in Leads :
    LET a == clock + m
        known == \A c \in (clock - 2)..clock :
                   c > changed /\ c >= 0 /\ c \notin Quiet /\ NextAnchor(off, c) = a
    IN (/\ known /\ Lost <= 2
        /\ last[r] = clock /\ At(<<r, "checker">>, "idle")
        /\ Wants(u, NextKind(off, clock), m)) => <<a, m>> \in marked[u]

\* "For every upcoming event ... we send any reminder type whose ideal send-time has
\* already passed": when the catch-up is over nothing that was due by night is
\* missing for the event that was next in the first minute of the day.
NothingMissedByNight ==
  \A r \in caughtUp, u \in active, m \in Leads, dawn \in Minutes \ Quiet :
    LET a == NextAnchor(off, dawn) IN
    (/\ dawn - 1 \in Quiet /\ changed < dawn /\ dawn <= clock
     /\ a # None /\ a = NextAnchor(off, clock) /\ MinutesUntil(a, clock) > 0
     /\ MinutesUntil(a, dawn) <= m
     /\ At(<<r, "catchup">>, "idle") /\ Lost = 0
     /\ Wants(u, NextKind(off, dawn), m)) => <<a, m>> \in marked[u]
=============================================================================
