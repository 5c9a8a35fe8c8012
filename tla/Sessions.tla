------------------------------- MODULE Sessions -------------------------------
(***************************************************************************)
(* How the bot handles an update of a user: DbSessionMiddleware opens a    *)
(* database session, the handler runs, and the session is committed, or    *)
(* rolled back when the handler raises.  SQLAlchemy writes, at the commit  *)
(* or at an earlier flush, only the columns that differ from what the      *)
(* handler loaded, and finds the row by its primary key.  The state of the *)
(* conversation (FSMContext) is in Redis: it changes at once and is not    *)
(* rolled back.  Two updates, of one user or of two, are handled at the    *)
(* same time when the second arrives before the first is done.             *)
(*                                                                         *)
(* A handler takes at most four steps: it reads (the conversation, its     *)
(* user's row, a pending channel) when it begins; it may flush, and then   *)
(* holds the lock of the row; it may change the conversation; it commits.  *)
(***************************************************************************)
EXTENDS Integers, Sequences, FiniteSets, TLC

CONSTANTS
  Users,
  Handlers,   \* updates that can be handled at the same time
  Regions,
  QueuesOf,   \* QueuesOf[r]: the queues of region r
  Home,       \* the region "kyiv"
  Addresses,  \* addresses of routers
  Channels,
  None,       \* Python's None
  Scenes      \* what one behaviour may do (a bound): known, the users with a row at the
              \* start; cast, those who act; left[k], how often event k may happen

Events == {"start", "wizard", "settings", "ip", "data", "channel", "format", "telegram",
           "daily", "overlap", "error"}

ASSUME SessionsAssumption ==
  /\ Home \in Regions
  /\ DOMAIN QueuesOf = Regions /\ \A r \in Regions : QueuesOf[r] # {}
  /\ Scenes # {}
  /\ Scenes \subseteq [known : SUBSET Users, cast : SUBSET Users, left : [Events -> Nat]]
  /\ None \notin Users \cup Regions \cup Addresses \cup Channels \cup Nat

VARIABLES
  row,      \* row[u]: the committed rows of a user, None when there are none
  alert,    \* alert[u]: the row of ping_error_alerts
  pending,  \* pending[c]: the user who is offered channel c
  fsm,      \* fsm[u]: state and data of the conversation
  loc,      \* loc[h]: a handler at work
  lives,    \* the sequence of users.id
  \* history, for the properties
  touched,  \* users with a handler that has seen their present row
  switchedOff,  \* users whose present row deactivate_user has switched off
  mixed,    \* whether two handlers have ever worked at the same time
  scene     \* the scene, with what is left of it

dbVars == <<row, alert, pending, lives>>
sessionVars == <<dbVars, fsm, loc, touched, switchedOff, mixed, scene>>
-----------------------------------------------------------------------------
(* Rows and conversations                                                  *)

\* f, where new does not say otherwise.
Over(new, f) == [k \in DOMAIN new \cup DOMAIN f |-> IF k \in DOMAIN new THEN new[k] ELSE f[k]]

\* "other" and "chOther" stand for the settings no property tells apart: the daily
\* schedule, the minutes of the reminders, the targets, the clean-up, the formats.
FreshSettings ==
  [sched |-> TRUE, remindOff |-> TRUE, remindOn |-> TRUE, factOff |-> TRUE, factOn |-> TRUE, other |-> FALSE]

\* A title is the channel it was given to.
FreshChannel ==
  [chan |-> None, title |-> None, status |-> "active", paused |-> FALSE,
   chFactOff |-> TRUE, chFactOn |-> TRUE, chOther |-> FALSE]

Fresh ==
  Over([id |-> 0, active |-> TRUE, region |-> None, queue |-> None, ip |-> None],
       Over(FreshSettings, FreshChannel))

Columns == DOMAIN Fresh

\* What the columns of a row hold.
Values ==
  BOOLEAN \cup Nat \cup {None, "active", "disconnected"}
  \cup Regions \cup (UNION {QueuesOf[r] : r \in Regions}) \cup Addresses \cup Channels

Rows == [Columns -> Values]

\* When the last message about the router was sent.
Times == {"never", "recent", "old"}

Alerts == [ip : Addresses, active : BOOLEAN, last : Times]

\* The states of a conversation.
States ==
  {"region", "queue", "confirm", "notify_target", "bot_notifications", "channel_setup", "waiting_for_ip",
   "title", "choice", "description", "editing", "text", "test"}

ASSUME NoneAssumption == None \notin Rows /\ None \notin Alerts /\ None \notin States

Cleared == [state |-> None, region |-> None, queue |-> None, mode |-> None]

Nothing == <<>>

\* The columns SQLAlchemy finds changed.
Dirty(r, new) == [c \in {d \in DOMAIN new : new[d] # r[d]} |-> new[c]]

Flip(r, c) == [d \in {c} |-> ~ r[d]]

Idle == [pc |-> "idle", user |-> None, id |-> None, dirty |-> Nothing, erase |-> FALSE,
         held |-> FALSE, then |-> Nothing, alert |-> "keep", ping |-> "none",
         pending |-> Nothing, lost |-> None]

\* Somebody who has been here before.
Registered(u) == [Fresh EXCEPT !.id = 1, !.region = Home, !.queue = CHOOSE q \in QueuesOf[Home] : TRUE]

SessionsInit ==
  /\ scene \in Scenes
  /\ row = [u \in Users |-> IF u \in scene.known THEN Registered(u) ELSE None]
  /\ alert = [u \in Users |-> None]
  /\ pending = [c \in Channels |-> None]
  /\ fsm = [u \in Users |-> Cleared]
  /\ loc = [h \in Handlers |-> Idle]
  /\ lives = 1
  /\ touched = {}
  /\ switchedOff = {}
  /\ mixed = FALSE
-----------------------------------------------------------------------------
(* A handler begins                                                        *)

Busy == \E h \in Handlers : loc[h].pc # "idle"

Spend(k) ==
  /\ scene.left[k] > 0
  /\ scene' = [scene EXCEPT !.left[k] = @ - 1]

\* Handlers overlap as often as the scene allows.
Meet(s) ==
  /\ Busy => s.left["overlap"] > 0
  /\ scene' = IF Busy THEN [s EXCEPT !.left["overlap"] = @ - 1] ELSE s

\* h begins to handle an update of user u and will do what l says.
Open(h, u, k, l) ==
  /\ loc[h].pc = "idle"
  /\ u \in scene.cast
  /\ scene.left[k] > 0
  /\ Meet([scene EXCEPT !.left[k] = @ - 1])
  /\ loc' = [loc EXCEPT ![h] = [l EXCEPT !.user = u]]
  /\ mixed' = (mixed \/ Busy)
  /\ touched' = IF row[u] = None THEN touched ELSE touched \cup {u}
  /\ UNCHANGED <<dbVars, switchedOff>>

\* It changes only the conversation.
Talk(then) == [Idle EXCEPT !.pc = "answer", !.then = then]

\* The id of a statement that finds the rows of a user by telegram_id.
AnyLife == 0

\* It changes columns of the row it loaded, and then the conversation.
Change(u, new, then) ==
  [Idle EXCEPT !.pc = IF then = Nothing THEN "commit" ELSE "answer",
               !.id = row[u].id, !.dirty = Dirty(row[u], new), !.then = then]

\* create_or_update_user.
Create(u, region, queue, then) ==
  IF row[u] # None
  THEN Change(u, [active |-> TRUE, region |-> region, queue |-> queue], then)
  ELSE [Idle EXCEPT !.pc = "flush", !.dirty = [Fresh EXCEPT !.region = region, !.queue = queue],
                    !.then = then]

Settings(h, u, new) ==
  /\ row[u] # None
  /\ Open(h, u, "settings", Change(u, new, Nothing))
  /\ UNCHANGED fsm
-----------------------------------------------------------------------------
(* and goes on                                                             *)

\* Whether h has to wait for a row another handler has written and not committed.
Waits(h) ==
  \E g \in Handlers \ {h} :
    loc[g].held /\ loc[g].dirty # Nothing /\ loc[g].user = loc[h].user

\* Mutant: rows are found by telegram_id.
FitsAnyLife(l) == l.dirty = Nothing \/ (l.id = None <=> row[l.user] = None)

\* What h writes still has its place: no row when it inserts, else the row it loaded.
Fits(l) ==
  \/ l.dirty = Nothing
  \/ l.id = None /\ row[l.user] = None
  \/ l.id = AnyLife
  \/ l.id # None /\ row[l.user] # None /\ row[l.user].id = l.id

\* An INSERT takes the next number of the sequence, and keeps it whatever happens.
Numbered(l) == IF l.id = None THEN [l EXCEPT !.dirty = [@ EXCEPT !.id = lives + 1]] ELSE l

\* session.flush(); a row that is gone or there already raises, and all is rolled back.
Flush(h) ==
  /\ loc[h].pc = "flush"
  /\ ~ Waits(h)
  /\ loc' = [loc EXCEPT ![h] = IF Fits(@) THEN [Numbered(@) EXCEPT !.pc = "answer", !.held = TRUE]
                               ELSE Idle]
  /\ lives' = IF loc[h].id = None THEN lives + 1 ELSE lives
  /\ UNCHANGED <<row, alert, pending, fsm, touched, switchedOff, mixed, scene>>

\* state.set_state, state.update_data, state.clear.
Answer(h) ==
  /\ loc[h].pc = "answer"
  /\ fsm' = [fsm EXCEPT ![loc[h].user] = Over(loc[h].then, @)]
  /\ loc' = [loc EXCEPT ![h].pc = "commit"]
  /\ UNCHANGED <<dbVars, touched, switchedOff, mixed, scene>>

\* deactivate_ping_error_alert
Stopped(a) == IF a = None THEN None ELSE [a EXCEPT !.active = FALSE]

\* Mutant: the upsert sets last_alert_at, too.
AlertRenewed(l, a) ==
  CASE l.alert = "keep" -> a
    [] l.alert = "stop" -> Stopped(a)
    [] OTHER -> [ip |-> l.alert, active |-> TRUE, last |-> "never"]

\* upsert_ping_error_alert leaves last_alert_at.
AlertAfter(l, a) ==
  CASE l.alert = "keep" -> a
    [] l.alert = "stop" -> Stopped(a)
    [] OTHER -> IF a = None THEN [ip |-> l.alert, active |-> TRUE, last |-> "never"]
                ELSE [a EXCEPT !.ip = l.alert, !.active = TRUE]

RowAfter(l, r) ==
  IF l.erase THEN (IF r # None /\ r.id = l.id THEN None ELSE r)
  ELSE IF l.dirty = Nothing THEN r
  ELSE IF l.id = None THEN l.dirty
  ELSE IF r = None THEN None
  ELSE Over(l.dirty, r)

OffAfter(l) ==
  CASE RowAfter(l, row[l.user]) = None \/ row[l.user] = None -> switchedOff \ {l.user}
    [] l.id = AnyLife /\ l.dirty # Nothing -> switchedOff \cup {l.user}
    [] OTHER -> switchedOff

\* session.commit(): StaleDataError, as any error, rolls the session back.
Commit(h) ==
  LET l == loc[h]
      u == l.user
  IN  /\ l.pc = "commit"
      /\ l.dirty # Nothing \/ l.erase => ~ Waits(h)
      /\ IF Fits(l)
         THEN /\ row' = [row EXCEPT ![u] = RowAfter(l, @)]
              /\ alert' = [alert EXCEPT ![u] = AlertAfter(l, @)]
              /\ pending' = Over(l.pending, pending)
              /\ touched' = IF row'[u] = None \/ row[u] = None THEN touched \ {u} ELSE touched
              /\ switchedOff' = OffAfter(l)
         ELSE UNCHANGED <<row, alert, pending, touched, switchedOff>>
      /\ loc' = [loc EXCEPT ![h] = Idle]
      /\ UNCHANGED <<lives, fsm, mixed, scene>>

\* Telegram, Redis or the database raises before the commit is done.
Fail(h) ==
  /\ loc[h].pc # "idle"
  /\ Spend("error")
  /\ loc' = [loc EXCEPT ![h] = Idle]
  /\ UNCHANGED <<dbVars, fsm, touched, switchedOff, mixed>>
=============================================================================
