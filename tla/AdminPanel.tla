------------------------------ MODULE AdminPanel ------------------------------
(***************************************************************************)
(* What the administrators set (handlers/admin): rows of the settings      *)
(* table, some of which the process keeps a copy of, and an own router.    *)
(* Two administrators, or one who presses twice, are handled at the same   *)
(* time.  A handler reads when it begins and writes one upsert; what it    *)
(* writes does not depend on what others write meanwhile.                  *)
(***************************************************************************)
EXTENDS Lifecycle

CONSTANTS
  Admins,
  Presses,    \* updates of administrators that can be handled at the same time
  Intervals   \* schedule_check_interval, in ticks

ASSUME PanelAssumption ==
  /\ Intervals # {} /\ Intervals \subseteq Nat
  /\ None \notin BOOLEAN /\ None \notin {"custom", "default", "pause_on", "pause_off"}

VARIABLES
  stored,   \* stored[k]: the settings table, None when there is no row
  live,     \* live[k]: the copies in memory
  lastLog,  \* the last event of pause_log
  router,   \* router[a]: the row of admin_routers, None when there is none
  talk,     \* talk[a]: state of the conversation
  draft,    \* draft[a]: text of an announcement
  work,     \* work[p]: a handler at work
  unsaved,  \* copies whose row could not be written or read (history)
  crossed   \* two handlers have been at work together (history)

panelVars == <<stored, live, lastLog, router, talk, draft, work, unsaved, crossed>>

\* "switch", "text" and "number" stand for the settings no property tells apart: whether
\* the pause offers support and whether registration is open; the text and the type of
\* the pause; the debounce, the cadence of the pings, the cooldown and the stage.
Keys == {"bot_paused", "switch", "text", "number", "chart", "emoji", "enabled", "message", "interval"}

\* What a missing row stands for.
Default == [bot_paused |-> FALSE, switch |-> TRUE, text |-> "default", number |-> 0, chart |-> FALSE, emoji |-> TRUE,
            enabled |-> FALSE, message |-> "default", interval |-> CHOOSE i \in Intervals : \A j \in Intervals : i <= j]

Setting(k) == IF stored[k] = None THEN Default[k] ELSE stored[k]

Copies == {"chart", "emoji", "enabled", "message"}

Nothing == <<>>

Quiet == [pc |-> "idle", writes |-> Nothing, copies |-> Nothing, log |-> None]

PanelInit ==
  /\ stored = [k \in Keys |-> None]
  /\ live = [k \in Copies |-> Default[k]]
  /\ lastLog = None
  /\ router = [a \in Admins |-> None]
  /\ talk = [a \in Admins |-> None]
  /\ draft = [a \in Admins |-> None]
  /\ work = [p \in Presses |-> Quiet]
  /\ unsaved = {}
  /\ crossed = FALSE

\* f with what is new.
Updated(f, new) == [k \in DOMAIN f |-> IF k \in DOMAIN new THEN new[k] ELSE f[k]]

AtWork == \E p \in Presses : work[p].pc # "idle"
-----------------------------------------------------------------------------
(* A handler                                                               *)

\* p begins and will write what w says.
Take(p, w) ==
  /\ phase \in {"up", "leaving", "parting", "parted", "stopping"}
  /\ work[p].pc = "idle"
  /\ left["press"] > 0 /\ (AtWork => left["overlap"] > 0)
  /\ left' = [left EXCEPT !["press"] = @ - 1, !["overlap"] = IF AtWork THEN @ - 1 ELSE @]
  /\ work' = [work EXCEPT ![p] = w]
  /\ crossed' = (crossed \/ AtWork)
  /\ UNCHANGED <<processVars, stamp, said, blind, stored, lastLog>>

Writes(new) == [pc |-> "commit", writes |-> new, copies |-> Nothing, log |-> None]

Set(p, w) == Take(p, w) /\ UNCHANGED <<live, router, talk, draft, unsaved>>

PauseEvent(on) == IF on THEN "pause_on" ELSE "pause_off"

PauseToggle(p) ==
  LET on == ~ Setting("bot_paused")
  IN  Set(p, [Writes([bot_paused |-> on]) EXCEPT !.log = PauseEvent(on)])

\* pause_toggle_support and growth_reg_toggle
SwitchToggle(p) == Set(p, Writes([switch |-> ~ Setting("switch")]))

\* pause_template, pause_custom_message_input and pause_type_set
SetText(p) == Set(p, Writes([text |-> "custom"]))

\* debounce_set, admin_ip_set, admin_cooldown_set and growth_stage_set: a number that
\* cannot be read changes nothing.
SetNumber(p) == Set(p, Writes([number |-> 1]))

AdminScheduleSet(p) == \E i \in Intervals : Set(p, Writes([interval |-> i]))

\* set_chart_render: the mode is remembered when it is committed.
SetChartRender(p) == Set(p, LET w == [chart |-> ~ Setting("chart")] IN [Writes(w) EXCEPT !.copies = w])

\* _load_button_emoji_enabled
EmojiSetting == IF stored["emoji"] = None THEN live["emoji"] ELSE stored["emoji"]

AdminButtonEmoji(p) ==
  Set(p, [pc |-> "remember", writes |-> Nothing, copies |-> [emoji |-> EmojiSetting], log |-> None])

AdminButtonEmojiSet(p) ==
  Set(p, LET w == [emoji |-> ~ EmojiSetting] IN [Writes(w) EXCEPT !.copies = w])

\* persist_maintenance_mode: the copy changes first.
Persist(p, new) ==
  /\ Take(p, Writes(new))
  /\ live' = Updated(live, new)
  /\ UNCHANGED <<router, talk, draft, unsaved>>

MaintenanceToggle(p) == Persist(p, [enabled |-> ~ live["enabled"]])

\* maintenance_message_input stores both.
MaintenanceMessage(p) == Persist(p, [message |-> "custom", enabled |-> live["enabled"]])

\* admin_router_ip_input, an upsert, and admin_router_toggle_notify, which needs a row.
AdminRouter(p, a) ==
  /\ Take(p, Quiet)
  /\ \/ router' = [router EXCEPT ![a] = IF @ = None THEN [notify |-> TRUE] ELSE @]
     \/ router[a] # None /\ router' = [router EXCEPT ![a].notify = ~ @]
  /\ UNCHANGED <<live, talk, draft, unsaved>>

\* The session is committed; set_setting is one upsert for each row.
CommitPress(p) ==
  LET w == work[p]
  IN  /\ w.pc = "commit"
      /\ stored' = Updated(stored, w.writes)
      /\ lastLog' = IF w.log = None THEN lastLog ELSE w.log
      /\ unsaved' = unsaved \ DOMAIN w.writes
      /\ work' = [work EXCEPT ![p] = IF w.copies = Nothing THEN Quiet ELSE [w EXCEPT !.pc = "remember"]]
      /\ UNCHANGED <<lifeVars, live, router, talk, draft, crossed>>

Remember(p) ==
  /\ work[p].pc = "remember"
  /\ live' = Updated(live, work[p].copies)
  /\ work' = [work EXCEPT ![p] = Quiet]
  /\ UNCHANGED <<lifeVars, stored, lastLog, router, talk, draft, unsaved, crossed>>

\* The database fails: all the handler wrote is rolled back; the copies of the
\* maintenance mode are not.
FailPress(p) ==
  /\ work[p].pc = "commit"
  /\ Spend("error")
  /\ unsaved' = unsaved \cup (DOMAIN work[p].writes \cap {"enabled", "message"})
  /\ work' = [work EXCEPT ![p] = Quiet]
  /\ UNCHANGED <<processVars, stamp, said, blind, stored, live, lastLog, router, talk, draft, crossed>>
-----------------------------------------------------------------------------
(* Start and end of the process                                            *)

\* Mutant: the text is not read back.
TextForgotten == [k \in Copies |-> IF k = "message" THEN Default[k] ELSE Setting(k)]

Reloaded == [k \in Copies |-> Setting(k)]

\* load_maintenance_mode, which puts up with an error, and the modes on_startup loads.
Load ==
  /\ phase = "booting"
  /\ phase' = "loaded"
  /\ \/ live' = Reloaded /\ unsaved' = {} /\ UNCHANGED left
     \/ /\ Spend("error")
        /\ live' = [Reloaded EXCEPT !["enabled"] = Default["enabled"], !["message"] = Default["message"]]
        /\ unsaved' = {"enabled", "message"}
  /\ UNCHANGED <<restarts, go, loop, crashes, age, pace, stamp, said, blind,
                 stored, lastLog, router, talk, draft, work, crossed>>

\* Memory is lost; what was not committed is rolled back.  The conversations are in Redis.
ForgetPanel ==
  /\ live' = [k \in Copies |-> Default[k]]
  /\ work' = [p \in Presses |-> Quiet]
  /\ UNCHANGED <<stored, lastLog, router, talk, draft, unsaved, crossed>>

PanelNext ==
  \/ \E p \in Presses :
       \/ PauseToggle(p) \/ SwitchToggle(p) \/ SetText(p) \/ SetNumber(p) \/ AdminScheduleSet(p)
       \/ SetChartRender(p) \/ AdminButtonEmoji(p) \/ AdminButtonEmojiSet(p)
       \/ MaintenanceToggle(p) \/ MaintenanceMessage(p)
       \/ \E a \in Admins : AdminRouter(p, a)
       \/ CommitPress(p) \/ Remember(p) \/ FailPress(p)
  \/ Load
-----------------------------------------------------------------------------
(* Properties                                                              *)

\* What the process goes by is what is stored, and is the same after a restart, as soon
\* as no handler is at work: for the modes of the charts and of the buttons whatever
\* fails, for the maintenance mode unless its row could not be written or read, which
\* the code accepts.  The pause log, the other copy, ends with the state the pause is in,
\* whenever the process is killed.  Handlers that overlap may leave the copy of the
\* earlier one, and may be logged the other way round.
CopiesAreStored ==
  ~ crossed =>
    /\ Up /\ ~ AtWork => \A k \in Copies \ unsaved : live[k] = Setting(k)
    /\ lastLog # None => (lastLog = "pause_on" <=> Setting("bot_paused"))
=============================================================================
