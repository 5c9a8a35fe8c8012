------------------------------- MODULE Accounts -------------------------------
(***************************************************************************)
(* What a user does with his own record: /start and the wizard of          *)
(* handlers/start.py, the settings of handlers/settings, and the daily     *)
(* messages about a router that does not answer (services/                 *)
(* power_monitor.py).  The buttons of every message ever sent stay in the  *)
(* chat, so any of them can be pressed at any time.                        *)
(***************************************************************************)
EXTENDS Sessions

VARIABLES
  batch,   \* alerts the daily loop has read: records of user and alert
  stamp,   \* user whose alert was sent and is not yet stamped
  warned,  \* warned[u]: age of the last message about the router (history)
  missed   \* users whose stamp was lost (history)

accountVars == <<batch, stamp, warned, missed>>

AccountsInit ==
  /\ batch = {}
  /\ stamp = None
  /\ warned = [u \in Users |-> "never"]
  /\ missed = {}
-----------------------------------------------------------------------------
(* /start and the wizard                                                   *)

AskRegion(mode) == [state |-> "region", mode |-> mode]

\* The conversation is cleared first; a known user gets the menu, a deactivated
\* one the choice to return, and a new one is refused when registration_enabled
\* is "false".
CmdStart(h, u) ==
  /\ \/ row[u] = None /\ Open(h, u, "start", Talk(AskRegion("new")))
     \/ Open(h, u, "start", [Idle EXCEPT !.pc = "commit"])
  /\ fsm' = [fsm EXCEPT ![u] = Cleared]
  /\ UNCHANGED accountVars

RestoreProfile(h, u) ==
  /\ row[u] # None
  /\ Open(h, u, "start", Change(u, [active |-> TRUE], Nothing))
  /\ UNCHANGED <<fsm, accountVars>>

Begin(h, u, mode) ==
  /\ Open(h, u, "start", Talk(AskRegion(mode)))
  /\ UNCHANGED <<fsm, accountVars>>

\* Nobody asks whether registration is open.
CreateNewProfile(h, u) == Begin(h, u, "new")

\* Nobody asks whether there is a row.
SettingsRegionConfirm(h, u) == Begin(h, u, "edit")

ChangeQueue(h, u) == row[u] # None /\ Begin(h, u, "edit_from_schedule")

Wizard(h, u, l) == Open(h, u, "wizard", l) /\ UNCHANGED <<fsm, accountVars>>

WizardRegion(h, u) ==
  /\ fsm[u].state = "region"
  /\ \E r \in Regions : Wizard(h, u, Talk([region |-> r, state |-> "queue"]))

\* data.get("region", "kyiv")
Region(u) == IF fsm[u].region = None THEN Home ELSE fsm[u].region

AllowedQueues(u) == QueuesOf[Region(u)]

WizardQueue(h, u) ==
  /\ fsm[u].state = "queue"
  /\ \E q \in AllowedQueues(u) :
       Wizard(h, u, Talk([queue |-> q, state |-> IF fsm[u].mode \in {"new", None} THEN "notify_target" ELSE "confirm"]))

\* Mutant: back to the choice of the queue.
BackOneStep == [state |-> "queue"]

Back == [state |-> "region"]

BackToRegion(h, u) == Wizard(h, u, Talk(Back))

\* data["region"] and data["queue"] raise KeyError.
Register(h, u, next) ==
  /\ fsm[u].state = "notify_target"
  /\ Wizard(h, u, IF None \in {fsm[u].region, fsm[u].queue} THEN [Idle EXCEPT !.pc = "commit"]
                  ELSE Create(u, fsm[u].region, fsm[u].queue, [state |-> next]))

WizardNotifyBot(h, u) == Register(h, u, "bot_notifications")

WizardNotifyChannel(h, u) == Register(h, u, "channel_setup")

WizardNotifyBack(h, u) ==
  /\ fsm[u].state = "bot_notifications"
  /\ Wizard(h, u, Talk([state |-> "notify_target"]))

WizardBotDone(h, u) ==
  /\ fsm[u].state = "bot_notifications"
  /\ Wizard(h, u, Talk(Cleared))

\* data.get("region", ""): the empty string is None here.
WizardConfirm(h, u) ==
  /\ fsm[u].state = "confirm"
  /\ Wizard(h, u, Create(u, fsm[u].region, fsm[u].queue, Cleared))

\* The flags of the last step of the wizard.
BothFacts(r) == [c \in {"factOff", "factOn"} |-> ~ r.factOff]

WizardFlags(r) == {Flip(r, "sched"), Flip(r, "other"), BothFacts(r)}

WizardToggle(h, u) ==
  /\ fsm[u].state = "bot_notifications"
  /\ row[u] # None
  /\ \E new \in WizardFlags(row[u]) : Wizard(h, u, Change(u, new, Nothing))
-----------------------------------------------------------------------------
(* Settings                                                                *)

\* Mutant: the flag of the button only.
OneFact(r) == {Flip(r, c) : c \in {"remindOff", "remindOn", "factOff", "factOn"}}

\* notif_toggle: fact_off and fact_on are kept the same.
NotifToggle(r) ==
  {Flip(r, "remindOff"), Flip(r, "remindOn"), BothFacts(r),
   [c \in {"factOff", "factOn"} |-> ~ r.factOn]}

NotifSchedule(r) == {Flip(r, "sched"), Flip(r, "other")}

NotifTime(r) == {Flip(r, "other")}

NotifTarget(r) == {Flip(r, "other")}

AlertToggle(r) ==
  {[c \in {"sched", "remindOff", "factOff", "remindOn", "factOn"} |->
      ~ (r.sched \/ r.remindOff \/ r.factOff)]}

ChNotif(r) ==
  {Flip(r, "chOther"), [c \in {"chFactOff", "chFactOn"} |-> ~ r.chFactOff]}

Cleanup(r) == {Flip(r, "other")}

Notifications(h, u) ==
  /\ row[u] # None
  /\ LET r == row[u]
     IN  \E new \in NotifToggle(r) \cup NotifSchedule(r) \cup NotifTime(r) \cup NotifTarget(r)
                     \cup AlertToggle(r) \cup ChNotif(r) \cup Cleanup(r) : Settings(h, u, new)
  /\ UNCHANGED accountVars

\* delete_user_data: the rows that hang on users go with it; the conversation, the
\* pending channels and the alert stay.
ConfirmDelete(h, u) ==
  /\ row[u] # None
  /\ Open(h, u, "data", [Idle EXCEPT !.pc = "commit", !.id = row[u].id, !.erase = TRUE])
  /\ UNCHANGED <<fsm, accountVars>>

ConfirmDeactivate(h, u) ==
  /\ Open(h, u, "data", [Idle EXCEPT !.pc = "commit", !.id = AnyLife, !.dirty = [active |-> FALSE]])
  /\ UNCHANGED <<fsm, accountVars>>
-----------------------------------------------------------------------------
(* The router's address                                                    *)

\* _show_input_screen
AskIp == [state |-> "waiting_for_ip"]

SettingsIp(h, u) ==
  /\ Open(h, u, "ip", IF row[u] # None /\ row[u].ip = None THEN Talk(AskIp)
                      ELSE [Idle EXCEPT !.pc = "commit"])
  /\ fsm' = [fsm EXCEPT ![u] = Cleared]
  /\ UNCHANGED accountVars

\* ip_change_confirm and its older names, which need no row.
IpChange(h, u) ==
  /\ Open(h, u, "ip", Talk(AskIp))
  /\ UNCHANGED <<fsm, accountVars>>

\* ip_cancel_to_settings and ip_cancel
IpCancel(h, u) ==
  /\ Open(h, u, "ip", [Idle EXCEPT !.pc = "commit"])
  /\ fsm' = [fsm EXCEPT ![u] = Cleared]
  /\ UNCHANGED accountVars

IpDelete(h, u) ==
  /\ row[u] # None
  /\ Open(h, u, "ip", [Change(u, [ip |-> None], Nothing) EXCEPT !.pc = "flush", !.alert = "stop"])
  /\ UNCHANGED <<fsm, accountVars>>

\* The address is written, then pinged: an alert when there is no answer.
Pinged(a) == {<<"ok", "keep">>, <<"failed", a>>}

IpInput(h, u) ==
  /\ fsm[u].state = "waiting_for_ip"
  /\ \E a \in Addresses : \E p \in Pinged(a) :
       Open(h, u, "ip",
            IF row[u] = None THEN Talk(Cleared)
            ELSE [Change(u, [ip |-> a], Cleared) EXCEPT !.pc = "flush", !.ping = p[1], !.alert = p[2]])
  /\ UNCHANGED <<fsm, accountVars>>
-----------------------------------------------------------------------------
(* The daily loop                                                          *)

Age(t) == IF t = "recent" THEN "old" ELSE t

\* 24 hours pass since anything that was sent.
Day ==
  /\ \E u \in Users : warned[u] = "recent"
  /\ alert' = [u \in Users |-> IF alert[u] = None THEN None ELSE [alert[u] EXCEPT !.last = Age(@)]]
  /\ warned' = [u \in Users |-> Age(warned[u])]
  /\ batch = {} /\ stamp = None
  /\ UNCHANGED <<row, pending, lives, fsm, loc, touched, switchedOff, mixed, scene, batch, stamp, missed>>

\* get_active_ping_error_alerts_cursor, every hour.
DailyRead ==
  /\ batch = {} /\ stamp = None
  /\ batch' = {[user |-> u, alert |-> alert[u]] : u \in {v \in Users : alert[v] # None /\ alert[v].active}}
  /\ batch' # {}
  /\ Spend("daily")
  /\ UNCHANGED <<dbVars, fsm, loc, touched, switchedOff, mixed, stamp, warned, missed>>

AlertDue(x) == x.alert.last # "recent"

\* The loop is done with an alert without a message: it is not due, or the message
\* could not be sent.
DailyDrop(x) ==
  /\ x \in batch /\ stamp = None
  /\ batch' = batch \ {x}
  /\ UNCHANGED <<sessionVars, stamp, warned, missed>>

DailyDone(x) ==
  /\ x \in batch /\ stamp = None
  /\ AlertDue(x)
  /\ batch' = batch \ {x}
  /\ alert' = [alert EXCEPT ![x.user] = Stopped(@)]
  /\ UNCHANGED <<pending, lives, fsm, loc, touched, mixed, scene, stamp, warned, missed>>

\* The address that was read answers.
DailyAlive(x) == DailyDone(x) /\ UNCHANGED <<row, switchedOff>>

\* The user has blocked the bot; deactivate_user waits for a locked row.
DailyForbidden(x) ==
  /\ \A h \in Handlers : ~ (loc[h].user = x.user /\ loc[h].held /\ loc[h].dirty # Nothing)
  /\ DailyDone(x)
  /\ row' = [row EXCEPT ![x.user] = IF @ = None THEN None ELSE [@ EXCEPT !.active = FALSE]]
  /\ switchedOff' = IF row[x.user] = None THEN switchedOff ELSE switchedOff \cup {x.user}

DailySend(x) ==
  /\ x \in batch /\ stamp = None
  /\ AlertDue(x)
  /\ batch' = batch \ {x}
  /\ stamp' = x.user
  /\ warned' = [warned EXCEPT ![x.user] = "recent"]
  /\ UNCHANGED <<dbVars, fsm, loc, touched, switchedOff, mixed, scene, missed>>

\* update_ping_error_alert_time, which an error of the database can lose.
DailyStamp ==
  /\ stamp # None
  /\ stamp' = None
  /\ \/ /\ alert' = [alert EXCEPT ![stamp].last = "recent"]
        /\ missed' = missed \ {stamp}
        /\ UNCHANGED scene
     \/ /\ Spend("error")
        /\ missed' = missed \cup {stamp}
        /\ UNCHANGED alert
  /\ UNCHANGED <<row, pending, lives, fsm, loc, touched, switchedOff, mixed, batch, warned>>

AccountsNext ==
  \/ \E h \in Handlers, u \in Users :
       \/ CmdStart(h, u) \/ RestoreProfile(h, u) \/ CreateNewProfile(h, u)
       \/ SettingsRegionConfirm(h, u) \/ ChangeQueue(h, u)
       \/ WizardRegion(h, u) \/ WizardQueue(h, u) \/ BackToRegion(h, u)
       \/ WizardNotifyBot(h, u) \/ WizardNotifyChannel(h, u)
       \/ WizardNotifyBack(h, u) \/ WizardBotDone(h, u) \/ WizardConfirm(h, u) \/ WizardToggle(h, u)
       \/ Notifications(h, u) \/ ConfirmDelete(h, u) \/ ConfirmDeactivate(h, u)
       \/ SettingsIp(h, u) \/ IpChange(h, u) \/ IpCancel(h, u) \/ IpDelete(h, u) \/ IpInput(h, u)
  \/ \E x \in batch : DailyDrop(x) \/ DailyAlive(x) \/ DailyForbidden(x) \/ DailySend(x)
  \/ Day \/ DailyRead \/ DailyStamp
-----------------------------------------------------------------------------
(* Properties                                                              *)

Choosing == {"confirm", "notify_target", "bot_notifications", "channel_setup"}

\* As long as the updates of a user are handled one at a time, the wizard never
\* reaches a step whose data is missing or whose queue is not one of the region's:
\* whatever old buttons are pressed, data["region"] and data["queue"] do not raise, and
\* the row it leaves names a queue of its region: there is a schedule to fetch.
WizardIsReady ==
  mixed \/ \A u \in Users : /\ fsm[u].state \in {"queue"} \cup Choosing => fsm[u].region # None
                            /\ fsm[u].state \in Choosing => fsm[u].queue \in QueuesOf[fsm[u].region]
                            /\ row[u] # None => row[u].queue \in QueuesOf[row[u].region]

\* notify_fact_off and notify_fact_on are one switch to the user: they agree in
\* every committed row, however the handlers that write them overlap.
FactFlagsAgree ==
  \A u \in Users : row[u] # None =>
    /\ row[u].factOff = row[u].factOn
    /\ row[u].chFactOff = row[u].chFactOn

\* Nothing of a deleted profile, and nothing a handler was doing to it when it was
\* deleted, is found in the profile the user makes after it, apart from the region and
\* the queue he has just chosen, and with one exception: deactivate_user finds the row by
\* telegram_id (users.py:128-130), so one that is under way when the profile is deleted,
\* or that follows Telegram's refusal in the daily loop, switches the new profile off.
\* No other step does, and nothing else of the row is lost by it.
NewProfileIsNew ==
  \A u \in Users : row[u] # None /\ u \notin touched =>
    /\ \A c \in DOMAIN Fresh \ {"id", "active", "region", "queue"} : row[u][c] = Fresh[c]
    /\ row[u].active \/ u \in switchedOff

\* A user is warned about the router once in 24 hours, also when he enters another
\* address in between, unless the time of the last message could not be stored.
AlertsADayApart ==
  [][\A u \in Users : warned[u] = "recent" /\ batch' # batch /\ stamp' = u => u \in missed]_<<sessionVars, accountVars>>
=============================================================================
