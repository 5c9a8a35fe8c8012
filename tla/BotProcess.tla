------------------------------ MODULE BotProcess ------------------------------
(***************************************************************************)
(* One process of the bot with what depends on its being started, stopped  *)
(* and killed: the copies of the settings, the announcement on its way and *)
(* the loop that deletes messages.                                         *)
(***************************************************************************)
EXTENDS Broadcast, AutoDelete

CONSTANT Chat  \* Chat[m]: the row, at the start, of the user in whose chat m is

ASSUME ChatAssumption == Chat \in [Messages -> People]

vars == <<lifeVars, panelVars, castVars, cleanVars>>

Init == LifeInit /\ PanelInit /\ CastInit /\ CleanInit

\* The process ends: the wishes of its middlewares go, too.
Ends == ForgetPanel /\ ForgetCast /\ RollBack /\ wanted' = {}

\* The loop's transaction, if the loop fails or is cancelled.
CleanupStops ==
  IF loop'[Cleanup] # "run" /\ loop[Cleanup] = "run" THEN RollBack /\ UNCHANGED wanted
  ELSE UNCHANGED cleanVars

Process ==
  \/ /\ \/ Boot \/ Announce \/ Spawn(Setting("interval")) \/ Shutdown \/ StopLoops \/ CancelLoops
        \/ LoopSteps(Setting("interval"))
     /\ CleanupStops
     /\ UNCHANGED <<panelVars, castVars>>
  \/ Tick /\ TickQueue /\ UNCHANGED <<panelVars, castVars>>
  \/ Close /\ ~ Running /\ Ends
  \/ Kill /\ Ends

\* The user's profile: the one he had, or one he has made since.
ProfilesOf(m) == IF Chat[m] \in rows THEN {Chat[m]} ELSE rows \cap Latecomers

\* A message is queued for the profile its user has, or had when the middleware looked.
QueueMessage(m) ==
  \/ \E u \in ProfilesOf(m) : Enqueue(m, u)
  \/ Chat[m] \notin rows /\ NotQueued(m)

\* The bot is up and nobody asks anything of it.  No handler, task or transaction waits.
Rest ==
  /\ phase = "up"
  /\ ~ AtWork /\ ~ Running /\ LockFree
  /\ wanted = {} /\ \A c \in Cleaners : claim[c] = {}
  /\ UNCHANGED vars

Next ==
  \/ Process
  \/ Rest
  \/ PanelNext /\ UNCHANGED <<castVars, cleanVars>>
  \/ CastNext /\ Cascade(rows')
  \/ (CleanNext \/ \E m \in Messages : QueueMessage(m)) /\ UNCHANGED <<panelVars, castVars>>

Spec == Init /\ [][Next]_vars
=============================================================================
