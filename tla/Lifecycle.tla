------------------------------ MODULE Lifecycle ------------------------------
(***************************************************************************)
(* The life of the bot's process (bot/app.py): it starts, announces itself *)
(* to the administrators, keeps its background loops going, whose          *)
(* heartbeats it keeps (utils/heartbeat.py), and is stopped or killed and  *)
(* started again.                                                          *)
(***************************************************************************)
EXTENDS Integers, Sequences, FiniteSets, TLC

CONSTANTS
  Loops,       \* background loops
  Module,      \* Module[t]: the module whose _running flag loop t obeys
  Setters,     \* loops that set that flag when they begin
  Checker,     \* the loop whose cadence is a setting
  Cadence,     \* Cadence[t]: ticks from one beat of t to the next, for the others
  MaxRetries,  \* restarts of a loop before it is given up
  Cooldown,    \* ADMIN_NOTIFY_COOLDOWN_S
  Longest,     \* ages are counted up to this (a bound)
  None,
  Scenes       \* how often each event may happen in one behaviour (a bound)

Events == {"tick", "kill", "stop", "crash", "error", "press", "broadcast", "people",
           "message", "overlap"}

ASSUME LifecycleAssumption ==
  /\ DOMAIN Module = Loops
  /\ Setters \subseteq Loops /\ Checker \in Loops
  /\ DOMAIN Cadence = Loops
  /\ MaxRetries \in Nat /\ Cooldown \in Nat /\ Longest \in Nat
  /\ Scenes # {} /\ Scenes \subseteq [Events -> Nat]
  /\ None \notin Nat

VARIABLES
  phase,     \* how far the process has come
  restarts,  \* _bg_restart_enabled
  go,        \* go[m]: the _running flag of module m
  loop,      \* loop[t]: what the task of loop t is at
  crashes,   \* crashes[t]: retries of _restart_with_backoff
  age,       \* age[t]: ticks since the last beat, None before it is registered
  pace,      \* pace[t]: ticks t sleeps after that beat
  stamp,     \* age of admin_notify_last_at in the database, None when unset
  said,      \* age of the last notice the administrators got (history)
  blind,     \* the database has failed when a notice was due (history)
  left       \* what is left of the scene

processVars == <<phase, restarts, go, loop, crashes, age, pace>>
lifeVars == <<processVars, stamp, said, blind, left>>

Phases == {"down", "booting", "loaded", "greeting", "greeted", "up",
           "leaving", "parting", "parted", "stopping", "closing"}

LifeInit ==
  /\ phase = "down"
  /\ restarts = TRUE
  /\ go = [m \in {Module[t] : t \in Loops} |-> FALSE]
  /\ loop = [t \in Loops |-> "off"]
  /\ crashes = [t \in Loops |-> 0]
  /\ age = [t \in Loops |-> None]
  /\ pace = [t \in Loops |-> 0]
  /\ stamp = None
  /\ said = None
  /\ blind = FALSE
  /\ left \in Scenes

Spend(k) == left[k] > 0 /\ left' = [left EXCEPT ![k] = @ - 1]

Up == phase \notin {"down", "booting", "loaded", "greeting", "greeted"}
-----------------------------------------------------------------------------
(* Start and stop                                                          *)

\* on_startup: a migration or a database that fails ends the process.
Boot ==
  /\ phase = "down"
  /\ \/ phase' = "booting" /\ restarts' = TRUE /\ UNCHANGED left
     \/ Spend("error") /\ UNCHANGED <<phase, restarts>>
  /\ UNCHANGED <<go, loop, crashes, age, pace, stamp, said, blind>>

\* _admin_notify_cooldown_ok: the time is stored before the notice is sent; a
\* database that fails does not keep it back.
NoticeDue == stamp \notin 0..(Cooldown - 1)

\* Mutant: the time is not committed.
Uncommitted == stamp

Stamped == 0

AskNotice(from, send, next) ==
  /\ phase = from
  /\ \/ NoticeDue /\ phase' = send /\ stamp' = Stamped /\ UNCHANGED <<blind, left>>
     \/ ~ NoticeDue /\ phase' = next /\ UNCHANGED <<stamp, blind, left>>
     \/ Spend("error") /\ phase' = send /\ blind' = TRUE /\ UNCHANGED stamp
  /\ UNCHANGED <<restarts, go, loop, crashes, age, pace, said>>

SendNotice(from, next) ==
  /\ phase = from
  /\ phase' = next
  /\ said' = 0
  /\ UNCHANGED <<restarts, go, loop, crashes, age, pace, stamp, blind, left>>

Announce ==
  \/ AskNotice("loaded", "greeting", "greeted") \/ SendNotice("greeting", "greeted")
  \/ AskNotice("leaving", "parting", "parted") \/ SendNotice("parting", "parted")

\* heartbeat.register and _bg for each loop; each runs to its first await.
Spawn(interval) ==
  /\ phase = "greeted"
  /\ phase' = "up"
  /\ age' = [t \in Loops |-> 0]
  /\ pace' = [t \in Loops |-> IF t = Checker THEN interval ELSE Cadence[t]]
  /\ go' = [m \in DOMAIN go |-> go[m] \/ \E t \in Setters : Module[t] = m]
  /\ loop' = [t \in Loops |-> IF go'[Module[t]] THEN "run" ELSE "ended"]
  /\ crashes' = [t \in Loops |-> 0]
  /\ UNCHANGED <<restarts, stamp, said, blind, left>>

\* on_shutdown
Shutdown ==
  /\ phase = "up"
  /\ Spend("stop")
  /\ phase' = "leaving"
  /\ UNCHANGED <<restarts, go, loop, crashes, age, pace, stamp, said, blind>>

\* stop_scheduler, stop_power_monitor and stop_auto_cleanup.
StopLoops ==
  /\ phase = "parted"
  /\ phase' = "stopping"
  /\ go' = [m \in DOMAIN go |-> FALSE]
  /\ restarts' = FALSE
  /\ UNCHANGED <<loop, crashes, age, pace, stamp, said, blind, left>>

Busy == {t \in Loops : loop[t] \in {"run", "hung", "backoff"}}

\* Ten seconds are over, or nothing is left to wait for: what still runs is cancelled.
CancelLoops ==
  /\ phase = "stopping"
  /\ phase' = "closing"
  /\ loop' = [t \in Loops |-> IF t \in Busy THEN "ended" ELSE loop[t]]
  /\ UNCHANGED <<restarts, go, crashes, age, pace, stamp, said, blind, left>>

\* heartbeat.reset, and the process ends.
Close ==
  /\ phase = "closing"
  /\ phase' = "down"
  /\ loop' = [t \in Loops |-> "off"]
  /\ age' = [t \in Loops |-> None]
  /\ UNCHANGED <<restarts, go, crashes, pace, stamp, said, blind, left>>

\* The process is killed, or the owner restarts it (sys.exit in the handler).
Kill ==
  /\ phase # "down"
  /\ Spend("kill")
  /\ phase' = "down"
  /\ go' = [m \in DOMAIN go |-> FALSE]
  /\ loop' = [t \in Loops |-> "off"]
  /\ age' = [t \in Loops |-> None]
  /\ UNCHANGED <<restarts, crashes, pace, stamp, said, blind>>
-----------------------------------------------------------------------------
(* The loops                                                               *)

\* A loop's sleep is over: it works, beats and sleeps again.
Beat(t, interval) ==
  /\ loop[t] = "run" /\ go[Module[t]]
  /\ age[t] # None /\ age[t] >= pace[t]
  /\ age' = [age EXCEPT ![t] = 0]
  /\ pace' = [pace EXCEPT ![t] = IF t = Checker THEN interval ELSE Cadence[t]]
  /\ UNCHANGED <<phase, restarts, go, loop, crashes, stamp, said, blind, left>>

\* The flag is down: a clean exit, which is not restarted.
LoopEnds(t) ==
  /\ loop[t] = "run" /\ ~ go[Module[t]]
  /\ loop' = [loop EXCEPT ![t] = "ended"]
  /\ UNCHANGED <<phase, restarts, go, crashes, age, pace, stamp, said, blind, left>>

RetriesLeft(n) == n <= MaxRetries

\* An exception leaves the loop, or an await never returns.
LoopFails(t) ==
  /\ loop[t] = "run"
  /\ Spend("crash")
  /\ \/ crashes' = [crashes EXCEPT ![t] = @ + 1]
        /\ loop' = [loop EXCEPT ![t] = IF RetriesLeft(crashes'[t]) THEN "backoff" ELSE "gone"]
     \/ loop' = [loop EXCEPT ![t] = "hung"] /\ UNCHANGED crashes
  /\ UNCHANGED <<phase, restarts, go, age, pace, stamp, said, blind>>

\* Mutant: _bg_restart_enabled is not looked at.
AlwaysRestarts == TRUE

MayRestart == restarts

\* The back-off is over; a loop registers its heartbeat again when it begins.
LoopRestarts(t, interval) ==
  /\ loop[t] = "backoff"
  /\ IF MayRestart
     THEN /\ go' = [go EXCEPT ![Module[t]] = @ \/ t \in Setters]
          /\ loop' = [loop EXCEPT ![t] = IF go'[Module[t]] THEN "run" ELSE "ended"]
          /\ age' = [age EXCEPT ![t] = 0]
          /\ pace' = [pace EXCEPT ![t] = IF t = Checker THEN interval ELSE Cadence[t]]
     ELSE loop' = [loop EXCEPT ![t] = "ended"] /\ UNCHANGED <<go, age, pace>>
  /\ UNCHANGED <<phase, restarts, crashes, stamp, said, blind, left>>

Older(n) == IF n = None THEN None ELSE IF n < Longest THEN n + 1 ELSE n

\* Time passes; no running loop oversleeps, and a notice is sent within seconds.
Tick ==
  /\ Spend("tick")
  /\ phase \notin {"greeting", "parting"}
  /\ \A t \in Loops : loop[t] = "run" => go[Module[t]] /\ age[t] < pace[t]
  /\ age' = [t \in Loops |-> Older(age[t])]
  /\ stamp' = Older(stamp)
  /\ said' = Older(said)
  /\ UNCHANGED <<phase, restarts, go, loop, crashes, pace, blind>>

LoopSteps(interval) ==
  \E t \in Loops :
    Beat(t, interval) \/ LoopEnds(t) \/ LoopFails(t) \/ LoopRestarts(t, interval)
-----------------------------------------------------------------------------
(* Properties                                                              *)

\* Once the loops have been told to stop, none that comes back from its back-off tells
\* its module to go on: all end by themselves or are cancelled, and none is left when
\* the database is closed.
StopIsKept ==
  /\ phase \in {"stopping", "closing"} => \A m \in DOMAIN go : ~ go[m]
  /\ phase = "closing" => Busy = {}

\* app.py: "a crashlooping pod must not spam admins on every restart".  However often
\* the process is killed and started, two notices are a cooldown apart, unless the
\* database failed.
NoticesApart ==
  [][said' = 0 /\ phase \in {"greeting", "parting"} /\ said # None => said >= Cooldown \/ blind]_lifeVars
=============================================================================
