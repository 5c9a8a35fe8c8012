----------------------------- MODULE MCBotProcess -----------------------------
(* Constants for checking BotProcess with TLC.  A tick is five minutes for the loop
   of the schedule; the day of the 06:00 loop is four ticks. *)
EXTENDS BotProcess

TheLoops == {"schedule_checker_loop", "daily_flush_loop", "auto_cleanup"}

TheModules ==
  "schedule_checker_loop" :> "scheduler" @@ "daily_flush_loop" :> "scheduler" @@ "auto_cleanup" :> "auto_cleanup"

TheCadences == "schedule_checker_loop" :> 1 @@ "daily_flush_loop" :> 4 @@ "auto_cleanup" :> 1

TheChats == [m \in Messages |-> 1]

Scene(n) == n @@ [k \in Events |-> 0]

\* Starts, stops and kills, with loops that fail.
Lives == {Scene("tick" :> 2 @@ "kill" :> 1 @@ "stop" :> 1 @@ "crash" :> 2),
          Scene("tick" :> 2 @@ "kill" :> 2 @@ "error" :> 1)}

\* Settings that are changed while the process comes and goes.
Settings == {Scene("press" :> 3 @@ "overlap" :> 1 @@ "kill" :> 1 @@ "error" :> 1)}

\* An announcement, among people who come and go; several at once; one that is cut short.
Announcement ==
  {Scene("broadcast" :> 2 @@ "people" :> 2 @@ "error" :> 1),
   Scene("broadcast" :> 4 @@ "error" :> 1),
   Scene("broadcast" :> 1 @@ "people" :> 1 @@ "stop" :> 1),
   Scene("broadcast" :> 1 @@ "people" :> 1 @@ "press" :> 1)}

\* Messages that are edited and deleted, and a profile that goes and comes back.
Deletions == {Scene("message" :> 3 @@ "tick" :> 3 @@ "error" :> 1),
              Scene("message" :> 2 @@ "tick" :> 2 @@ "kill" :> 1 @@ "crash" :> 1),
              Scene("message" :> 2 @@ "tick" :> 2 @@ "people" :> 2 @@ "error" :> 1)}

AllScenes == Lives \cup Settings \cup Announcement \cup Deletions

Same == Permutations(Admins) \cup Permutations(Presses) \cup Permutations(Messages)
=============================================================================
