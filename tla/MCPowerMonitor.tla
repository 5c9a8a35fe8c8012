--------------------------- MODULE MCPowerMonitor ---------------------------
(* Constants for checking PowerMonitor with TLC. *)
EXTENDS PowerMonitor

NoEvents == [k \in Events |-> IF k = "calm" THEN 1 ELSE 0]

\* No failure; a user may block the bot, and an hour may pass.
Steady == [NoEvents EXCEPT !["hour"] = 1, !["blocked"] = 1]

\* A process that dies or is stopped, with a database that fails now and then.
Crashes == [NoEvents EXCEPT !["crash"] = 1, !["dbError"] = 1]
Shutdowns == [NoEvents EXCEPT !["shutdown"] = 1, !["dbError"] = 1]

\* A user who leaves and comes back, an entry that falls to the cap, and steps
\* that are cut short.
Evictions ==
  [NoEvents EXCEPT !["toggle"] = 2, !["cycleTimeout"] = 1,
                   !["handlerTimeout"] = 1, !["sendError"] = 1]
Crowds ==
  [NoEvents EXCEPT !["crowd"] = 1, !["toggle"] = 1, !["handlerTimeout"] = 1]

AllScenes == {Crashes, Shutdowns, Evictions, Crowds}

\* Restarts and failures that lose no cycle.
LivelyScenes ==
  {Steady, [NoEvents EXCEPT !["dbError"] = 1], [NoEvents EXCEPT !["crash"] = 1]}

CutOff == {[NoEvents EXCEPT !["cycleTimeout"] = 1]}
=============================================================================
