---------------------------- MODULE MCSourceClient ----------------------------
(* Constants for checking SourceClient with TLC.  A tick is half a minute to a
   minute for the source, and as long as the throttle needs for the gates. *)
EXTENDS SourceClient

Scene(n) == n @@ [k \in Events |-> 0]

\* Two rounds of the checker overlap while the source gets a new version; a reader comes
\* in between.
Rounds == {Scene("tick" :> 4 @@ "check" :> 2 @@ "commit" :> 1)}
Reader == {Scene("tick" :> 2 @@ "check" :> 1 @@ "press" :> 1 @@ "show" :> 1 @@ "commit" :> 1)}

\* The source fails again and again.
Outage == {Scene("tick" :> 4 @@ "check" :> 7 @@ "error" :> 7)}

\* And it hangs, while some of its callers do not wait.
Hanging == {Scene("tick" :> 2 @@ "check" :> 2 @@ "limited" :> 4 @@ "error" :> 3)}

\* The picture, when Redis, the drawing or the source fail, and when the mode changes.
Failing == {Scene("check" :> 1 @@ "press" :> 1 @@ "show" :> 1 @@ "commit" :> 1 @@ "error" :> 2)}
Modes == {Scene("press" :> 2 @@ "show" :> 2 @@ "commit" :> 1 @@ "mode" :> 1 @@ "error" :> 1)}

\* Impatient users; more of them than the maps hold; and a refresh that fails and is
\* tried again.
Impatient == {Scene("tick" :> 3 @@ "press" :> 3)}
Crowd == {Scene("tick" :> 2 @@ "press" :> 4)}
Retry == {Scene("tick" :> 2 @@ "press" :> 2 @@ "error" :> 1)}

\* Messages to many.
Blast == {Scene("tick" :> 6 @@ "send" :> 9)}

AllScenes == Rounds \cup Reader \cup Outage \cup Hanging \cup Failing \cup Modes \cup Impatient \cup Crowd \cup Retry \cup Blast

Same == Permutations(Users) \cup Permutations(Callers)
=============================================================================
