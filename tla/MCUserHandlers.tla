---------------------------- MODULE MCUserHandlers ----------------------------
(* Constants for checking UserHandlers with TLC. *)
EXTENDS UserHandlers

\* Two regions whose queues differ in one.
TwoRegions == "kyiv" :> {1, 2} @@ "dnipro" :> {1, 3}

Scene(known, cast, left) == [known |-> known, cast |-> cast, left |-> left @@ [k \in Events |-> 0]]

\* The wizard of a new and of an old user, with old buttons and a deletion in between.
Wizards ==
  {Scene(known, {u}, "data" :> 1 @@ left) :
     known \in {{}, Users}, u \in Users,
     left \in {"start" :> 1 @@ "wizard" :> 5, "start" :> 2 @@ "wizard" :> 3 @@ "overlap" :> 1}}

\* Switches that are pressed in quick succession, also around a deletion.
Switches == {Scene({u}, {u}, "settings" :> 3 @@ "data" :> 1 @@ "overlap" :> 2) : u \in Users}

\* A switch is pressed, or the profile switched off; before that is written the profile
\* is deleted and made anew.
Rebirth ==
  {Scene({u}, {u}, "format" :> 1 @@ "data" :> 1 @@ "start" :> 1 @@ "wizard" :> 3 @@ "overlap" :> 5) :
     u \in Users}
  \cup {Scene({u}, {u}, "data" :> 2 @@ "start" :> 1 @@ "wizard" :> 3 @@ "overlap" :> 5) : u \in Users}

\* The address of the router, and the days that follow.
Routers ==
  {Scene({u}, {u}, "ip" :> 4 @@ "data" :> 1 @@ "daily" :> 3 @@ "overlap" :> 1 @@ "error" :> 1) :
     u \in Users}

\* Two users and two channels that go from one to the other.
Links ==
  {Scene(Users, Users, "telegram" :> 3 @@ left) :
     left \in {"channel" :> 2 @@ "overlap" :> 1, "channel" :> 3 @@ "error" :> 1}}

\* The texts of the publications, with presses that overlap.
Texts == {Scene({u}, {u}, "format" :> 3 @@ "data" :> 1 @@ "overlap" :> 1) : u \in Users}

Same ==
  Permutations(Users) \cup Permutations(Handlers) \cup Permutations(Addresses) \cup Permutations(Channels)

AllScenes == Wizards \cup Switches \cup Rebirth \cup Routers \cup Links \cup Texts
=============================================================================
