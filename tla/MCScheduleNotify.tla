-------------------------- MODULE MCScheduleNotify --------------------------
(* Constants for checking ScheduleNotify with TLC. *)
EXTENDS ScheduleNotify, TLC

ReplicaSymmetry == Permutations(Replicas)

NoEvents == [k \in Events |-> IF k = "calm" THEN 1 ELSE 0]

\* Two replicas: errors of the database, a fetch that fails, and a crash.
Faults ==
  [NoEvents EXCEPT !["midnight"] = 1, !["dbError"] = 2, !["fetch"] = 1, !["crash"] = 1]

\* Two replicas: commits, with a cycle without a new one, and a region without data.
Commits == [NoEvents EXCEPT !["commit"] = 3, !["poll"] = 1, !["fetch"] = 2]

BothReplicas == {Faults, Commits}

\* Changes by day and by night, and an error of the lock query.
Change == [NoEvents EXCEPT !["commit"] = 3, !["midnight"] = 1, !["lockError"] = 1]

\* Three days, so that one may pass without a check.
Gaps == [NoEvents EXCEPT !["commit"] = 2, !["midnight"] = 2]

Nights == {Change, Gaps}

\* Nothing fails.
Plain == {[NoEvents EXCEPT !["commit"] = 2, !["midnight"] = 1]}
=============================================================================
