SPECIFICATION Spec
CONSTANTS
  Loops <- TheLoops
  Module <- TheModules
  Setters = {"schedule_checker_loop", "auto_cleanup"}
  Checker = "schedule_checker_loop"
  Cadence <- TheCadences
  MaxRetries = 1
  Cooldown = 2
  Longest = 6
  None = None
  Scenes <- AllScenes
  Admins = {a1, a2}
  Presses = {p1, p2}
  Intervals = {1}
  People = {1, 2, 3}
  Latecomers = {4}
  Batch = 2
  Retries = 1
  Tasks = {t1, t2}
  Messages = {m1, m2}
  Chat <- TheChats
  Cleaners = {"own", "other"}
  Own = "own"
  Cleanup = "auto_cleanup"
  Delay = 2
  Claims = 1
INVARIANTS StopIsKept CopiesAreStored OneBroadcast EverybodyOnce StopIsHeeded NoneForgotten
PROPERTY NoticesApart
SYMMETRY Same
