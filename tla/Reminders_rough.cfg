SPECIFICATION Spec
CONSTANTS
  Replicas = {r1}
  Users = {u1}
  Chats = {"bot", "channel"}
  Leads = {2, 6}
  Reach <- ReachAll
  Asked <- AskedAll
  Schedules <- MovingOutage
  Quiet <- Night
  Horizon = 13
  None = None
  Budget <- RoughBudget
INVARIANTS ReminderSentOnce OneReminder PassedRemindersGo RemindedInTime NothingMissedByNight
PROPERTY CleansPassedOnly
