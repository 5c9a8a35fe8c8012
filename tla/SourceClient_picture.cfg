SPECIFICATION Spec
CONSTANTS
  Users = {u1, u2, u3}
  Rate = 2
  EntryTtl = 2
  CleanEvery = 1
  MaxEntries = 2
  Cooldown = 3
  MaxChecks = 2
  None = None
  Scenes <- AllScenes
  Callers = {c1, c2}
  FailMax = 2
  Reset = 2
  Ttl = 2
  DateTtl = 2
  ImageTtl = 2
  MaxImages = 2
  Senders = {s1, s2}
  Token = 2
  Refill = 1
  Burst = 4
  Patience = 1
INVARIANT PictureOfTheChange
SYMMETRY Same
