SPECIFICATION Spec
CONSTANTS
  Users = {u1, u2}
  Handlers = {h1, h2}
  Regions = {"kyiv", "dnipro"}
  QueuesOf <- TwoRegions
  Home = "kyiv"
  Addresses = {a1, a2}
  Channels = {c1, c2}
  None = None
  Scenes <- AllScenes
INVARIANTS WizardIsReady FactFlagsAgree NewProfileIsNew OneOwner NoGhostChannel
PROPERTY AlertsADayApart
SYMMETRY Same
