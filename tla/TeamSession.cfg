CONSTANTS
  r1 = r1
  r2 = r2
  d1 = d1
  d2 = d2
  lead = lead
  qa = qa
  dev = dev
  None = None
  Loops = {r1, r2}
  Jobs = {d1, d2}
  Leader = lead
  Members = {qa, dev}
  Gate = qa
  Files = {"code", "plan"}
  Checks = {"t1", "t2", "qa"}
  GateNamed = {"qa"}
  Items = {"one", "all"}
  Covers <- TestCovers
  Scenes <- AllScenes
SPECIFICATION Spec
INVARIANT TasksAttended
PROPERTIES CompletionJustified SendsReturn CancelledLoopsEnd
CHECK_DEADLOCK FALSE
