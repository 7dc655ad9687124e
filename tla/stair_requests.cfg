SPECIFICATION Spec
CONSTANTS
  MaxId = 1
  Risers = {r1, r2}
  NoRiser = NoRiser
  Latency = {1}
  Hold = 1
  StairLimit = 1
  BumpLimit = 2
  Timeout = 2
INVARIANTS
  SkillFollowsRequest
  TriggerIsNotDeaf
  NoRetriggerAhead
SYMMETRY Symmetry
