\* A duel without admin and idle bot in which players may leave.
SPECIFICATION Spec
CONSTANTS
  c1 = c1
  c2 = c2
  c3 = c3
  c4 = c4
  red = red
  blue = blue
  NoTeam = NoTeam
  Client = {c1, c2}
  Team = {}
  Admin = {}
  Mode = "duel"
  k_count = 3
  k_idletime = 0
  k_lockmin = 0
  k_lockmax = 2
  k_membercount = 0
  k_vp_break = 51
  k_overtime = 2
  k_exttime = 1
  timelimit = 1
  fraglimit = FALSE
  Minute = 2
  ForceDelay = 11
SYMMETRY Others
PROPERTIES
  DuelNeedsTwoPlayers
