\* Teams, added time and a frag limit, with an idle bot and an admin: clock and progress.
SPECIFICATION FairSpec
CONSTANTS
  c1 = c1
  c2 = c2
  c3 = c3
  c4 = c4
  red = red
  blue = blue
  NoTeam = NoTeam
  Client = {c1, c2, c3}
  Team = {red, blue}
  Admin = {c1}
  Mode = "team"
  k_count = 3
  k_idletime = 3
  k_lockmin = 2
  k_lockmax = 2
  k_membercount = 1
  k_vp_break = 51
  k_overtime = 1
  k_exttime = 1
  timelimit = 2
  fraglimit = TRUE
  Minute = 2
  ForceDelay = 3
PROPERTIES
  ClockCountsSeconds
  CountdownEnds
  ClockRunsOut
  ForceResolves
