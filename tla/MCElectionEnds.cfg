\* Clan arena, with three players who elect captains and a spectator who becomes admin.
\* A single team is enough: the first captain may give it up for the second to take.
CONSTANTS
  MaxClients = 4
  Viewers = {4}
  TeamSetters = {1, 2}
  AdminSeekers = {4}
  Codes = {4}
  Fast = {}
  Team = {"red"}
  NoTeam = "no team"
  isCA = TRUE
  k_vp_admin = 51
  k_vp_captain = 51
SPECIFICATION FairSpec
INVARIANTS OneElection
PROPERTIES ElectionsEnd
