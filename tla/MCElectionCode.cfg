\* Client 1 has the admin code and may enter it as a candidate captain.
CONSTANTS
  MaxClients = 4
  Viewers = {}
  TeamSetters = {1, 2, 3, 4}
  AdminSeekers = {1}
  Codes = {1}
  Fast = {}
  Team = {"red", "blue"}
  NoTeam = "no team"
  isCA = FALSE
  k_vp_admin = 51
  k_vp_captain = 51
SPECIFICATION Spec
INVARIANTS PickingHasTwoCaptains
