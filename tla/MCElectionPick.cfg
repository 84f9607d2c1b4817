\* Five players: two captains pick the three others, while players come and go.
CONSTANTS
  MaxClients = 5
  Viewers = {}
  TeamSetters = {1, 3}
  AdminSeekers = {}
  Codes = {}
  Fast = {}
  Team = {"red", "blue"}
  NoTeam = "no team"
  isCA = FALSE
  k_vp_admin = 51
  k_vp_captain = 51
SPECIFICATION Spec
INVARIANTS TypeOK CaptainsWorth PickingHasTwoCaptains NumbersNameTheFree PicksAreFair
PROPERTIES MajorityElects
