\* Client 1 shows his speed as frags.
CONSTANTS
  MaxClients = 4
  Viewers = {}
  TeamSetters = {1, 2, 3, 4}
  AdminSeekers = {}
  Codes = {}
  Fast = {1}
  Team = {"red", "blue"}
  NoTeam = "no team"
  isCA = FALSE
  k_vp_admin = 51
  k_vp_captain = 51
SPECIFICATION Spec
INVARIANTS NumbersNameTheFree
