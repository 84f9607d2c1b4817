------------------------------- MODULE MCModes -------------------------------
(***************************************************************************)
(* The game types that have a state machine of their own, for TLC.  A      *)
(* server plays one of them at a time; the modules of the others rest in   *)
(* an initial state, so the state counts of the game types add up.  The    *)
(* scores of duel, ffa and team play, the vote for a map and the items of  *)
(* a map are checked in the same way.                                      *)
(***************************************************************************)
EXTENDS ArenaQueue, ClanArena, CTFFlag, Race, Hoony, Scores, MapVote, Items, Bloodfest

CONSTANT GameType    \* the game types to check

VARIABLE type        \* the game type of the server

modes == <<type, ra, ca, ctf, race, hm, sc, mv, it, bf>>

\* Client slots of race by its settings.
SeatsToTakeTurns == [mode \in {"turns"} |-> 3]
SeatsOfAll == [mode \in {"turns", "together", "duel"} |-> IF mode = "turns" THEN 3 ELSE 2]
SeatsOfFFA == [mode \in {"ffa"} |-> 3]

\* Settings of matches: duels and team play with every kind of overtime, and one without ghosts.
ScoreSettings ==
  [mode : {"duel", "team"}, overtime : {"normal", "tiebreak", "golden"}, lock : {1}]
    \cup {[mode |-> "duel", overtime |-> "added", lock |-> 0],
          [mode |-> "ffa", overtime |-> "golden", lock |-> 1],
          [mode |-> "team", overtime |-> "none", lock |-> 2]}

\* Where the modules of the other game types rest: in a state of their own Init.
CaResting == CaStart(CHOOSE mode \in CaMode : TRUE)
RaceResting == RaceEmpty(CHOOSE mode \in DOMAIN RaceSeats : TRUE)
ScResting == CHOOSE s \in ScStarts : TRUE
ItResting == ItStart(CHOOSE mode \in ItMode : TRUE)

ASSUME ModesAssumption == CaMode # {} /\ DOMAIN RaceSeats # {} /\ ScStarts # {} /\ ItMode # {}

ModesInit ==
  /\ type \in GameType
  /\ ArenaInit /\ FlagInit /\ HmInit /\ MvInit /\ BfInit
  /\ IF type = "clan" THEN ClanInit ELSE ca = CaResting
  /\ IF type = "race" THEN RaceInit ELSE race = RaceResting
  /\ IF type = "score" THEN ScInit ELSE sc = ScResting
  /\ IF type = "items" THEN ItInit ELSE it = ItResting

Arena(step) == type = "arena" /\ step /\ UNCHANGED <<type, ca, ctf, race, hm, sc, mv, it, bf>>
Clan(step) == type = "clan" /\ step /\ UNCHANGED <<type, ra, ctf, race, hm, sc, mv, it, bf>>
Flag(step) == type = "flag" /\ step /\ UNCHANGED <<type, ra, ca, race, hm, sc, mv, it, bf>>
Racing(step) == type = "race" /\ step /\ UNCHANGED <<type, ra, ca, ctf, hm, sc, mv, it, bf>>
Rounds(step) == type = "hoony" /\ step /\ UNCHANGED <<type, ra, ca, ctf, race, sc, mv, it, bf>>
Overtime(step) == type = "score" /\ step /\ UNCHANGED <<type, ra, ca, ctf, race, hm, mv, it, bf>>
Maps(step) == type = "maps" /\ step /\ UNCHANGED <<type, ra, ca, ctf, race, hm, sc, it, bf>>
Pickups(step) == type = "items" /\ step /\ UNCHANGED <<type, ra, ca, ctf, race, hm, sc, mv, bf>>
Horde(step) == type = "fest" /\ step /\ UNCHANGED <<type, ra, ca, ctf, race, hm, sc, mv, it>>

ModesNext ==
  Arena(ArenaNext) \/ Clan(ClanNext) \/ Flag(FlagNext) \/ Racing(RaceNext) \/ Rounds(HmNext)
    \/ Overtime(ScNext) \/ Maps(MvNext) \/ Pickups(ItNext)
    \/ Horde(BfNext)

ModesSpec == ModesInit /\ [][ModesNext]_modes

\* The fairness of the modules, each for its game type.
ModesFair ==
  /\ WF_modes(Arena(RaFrame)) /\ WF_modes(Arena(RaTime))
  /\ WF_modes(Clan(CaFrame)) /\ WF_modes(Clan(CaTime))
  /\ \A p \in CaPlayer \ CaLaggard : WF_modes(Clan(CaRespawn(p)))
  /\ WF_modes(Racing(RaceFrame)) /\ WF_modes(Racing(race.game < 2 /\ RaceTime))
  /\ WF_modes(Horde(BfFrame))

ModesFairSpec == ModesSpec /\ ModesFair

(***************************************************************************)
(* The type invariants of the nine modules.  The one of HoonyMode says     *)
(* that no round is written behind the end of hoony_results[].             *)
(***************************************************************************)
ModesTypeOK == ArenaTypeOK /\ ClanTypeOK /\ CtfTypeOK /\ RaceTypeOK /\ HmTypeOK
               /\ ScTypeOK /\ MvTypeOK /\ ItTypeOK /\ BfTypeOK
=============================================================================
