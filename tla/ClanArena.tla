------------------------------ MODULE ClanArena ------------------------------
(***************************************************************************)
(* Clan Arena and Wipeout: a match between two teams is a series of rounds. *)
(* In clan arena the dead stay out until the round is over; in wipeout a    *)
(* dead player is in limbo for a while and comes back, a limited number of  *)
(* times.  CA_Frame(), run in every frame, is the referee: it respawns      *)
(* players from limbo, sees which teams are alive, holds the pause after a  *)
(* round, keeps the score and counts the next round down.                   *)
(***************************************************************************)
EXTENDS Integers, FiniteSets

CONSTANTS
  CaPlayer,      \* the clients
  CaFirstTeam,   \* those of them who begin the match in the first team
  CaLeaver,      \* bound: those of them who leave and come back
  CaLaggard,     \* those of them whose frames may stop coming for a while
  CaMode,        \* values of k_clan_arena to check: 1 clan arena, 2 wipeout
  MaxRespawns,   \* k_clan_arena_max_respawns of wipeout; clan arena has none
  WinsRequired,  \* CA_wins_required(), at least 2 in the code
  RoundTime,     \* bound: steps of the clock in the countdown of a round (9 s)
  PauseTime      \* bound: steps of the clock in the pause after it (8 s)

ASSUME CaTeamAssumption == CaFirstTeam \cup CaLeaver \cup CaLaggard \subseteq CaPlayer /\ IsFiniteSet(CaPlayer)
ASSUME CaModeAssumption == CaMode \subseteq {1, 2}
ASSUME CaNumberAssumption == /\ MaxRespawns \in Nat /\ WinsRequired \in Nat \ {0}
                             /\ RoundTime \in Nat /\ PauseTime \in Nat \ {0}

VARIABLE ca    \* the state of the series, a record

CaTeamOf(p) == IF p \in CaFirstTeam THEN 1 ELSE 2
CaAll(v) == [p \in CaPlayer |-> v]
NoDelay == -1
Respawns(s) == IF s.mode = 2 THEN MaxRespawns ELSE 0

\* SM_PrepareCA, at the start of the match.
CaStart(mode) ==
  [mode |-> mode,
   here |-> CaPlayer,                       \* clients that are connected as players
   team |-> [p \in CaPlayer |-> CaTeamOf(p)],   \* 0 is the empty team
   ready |-> CaPlayer,                      \* ca_ready: takes part in the series
   live |-> CaPlayer,                       \* ISLIVE: health and ca_alive
   dying |-> {},                            \* killed, and not yet a ghost
   in_play |-> CaPlayer,
   limbo |-> {},                            \* in_limbo
   can |-> CaPlayer,                        \* can_respawn
   deaths |-> CaAll(0),                     \* round_deaths
   delay |-> CaAll(NoDelay),                \* spawn_delay minus the time
   solo |-> {},                             \* is_solo
   no_pain |-> {},
   fight |-> 0,                             \* ra_match_fight
   left |-> 0,                              \* time_to_start minus the time
   pause |-> FALSE,                         \* ca_round_pause
   pause_left |-> 0,                        \* pause_time minus the time
   loser |-> 0,                             \* loser_team
   score |-> <<0, 0>>,                      \* team1_score, team2_score
   round |-> 1,                             \* round_num
   over |-> FALSE]                          \* match_over

-----------------------------------------------------------------------------
(***************************************************************************)
(* Spawning.                                                               *)
(***************************************************************************)
Members(s, t) == {p \in s.here : s.team[p] = t}
Alone(s, p) == Members(s, s.team[p]) = {p}

\* Mutant: whoever connects plays at once.
CA_CheckAliveAnybody(s, p) == s.fight # 2 \/ p \in s.limbo

CA_CheckAlive(s, p) == p \in s.ready /\ (s.fight # 2 \/ p \in s.limbo)

\* Alive, or a ghost, who may be in limbo until his time has come.
CA_PutClientInServer(s, p) ==
  LET me == {p}
      deaths == s.deaths[p] + 1
      waits == p \in s.ready /\ deaths <= Respawns(s) /\ p \in s.can
      s1 == [s EXCEPT !.dying = @ \ me, !.limbo = @ \ me]
  IN IF CA_CheckAlive(s, p)
     THEN [s1 EXCEPT !.live = @ \cup me, !.in_play = @ \cup me]
     ELSE [s1 EXCEPT !.live = @ \ me, !.in_play = @ \ me,
                     !.deaths[p] = deaths, !.delay[p] = NoDelay,
                     !.limbo = IF waits THEN @ \cup me ELSE @]

\* calc_respawn_time(): longer with every death, none for the first of a solo player.
RespawnTime(s, p) ==
  IF s.mode = 2 /\ Alone(s, p) /\ s.deaths[p] = 1 THEN 0
  ELSE IF s.deaths[p] < 1 THEN 0 ELSE s.deaths[p]

-----------------------------------------------------------------------------
(***************************************************************************)
(* Clients come and go; the team of a newcomer may let him join late.      *)
(***************************************************************************)
\* A ghost entity keeps scores and no ca_ready: who returns does not play.
CaConnect(p) ==
  /\ p \notin ca.here
  /\ ca' = CA_PutClientInServer(
             [ca EXCEPT !.here = @ \cup {p}, !.team[p] = 0, !.deaths[p] = 0], p)

CaDisconnect(p) ==
  /\ p \in ca.here
  /\ LET me == {p}
     IN ca' = [ca EXCEPT !.here = @ \ me, !.ready = @ \ me, !.live = @ \ me,
                         !.dying = @ \ me, !.in_play = @ \ me, !.limbo = @ \ me,
                         !.can = @ \ me, !.solo = @ \ me, !.no_pain = @ \ me,
                         !.team[p] = 0, !.deaths[p] = 0, !.delay[p] = NoDelay,
                         !.over = @ \/ ca.here = me]

\* latejoin and CA_AddLatePlayer, the vote in between is left out.
CaLateJoin(p, t) ==
  LET count(S) == Cardinality(ca.ready \cap S)
  IN /\ p \in ca.here \ ca.ready
     /\ count(Members(ca, t)) <= count(ca.here \ Members(ca, t))
     /\ ca' = [ca EXCEPT !.ready = @ \cup {p}, !.team[p] = t, !.can = @ \ {p}]

-----------------------------------------------------------------------------
(***************************************************************************)
(* Death.  no_pain is looked at by T_Damage and set in the player's own    *)
(* frame, so it lags behind the pause.                                     *)
(***************************************************************************)
Hurts(s, p) == p \in s.in_play /\ ~s.pause

\* CA_player_pre_think of the clients in S; the dying do not get there.
PreThink(s, S) ==
  [s EXCEPT !.no_pain = {p \in @ : p \notin S} \cup {p \in S \ s.dying : ~Hurts(s, p)}
                        \cup (@ \cap s.dying)]

PlayerDies(s, p) == [s EXCEPT !.live = @ \ {p}, !.dying = @ \cup {p}]

\* Until the fight somebody can only be telefragged, by a player who would be hurt himself.
Telefragged(s, p) == \E q \in s.live \ {p} : q \notin s.no_pain

\* CA_check_escape: a survivor whom a teammate joined a moment ago gets a life back.
CaKilled(p) ==
  /\ p \in ca.live /\ p \notin ca.no_pain /\ (ca.fight = 2 \/ Telefragged(ca, p))
  /\ \/ ca' = PlayerDies(ca, p)
     \/ /\ ca.mode = 2 /\ ca.deaths[p] >= 0
        /\ \E q \in ca.live : q # p /\ ca.team[q] = ca.team[p] /\ ca.deaths[q] > 0
        /\ ca' = [PlayerDies(ca, p) EXCEPT !.deaths[p] = @ - 1]

\* ClientKill: no respawn in this round.
CaSuicide(p) ==
  /\ p \in ca.live /\ ca.fight = 2 /\ ~ca.pause
  /\ ca' = [PlayerDies(ca, p) EXCEPT !.can = @ \ {p}]

\* PlayerDeathThink: in this mode at once.
CaRespawn(p) == p \in ca.dying /\ ca' = CA_PutClientInServer(ca, p)

-----------------------------------------------------------------------------
(***************************************************************************)
(* CA_Frame.                                                               *)
(***************************************************************************)
\* Applies Op(s, p) to the players of S, whose fields do not depend on each other.
EachOf(s, S, Op(_, _)) ==
  LET has(field, p) == p \in Op(s, p)[field]
      gather(field) == {p \in S : has(field, p)} \cup (s[field] \ S)
  IN [s EXCEPT !.live = gather("live"), !.in_play = gather("in_play"),
               !.dying = gather("dying"), !.limbo = gather("limbo"),
               !.deaths = [p \in CaPlayer |-> IF p \in S THEN Op(s, p).deaths[p] ELSE @[p]],
               !.delay = [p \in CaPlayer |-> IF p \in S THEN Op(s, p).delay[p] ELSE @[p]]]

\* A player in limbo gets his time, and plays again when it has come.
LeaveLimbo(s, p) ==
  LET d == IF s.delay[p] = NoDelay THEN RespawnTime(s, p) ELSE s.delay[p]
  IN IF d > 0 THEN [s EXCEPT !.delay[p] = d]
     ELSE [CA_PutClientInServer(s, p) EXCEPT !.delay[p] = NoDelay]

Limbo(s) ==
  IF s.fight = 2 /\ ~s.pause /\ s.mode = 2
  THEN [EachOf(s, s.limbo, LeaveLimbo)
          EXCEPT !.solo = {p \in @ : p \notin s.limbo} \cup {p \in s.limbo : Alone(s, p)}]
  ELSE s

SoloOnFirstDeath(s, t) ==
  /\ s.mode = 2
  /\ \E p \in s.ready \cap s.solo \cap s.can :
        s.ready \cap Members(s, t) = {p} /\ s.deaths[p] <= 1

LiveTeams(s) == {s.team[p] : p \in s.live}

\* CA_check_alive_teams: the team that has won, 0 for a draw, -1 as long as they fight.
Verdict(s) ==
  IF Cardinality(LiveTeams(s)) > 1 \/ \E t \in {1, 2} \ LiveTeams(s) : SoloOnFirstDeath(s, t) THEN -1
  ELSE IF LiveTeams(s) = {} THEN 0
  ELSE CHOOSE t \in LiveTeams(s) : TRUE

\* Mutant: a draw is scored for the second team, as everything but 1.
ScoreAnyway(s, t) ==
  [s EXCEPT !.score[IF t = 1 THEN 1 ELSE 2] = @ + 1, !.round = @ + 1]

Score(s, t) == IF t = 0 THEN s ELSE [s EXCEPT !.score[t] = @ + 1, !.round = @ + 1]

\* The first call begins the pause, the last one scores; near its end nobody can fire.
EndRound(s, t) ==
  LET begun == IF s.pause THEN s
               ELSE [s EXCEPT !.pause = TRUE, !.pause_left = PauseTime,
                              !.loser = IF t = 0 THEN 0 ELSE 3 - t]
  IN IF begun.pause_left = 0
     THEN [Score(begun, t) EXCEPT !.pause = FALSE, !.loser = 0, !.fight = 0]
     ELSE [begun EXCEPT !.fight = IF 2 * begun.pause_left <= PauseTime THEN 1 ELSE @]

\* Mutant: only a fight is watched, not the second half of the pause.
JudgeTheFightOnly(s) == IF s.fight = 2 /\ Verdict(s) # -1 THEN EndRound(s, Verdict(s)) ELSE s

Judge(s) ==
  IF (s.fight = 2 \/ (s.fight = 1 /\ s.pause)) /\ Verdict(s) # -1
  THEN EndRound(s, Verdict(s)) ELSE s

NewRound(s) ==
  EachOf([s EXCEPT !.fight = 1, !.left = RoundTime, !.can = @ \cup s.ready,
                   !.deaths = [p \in CaPlayer |-> IF p \in s.ready THEN 0 ELSE @[p]],
                   !.solo = {p \in @ : p \notin s.ready} \cup {p \in s.ready : Alone(s, p)}],
         s.ready, CA_PutClientInServer)

Countdown(s) ==
  LET t == IF s.fight = 0 THEN NewRound(s) ELSE s
  IN IF t.left = 0 THEN [t EXCEPT !.fight = 2] ELSE t

SeriesWon(s) == \E t \in {1, 2} : s.score[t] >= WinsRequired

CA_FrameOf(s) ==
  LET t == Judge(Limbo(s))
  IN CASE t.fight = 2  -> t
       [] t.fight # 2 /\ SeriesWon(t) -> [t EXCEPT !.over = TRUE]
       [] t.fight # 2 /\ ~SeriesWon(t) /\ t.pause -> t
       [] OTHER -> Countdown(t)

CaFrame == ~ca.over /\ \E next \in {CA_FrameOf(ca)} : next # ca /\ ca' = next

\* A step of the clock is longer than a death and than the frames of a client that
\* does not lag; one that lags may have run his.
CaTime ==
  LET less(n) == IF n > 0 THEN n - 1 ELSE n
      t == [ca EXCEPT !.left = less(@), !.pause_left = less(@),
                      !.delay = [p \in CaPlayer |-> less(@[p])]]
  IN /\ ca.dying \subseteq CaLaggard
     /\ \E S \in SUBSET (ca.here \cap CaLaggard) :
           ca' = PreThink(t, S \cup (ca.here \ CaLaggard))
     /\ ca' # ca

\* The level changes and another series begins.
CaNewMatch == ca.over /\ \E mode \in CaMode : ca' = CaStart(mode)

-----------------------------------------------------------------------------
ClanInit == \E mode \in CaMode : ca = CaStart(mode)

ClanPlayers ==
  \E p \in CaPlayer :
     \/ p \in CaLeaver /\ (CaConnect(p) \/ CaDisconnect(p))
     \/ \E t \in {1, 2} : CaLateJoin(p, t)
     \/ CaKilled(p) \/ CaSuicide(p) \/ CaRespawn(p)

ClanNext ==
  \/ ~ca.over /\ ClanPlayers
  \/ CaFrame \/ CaTime \/ CaNewMatch

\* The engine runs the frames; the death of a client that does not lag ends.
ClanFair ==
  /\ WF_ca(CaFrame) /\ WF_ca(CaTime)
  /\ \A p \in CaPlayer \ CaLaggard : WF_ca(CaRespawn(p))

ClanSafety == ClanInit /\ [][ClanNext]_ca
ClanSpec == ClanSafety /\ ClanFair

-----------------------------------------------------------------------------
\* The fields of the record.
CaFields == DOMAIN CaStart(1)

ClanTypeOK ==
  /\ DOMAIN ca = CaFields
  /\ \A f \in {"here", "ready", "live", "dying", "in_play", "limbo", "can", "solo", "no_pain"} :
        ca[f] \subseteq CaPlayer
  /\ ca.deaths \in [CaPlayer -> -1 .. MaxRespawns + 1]
  /\ ca.delay \in [CaPlayer -> -1 .. MaxRespawns]
  /\ ca.fight \in 0 .. 2 /\ ca.loser \in 0 .. 2 /\ ca.score \in [{1, 2} -> 0 .. WinsRequired]

(***************************************************************************)
(* Only who takes part in the series is alive or waits to come back, and   *)
(* while a round is played the eliminated stay out: alive is who has spawns *)
(* left.  (Clients connect, join late, die and come back all the time.)    *)
(***************************************************************************)
OutsidersStayOut ==
  /\ ca.live \cup ca.limbo \cup ca.dying \subseteq ca.ready
  /\ ca.ready \subseteq ca.here
  /\ \A p \in ca.live : ca.fight = 2 => ca.deaths[p] <= Respawns(ca)

(***************************************************************************)
(* A point goes to a team with a player alive, and never to the team that  *)
(* was eliminated when the pause began, although deaths and departures in  *)
(* the pause are judged again in every frame of it.                        *)
(***************************************************************************)
PointForTheSurvivors ==
  [][ \A t \in {1, 2} :
        ca'.score[t] > ca.score[t] => ca.loser # t /\ t \in LiveTeams(ca) ]_ca

(***************************************************************************)
(* In clan arena the pause ends, and the series goes on.                   *)
(***************************************************************************)
PauseEnds == []<>(ca.mode = 1 => ~ca.pause \/ ca.over)
=============================================================================
