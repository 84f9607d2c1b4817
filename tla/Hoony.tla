-------------------------------- MODULE Hoony --------------------------------
(***************************************************************************)
(* HoonyMode for two: a series of rounds that each end with one death.     *)
(* The scores last over the rounds, and every second round is played from  *)
(* the spawn points of the round before with the players changed about.    *)
(* EndMatch() ends a round or, when HM_is_game_over(), the series; the     *)
(* next round begins when both are ready again, which the server asks      *)
(* their clients to be.                                                    *)
(***************************************************************************)
EXTENDS Integers, FiniteSets

CONSTANTS
  HmPlayer,      \* slots of the two players, 1 and 2, as many as k_maxclients
  HmSpawn,       \* entities info_player_deathmatch
  HmDefault,     \* those whose targetname is the map's hoony_defaultwinner
  HmRounds,      \* HM_rounds(), even as the commands roundsup and roundsdown leave it
  HmMaxRounds,   \* HM_MAX_ROUNDS, 64 in the code
  HmTimelimit,   \* TRUE if a round has a time limit
  HmFrags        \* bound: points of a player when a round begins

ASSUME HmAssumption ==
  /\ HmPlayer = {1, 2} /\ IsFiniteSet(HmSpawn) /\ Cardinality(HmSpawn) >= 2 /\ 0 \notin HmSpawn /\ HmDefault \subseteq HmSpawn
  /\ HmRounds \in {2 * n : n \in 1 .. 10} /\ HmMaxRounds \in {2 * n : n \in 1 .. 32}
  /\ HmTimelimit \in BOOLEAN /\ HmFrags \in Nat

VARIABLE hm    \* the state of the series, a record

HM_WINNING_DIFF == 2
Other(p) == 3 - p

HmEmpty ==
  [here |-> {},
   ready |-> {},
   frags |-> [p \in HmPlayer |-> 0],
   spawn |-> [p \in HmPlayer |-> 0],      \* k_hoonyspawn, 0 for NULL
   new |-> [p \in HmPlayer |-> 0],        \* k_hoony_new_spawn
   round |-> 0,                           \* round_number
   true_round |-> 0,                      \* true_round_number, modulo 2
   game |-> 0,                            \* match_in_progress, 3 is match_over
   match_break |-> FALSE,
   last |-> [p \in HmPlayer |-> 0],       \* history: the spawn points of the round before
   changed |-> FALSE,                     \* history: somebody has left or come during the series
   drawn |-> FALSE]                       \* history: the last step was a drawn round

-----------------------------------------------------------------------------
(***************************************************************************)
(* The end of a round and of the series.                                   *)
(***************************************************************************)
Lead(s) ==
  IF s.here = HmPlayer THEN IF s.frags[1] < s.frags[2] THEN s.frags[2] - s.frags[1]
                                                       ELSE s.frags[1] - s.frags[2]
  ELSE 0
MaxFrags(s) ==
  CHOOSE n \in {s.frags[p] : p \in s.here} : \A p \in s.here : s.frags[p] <= n

PointFinal(s) == s.here # {} /\ s.round >= HmRounds /\ Lead(s) >= HM_WINNING_DIFF
PointSet(s) == s.here # {} /\ MaxFrags(s) >= HmRounds \div 2 /\ Lead(s) >= HM_WINNING_DIFF - 1

\* Mutant: a lead decides in every round.
HM_is_game_overAnyRound(s) ==
  s.match_break \/ PointFinal(s) \/ (PointSet(s) /\ MaxFrags(s) > HmRounds \div 2)

\* Over by vote, by a lead of two, or by a lead when both have had both sides.
HM_is_game_over(s) ==
  \/ s.match_break
  \/ PointFinal(s)
  \/ ~PointFinal(s) /\ PointSet(s) /\ s.true_round = 0 /\ MaxFrags(s) > HmRounds \div 2

HmEndMatch(s) ==
  [s EXCEPT !.game = IF HM_is_game_over(s) THEN 3 ELSE 0, !.ready = {}]

NextRound(n) == IF n < HmMaxRounds - 1 THEN n + 1 ELSE n - 1

HmEndRound(s) ==
  HmEndMatch([s EXCEPT !.true_round = 1 - @, !.round = NextRound(@), !.last = s.new])

\* ClientObituary(): who kills gets the point, who kills himself gives it.
HmKill(p, q) ==
  /\ hm.game = 2 /\ p # q /\ {p, q} \subseteq hm.here
  /\ hm' = HmEndRound([hm EXCEPT !.frags = [hm.frags EXCEPT ![p] = @ + 1], !.drawn = FALSE])

HM_suicide(p) ==
  /\ hm.game = 2 /\ p \in hm.here
  /\ hm' = HmEndRound([hm EXCEPT !.frags = [q \in HmPlayer |->
                                 @[q] + IF q \in hm.here \ {p} THEN 1 ELSE 0], !.drawn = FALSE])

\* The time is over: the map may say who wins then, by the point where he spawned.
WinsByDefault(s) == {p \in s.here : s.new[p] \in HmDefault}
First(S) == CHOOSE p \in S : \A q \in S : p <= q

HM_drawWon ==
  /\ HmTimelimit /\ hm.game = 2 /\ WinsByDefault(hm) # {}
  /\ LET winner == First(WinsByDefault(hm))
     IN hm' = HmEndRound([hm EXCEPT !.frags = [hm.frags EXCEPT ![winner] = @ + 1], !.drawn = FALSE])

\* The inner loop goes over all players with the variable of the outer one, which
\* has then come to its end (external: trap_nextclient of no client is no client).
HM_draw ==
  /\ HmTimelimit /\ hm.game = 2 /\ hm.here # {} /\ WinsByDefault(hm) = {}
  /\ LET points(p) == (IF p = First(hm.here) THEN 1 ELSE 0) + (IF p \in hm.here THEN 1 ELSE 0)
     IN hm' = HmEndRound([hm EXCEPT !.drawn = TRUE,
                          !.frags = IF MaxFrags(hm) < HmRounds
                                    THEN [p \in HmPlayer |-> @[p] + points(p)] ELSE @])

-----------------------------------------------------------------------------
(***************************************************************************)
(* Readiness and the start of a round.                                     *)
(***************************************************************************)
\* Mutant: nobody changes about in an odd round.
HM_all_readyStays(s) ==
  IF s.round % 2 = 0
  THEN {[s EXCEPT !.spawn = f, !.new = f] :
          f \in {g \in [HmPlayer -> HmSpawn] : g[1] # g[2]}}
  ELSE {[s EXCEPT !.new = s.spawn]}

\* Shuffled in an even round; in an odd one everybody gets the next player's.
HM_all_ready(s) ==
  IF s.round % 2 = 0
  THEN {[s EXCEPT !.spawn = f, !.new = f] :
          f \in {g \in [HmPlayer -> HmSpawn] : g[1] # g[2]}}
  ELSE {[s EXCEPT !.new = [p \in HmPlayer |-> s.spawn[Other(p)]]]}

\* The last one ready starts the countdown.
HmReady(p) ==
  /\ hm.game = 0 /\ p \in hm.here \ hm.ready
  /\ LET s == [hm EXCEPT !.ready = @ \cup {p}]
     IN IF s.ready = HmPlayer /\ \A q \in HmPlayer : s.frags[q] <= HmFrags
        THEN \E t \in HM_all_ready(s) : hm' = [t EXCEPT !.game = 1]
        ELSE s.ready # HmPlayer /\ hm' = s

\* Only the countdown of the first round can be stopped.
HmBreak(p) ==
  /\ p \in hm.ready /\ (hm.game = 0 \/ (hm.game = 1 /\ hm.round = 0))
  /\ hm' = [hm EXCEPT !.ready = @ \ {p}, !.game = 0]

\* vote_check_break(), at any other time.
HmVoteBreak ==
  /\ hm.game \in {1, 2}
  /\ hm' = HmEndMatch([hm EXCEPT !.match_break = TRUE])

\* StartMatch(): the scores are cleared for the first round only.
HmStartMatch ==
  /\ hm.game = 1
  /\ hm' = [hm EXCEPT !.game = 2,
                      !.frags = IF hm.round > 0 THEN @ ELSE [p \in HmPlayer |-> 0],
                      !.changed = IF hm.round > 0 THEN @ ELSE \E p \in HmPlayer : hm.new[p] = 0]

\* Outside of rounds the point where one spawns is remembered.
HM_log_spawn_point(p, spot) ==
  /\ hm.game = 0 /\ p \in hm.here /\ hm.new[p] # spot
  /\ hm' = [hm EXCEPT !.new[p] = spot]

HmConnect(p) ==
  /\ p \notin hm.here
  /\ hm' = [hm EXCEPT !.here = @ \cup {p},
                      !.ready = IF hm.game \in {1, 2} THEN @ \cup {p} ELSE @]

\* Without players the match ends and the map is loaded again.
HmDisconnect(p) ==
  /\ p \in hm.here
  /\ hm' = IF hm.here = {p} THEN HmEmpty
           ELSE [hm EXCEPT !.here = @ \ {p}, !.ready = @ \ {p}, !.frags[p] = 0,
                           !.spawn[p] = 0, !.new[p] = 0, !.changed = TRUE]

\* NextLevel(): the game module is loaded again.
HmNewLevel == hm.game = 3 /\ hm' = HmEmpty

-----------------------------------------------------------------------------
HmInit == hm = HmEmpty

HmClients ==
  \E p \in HmPlayer :
     \/ HmConnect(p) \/ HmDisconnect(p) \/ HmReady(p) \/ HmBreak(p) \/ HM_suicide(p)
     \/ \E q \in HmPlayer : HmKill(p, q)
     \/ \E spot \in HmSpawn : HM_log_spawn_point(p, spot)

HmNext ==
  \/ hm.game # 3 /\ HmClients
  \/ HM_draw \/ HM_drawWon \/ HmVoteBreak \/ HmStartMatch \/ HmNewLevel

HmSpec == HmInit /\ [][HmNext]_hm

-----------------------------------------------------------------------------
HmTypeOK ==
  /\ DOMAIN hm = DOMAIN HmEmpty
  /\ hm.ready \subseteq hm.here /\ hm.here \subseteq HmPlayer
  /\ hm.frags \in [HmPlayer -> Nat]
  /\ hm.spawn \in [HmPlayer -> HmSpawn \cup {0}] /\ hm.new \in [HmPlayer -> HmSpawn \cup {0}]
  /\ hm.round \in 0 .. HmMaxRounds - 1 /\ hm.true_round \in {0, 1} /\ hm.game \in 0 .. 3

(***************************************************************************)
(* A series that is not stopped by a vote ends when both have played the   *)
(* same rounds from both sides, with one player ahead: also the lead of    *)
(* two, which is not checked for it, cannot come about in an odd round     *)
(* while the two players stay, even with rounds that nobody or the default  *)
(* winner wins in between.                                                  *)
(***************************************************************************)
SeriesEndsEven ==
  hm.game = 3 /\ ~hm.match_break /\ ~hm.changed => hm.true_round = 0 /\ Lead(hm) > 0

(***************************************************************************)
(* In a round with an odd number everybody plays from the spawn point his  *)
(* opponent had in the round before, however long the series is and        *)
(* wherever they have spawned in between.                                  *)
(***************************************************************************)
SidesSwap ==
  hm.game = 2 /\ hm.true_round = 1 /\ ~hm.changed =>
    \A p \in HmPlayer : hm.new[p] = hm.last[Other(p)]

(***************************************************************************)
(* "If in normal rounds, everyone gets a point" (hoonymode.c:174): a drawn *)
(* round leaves the difference between the players as it was.              *)
(***************************************************************************)
DrawKeepsLead ==
  [][ hm'.drawn /\ hm'.true_round # hm.true_round =>
        hm'.frags[1] - hm'.frags[2] = hm.frags[1] - hm.frags[2] ]_hm
=============================================================================
