-------------------------------- MODULE Scores --------------------------------
(***************************************************************************)
(* Frags, the scores computed from them, the ghosts that keep the frags of *)
(* players who have left, and what happens when time is up: added time,    *)
(* sudden death, tie break or golden frag, which Check_SD() ends at a      *)
(* death.  Duel, ffa and team play; the match runs when the module begins. *)
(***************************************************************************)
EXTENDS Integers, FiniteSets, FiniteSetsExt

CONSTANTS
  ScPlayer,      \* names, in the order of their slots
  ScRed,         \* those of them who begin a team match in the first team
  ScSetting,     \* settings to check: records [mode, overtime, lock]
  ScTieCount,    \* tiecount(): 2 in deathmatch 4, else 3
  ScTeleDeath,   \* k_tp_tele_death: telefragging a team mate costs a frag
  ScFrags        \* bound: frags of a player are in -ScFrags .. ScFrags

ScModes == {"duel", "ffa", "team"}
ScOvertimes == {"none", "added", "normal", "tiebreak", "golden"}   \* k_overtime

ASSUME ScPlayerAssumption == ScPlayer \in SUBSET Nat /\ IsFiniteSet(ScPlayer) /\ 0 \notin ScPlayer
ASSUME ScSettingAssumption ==
  ScSetting \subseteq [mode : ScModes, overtime : ScOvertimes, lock : 0 .. 2]
ASSUME ScNumberAssumption ==
  ScRed \subseteq ScPlayer /\ ScTieCount \in {2, 3} /\ ScTeleDeath \in BOOLEAN /\ ScFrags \in Nat

VARIABLE sc    \* the state of the match, a record

\* golden_frag_score_snapshot before the first death on a level.
LargeSnapshot == 19998
NotKnown == [fresh |-> FALSE, teams |-> <<0, 0>>, best |-> <<>>]
ScTeamOf(p) == IF p \in ScRed THEN 1 ELSE 2

\* SM_PrepareMap() to StartMatch(): who plays, with no frags and no ghosts.
ScStart(setting, players, snapshot) ==
  [mode |-> setting.mode,
   overtime |-> setting.overtime,              \* the cvar k_overtime
   lock |-> setting.lock,                      \* k_lockmode
   here |-> players,
   frags |-> [p \in ScPlayer |-> 0],
   team |-> [p \in ScPlayer |-> ScTeamOf(p)],
   ghosts |-> {},                              \* entities ghost: cnt2, frags and team
   localinfo |-> [n \in 1 .. Cardinality(ScPlayer) + 1 |-> 0],   \* names by number, 0 is ""
   userid |-> 1,                               \* k_userid
   known |-> NotKnown,                         \* k_nochange, k_scores1 and 2, ed_scores1 and 2
   sd |-> "none",                              \* k_sudden_death
   snapshot |-> snapshot,                      \* difference in golden_frag_score_snapshot
   over |-> FALSE,
   earned |-> [p \in ScPlayer |-> 0],          \* history: frags since p last began from none
   lone |-> FALSE]                             \* history: at the last death there was nobody to compare with

-----------------------------------------------------------------------------
(***************************************************************************)
(* The scores.  They are computed when asked for, if k_nochange has been   *)
(* cleared since; the two best players are pointers into the entities.     *)
(***************************************************************************)
Distance(m, n) == IF m < n THEN n - m ELSE m - n

\* find_plrghst(): players and ghosts.
TeamScore(s, t) ==
  MapThenSumSet(LAMBDA p : s.frags[p], {p \in s.here : s.team[p] = t})
    + MapThenSumSet(LAMBDA g : g.frags, {g \in s.ghosts : g.team = t})

Before(s, p, q) == s.frags[p] > s.frags[q] \/ (s.frags[p] = s.frags[q] /\ p < q)

\* Only players who are there, and in no team.
BestTwo(s) ==
  IF s.mode = "team" \/ Cardinality(s.here) < 2 THEN <<>>
  ELSE CHOOSE b \in s.here \X s.here :
         /\ b[1] # b[2] /\ Before(s, b[1], b[2])
         /\ \A p \in s.here \ {b[1], b[2]} : Before(s, b[2], p)

ReScoresOf(s) ==
  IF s.known.fresh THEN s
  ELSE [s EXCEPT !.known =
          [fresh |-> TRUE,
           teams |-> IF s.mode = "team" THEN <<TeamScore(s, 1), TeamScore(s, 2)>> ELSE <<0, 0>>,
           best |-> BestTwo(s)]]

\* Of a state whose scores are known.
GetCurrentFragDifference(s) ==
  LET k == s.known
  IN IF k.best # <<>> THEN Distance(s.frags[k.best[1]], s.frags[k.best[2]])
     ELSE Distance(k.teams[1], k.teams[2])

updateGoldenFragSnapshot(s) ==
  IF s.mode # "team" /\ s.known.best = <<>> THEN s
  ELSE [s EXCEPT !.snapshot = GetCurrentFragDifference(s)]

-----------------------------------------------------------------------------
(***************************************************************************)
(* The end of the match.                                                   *)
(***************************************************************************)
ScEndMatch(s) ==
  [s EXCEPT !.over = TRUE, !.sd = "none", !.ghosts = {},
            !.localinfo = [n \in DOMAIN @ |-> 0]]

\* Does a death end this overtime?  A match nobody can compare ends, but for golden frag.
SuddenDeathOver(s) ==
  \/ s.sd = "normal"
  \/ s.sd = "tiebreak" /\ s.mode # "team" /\ s.known.best = <<>>
  \/ s.sd = "tiebreak" /\ GetCurrentFragDifference(s) >= ScTieCount
  \/ s.sd = "golden" /\ GetCurrentFragDifference(s) > s.snapshot

\* Mutant: the snapshot stays that of the end of time.
Check_SDKeepsSnapshot(s) ==
  LET r == ReScoresOf(s)
  IN IF SuddenDeathOver(r) THEN ScEndMatch(r)
     ELSE IF r.overtime = "golden" /\ r.sd # "golden" THEN updateGoldenFragSnapshot(r)
     ELSE r

\* The snapshot is taken at every death, before and in golden frag.
Check_SD(s) ==
  LET r == ReScoresOf(s)
  IN IF SuddenDeathOver(r) THEN ScEndMatch(r)
     ELSE IF r.overtime = "golden" THEN updateGoldenFragSnapshot(r)
     ELSE IF r.sd = "tiebreak" THEN r
     ELSE s

\* CheckOvertime(): two sides are there, and the lead is small enough.  Golden frag
\* comes whatever the lead is.
GoesOn(s) ==
  /\ IF s.mode = "team" THEN Cardinality({s.team[p] : p \in s.here}) = 2 ELSE s.known.best # <<>>
  /\ s.overtime # "none"
  /\ s.overtime \in {"added", "normal"} => GetCurrentFragDifference(s) = 0
  /\ s.overtime = "tiebreak" => GetCurrentFragDifference(s) <= 1

\* TimerThink(), when no minute is left.
CheckOvertime ==
  /\ ~sc.over /\ sc.sd = "none"
  /\ LET s == ReScoresOf(sc)
     IN sc' = IF ~GoesOn(s) THEN ScEndMatch(s)
              ELSE IF s.overtime = "added" THEN s
              ELSE [s EXCEPT !.sd = s.overtime]

-----------------------------------------------------------------------------
(***************************************************************************)
(* Deaths.                                                                 *)
(***************************************************************************)
\* p's frags change by n because of a death, which Check_SD() then looks at.
Obituary(s, p, n) ==
  Check_SD([s EXCEPT !.known = NotKnown, !.frags[p] = @ + n, !.earned[p] = @ + n,
                     !.lone = s.mode # "team" /\ Cardinality(s.here) < 2])

InBounds(n) == n \in -ScFrags .. ScFrags

\* By oneself or the world (or somebody who has left), or by one's own telefrag: a frag
\* less; by the command "kill": two.
Dies(p, n) ==
  /\ ~sc.over /\ p \in sc.here /\ InBounds(sc.frags[p] + n)
  /\ sc' = Obituary(sc, p, n)

TeamMates(s, p, q) == s.mode = "team" /\ s.team[p] = s.team[q]

Kills(p, q) ==
  /\ ~sc.over /\ {p, q} \subseteq sc.here /\ p # q
  /\ \E n \in IF TeamMates(sc, p, q) THEN {-1} \cup (IF ScTeleDeath THEN {} ELSE {0}) ELSE {1} :
       InBounds(sc.frags[p] + n) /\ sc' = Obituary(sc, p, n)

-----------------------------------------------------------------------------
(***************************************************************************)
(* Who leaves during the match leaves a ghost with a number, under which   *)
(* localinfo has the name.                                                 *)
(***************************************************************************)
FreeNumber(s) ==
  CHOOSE n \in 1 .. s.userid :
    /\ n = s.userid \/ s.localinfo[n] = 0
    /\ \A m \in 1 .. n - 1 : s.localinfo[m] # 0

MakeGhost(s, p) ==
  IF s.lock = 0 THEN [s EXCEPT !.earned[p] = 0]
  ELSE LET n == FreeNumber(s)
       IN [s EXCEPT !.ghosts = @ \cup {[cnt2 |-> n, frags |-> s.frags[p], team |-> s.team[p]]},
                    !.localinfo[n] = p,
                    !.userid = IF n = @ THEN @ + 1 ELSE @]

ScDisconnect(p) ==
  /\ ~sc.over /\ p \in sc.here
  /\ LET s == MakeGhost([sc EXCEPT !.known = NotKnown], p)
         t == [s EXCEPT !.here = @ \ {p}, !.frags[p] = 0]
     IN sc' = IF t.here = {} THEN ScEndMatch(t) ELSE t

\* A server with k_lockmode lets in those it knows: by name, or in teams by team.
LetIn(s, p, t) ==
  \/ s.lock = 0
  \/ s.lock = 1 /\ s.mode # "team" /\ \E g \in s.ghosts : s.localinfo[g.cnt2] = p
  \/ /\ s.lock = 1 /\ s.mode = "team"
     /\ t \in {s.team[q] : q \in s.here} \cup {g.team : g \in s.ghosts}
     /\ Cardinality({q \in s.here : s.team[q] = t}) <
          Max({Cardinality(ScRed), Cardinality(ScPlayer \ ScRed)})    \* maxPlayerCount

\* The first number with the name, and the ghost that has it.
NumberOf(s, p) ==
  LET found == {n \in 1 .. s.userid - 1 : s.localinfo[n] = p}
  IN IF found = {} THEN 0 ELSE Min(found)

\* Mutant: the ghost stays when its player is back.
RejoinKeepsGhost(s, p) ==
  LET n == NumberOf(s, p)
      frags == {g.frags : g \in {h \in s.ghosts : h.cnt2 = n}}
  IN IF n = 0 THEN s
     ELSE [s EXCEPT !.localinfo[n] = 0,
                    !.frags[p] = IF frags = {} THEN @ ELSE CHOOSE m \in frags : TRUE]

\* He gets the frags of his ghost, which goes.
Rejoin(s, p) ==
  LET n == NumberOf(s, p)
      ghost == {g \in s.ghosts : g.cnt2 = n}
  IN IF n = 0 THEN s
     ELSE [s EXCEPT !.localinfo[n] = 0, !.ghosts = @ \ ghost,
                    !.frags[p] = IF ghost = {} THEN @ ELSE (CHOOSE g \in ghost : TRUE).frags]

\* CanConnect(), then ClientConnect(): a player with a ghost must be in its team.
ScConnect(p, t) ==
  /\ ~sc.over /\ p \notin sc.here /\ LetIn(sc, p, t)
  /\ sc.mode = "team" => \A g \in sc.ghosts : g.cnt2 = NumberOf(sc, p) => g.team = t
  /\ sc' = Rejoin([sc EXCEPT !.known = NotKnown, !.here = @ \cup {p}, !.team[p] = t], p)

\* The displays and commands that ask for the scores.
AskScores == ~sc.over /\ ~sc.known.fresh /\ sc' = ReScoresOf(sc)

-----------------------------------------------------------------------------
\* A duel begins with the first two, the others with all.  Before the match deaths
\* have set the snapshot to the difference of scores that are all 0, or there were none.
ScStarts ==
  {ScStart(setting,
           IF setting.mode = "duel" THEN {p \in ScPlayer : p <= 2} ELSE ScPlayer, snapshot) :
     setting \in ScSetting, snapshot \in {0, LargeSnapshot}}

ScInit == sc \in ScStarts

\* The level changes after the match and the game module is loaded again.
ScNewLevel == sc.over /\ sc' \in {s \in ScStarts : s.snapshot = LargeSnapshot}

ScNext ==
  \/ CheckOvertime \/ AskScores \/ ScNewLevel
  \/ \E p \in ScPlayer :
       \/ \E n \in {-2, -1} : Dies(p, n)
       \/ \E q \in ScPlayer : Kills(p, q)
       \/ ScDisconnect(p)
       \/ \E t \in IF sc.mode = "team" THEN {1, 2} ELSE {ScTeamOf(p)} : ScConnect(p, t)

ScSpec == ScInit /\ [][ScNext]_sc

-----------------------------------------------------------------------------
ScTypeOK ==
  /\ sc.here \subseteq ScPlayer /\ sc.frags \in [ScPlayer -> Int]
  /\ sc.ghosts \subseteq [cnt2 : 1 .. sc.userid - 1, frags : Int, team : {1, 2}]
  /\ sc.userid \in 1 .. Cardinality(ScPlayer) + 1
  /\ sc.sd \in ScOvertimes \ {"added"} /\ sc.snapshot \in Nat
  /\ sc.known \in [fresh : BOOLEAN, teams : Int \X Int, best : {<<>>} \cup sc.here \X sc.here]

\* The frags p and his ghosts have.
Held(s, p) ==
  (IF p \in s.here THEN s.frags[p] ELSE 0)
    + MapThenSumSet(LAMBDA g : g.frags, {g \in s.ghosts : s.localinfo[g.cnt2] = p})

(***************************************************************************)
(* Every frag counts once and for the one who has made it, however often   *)
(* players leave and come back, in whatever order and with whatever        *)
(* numbers; no ghost is without its player's name.                         *)
(***************************************************************************)
ScoresAreKept ==
  ~sc.over =>
    /\ \A p \in ScPlayer : Held(sc, p) = sc.earned[p]
    /\ \A g \in sc.ghosts : sc.localinfo[g.cnt2] \in ScPlayer \ sc.here

\* The lead by what has been earned, not by what the server thinks.
LeadEarned(s) ==
  IF s.mode = "duel" THEN Distance(s.earned[1], s.earned[2])
  ELSE LET of(t) == MapThenSumSet(LAMBDA p : s.earned[p], {p \in ScPlayer : s.team[p] = t})
       IN Distance(of(1), of(2))

\* Two sides, of which nobody is forgotten.
TwoSides(s) == s.lock > 0 /\ (s.mode = "team" \/ (s.mode = "duel" /\ Cardinality(s.here) = 2))

(***************************************************************************)
(* A sudden death, tie break or golden frag overtime that is ended by a    *)
(* death ends with a winner; and by "End when the leader extends the frag  *)
(* lead" (client.c:2535) a golden frag overtime ends at the death that     *)
(* makes the lead greater than it was before, and at no other.  The claim  *)
(* about golden frag leaves out a match in which nobody has died before    *)
(* (the snapshot is then LargeSnapshot) and, in a duel, the snapshot that  *)
(* misses a death while the opponent was away (lone).                      *)
(***************************************************************************)
OvertimeDecides ==
  [][ TwoSides(sc) =>
        /\ sc.sd # "none" /\ sc'.over /\ sc'.here # {} => LeadEarned(sc') > 0
        /\ sc.sd = "golden" /\ sc'.earned # sc.earned /\ sc.snapshot # LargeSnapshot /\ ~sc.lone
             => (sc'.over <=> LeadEarned(sc') > LeadEarned(sc)) ]_sc
=============================================================================
