----------------------------- MODULE ModesProof -----------------------------
(***************************************************************************)
(* Proofs about HoonyMode, capture the flag, the items and bloodfest, and  *)
(* what all of it says of a server that plays any of the game types.       *)
(***************************************************************************)
EXTENDS MCModes, ArenasProof, RaceProof, ScoresProof, MapVoteProof, FiniteSetTheorems, TLAPS

-----------------------------------------------------------------------------
(***************************************************************************)
(* HoonyMode: a series ends even and the players change sides, for every   *)
(* number of rounds and every set of spawn points.                         *)
(***************************************************************************)
HmState ==
  [here : SUBSET HmPlayer, ready : SUBSET HmPlayer, frags : [HmPlayer -> Nat],
   spawn : [HmPlayer -> HmSpawn \cup {0}], new : [HmPlayer -> HmSpawn \cup {0}],
   round : 0 .. HmMaxRounds - 1, true_round : {0, 1}, game : 0 .. 3,
   match_break : BOOLEAN, last : [HmPlayer -> HmSpawn \cup {0}],
   changed : BOOLEAN, drawn : BOOLEAN]

\* A player's place belongs to a player who is there, and without a change both are there.
PlacesOfPlayers(s) == \A p \in HmPlayer : s.new[p] # 0 => p \in s.here
Playing(s) == ~s.changed /\ (s.game = 2 \/ s.round > 0)
BothStay(s) == Playing(s) => s.here = HmPlayer

\* The two counters of rounds have the same parity, at the end of hoony_results[] too.
SameParity(s) == s.round % 2 = s.true_round

\* In an even round all play from the spawn points that were shuffled, in an odd one
\* from the opponent's; those of the round before are remembered.
EvenPlaces(s) == s.game \in {1, 2} /\ s.true_round = 0 => s.new = s.spawn
OddPlaces(s) ==
  /\ s.true_round = 1 /\ ~s.changed => s.spawn = s.last
  /\ s.true_round = 1 /\ ~s.changed /\ s.game \in {1, 2} =>
       \A p \in HmPlayer : s.new[p] = s.spawn[Other(p)]

\* Every round gives a point, until somebody has as many as there are rounds.
Scored(s) ==
  Playing(s) => \/ s.frags[1] + s.frags[2] >= s.round
                \/ s.frags[1] >= HmRounds \/ s.frags[2] >= HmRounds

\* A series that goes on behind its last regular round is level whenever it is even.
LevelWhenEven(s) ==
  Playing(s) /\ s.game # 3 /\ s.true_round = 0 /\ s.round >= HmRounds =>
    s.frags[1] = s.frags[2]

EndsEven(s) == s.game = 3 /\ ~s.match_break /\ ~s.changed => s.true_round = 0 /\ Lead(s) > 0

\* The inductive invariant.
Series(s) ==
  /\ s \in HmState /\ s.ready \subseteq s.here
  /\ PlacesOfPlayers(s) /\ BothStay(s) /\ SameParity(s) /\ EvenPlaces(s) /\ OddPlaces(s)
  /\ Scored(s) /\ LevelWhenEven(s) /\ EndsEven(s)

HmInv == Series(hm)

-----------------------------------------------------------------------------
(***************************************************************************)
(* Arithmetic of rounds and points.                                        *)
(***************************************************************************)
LEMMA RoundNumbers ==
  /\ HmPlayer = {1, 2} /\ HmFrags \in Nat
  /\ HmRounds \in Nat /\ HmRounds >= 2 /\ HmRounds % 2 = 0
  /\ HmRounds \div 2 \in Nat /\ 2 * (HmRounds \div 2) = HmRounds
  /\ HmMaxRounds \in Nat /\ HmMaxRounds >= 2 /\ HmMaxRounds % 2 = 0
<1>1. PICK n \in 1 .. 10 : HmRounds = 2 * n
  BY HmAssumption
<1>2. PICK m \in 1 .. 32 : HmMaxRounds = 2 * m
  BY HmAssumption
<1>3. QED BY <1>1, <1>2, HmAssumption

\* The round number changes its parity, and a last round comes before none.
LEMMA NextRoundTurns ==
  ASSUME NEW n \in 0 .. HmMaxRounds - 1
  PROVE  /\ NextRound(n) \in 0 .. HmMaxRounds - 1
         /\ NextRound(n) % 2 = 1 - (n % 2)
         /\ NextRound(n) <= n + 1
         /\ NextRound(n) % 2 = 1 /\ NextRound(n) >= HmRounds => n >= HmRounds
BY RoundNumbers DEF NextRound

\* With both players the points are compared with one another.
LEMMA LeadOfTwo ==
  ASSUME NEW s \in HmState, s.here = HmPlayer
  PROVE  /\ s.frags[1] \in Nat /\ s.frags[2] \in Nat
         /\ Lead(s) = IF s.frags[1] < s.frags[2] THEN s.frags[2] - s.frags[1]
                                                 ELSE s.frags[1] - s.frags[2]
         /\ MaxFrags(s) = IF s.frags[1] < s.frags[2] THEN s.frags[2] ELSE s.frags[1]
         /\ s.here # {}
<1>1. s.frags[1] \in Nat /\ s.frags[2] \in Nat /\ s.here = {1, 2}
  BY RoundNumbers DEF HmState
<1>2. {s.frags[p] : p \in s.here} = {s.frags[1], s.frags[2]}
  BY <1>1
<1> DEFINE top == IF s.frags[1] < s.frags[2] THEN s.frags[2] ELSE s.frags[1]
<1>3. /\ top \in {s.frags[p] : p \in s.here}
      /\ \A p \in s.here : s.frags[p] <= top
  BY <1>1, <1>2
<1>4. ASSUME NEW n \in {s.frags[p] : p \in s.here}, \A p \in s.here : s.frags[p] <= n
      PROVE  n = top
  <2>1. n \in {s.frags[1], s.frags[2]} /\ s.frags[1] <= n /\ s.frags[2] <= n
    BY <1>1, <1>2, <1>4
  <2>2. QED BY <2>1, <1>1
<1>5. MaxFrags(s) = top
  BY <1>3, <1>4 DEF MaxFrags
<1>6. QED BY <1>1, <1>5 DEF Lead

-----------------------------------------------------------------------------
(***************************************************************************)
(* The end of a round.                                                     *)
(***************************************************************************)
\* What HmEndRound() changes, and when it ends the series.
LEMMA EndRoundDoes ==
  ASSUME NEW s \in HmState, NEW t, t = HmEndRound(s)
  PROVE  /\ t \in HmState
         /\ t.here = s.here /\ t.frags = s.frags /\ t.ready = {}
         /\ t.spawn = s.spawn /\ t.new = s.new /\ t.last = s.new
         /\ t.changed = s.changed /\ t.match_break = s.match_break
         /\ t.round = NextRound(s.round) /\ t.true_round = 1 - s.true_round
         /\ t.game \in {0, 3}
         /\ t.game = 3 <=> HM_is_game_over(t)
<1> DEFINE n == NextRound(s.round)
           m == 1 - s.true_round
           u == [s EXCEPT !.true_round = m, !.round = n, !.last = s.new]
           over == IF HM_is_game_over(u) THEN 3 ELSE 0
<1>1. n \in 0 .. HmMaxRounds - 1 /\ m \in {0, 1}
  BY NextRoundTurns DEF HmState
<1>2. t = [u EXCEPT !.game = over, !.ready = {}]
  BY DEF HmEndRound, HmEndMatch
<1>3. over \in 0 .. 3 /\ u = [s EXCEPT !.true_round = m, !.round = n, !.last = s.new]
  OBVIOUS
<1> HIDE DEF n, m, u, over
<1>4. /\ u \in HmState
      /\ u.here = s.here /\ u.frags = s.frags
      /\ u.spawn = s.spawn /\ u.new = s.new /\ u.last = s.new
      /\ u.changed = s.changed /\ u.match_break = s.match_break
      /\ u.round = n /\ u.true_round = m
  BY <1>1, <1>3 DEF HmState
<1>5. /\ t \in HmState
      /\ t.here = u.here /\ t.frags = u.frags /\ t.ready = {}
      /\ t.spawn = u.spawn /\ t.new = u.new /\ t.last = u.last
      /\ t.changed = u.changed /\ t.match_break = u.match_break
      /\ t.round = u.round /\ t.true_round = u.true_round /\ t.game = over
  BY <1>2, <1>3, <1>4 DEF HmState
<1>6. HM_is_game_over(t) <=> HM_is_game_over(u)
  BY <1>5 DEF HM_is_game_over, PointFinal, PointSet, Lead, MaxFrags
<1>7. QED BY <1>4, <1>5, <1>6 DEF n, m, over

\* What a death or a draw does to the points of two players.
PointsGiven(s, u) ==
  \/ u.frags[1] = s.frags[1] + 1 /\ u.frags[2] = s.frags[2]
  \/ u.frags[1] = s.frags[1] /\ u.frags[2] = s.frags[2] + 1
  \/ u.frags[1] = s.frags[1] + 2 /\ u.frags[2] = s.frags[2] + 1
  \/ /\ u.frags[1] = s.frags[1] /\ u.frags[2] = s.frags[2]
     /\ s.frags[1] >= HmRounds \/ s.frags[2] >= HmRounds

\* A round keeps the invariant: the heart of the proof.  A lead of two, which may end a
\* series in any round, cannot come about in an odd one, because behind the last regular
\* round the even one before was level.
LEMMA RoundKeepsSeries ==
  ASSUME NEW s, Series(s), s.game = 2, NEW u \in HmState,
         u.here = s.here, u.spawn = s.spawn, u.new = s.new, u.round = s.round,
         u.true_round = s.true_round, u.changed = s.changed, u.match_break = s.match_break,
         s.here = HmPlayer => PointsGiven(s, u),
         NEW t, t = HmEndRound(u)
  PROVE  Series(t)
<1>1. /\ t \in HmState
      /\ t.here = s.here /\ t.frags = u.frags /\ t.ready = {}
      /\ t.spawn = s.spawn /\ t.new = s.new /\ t.last = s.new
      /\ t.changed = s.changed /\ t.match_break = s.match_break
      /\ t.round = NextRound(s.round) /\ t.true_round = 1 - s.true_round
      /\ t.game \in {0, 3}
      /\ t.game = 3 <=> HM_is_game_over(t)
  BY EndRoundDoes
<1>2. /\ s \in HmState /\ PlacesOfPlayers(s) /\ BothStay(s) /\ SameParity(s)
      /\ EvenPlaces(s) /\ Scored(s) /\ LevelWhenEven(s)
  BY DEF Series
<1>3. /\ s.round \in 0 .. HmMaxRounds - 1 /\ s.round \in Nat
      /\ s.true_round \in {0, 1} /\ HmMaxRounds \in Nat
  BY <1>2, RoundNumbers DEF HmState
<1>4. /\ NextRound(s.round) \in Nat
      /\ NextRound(s.round) % 2 = 1 - (s.round % 2)
      /\ NextRound(s.round) <= s.round + 1
      /\ NextRound(s.round) % 2 = 1 /\ NextRound(s.round) >= HmRounds => s.round >= HmRounds
  BY <1>3, NextRoundTurns
<1>5. /\ t.ready \subseteq t.here /\ PlacesOfPlayers(t)
      /\ EvenPlaces(t)
  BY <1>1, <1>2 DEF PlacesOfPlayers, EvenPlaces
<1>6. SameParity(t)
  BY <1>1, <1>2, <1>3, <1>4 DEF SameParity
<1>7. OddPlaces(t)
  BY <1>1, <1>2, <1>3 DEF EvenPlaces, OddPlaces
<1>8. BothStay(t)
  BY <1>1, <1>2 DEF BothStay, Playing
<1>9. CASE s.changed
  BY <1>1, <1>5, <1>6, <1>7, <1>8, <1>9 DEF Series, Scored, LevelWhenEven, EndsEven, Playing
<1>10. CASE ~s.changed
  <2>1. Playing(s) /\ t.here = HmPlayer /\ s.here = HmPlayer /\ PointsGiven(s, u)
    BY <1>1, <1>2, <1>10 DEF BothStay, Playing
  <2>2. /\ t.frags[1] \in Nat /\ t.frags[2] \in Nat
        /\ Lead(t) = IF t.frags[1] < t.frags[2] THEN t.frags[2] - t.frags[1]
                                                ELSE t.frags[1] - t.frags[2]
        /\ MaxFrags(t) = IF t.frags[1] < t.frags[2] THEN t.frags[2] ELSE t.frags[1]
        /\ t.here # {}
    BY <1>1, <2>1, LeadOfTwo
  <2>3. s.frags[1] \in Nat /\ s.frags[2] \in Nat
    BY <1>2, RoundNumbers DEF HmState
  <2>4. \/ s.frags[1] + s.frags[2] >= s.round
        \/ s.frags[1] >= HmRounds \/ s.frags[2] >= HmRounds
    BY <1>2, <2>1 DEF Scored
  <2>5. \/ t.frags[1] + t.frags[2] >= t.round
        \/ t.frags[1] >= HmRounds \/ t.frags[2] >= HmRounds
    BY <1>1, <1>3, <1>4, <2>1, <2>2, <2>3, <2>4, RoundNumbers DEF PointsGiven
  <2>6. t.true_round = 1 /\ t.round >= HmRounds => Lead(t) < 2
    <3>1. HAVE t.true_round = 1 /\ t.round >= HmRounds
    <3>2. s.true_round = 0 /\ s.round >= HmRounds
      BY <1>1, <1>2, <1>3, <1>4, <3>1 DEF SameParity
    <3>3. s.frags[1] = s.frags[2]
      BY <1>2, <2>1, <3>2 DEF LevelWhenEven
    <3>4. QED BY <1>1, <2>1, <2>2, <2>3, <3>3 DEF PointsGiven
  <2>7. LevelWhenEven(t)
    <3>1. SUFFICES ASSUME t.game # 3, t.true_round = 0, t.round >= HmRounds
                   PROVE  t.frags[1] = t.frags[2]
      BY DEF LevelWhenEven
    <3>2. ~PointSet(t) \/ ~(MaxFrags(t) > HmRounds \div 2)
      BY <1>1, <2>2, <3>1, RoundNumbers
      DEF HM_is_game_over, PointFinal, PointSet, HM_WINNING_DIFF
    <3>3. MaxFrags(t) >= HmRounds \div 2
      BY <2>2, <2>5, <3>1, <1>1, <1>4, RoundNumbers
    <3>4. CASE MaxFrags(t) > HmRounds \div 2
      BY <2>2, <3>2, <3>3, <3>4, RoundNumbers DEF PointSet, HM_WINNING_DIFF
    <3>5. CASE MaxFrags(t) = HmRounds \div 2
      BY <1>1, <1>4, <2>2, <2>5, <3>1, <3>5, RoundNumbers
    <3>6. QED BY <2>2, <3>3, <3>4, <3>5, RoundNumbers
  <2>8. EndsEven(t)
    <3>1. SUFFICES ASSUME t.game = 3, ~t.match_break
                   PROVE  t.true_round = 0 /\ Lead(t) > 0
      BY DEF EndsEven
    <3>2. PointFinal(t) \/ (PointSet(t) /\ t.true_round = 0)
      BY <1>1, <3>1 DEF HM_is_game_over
    <3>3. t.true_round = 0
      BY <1>1, <1>3, <2>2, <2>6, <3>2 DEF PointFinal, HM_WINNING_DIFF
    <3>4. Lead(t) > 0
      BY <2>2, <3>2 DEF PointFinal, PointSet, HM_WINNING_DIFF
    <3>5. QED BY <3>3, <3>4
  <2>9. QED BY <1>1, <1>5, <1>6, <1>7, <1>8, <2>5, <2>7, <2>8 DEF Series, Scored
<1>11. QED BY <1>9, <1>10

LEMMA KillKeepsSeries ==
  ASSUME HmInv, NEW p \in HmPlayer, NEW q \in HmPlayer, HmKill(p, q)
  PROVE  HmInv'
<1> DEFINE f == [hm.frags EXCEPT ![p] = @ + 1]
           u == [hm EXCEPT !.frags = f, !.drawn = FALSE]
<1>1. /\ hm \in HmState /\ hm.game = 2 /\ HmPlayer = {1, 2}
      /\ hm.frags \in [HmPlayer -> Nat]
  BY RoundNumbers DEF HmInv, Series, HmKill, HmState
<1>2. f \in [HmPlayer -> Nat]
  BY <1>1
<1>3. hm' = HmEndRound(u)
  BY DEF HmKill
<1>4. \/ f[1] = hm.frags[1] + 1 /\ f[2] = hm.frags[2]
      \/ f[1] = hm.frags[1] /\ f[2] = hm.frags[2] + 1
  BY <1>1
<1> HIDE DEF f
<1>5. /\ u \in HmState
      /\ u.here = hm.here /\ u.spawn = hm.spawn /\ u.new = hm.new
      /\ u.round = hm.round /\ u.true_round = hm.true_round
      /\ u.changed = hm.changed /\ u.match_break = hm.match_break
      /\ u.frags = f
  BY <1>1, <1>2 DEF HmState
<1> HIDE DEF u
<1>6. hm.here = HmPlayer => PointsGiven(hm, u)
  BY <1>4, <1>5 DEF PointsGiven
<1>7. QED BY <1>1, <1>3, <1>5, <1>6, RoundKeepsSeries DEF HmInv

LEMMA SuicideKeepsSeries ==
  ASSUME HmInv, NEW p \in HmPlayer, HM_suicide(p)
  PROVE  HmInv'
<1> DEFINE f == [q \in HmPlayer |-> hm.frags[q] + IF q \in hm.here \ {p} THEN 1 ELSE 0]
           u == [hm EXCEPT !.frags = f, !.drawn = FALSE]
<1>1. /\ hm \in HmState /\ hm.game = 2 /\ HmPlayer = {1, 2}
      /\ hm.frags \in [HmPlayer -> Nat]
  BY RoundNumbers DEF HmInv, Series, HM_suicide, HmState
<1>2. f \in [HmPlayer -> Nat]
  BY <1>1
<1>3. hm' = HmEndRound(u)
  BY DEF HM_suicide
<1>4. hm.here = HmPlayer =>
        \/ f[1] = hm.frags[1] + 1 /\ f[2] = hm.frags[2]
        \/ f[1] = hm.frags[1] /\ f[2] = hm.frags[2] + 1
  BY <1>1
<1> HIDE DEF f
<1>5. /\ u \in HmState
      /\ u.here = hm.here /\ u.spawn = hm.spawn /\ u.new = hm.new
      /\ u.round = hm.round /\ u.true_round = hm.true_round
      /\ u.changed = hm.changed /\ u.match_break = hm.match_break
      /\ u.frags = f
  BY <1>1, <1>2 DEF HmState
<1> HIDE DEF u
<1>6. hm.here = HmPlayer => PointsGiven(hm, u)
  BY <1>4, <1>5 DEF PointsGiven
<1>7. QED BY <1>1, <1>3, <1>5, <1>6, RoundKeepsSeries DEF HmInv

\* The default winner gets the point that a killer gets.
LEMMA DefaultKeepsSeries ==
  ASSUME HmInv, HM_drawWon
  PROVE  HmInv'
<1> DEFINE p == First(WinsByDefault(hm))
           f == [hm.frags EXCEPT ![p] = @ + 1]
           u == [hm EXCEPT !.frags = f, !.drawn = FALSE]
<1>1. /\ hm \in HmState /\ hm.game = 2 /\ HmPlayer = {1, 2}
      /\ hm.frags \in [HmPlayer -> Nat]
  BY RoundNumbers DEF HmInv, Series, HM_drawWon, HmState
<1>2. p \in HmPlayer /\ f \in [HmPlayer -> Nat]
  <2>1. WinsByDefault(hm) # {} /\ WinsByDefault(hm) \subseteq HmPlayer
    BY <1>1 DEF HM_drawWon, WinsByDefault, HmState
  <2>2. \A n, m \in HmPlayer : n <= m \/ m <= n
    BY <1>1
  <2>3. \E n \in WinsByDefault(hm) : \A m \in WinsByDefault(hm) : n <= m
    BY <1>1, <2>1
  <2>4. p \in WinsByDefault(hm)
    BY <2>3 DEF First
  <2>5. QED BY <1>1, <2>1, <2>4
<1>3. hm' = HmEndRound(u)
  BY DEF HM_drawWon
<1>4. \/ f[1] = hm.frags[1] + 1 /\ f[2] = hm.frags[2]
      \/ f[1] = hm.frags[1] /\ f[2] = hm.frags[2] + 1
  BY <1>1, <1>2
<1> HIDE DEF p, f
<1>5. /\ u \in HmState
      /\ u.here = hm.here /\ u.spawn = hm.spawn /\ u.new = hm.new
      /\ u.round = hm.round /\ u.true_round = hm.true_round
      /\ u.changed = hm.changed /\ u.match_break = hm.match_break
      /\ u.frags = f
  BY <1>1, <1>2 DEF HmState
<1> HIDE DEF u
<1>6. hm.here = HmPlayer => PointsGiven(hm, u)
  BY <1>4, <1>5 DEF PointsGiven
<1>7. QED BY <1>1, <1>3, <1>5, <1>6, RoundKeepsSeries DEF HmInv

LEMMA DrawKeepsSeries ==
  ASSUME HmInv, HM_draw
  PROVE  HmInv'
<1> DEFINE first == CHOOSE p \in hm.here : \A q \in hm.here : p <= q
           points(p) == (IF p = first THEN 1 ELSE 0) + (IF p \in hm.here THEN 1 ELSE 0)
           f == IF MaxFrags(hm) < HmRounds THEN [p \in HmPlayer |-> hm.frags[p] + points(p)]
                ELSE hm.frags
           u == [hm EXCEPT !.drawn = TRUE, !.frags = f]
<1>1. /\ hm \in HmState /\ hm.game = 2 /\ HmPlayer = {1, 2}
      /\ hm.frags \in [HmPlayer -> Nat]
  BY RoundNumbers DEF HmInv, Series, HM_draw, HmState
<1>2. f \in [HmPlayer -> Nat]
  <2>1. \A p \in HmPlayer : points(p) \in Nat
    OBVIOUS
  <2> HIDE DEF points
  <2>2. QED BY <1>1, <2>1
<1>3. hm' = HmEndRound(u)
  BY DEF HM_draw, First
<1>4. hm.here = HmPlayer =>
        \/ f[1] = hm.frags[1] + 2 /\ f[2] = hm.frags[2] + 1
        \/ /\ f[1] = hm.frags[1] /\ f[2] = hm.frags[2]
           /\ hm.frags[1] >= HmRounds \/ hm.frags[2] >= HmRounds
  <2>1. HAVE hm.here = HmPlayer
  <2>2. first = 1
    BY <1>1, <2>1
  <2>3. points(1) = 2 /\ points(2) = 1
    BY <1>1, <2>1, <2>2
  <2>4. CASE MaxFrags(hm) < HmRounds
    <3> HIDE DEF points
    <3>1. QED BY <1>1, <2>3, <2>4
  <2>5. CASE ~(MaxFrags(hm) < HmRounds)
    BY <1>1, <2>1, <2>5, LeadOfTwo, RoundNumbers
  <2>6. QED BY <2>4, <2>5
<1> HIDE DEF f
<1>5. /\ u \in HmState
      /\ u.here = hm.here /\ u.spawn = hm.spawn /\ u.new = hm.new
      /\ u.round = hm.round /\ u.true_round = hm.true_round
      /\ u.changed = hm.changed /\ u.match_break = hm.match_break
      /\ u.frags = f
  BY <1>1, <1>2 DEF HmState
<1> HIDE DEF u
<1>6. hm.here = HmPlayer => PointsGiven(hm, u)
  BY <1>4, <1>5 DEF PointsGiven
<1>7. QED BY <1>1, <1>3, <1>5, <1>6, RoundKeepsSeries DEF HmInv

-----------------------------------------------------------------------------
(***************************************************************************)
(* Readiness, starts, breaks and clients.                                  *)
(***************************************************************************)
LEMMA EmptyIsSeries == Series(HmEmpty)
<1>1. HmEmpty \in HmState
  BY RoundNumbers DEF HmEmpty, HmState
<1>2. QED
  BY <1>1, RoundNumbers DEF HmEmpty, Series, PlacesOfPlayers, BothStay, SameParity, EvenPlaces,
     OddPlaces, Scored, LevelWhenEven, EndsEven, Playing

\* The parts of the invariant that points and the end of the series are about do not
\* look at spawn points, readiness, or whether a countdown runs.
LEMMA ScoresStay ==
  ASSUME NEW s, Series(s), NEW t,
         t.here = s.here, t.frags = s.frags, t.round = s.round, t.true_round = s.true_round,
         t.changed = s.changed, s.game \in {0, 1}, t.game \in {0, 1}
  PROVE  BothStay(t) /\ SameParity(t) /\ Scored(t) /\ LevelWhenEven(t) /\ EndsEven(t)
BY DEF Series, BothStay, SameParity, Scored, LevelWhenEven, EndsEven, Playing

LEMMA ReadyKeepsSeries ==
  ASSUME HmInv, NEW p \in HmPlayer, HmReady(p)
  PROVE  HmInv'
<1> DEFINE r == hm.ready \cup {p}
           s == [hm EXCEPT !.ready = r]
<1>1. /\ hm \in HmState /\ hm.game = 0
      /\ r \subseteq hm.here /\ hm.here \subseteq HmPlayer /\ r \in SUBSET HmPlayer
  BY DEF HmInv, Series, HmReady, HmState
<1> HIDE DEF r
<1>2. /\ s \in HmState /\ s.ready = r /\ s.here = hm.here /\ s.frags = hm.frags
      /\ s.spawn = hm.spawn /\ s.new = hm.new /\ s.round = hm.round
      /\ s.true_round = hm.true_round /\ s.game = 0 /\ s.match_break = hm.match_break
      /\ s.last = hm.last /\ s.changed = hm.changed
  BY <1>1 DEF HmState
<1>3. \/ s.ready = HmPlayer /\ \E t \in HM_all_ready(s) : hm' = [t EXCEPT !.game = 1]
      \/ hm' = s
  BY DEF HmReady, r
<1> HIDE DEF s
<1>4. CASE hm' = s
  <2>1. PlacesOfPlayers(s) /\ EvenPlaces(s) /\ OddPlaces(s)
    BY <1>1, <1>2 DEF HmInv, Series, PlacesOfPlayers, EvenPlaces, OddPlaces
  <2>2. BothStay(s) /\ SameParity(s) /\ Scored(s) /\ LevelWhenEven(s) /\ EndsEven(s)
    BY <1>1, <1>2, ScoresStay DEF HmInv
  <2>3. QED BY <1>1, <1>2, <1>4, <2>1, <2>2 DEF HmInv, Series
<1>5. CASE s.ready = HmPlayer /\ \E t \in HM_all_ready(s) : hm' = [t EXCEPT !.game = 1]
  <2>1. PICK t \in HM_all_ready(s) : hm' = [t EXCEPT !.game = 1]
    BY <1>5
  <2>2. hm.here = HmPlayer /\ HmPlayer = {1, 2} /\ 0 \notin HmSpawn
    BY <1>1, <1>2, <1>5, HmAssumption
  <2>3. hm.round \in Nat /\ hm.true_round \in {0, 1} /\ hm.round % 2 = hm.true_round
    BY <1>1, RoundNumbers DEF HmInv, Series, SameParity, HmState
  <2>4. \E f \in [HmPlayer -> HmSpawn \cup {0}], g \in [HmPlayer -> HmSpawn \cup {0}] :
           /\ t = [s EXCEPT !.spawn = f, !.new = g]
           /\ hm.true_round = 0 => g = f
           /\ hm.true_round = 1 => /\ f = hm.spawn
                                   /\ \A q \in HmPlayer : g[q] = f[Other(q)]
    <3>1. CASE hm.true_round = 0
      <4>1. PICK f \in [HmPlayer -> HmSpawn] : t = [s EXCEPT !.spawn = f, !.new = f]
        BY <1>2, <2>3, <3>1 DEF HM_all_ready
      <4>2. f \in [HmPlayer -> HmSpawn \cup {0}]
        BY <4>1
      <4>3. /\ t = [s EXCEPT !.spawn = f, !.new = f]
            /\ hm.true_round = 0 => f = f
            /\ hm.true_round = 1 => /\ f = hm.spawn
                                    /\ \A q \in HmPlayer : f[q] = f[Other(q)]
        BY <3>1, <4>1
      <4>4. QED
        <5>1. WITNESS f \in [HmPlayer -> HmSpawn \cup {0}], f \in [HmPlayer -> HmSpawn \cup {0}]
        <5>2. QED BY <4>3
    <3>2. CASE hm.true_round = 1
      <4> DEFINE g == [q \in HmPlayer |-> s.spawn[Other(q)]]
      <4>1. t = [s EXCEPT !.new = g]
        BY <1>2, <2>3, <3>2 DEF HM_all_ready
      <4>2. /\ s.spawn \in [HmPlayer -> HmSpawn \cup {0}] /\ HmPlayer = {1, 2}
            /\ \A q \in HmPlayer : Other(q) \in HmPlayer
        BY <1>2, <2>2 DEF HmState, Other
      <4>3. g \in [HmPlayer -> HmSpawn \cup {0}] /\ \A q \in HmPlayer : g[q] = s.spawn[Other(q)]
        BY <4>2
      <4>4. t = [s EXCEPT !.spawn = s.spawn, !.new = g]
        BY <1>2, <4>1 DEF HmState
      <4> HIDE DEF g
      <4>5. /\ t = [s EXCEPT !.spawn = s.spawn, !.new = g]
            /\ hm.true_round = 0 => g = s.spawn
            /\ hm.true_round = 1 => /\ s.spawn = hm.spawn
                                    /\ \A q \in HmPlayer : g[q] = s.spawn[Other(q)]
        BY <1>2, <3>2, <4>3, <4>4
      <4>6. QED
        <5> USE <4>2, <4>3
        <5>1. WITNESS s.spawn \in [HmPlayer -> HmSpawn \cup {0}],
                      g \in [HmPlayer -> HmSpawn \cup {0}]
        <5>2. QED BY <4>5
    <3>3. QED BY <2>3, <3>1, <3>2
  <2>5. PICK f \in [HmPlayer -> HmSpawn \cup {0}], g \in [HmPlayer -> HmSpawn \cup {0}] :
           /\ t = [s EXCEPT !.spawn = f, !.new = g]
           /\ hm.true_round = 0 => g = f
           /\ hm.true_round = 1 => /\ f = hm.spawn
                                   /\ \A q \in HmPlayer : g[q] = f[Other(q)]
    BY <2>4
  <2>6. /\ t \in HmState /\ t.spawn = f /\ t.new = g
        /\ t.ready = s.ready /\ t.here = s.here /\ t.frags = s.frags /\ t.round = s.round
        /\ t.true_round = s.true_round /\ t.match_break = s.match_break
        /\ t.last = s.last /\ t.changed = s.changed
    BY <1>2, <2>5 DEF HmState
  <2>7. /\ hm' \in HmState /\ hm'.spawn = f /\ hm'.new = g /\ hm'.game = 1
        /\ hm'.ready = r /\ hm'.here = hm.here /\ hm'.frags = hm.frags
        /\ hm'.round = hm.round /\ hm'.true_round = hm.true_round
        /\ hm'.match_break = hm.match_break /\ hm'.last = hm.last /\ hm'.changed = hm.changed
    BY <1>2, <2>1, <2>6 DEF HmState
  <2>8. PlacesOfPlayers(hm') /\ EvenPlaces(hm')
    BY <2>2, <2>5, <2>7 DEF PlacesOfPlayers, EvenPlaces
  <2>9. OddPlaces(hm')
    BY <2>5, <2>7 DEF HmInv, Series, OddPlaces
  <2>10. BothStay(hm') /\ SameParity(hm') /\ Scored(hm') /\ LevelWhenEven(hm') /\ EndsEven(hm')
    BY <1>1, <2>7, ScoresStay DEF HmInv
  <2>11. QED BY <1>1, <2>7, <2>8, <2>9, <2>10 DEF HmInv, Series
<1>6. QED BY <1>3, <1>4, <1>5

LEMMA BreakKeepsSeries ==
  ASSUME HmInv, NEW p \in HmPlayer, HmBreak(p)
  PROVE  HmInv'
<1> DEFINE r == hm.ready \ {p}
<1>1. /\ hm \in HmState /\ r \subseteq hm.here /\ r \in SUBSET HmPlayer
      /\ hm.game \in {0, 1} /\ 0 \in 0 .. 3 /\ hm' = [hm EXCEPT !.ready = r, !.game = 0]
  BY DEF HmInv, Series, HmBreak, HmState
<1> HIDE DEF r
<1>2. /\ hm' \in HmState /\ hm'.ready \subseteq hm.here /\ hm'.here = hm.here
      /\ hm'.frags = hm.frags /\ hm'.spawn = hm.spawn /\ hm'.new = hm.new
      /\ hm'.round = hm.round /\ hm'.true_round = hm.true_round /\ hm'.game = 0
      /\ hm'.match_break = hm.match_break /\ hm'.last = hm.last /\ hm'.changed = hm.changed
  BY <1>1 DEF HmState
<1>3. PlacesOfPlayers(hm') /\ EvenPlaces(hm') /\ OddPlaces(hm')
  BY <1>2 DEF HmInv, Series, PlacesOfPlayers, EvenPlaces, OddPlaces
<1>4. BothStay(hm') /\ SameParity(hm') /\ Scored(hm') /\ LevelWhenEven(hm') /\ EndsEven(hm')
  BY <1>1, <1>2, ScoresStay DEF HmInv
<1>5. QED BY <1>2, <1>3, <1>4 DEF HmInv, Series

\* A vote ends the series with match_break set, which no property speaks of.
LEMMA VoteKeepsSeries ==
  ASSUME HmInv, HmVoteBreak
  PROVE  HmInv'
<1> DEFINE u == [hm EXCEPT !.match_break = TRUE]
<1>1. hm \in HmState /\ hm.game \in {1, 2}
  BY DEF HmInv, Series, HmVoteBreak
<1>2. /\ u \in HmState /\ u.match_break = TRUE
      /\ u.here = hm.here /\ u.frags = hm.frags /\ u.spawn = hm.spawn /\ u.new = hm.new
      /\ u.round = hm.round /\ u.true_round = hm.true_round
      /\ u.last = hm.last /\ u.changed = hm.changed
  BY <1>1 DEF HmState
<1>3. hm' = [u EXCEPT !.game = 3, !.ready = {}] /\ 3 \in 0 .. 3
  BY <1>2 DEF HmVoteBreak, HmEndMatch, HM_is_game_over
<1> HIDE DEF u
<1>4. /\ hm' \in HmState /\ hm'.match_break = TRUE /\ hm'.game = 3 /\ hm'.ready = {}
      /\ hm'.here = hm.here /\ hm'.frags = hm.frags /\ hm'.spawn = hm.spawn
      /\ hm'.new = hm.new /\ hm'.round = hm.round /\ hm'.true_round = hm.true_round
      /\ hm'.last = hm.last /\ hm'.changed = hm.changed
  BY <1>2, <1>3 DEF HmState
<1>5. QED
  BY <1>1, <1>4 DEF HmInv, Series, PlacesOfPlayers, BothStay, SameParity, EvenPlaces, OddPlaces,
     Scored, LevelWhenEven, EndsEven, Playing

\* The first round clears the points; a series in which somebody is missing counts as changed.
LEMMA StartKeepsSeries ==
  ASSUME HmInv, HmStartMatch
  PROVE  HmInv'
<1> DEFINE f == IF hm.round > 0 THEN hm.frags ELSE [p \in HmPlayer |-> 0]
           c == IF hm.round > 0 THEN hm.changed ELSE \E p \in HmPlayer : hm.new[p] = 0
<1>1. /\ hm \in HmState /\ hm.game = 1 /\ hm.round \in Nat /\ HmPlayer = {1, 2}
      /\ hm.frags \in [HmPlayer -> Nat] /\ hm.changed \in BOOLEAN
  BY RoundNumbers DEF HmInv, Series, HmStartMatch, HmState
<1>2. f \in [HmPlayer -> Nat] /\ c \in BOOLEAN
  BY <1>1
<1>3. hm' = [hm EXCEPT !.game = 2, !.frags = f, !.changed = c] /\ 2 \in 0 .. 3
  BY DEF HmStartMatch
<1>4. /\ hm.round > 0 => f = hm.frags /\ c = hm.changed
      /\ hm.round = 0 => f[1] = 0 /\ f[2] = 0
      /\ hm.round = 0 /\ ~c => \A p \in HmPlayer : hm.new[p] # 0
  <2>1. hm.round > 0 => f = hm.frags /\ c = hm.changed
    BY ZenonT(20)
  <2>2. hm.round = 0 => f[1] = 0 /\ f[2] = 0
    BY <1>1
  <2>3. hm.round = 0 => c = \E p \in HmPlayer : hm.new[p] = 0
    <3>1. hm.round = 0 => ~(hm.round > 0)
      BY <1>1
    <3>2. QED BY <3>1, Zenon
  <2>4. QED BY <2>1, <2>2, <2>3
<1> HIDE DEF f, c
<1>5. /\ hm' \in HmState /\ hm'.game = 2 /\ hm'.ready = hm.ready /\ hm'.here = hm.here
      /\ hm'.spawn = hm.spawn /\ hm'.new = hm.new /\ hm'.round = hm.round
      /\ hm'.true_round = hm.true_round /\ hm'.match_break = hm.match_break
      /\ hm'.last = hm.last /\ hm'.frags = f /\ hm'.changed = c
  BY <1>1, <1>2, <1>3 DEF HmState
<1>6. PlacesOfPlayers(hm') /\ EvenPlaces(hm') /\ SameParity(hm') /\ EndsEven(hm')
  BY <1>1, <1>5 DEF HmInv, Series, PlacesOfPlayers, EvenPlaces, SameParity, EndsEven
<1>7. CASE hm.round > 0
  BY <1>1, <1>4, <1>5, <1>6, <1>7
  DEF HmInv, Series, BothStay, OddPlaces, Scored, LevelWhenEven, Playing
<1>8. CASE hm.round = 0
  <2>1. hm'.true_round = 0
    BY <1>1, <1>5, <1>8 DEF HmInv, Series, SameParity
  <2>2. BothStay(hm')
    <3>1. SUFFICES ASSUME ~c PROVE hm.here = HmPlayer
      BY <1>5 DEF BothStay, Playing
    <3>2. \A p \in HmPlayer : p \in hm.here
      BY <1>4, <1>8, <3>1 DEF HmInv, Series, PlacesOfPlayers
    <3>3. QED BY <1>1, <3>2 DEF HmState
  <2>3. OddPlaces(hm') /\ Scored(hm') /\ LevelWhenEven(hm')
    BY <1>4, <1>5, <1>8, <2>1, RoundNumbers DEF OddPlaces, Scored, LevelWhenEven
  <2>4. QED BY <1>5, <1>6, <2>2, <2>3 DEF HmInv, Series
<1>9. QED BY <1>1, <1>7, <1>8

LEMMA SpawnPointKeepsSeries ==
  ASSUME HmInv, NEW p \in HmPlayer, NEW spot \in HmSpawn, HM_log_spawn_point(p, spot)
  PROVE  HmInv'
<1> DEFINE f == [hm.new EXCEPT ![p] = spot]
<1>1. hm \in HmState /\ hm.game = 0 /\ p \in hm.here /\ hm.new \in [HmPlayer -> HmSpawn \cup {0}]
  BY DEF HmInv, Series, HM_log_spawn_point, HmState
<1>2. f \in [HmPlayer -> HmSpawn \cup {0}] /\ \A q \in HmPlayer : f[q] # 0 => q = p \/ hm.new[q] # 0
  BY <1>1
<1>3. hm' = [hm EXCEPT !.new = f]
  BY DEF HM_log_spawn_point
<1> HIDE DEF f
<1>4. /\ hm' \in HmState /\ hm'.new = f /\ hm'.ready = hm.ready /\ hm'.here = hm.here
      /\ hm'.frags = hm.frags /\ hm'.spawn = hm.spawn
      /\ hm'.round = hm.round /\ hm'.true_round = hm.true_round /\ hm'.game = 0
      /\ hm'.match_break = hm.match_break /\ hm'.last = hm.last /\ hm'.changed = hm.changed
  BY <1>1, <1>2, <1>3 DEF HmState
<1>5. PlacesOfPlayers(hm') /\ EvenPlaces(hm') /\ OddPlaces(hm')
  BY <1>1, <1>2, <1>4 DEF HmInv, Series, PlacesOfPlayers, EvenPlaces, OddPlaces
<1>6. BothStay(hm') /\ SameParity(hm') /\ Scored(hm') /\ LevelWhenEven(hm') /\ EndsEven(hm')
  BY <1>1, <1>4, ScoresStay DEF HmInv
<1>7. QED BY <1>4, <1>5, <1>6 DEF HmInv, Series

LEMMA ConnectKeepsSeries ==
  ASSUME HmInv, NEW p \in HmPlayer, HmConnect(p), hm.game # 3
  PROVE  HmInv'
<1> DEFINE h == hm.here \cup {p}
           r == IF hm.game \in {1, 2} THEN hm.ready \cup {p} ELSE hm.ready
<1>1. /\ hm \in HmState /\ p \notin hm.here
      /\ h \in SUBSET HmPlayer /\ r \in SUBSET HmPlayer /\ r \subseteq h /\ hm.here \subseteq h
      /\ h \subseteq HmPlayer
  BY DEF HmInv, Series, HmConnect, HmState
<1>2. hm' = [hm EXCEPT !.here = h, !.ready = r]
  BY DEF HmConnect
<1> HIDE DEF h, r
<1>3. /\ hm' \in HmState /\ hm'.here = h /\ hm'.ready = r
      /\ hm'.frags = hm.frags /\ hm'.spawn = hm.spawn /\ hm'.new = hm.new
      /\ hm'.round = hm.round /\ hm'.true_round = hm.true_round /\ hm'.game = hm.game
      /\ hm'.match_break = hm.match_break /\ hm'.last = hm.last /\ hm'.changed = hm.changed
  BY <1>1, <1>2 DEF HmState
<1>4. QED
  BY <1>1, <1>3 DEF HmInv, Series, PlacesOfPlayers, BothStay, SameParity, EvenPlaces, OddPlaces,
     Scored, LevelWhenEven, EndsEven, Playing

LEMMA DisconnectKeepsSeries ==
  ASSUME HmInv, NEW p \in HmPlayer, HmDisconnect(p), hm.game # 3
  PROVE  HmInv'
<1>1. CASE hm.here = {p}
  BY <1>1, EmptyIsSeries DEF HmDisconnect, HmInv
<1>2. CASE hm.here # {p}
  <2> DEFINE h == hm.here \ {p}
             r == hm.ready \ {p}
             f == [hm.frags EXCEPT ![p] = 0]
             a == [hm.spawn EXCEPT ![p] = 0]
             b == [hm.new EXCEPT ![p] = 0]
  <2>1. /\ hm \in HmState /\ hm.frags \in [HmPlayer -> Nat]
        /\ hm.spawn \in [HmPlayer -> HmSpawn \cup {0}]
        /\ hm.new \in [HmPlayer -> HmSpawn \cup {0}]
    BY DEF HmInv, Series, HmState
  <2>2. /\ h \in SUBSET HmPlayer /\ r \in SUBSET HmPlayer /\ r \subseteq h
        /\ f \in [HmPlayer -> Nat]
        /\ a \in [HmPlayer -> HmSpawn \cup {0}] /\ b \in [HmPlayer -> HmSpawn \cup {0}]
        /\ hm.new = hm.spawn => b = a
    BY <2>1 DEF HmInv, Series, HmState
  <2>3. \A q \in HmPlayer : b[q] # 0 => q \in h
    BY <2>1 DEF HmInv, Series, PlacesOfPlayers
  <2>4. /\ hm'.here = h /\ hm'.ready = r /\ hm'.frags = f /\ hm'.spawn = a /\ hm'.new = b
        /\ hm' = [hm EXCEPT !.here = h, !.ready = r, !.frags = f, !.spawn = a, !.new = b,
                            !.changed = TRUE]
    BY <1>2, <2>1 DEF HmDisconnect, HmState
  <2> HIDE DEF h, r, f, a, b
  <2>5. /\ hm' \in HmState
        /\ hm'.round = hm.round /\ hm'.true_round = hm.true_round /\ hm'.game = hm.game
        /\ hm'.match_break = hm.match_break /\ hm'.last = hm.last /\ hm'.changed = TRUE
    BY <2>1, <2>2, <2>4 DEF HmState
  <2>6. QED
    BY <2>2, <2>3, <2>4, <2>5 DEF HmInv, Series, PlacesOfPlayers, BothStay, SameParity, EvenPlaces,
       OddPlaces, Scored, LevelWhenEven, EndsEven, Playing
<1>3. QED BY <1>1, <1>2

-----------------------------------------------------------------------------
(***************************************************************************)
(* The theorems.                                                           *)
(***************************************************************************)

\* Every step of a series keeps the invariant.
THEOREM SeriesInvariance == HmSpec => []HmInv
<1>1. HmInit => HmInv
  BY EmptyIsSeries DEF HmInit, HmInv
<1>2. HmInv /\ [HmNext]_hm => HmInv'
  <2>1. SUFFICES ASSUME HmInv, [HmNext]_hm PROVE HmInv'
    OBVIOUS
  <2>2. CASE UNCHANGED hm
    BY <2>1, <2>2 DEF HmInv
  <2>3. CASE hm.game # 3 /\ HmClients
    <3>1. PICK p \in HmPlayer :
            \/ HmConnect(p) \/ HmDisconnect(p) \/ HmReady(p) \/ HmBreak(p) \/ HM_suicide(p)
            \/ \E q \in HmPlayer : HmKill(p, q)
            \/ \E spot \in HmSpawn : HM_log_spawn_point(p, spot)
      BY <2>3 DEF HmClients
    <3>2. QED
      BY <2>1, <2>3, <3>1, ConnectKeepsSeries, DisconnectKeepsSeries, ReadyKeepsSeries,
         BreakKeepsSeries, SuicideKeepsSeries, KillKeepsSeries, SpawnPointKeepsSeries
  <2>4. CASE HM_draw \/ HM_drawWon
    BY <2>1, <2>4, DrawKeepsSeries, DefaultKeepsSeries
  <2>5. CASE HmVoteBreak
    BY <2>1, <2>5, VoteKeepsSeries
  <2>6. CASE HmStartMatch
    BY <2>1, <2>6, StartKeepsSeries
  <2>7. CASE HmNewLevel
    BY <2>7, EmptyIsSeries DEF HmNewLevel, HmInv
  <2>8. QED BY <2>1, <2>2, <2>3, <2>4, <2>5, <2>6, <2>7 DEF HmNext
<1>3. QED BY <1>1, <1>2, PTL DEF HmSpec

\* HM_is_game_over() (hoonymode.c): for every even number of rounds a series is over
\* after an even round, with one player ahead.
THEOREM SeriesIsFair == HmSpec => []SeriesEndsEven
<1>1. HmInv => SeriesEndsEven
  BY DEF HmInv, Series, EndsEven, SeriesEndsEven
<1>2. QED BY <1>1, SeriesInvariance, PTL

\* HM_all_ready() (hoonymode.c): in an odd round everybody has the spawn point his
\* opponent had before.
THEOREM SidesAreSwapped == HmSpec => []SidesSwap
<1>1. HmInv => SidesSwap
  <2>1. SUFFICES ASSUME HmInv, hm.game = 2, hm.true_round = 1, ~hm.changed, NEW p \in HmPlayer
                 PROVE  hm.new[p] = hm.last[Other(p)]
    BY DEF SidesSwap
  <2>2. QED BY <2>1 DEF HmInv, Series, OddPlaces
<1>2. QED BY <1>1, SeriesInvariance, PTL

-----------------------------------------------------------------------------
(***************************************************************************)
(* Capture the flag: the flags and runes agree with the players who have   *)
(* them, for teams of any size and every set of runes.                     *)
(***************************************************************************)
FlagPlace == {"AT_BASE", "CARRIED", "DROPPED", "RETURNED"}

CtfState ==
  [here : SUBSET CtfPlayer, alive : SUBSET CtfPlayer, carry : SUBSET CtfPlayer,
   cnt : [CtfTeam -> FlagPlace], owner : [CtfTeam -> SUBSET CtfPlayer],
   tossed : SUBSET CtfTeam, caught : BOOLEAN,
   has : [CtfPlayer -> SUBSET Rune], lying : [Rune -> {0, 1}],
   hot : SUBSET (Rune \X CtfPlayer)]

\* Player p alone carries flag t.
CarriedBy(s, t, p) ==
  /\ s.owner[t] = {p} /\ p \in s.carry /\ TeamNo(p) # t
  /\ \A q \in s.carry : TeamNo(q) # t => q = p

\* A flag that is tossed is not carried as long as no toss has been caught: so
\* FlagResetOwner takes no owner from a carried flag.
FlagsAgree(s) ==
  ~s.caught =>
    /\ s.carry \subseteq s.alive
    /\ \A t \in CtfTeam :
         /\ s.cnt[t] = "CARRIED" => t \notin s.tossed /\ \E p \in CtfPlayer : CarriedBy(s, t, p)
         /\ s.cnt[t] # "CARRIED" => \A q \in s.carry : TeamNo(q) = t

\* Who has a rune is alive and has no other, and the rune lies nowhere.
RunesAgree(s) ==
  /\ \A p \in CtfPlayer : p \notin s.alive => s.has[p] = {}
  /\ \A p \in CtfPlayer : \A r, q \in s.has[p] : r = q
  /\ \A r \in Rune : \A p, q \in CtfPlayer : r \in s.has[p] /\ r \in s.has[q] => p = q
  /\ \A r \in Rune : s.lying[r] = 0 <=> \E p \in CtfPlayer : r \in s.has[p]

OwnersAgree(s) == s \in CtfState /\ FlagsAgree(s) /\ RunesAgree(s)

CtfInv == OwnersAgree(ctf)

-----------------------------------------------------------------------------
(***************************************************************************)
(* Teams, and what is said of some fields only.                            *)
(***************************************************************************)
LEMMA TeamNumbers ==
  \A p : TeamNo(p) \in CtfTeam /\ 3 - TeamNo(p) \in CtfTeam /\ 3 - TeamNo(p) # TeamNo(p)
           /\ \A t \in CtfTeam : t # TeamNo(p) => t = 3 - TeamNo(p)
BY DEF TeamNo, CtfTeam

\* The flags do not depend on runes, the runes not on flags.
LEMMA SameFlags ==
  ASSUME NEW s, NEW u, FlagsAgree(s), u.alive = s.alive, u.carry = s.carry, u.cnt = s.cnt,
         u.owner = s.owner, u.tossed = s.tossed, u.caught = s.caught
  PROVE  FlagsAgree(u)
BY DEF FlagsAgree, CarriedBy

LEMMA SameRunes ==
  ASSUME NEW s, NEW u, RunesAgree(s), u.alive = s.alive, u.has = s.has, u.lying = s.lying
  PROVE  RunesAgree(u)
BY DEF RunesAgree

-----------------------------------------------------------------------------
(***************************************************************************)
(* What a player drops.                                                    *)
(***************************************************************************)
\* DropRune (runes.c): his rune lies now, and he has none.
LEMMA RuneDropped ==
  ASSUME NEW s, OwnersAgree(s), NEW p \in CtfPlayer
  PROVE  /\ OwnersAgree(DropRune(s, p)) /\ DropRune(s, p).has[p] = {}
         /\ DropRune(s, p).here = s.here /\ DropRune(s, p).alive = s.alive
         /\ DropRune(s, p).hot = s.hot /\ DropRune(s, p).carry = s.carry
<1> DEFINE u == DropRune(s, p)
           l == [r \in Rune |-> s.lying[r] + IF r \in s.has[p] THEN 1 ELSE 0]
           h == [s.has EXCEPT ![p] = {}]
<1>1. s \in CtfState /\ FlagsAgree(s) /\ RunesAgree(s)
  BY DEF OwnersAgree
<1>2. \A r \in Rune : l[r] = IF r \in s.has[p] THEN 1 ELSE s.lying[r]
  <2> SUFFICES ASSUME NEW r \in Rune PROVE l[r] = IF r \in s.has[p] THEN 1 ELSE s.lying[r]
    OBVIOUS
  <2>1. s.lying[r] \in {0, 1}
    BY <1>1 DEF CtfState
  <2>2. r \in s.has[p] => s.lying[r] = 0
    BY <1>1 DEF RunesAgree
  <2>3. QED
    BY <2>1, <2>2
<1>3. h \in [CtfPlayer -> SUBSET Rune] /\ h[p] = {}
      /\ \A q \in CtfPlayer : q # p => h[q] = s.has[q]
  BY <1>1 DEF CtfState
<1>4. l \in [Rune -> {0, 1}]
  BY <1>1, <1>2 DEF CtfState
<1>5. u = [s EXCEPT !.has = h, !.lying = l]
  BY <1>1 DEF DropRune, CtfState
<1> HIDE DEF h, l
<1>6. /\ u \in CtfState /\ u.has = h /\ u.lying = l
      /\ u.here = s.here /\ u.alive = s.alive /\ u.carry = s.carry /\ u.cnt = s.cnt
      /\ u.owner = s.owner /\ u.tossed = s.tossed /\ u.caught = s.caught /\ u.hot = s.hot
  BY <1>1, <1>3, <1>4, <1>5 DEF CtfState
<1> HIDE DEF u
<1>7. FlagsAgree(u)
  BY <1>1, <1>6, SameFlags
<1>8. RunesAgree(u)
  <2>1. \A r \in Rune : s.lying[r] \in {0, 1}
    BY <1>1 DEF CtfState
  <2>2. \A q \in CtfPlayer : q \notin u.alive => u.has[q] = {}
    BY <1>1, <1>3, <1>6 DEF RunesAgree
  <2>3. \A q \in CtfPlayer : \A r, o \in u.has[q] : r = o
    BY <1>1, <1>3, <1>6 DEF RunesAgree
  <2>4. \A r \in Rune : \A q, o \in CtfPlayer : r \in u.has[q] /\ r \in u.has[o] => q = o
    BY <1>1, <1>3, <1>6 DEF RunesAgree
  <2>5. ASSUME NEW r \in Rune
        PROVE  u.lying[r] = 0 <=> \E q \in CtfPlayer : r \in u.has[q]
    <3>1. CASE r \in s.has[p]
      <4>1. u.lying[r] = 1
        BY <1>2, <1>6, <3>1
      <4>2. \A q \in CtfPlayer : r \notin u.has[q]
        BY <1>1, <1>3, <1>6, <3>1 DEF RunesAgree
      <4>3. QED BY <4>1, <4>2
    <3>2. CASE r \notin s.has[p]
      <4>1. u.lying[r] = s.lying[r]
        BY <1>2, <1>6, <3>2
      <4>2. \A q \in CtfPlayer : r \in u.has[q] <=> r \in s.has[q]
        BY <1>3, <1>6, <3>2
      <4>3. QED BY <1>1, <4>1, <4>2 DEF RunesAgree
    <3>3. QED BY <3>1, <3>2
  <2>6. QED
    BY <2>2, <2>3, <2>4, <2>5 DEF RunesAgree
<1>9. QED
  BY <1>3, <1>6, <1>7, <1>8 DEF OwnersAgree, u

\* PlayerDropFlag (ctf.c): a player who carries a flag drops that one, and carries none.
LEMMA FlagDropped ==
  ASSUME NEW s, OwnersAgree(s), NEW p \in CtfPlayer, NEW tossed \in BOOLEAN
  PROVE  /\ OwnersAgree(PlayerDropFlag(s, p, tossed))
         /\ ~s.caught => p \notin PlayerDropFlag(s, p, tossed).carry
         /\ PlayerDropFlag(s, p, tossed).here = s.here
         /\ PlayerDropFlag(s, p, tossed).alive = s.alive
         /\ PlayerDropFlag(s, p, tossed).has = s.has
         /\ PlayerDropFlag(s, p, tossed).caught = s.caught
<1> DEFINE u == PlayerDropFlag(s, p, tossed)
           t == 3 - TeamNo(p)
           c == s.carry \ s.owner[t]
           n == [s.cnt EXCEPT ![t] = "DROPPED"]
           o == [s.owner EXCEPT ![t] = IF tossed THEN s.owner[t] ELSE {}]
           w == IF tossed THEN s.tossed \cup {t} ELSE s.tossed
<1>1. s \in CtfState /\ FlagsAgree(s) /\ RunesAgree(s) /\ t \in CtfTeam /\ TeamNo(p) # t
  BY TeamNumbers DEF OwnersAgree
<1>2. CASE p \notin s.carry
  BY <1>2 DEF PlayerDropFlag
<1>3. CASE p \in s.carry
  <2>1. /\ c \in SUBSET CtfPlayer /\ w \in SUBSET CtfTeam
        /\ n \in [CtfTeam -> FlagPlace] /\ o \in [CtfTeam -> SUBSET CtfPlayer]
    <3>1. c \in SUBSET CtfPlayer /\ w \in SUBSET CtfTeam
      BY <1>1 DEF CtfState
    <3>2. "DROPPED" \in FlagPlace
      BY DEF FlagPlace
    <3>3. n \in [CtfTeam -> FlagPlace]
      BY <1>1, <3>2 DEF CtfState
    <3>4. o \in [CtfTeam -> SUBSET CtfPlayer]
      BY <1>1 DEF CtfState
    <3>5. QED BY <3>1, <3>3, <3>4
  <2>2. u = [s EXCEPT !.carry = c, !.cnt = n, !.owner = o, !.tossed = w]
    BY <1>1, <1>3 DEF PlayerDropFlag, DropFlag, CtfState
  <2>3. /\ n[t] = "DROPPED" /\ \A f \in CtfTeam : f # t => n[f] = s.cnt[f] /\ o[f] = s.owner[f]
        /\ \A f \in CtfTeam : f # t => (f \in w <=> f \in s.tossed)
    BY <1>1 DEF CtfState
  <2>4. ~s.caught => s.owner[t] = {p} /\ \A q \in s.carry : TeamNo(q) # t => q = p
    BY <1>1, <1>3 DEF FlagsAgree, CarriedBy
  <2>5. c = s.carry \ s.owner[t]
    OBVIOUS
  <2> HIDE DEF c, n, o, w, t
  <2>6. /\ u \in CtfState /\ u.carry = c /\ u.cnt = n /\ u.owner = o /\ u.tossed = w
        /\ u.here = s.here /\ u.alive = s.alive /\ u.has = s.has /\ u.lying = s.lying
        /\ u.caught = s.caught /\ u.hot = s.hot
    BY <1>1, <2>1, <2>2 DEF CtfState
  <2> HIDE DEF u
  <2>7. RunesAgree(u)
    BY <1>1, <2>6, SameRunes
  <2>8. ~s.caught => p \notin c
    BY <2>4, <2>5
  <2>9. FlagsAgree(u)
    <3> SUFFICES ASSUME ~u.caught
                 PROVE  /\ u.carry \subseteq u.alive
                        /\ \A f \in CtfTeam :
                             /\ u.cnt[f] = "CARRIED" =>
                                  f \notin u.tossed /\ \E q \in CtfPlayer : CarriedBy(u, f, q)
                             /\ u.cnt[f] # "CARRIED" => \A q \in u.carry : TeamNo(q) = f
      BY DEF FlagsAgree
    <3>1. c \subseteq s.carry /\ ~s.caught /\ s.carry \subseteq s.alive
      BY <1>1, <2>5, <2>6 DEF FlagsAgree
    <3>2. ASSUME NEW f \in CtfTeam, u.cnt[f] = "CARRIED"
          PROVE  f \notin u.tossed /\ \E q \in CtfPlayer : CarriedBy(u, f, q)
      <4>1. f # t
        BY <2>3, <2>6, <3>2
      <4>2. PICK q \in CtfPlayer : CarriedBy(s, f, q)
        BY <1>1, <2>3, <2>6, <3>1, <3>2, <4>1 DEF FlagsAgree
      <4>3. q # p
        BY <1>1, <4>1, <4>2, TeamNumbers DEF CarriedBy, t
      <4>4. q \in c
        BY <2>4, <2>5, <3>1, <4>2, <4>3 DEF CarriedBy
      <4>5. CarriedBy(u, f, q)
        BY <2>3, <2>6, <3>1, <4>1, <4>2, <4>4 DEF CarriedBy
      <4>6. f \notin u.tossed
        BY <1>1, <2>3, <2>6, <3>1, <3>2, <4>1 DEF FlagsAgree
      <4>7. QED BY <4>5, <4>6
    <3>3. ASSUME NEW f \in CtfTeam, u.cnt[f] # "CARRIED", NEW q \in u.carry
          PROVE  TeamNo(q) = f
      <4>1. CASE f = t
        BY <2>4, <2>5, <2>6, <3>1, <3>3, <4>1
      <4>2. CASE f # t
        BY <1>1, <2>3, <2>6, <3>1, <3>3, <4>2 DEF FlagsAgree
      <4>3. QED BY <4>1, <4>2
    <3>4. QED
      BY <2>6, <3>1, <3>2, <3>3
  <2>10. QED
    BY <2>6, <2>7, <2>8, <2>9 DEF OwnersAgree, u
<1>4. QED BY <1>2, <1>3

-----------------------------------------------------------------------------
(***************************************************************************)
(* The flag entity.                                                        *)
(***************************************************************************)
\* A flag nobody carries goes to another place, or loses its owner.
LEMMA FlagMoves ==
  ASSUME NEW s, OwnersAgree(s), NEW t \in CtfTeam, NEW x \in FlagPlace, NEW y \in SUBSET CtfPlayer,
         NEW w \in SUBSET s.tossed,
         ~s.caught => s.cnt[t] # "CARRIED" /\ x # "CARRIED"
  PROVE  OwnersAgree([s EXCEPT !.cnt[t] = x, !.owner[t] = y, !.tossed = w])
<1> DEFINE u == [s EXCEPT !.cnt[t] = x, !.owner[t] = y, !.tossed = w]
           n == [s.cnt EXCEPT ![t] = x]
           o == [s.owner EXCEPT ![t] = y]
<1>1. s \in CtfState /\ FlagsAgree(s) /\ RunesAgree(s)
  BY DEF OwnersAgree
<1>2. /\ n \in [CtfTeam -> FlagPlace] /\ o \in [CtfTeam -> SUBSET CtfPlayer]
      /\ w \in SUBSET CtfTeam /\ n[t] = x
      /\ \A f \in CtfTeam : f # t => n[f] = s.cnt[f] /\ o[f] = s.owner[f]
  BY <1>1 DEF CtfState
<1>3. u = [s EXCEPT !.cnt = n, !.owner = o, !.tossed = w]
  BY <1>1 DEF CtfState
<1> HIDE DEF n, o, u
<1>4. /\ u \in CtfState /\ u.carry = s.carry /\ u.cnt = n /\ u.owner = o /\ u.tossed = w
      /\ u.alive = s.alive /\ u.has = s.has /\ u.lying = s.lying /\ u.caught = s.caught
  BY <1>1, <1>2, <1>3 DEF CtfState
<1>5. RunesAgree(u)
  BY <1>1, <1>4, SameRunes
<1>6. FlagsAgree(u)
  BY <1>1, <1>2, <1>4 DEF FlagsAgree, CarriedBy
<1>7. QED
  BY <1>4, <1>5, <1>6 DEF OwnersAgree, u

\* RegenFlag (ctf.c) brings back a flag that lies somewhere.
LEMMA FlagReturned ==
  ASSUME NEW s, OwnersAgree(s), NEW t \in CtfTeam, s.cnt[t] = "DROPPED"
  PROVE  OwnersAgree(RegenFlag(s, t))
<1> DEFINE u == RegenFlag(s, t)
           x == "RETURNED"
           y == {}
           w == s.tossed
<1>1. u = [s EXCEPT !.cnt[t] = x, !.owner[t] = y, !.tossed = w]
  BY DEF RegenFlag, OwnersAgree, CtfState
<1>2. x \in FlagPlace /\ y \in SUBSET CtfPlayer /\ w \in SUBSET s.tossed
  BY DEF FlagPlace
<1>3. s.cnt[t] # "CARRIED" /\ x # "CARRIED"
  OBVIOUS
<1> HIDE DEF u, x, y, w
<1>4. OwnersAgree(u)
  BY <1>1, <1>2, <1>3, FlagMoves
<1>5. QED
  BY <1>4 DEF u

\* A capture: the other flag's carrier was the only one, as his own flag is at home.
LEMMA FlagCaptured ==
  ASSUME NEW s, OwnersAgree(s), NEW p \in s.carry, s.cnt[TeamNo(p)] = "AT_BASE"
  PROVE  OwnersAgree(CtfCapture(s, p))
<1> DEFINE u == CtfCapture(s, p)
           c == s.carry \ {p}
           n == [[s.cnt EXCEPT ![1] = "RETURNED"] EXCEPT ![2] = "RETURNED"]
           o == [[s.owner EXCEPT ![1] = {}] EXCEPT ![2] = {}]
<1>1. /\ s \in CtfState /\ FlagsAgree(s) /\ RunesAgree(s)
      /\ p \in CtfPlayer /\ CtfTeam = {1, 2} /\ "RETURNED" \in FlagPlace
  BY DEF OwnersAgree, CtfState, CtfTeam, FlagPlace
<1>2. /\ n \in [CtfTeam -> FlagPlace] /\ o \in [CtfTeam -> SUBSET CtfPlayer]
      /\ \A f \in CtfTeam : n[f] = "RETURNED"
  BY <1>1 DEF CtfState
<1>3. c \in SUBSET CtfPlayer /\ (~s.caught => c = {} /\ s.carry \subseteq s.alive)
  <2>1. c \in SUBSET CtfPlayer
    BY <1>1 DEF CtfState
  <2>2. ASSUME ~s.caught, NEW q \in s.carry
        PROVE  q = p
    <3>1. TeamNo(q) = TeamNo(p)
      BY <1>1, <2>2, TeamNumbers DEF FlagsAgree
    <3>2. PICK f \in CtfTeam : f # TeamNo(p)
      BY TeamNumbers
    <3>3. \E r \in CtfPlayer : CarriedBy(s, f, r)
      BY <1>1, <2>2, <3>2 DEF FlagsAgree
    <3>4. QED
      BY <3>1, <3>2, <3>3 DEF CarriedBy
  <2>3. QED
    BY <1>1, <2>1, <2>2 DEF FlagsAgree
<1>4. u = [s EXCEPT !.carry = c, !.cnt = n, !.owner = o]
  BY <1>1 DEF CtfCapture, RegenFlag, CtfState
<1> HIDE DEF c, n, o
<1>5. /\ u \in CtfState /\ u.carry = c /\ u.cnt = n /\ u.owner = o /\ u.tossed = s.tossed
      /\ u.alive = s.alive /\ u.has = s.has /\ u.lying = s.lying /\ u.caught = s.caught
  BY <1>1, <1>2, <1>3, <1>4 DEF CtfState
<1> HIDE DEF u
<1>6. RunesAgree(u)
  BY <1>1, <1>5, SameRunes
<1>7. FlagsAgree(u)
  BY <1>2, <1>3, <1>5 DEF FlagsAgree
<1>8. QED
  BY <1>5, <1>6, <1>7 DEF OwnersAgree, u

\* A living player of the other team picks a flag up; if it was tossed and its owner is
\* still kept, that is remembered in caught.
LEMMA FlagPickedUp ==
  ASSUME NEW s, OwnersAgree(s), NEW t \in CtfTeam, NEW p \in CtfPlayer, p \in s.alive, TeamNo(p) # t,
         s.cnt[t] # "CARRIED"
  PROVE  OwnersAgree(PickUp(s, t, p))
<1> DEFINE u == PickUp(s, t, p)
           c == s.carry \cup {p}
           n == [s.cnt EXCEPT ![t] = "CARRIED"]
           o == [s.owner EXCEPT ![t] = {p}]
           k == s.caught \/ t \in s.tossed
<1>1. s \in CtfState /\ FlagsAgree(s) /\ RunesAgree(s) /\ "CARRIED" \in FlagPlace
  BY DEF OwnersAgree, FlagPlace
<1>2. /\ c \in SUBSET CtfPlayer /\ n \in [CtfTeam -> FlagPlace]
      /\ o \in [CtfTeam -> SUBSET CtfPlayer] /\ o[t] = {p} /\ k \in BOOLEAN
      /\ \A f \in CtfTeam : f # t => n[f] = s.cnt[f] /\ o[f] = s.owner[f]
  BY <1>1 DEF CtfState
<1>3. u = [s EXCEPT !.carry = c, !.cnt = n, !.owner = o, !.caught = k]
  BY <1>1 DEF PickUp, CtfState
<1>4. c = s.carry \cup {p} /\ (~k => ~s.caught /\ t \notin s.tossed)
  OBVIOUS
<1> HIDE DEF c, n, o, k
<1>5. /\ u \in CtfState /\ u.carry = c /\ u.cnt = n /\ u.owner = o /\ u.tossed = s.tossed
      /\ u.alive = s.alive /\ u.has = s.has /\ u.lying = s.lying /\ u.caught = k
  BY <1>1, <1>2, <1>3 DEF CtfState
<1> HIDE DEF u
<1>6. RunesAgree(u)
  BY <1>1, <1>5, SameRunes
<1>7. ASSUME ~k
      PROVE  /\ c \subseteq s.alive
             /\ CarriedBy(u, t, p)
             /\ \A f \in CtfTeam : f # t => TeamNo(p) = f
  <2>1. s.carry \subseteq s.alive /\ \A q \in s.carry : TeamNo(q) = t
    BY <1>1, <1>4, <1>7 DEF FlagsAgree
  <2>2. c \subseteq s.alive
    BY <1>4, <2>1
  <2>3. CarriedBy(u, t, p)
    BY <1>2, <1>4, <1>5, <2>1 DEF CarriedBy
  <2>4. \A f \in CtfTeam : f # t => TeamNo(p) = f
    BY DEF TeamNo, CtfTeam
  <2>5. QED BY <2>2, <2>3, <2>4
<1>8. ASSUME ~k, NEW f \in CtfTeam
      PROVE  /\ n[f] = "CARRIED" => f \notin s.tossed /\ \E q \in CtfPlayer : CarriedBy(u, f, q)
             /\ n[f] # "CARRIED" => \A q \in c : TeamNo(q) = f
  <2>1. CASE f = t
    <3>1. n[t] = "CARRIED"
      BY <1>1 DEF n, CtfState
    <3>2. QED
      BY <1>4, <1>7, <1>8, <2>1, <3>1
  <2>2. CASE f # t
    BY <1>1, <1>2, <1>4, <1>5, <1>7, <1>8, <2>2 DEF FlagsAgree, CarriedBy
  <2>3. QED BY <2>1, <2>2
<1>9. FlagsAgree(u)
  BY <1>5, <1>7, <1>8 DEF FlagsAgree
<1>10. QED
  BY <1>5, <1>6, <1>9 DEF OwnersAgree, u

-----------------------------------------------------------------------------
(***************************************************************************)
(* Every action keeps the invariant.                                       *)
(***************************************************************************)
LEMMA CtfStartAgrees == OwnersAgree(CtfStart)
<1>1. CtfStart \in CtfState
  BY DEF CtfStart, CtfState, CtfTeam, FlagPlace
<1>2. FlagsAgree(CtfStart) /\ RunesAgree(CtfStart)
  BY DEF CtfStart, FlagsAgree, RunesAgree
<1>3. QED BY <1>1, <1>2 DEF OwnersAgree

LEMMA FlagTouchInv ==
  ASSUME CtfInv, NEW t \in CtfTeam, NEW p \in CtfPlayer, FlagTouch(t, p)
  PROVE  CtfInv'
<1>1. /\ OwnersAgree(ctf) /\ p \in ctf.alive /\ ctf.cnt[t] # "CARRIED"
      /\ ctf' = FlagTouchOf(ctf, t, p)
  BY DEF CtfInv, FlagTouch
<1>2. CASE TeamNo(p) = t /\ ctf.cnt[t] = "AT_BASE" /\ p \in ctf.carry
  <2>1. FlagTouchOf(ctf, t, p) = CtfCapture(ctf, p)
    BY <1>2 DEF FlagTouchOf
  <2>2. QED
    BY <1>1, <1>2, <2>1, FlagCaptured DEF CtfInv
<1>3. CASE TeamNo(p) = t /\ ctf.cnt[t] = "DROPPED"
  <2>1. FlagTouchOf(ctf, t, p) = RegenFlag(ctf, t)
    BY <1>3 DEF FlagTouchOf
  <2>2. QED
    BY <1>1, <1>3, <2>1, FlagReturned DEF CtfInv
<1>4. CASE TeamNo(p) # t
  <2>1. FlagTouchOf(ctf, t, p) = PickUp(ctf, t, p)
    BY <1>4 DEF FlagTouchOf
  <2>2. QED
    BY <1>1, <1>4, <2>1, FlagPickedUp DEF CtfInv
<1>5. CASE /\ TeamNo(p) = t /\ ctf.cnt[t] # "DROPPED"
           /\ ~(ctf.cnt[t] = "AT_BASE" /\ p \in ctf.carry)
  <2>1. FlagTouchOf(ctf, t, p) = ctf
    BY <1>5 DEF FlagTouchOf
  <2>2. QED
    BY <1>1, <2>1 DEF CtfInv
<1>6. QED BY <1>2, <1>3, <1>4, <1>5

LEMMA FlagComesHomeInv ==
  ASSUME CtfInv, NEW t \in CtfTeam, FlagComesHome(t)
  PROVE  CtfInv'
<1>1. OwnersAgree(ctf)
  BY DEF CtfInv
<1>2. CASE ctf.cnt[t] = "DROPPED" /\ ctf' = RegenFlag(ctf, t)
  BY <1>1, <1>2, FlagReturned DEF CtfInv
<1>3. CASE ctf.cnt[t] = "RETURNED" /\ ctf' = [ctf EXCEPT !.cnt[t] = "AT_BASE"]
  <2>1. /\ ctf.owner[t] \in SUBSET CtfPlayer /\ ctf.tossed \in SUBSET ctf.tossed
        /\ "AT_BASE" \in FlagPlace
    BY <1>1 DEF OwnersAgree, CtfState, FlagPlace
  <2>2. OwnersAgree([ctf EXCEPT !.cnt[t] = "AT_BASE", !.owner[t] = ctf.owner[t], !.tossed = ctf.tossed])
    BY <1>1, <1>3, <2>1, FlagMoves
  <2>3. ctf' = [ctf EXCEPT !.cnt[t] = "AT_BASE", !.owner[t] = ctf.owner[t], !.tossed = ctf.tossed]
    BY <1>1, <1>3 DEF OwnersAgree, CtfState
  <2>4. QED
    BY <2>2, <2>3 DEF CtfInv
<1>4. QED BY <1>2, <1>3 DEF FlagComesHome

LEMMA FlagResetOwnerInv ==
  ASSUME CtfInv, NEW t \in CtfTeam, FlagResetOwner(t)
  PROVE  CtfInv'
<1>1. OwnersAgree(ctf) /\ t \in ctf.tossed
  BY DEF CtfInv, FlagResetOwner
<1>2. /\ ctf.cnt[t] \in FlagPlace /\ {} \in SUBSET CtfPlayer /\ ctf.tossed \ {t} \in SUBSET ctf.tossed
      /\ ~ctf.caught => ctf.cnt[t] # "CARRIED"
  BY <1>1 DEF OwnersAgree, CtfState, FlagsAgree
<1>3. OwnersAgree([ctf EXCEPT !.cnt[t] = ctf.cnt[t], !.owner[t] = {}, !.tossed = ctf.tossed \ {t}])
  BY <1>1, <1>2, FlagMoves
<1>4. ctf' = [ctf EXCEPT !.cnt[t] = ctf.cnt[t], !.owner[t] = {}, !.tossed = ctf.tossed \ {t}]
  BY <1>1 DEF OwnersAgree, CtfState, FlagResetOwner
<1>5. QED
  BY <1>3, <1>4 DEF CtfInv

LEMMA TossFlagInv ==
  ASSUME CtfInv, NEW p \in CtfPlayer, TossFlag(p)
  PROVE  CtfInv'
BY FlagDropped DEF CtfInv, TossFlag

\* Who dies or leaves drops his rune and his flag before he is gone.
LEMMA Emptied ==
  ASSUME NEW s, OwnersAgree(s), NEW p \in CtfPlayer
  PROVE  \E u : /\ u = PlayerDropFlag(DropRune(s, p), p, FALSE)
                /\ OwnersAgree(u) /\ u.has[p] = {} /\ (~u.caught => p \notin u.carry)
                /\ u.alive = s.alive /\ u.here = s.here
<1> DEFINE d == DropRune(s, p)
<1>1. OwnersAgree(d) /\ d.has[p] = {} /\ d.here = s.here /\ d.alive = s.alive
  BY RuneDropped
<1> HIDE DEF d
<1>2. FALSE \in BOOLEAN
  OBVIOUS
<1>3. /\ OwnersAgree(PlayerDropFlag(d, p, FALSE))
      /\ ~d.caught => p \notin PlayerDropFlag(d, p, FALSE).carry
      /\ PlayerDropFlag(d, p, FALSE).here = d.here
      /\ PlayerDropFlag(d, p, FALSE).alive = d.alive
      /\ PlayerDropFlag(d, p, FALSE).has = d.has
      /\ PlayerDropFlag(d, p, FALSE).caught = d.caught
  BY <1>1, <1>2, FlagDropped
<1>4. QED
  BY <1>1, <1>3 DEF d

\* Who has nothing may go.
LEMMA EmptyHandsGo ==
  ASSUME NEW u, OwnersAgree(u), NEW p \in CtfPlayer, u.has[p] = {}, ~u.caught => p \notin u.carry,
         NEW h \in SUBSET CtfPlayer, NEW c \in SUBSET CtfPlayer,
         c \in {u.carry, u.carry \ {p}}
  PROVE  OwnersAgree([u EXCEPT !.here = h, !.alive = u.alive \ {p}, !.carry = c])
<1> DEFINE v == [u EXCEPT !.here = h, !.alive = u.alive \ {p}, !.carry = c]
<1>1. u \in CtfState /\ FlagsAgree(u) /\ RunesAgree(u)
  BY DEF OwnersAgree
<1>2. /\ v \in CtfState /\ v.here = h /\ v.alive = u.alive \ {p} /\ v.carry = c
      /\ v.cnt = u.cnt /\ v.owner = u.owner /\ v.tossed = u.tossed /\ v.caught = u.caught
      /\ v.has = u.has /\ v.lying = u.lying
  BY <1>1 DEF CtfState
<1>3. ~u.caught => c = u.carry
  OBVIOUS
<1> HIDE DEF v
<1>4. FlagsAgree(v)
  BY <1>1, <1>2, <1>3 DEF FlagsAgree, CarriedBy
<1>5. RunesAgree(v)
  BY <1>1, <1>2 DEF RunesAgree
<1>6. QED
  BY <1>2, <1>4, <1>5 DEF OwnersAgree, v

LEMMA CtfDieInv ==
  ASSUME CtfInv, NEW p \in CtfPlayer, CtfDie(p)
  PROVE  CtfInv'
<1>1. PICK u : /\ u = PlayerDropFlag(DropRune(ctf, p), p, FALSE)
               /\ OwnersAgree(u) /\ u.has[p] = {} /\ (~u.caught => p \notin u.carry)
               /\ u.alive = ctf.alive /\ u.here = ctf.here
  BY Emptied DEF CtfInv
<1>2. ctf' = [u EXCEPT !.alive = @ \ {p}]
  BY <1>1 DEF CtfDie
<1>3. ctf' = [u EXCEPT !.here = u.here, !.alive = u.alive \ {p}, !.carry = u.carry]
  BY <1>1, <1>2 DEF OwnersAgree, CtfState
<1>4. u.here \in SUBSET CtfPlayer /\ u.carry \in SUBSET CtfPlayer
  BY <1>1 DEF OwnersAgree, CtfState
<1>5. OwnersAgree([u EXCEPT !.here = u.here, !.alive = u.alive \ {p}, !.carry = u.carry])
  BY <1>1, <1>4, EmptyHandsGo
<1>6. QED
  BY <1>3, <1>5 DEF CtfInv

LEMMA CtfDisconnectInv ==
  ASSUME CtfInv, NEW p \in CtfPlayer, CtfDisconnect(p)
  PROVE  CtfInv'
<1>1. PICK u : /\ u = PlayerDropFlag(DropRune(ctf, p), p, FALSE)
               /\ OwnersAgree(u) /\ u.has[p] = {} /\ (~u.caught => p \notin u.carry)
               /\ u.alive = ctf.alive /\ u.here = ctf.here
  BY Emptied DEF CtfInv
<1>2. ctf' = [u EXCEPT !.here = @ \ {p}, !.alive = @ \ {p}, !.carry = @ \ {p}]
  BY <1>1 DEF CtfDisconnect, CtfLeave
<1>3. ctf' = [u EXCEPT !.here = u.here \ {p}, !.alive = u.alive \ {p}, !.carry = u.carry \ {p}]
  BY <1>1, <1>2 DEF OwnersAgree, CtfState
<1>4. u.here \ {p} \in SUBSET CtfPlayer /\ u.carry \ {p} \in SUBSET CtfPlayer
  BY <1>1 DEF OwnersAgree, CtfState
<1>5. OwnersAgree([u EXCEPT !.here = u.here \ {p}, !.alive = u.alive \ {p}, !.carry = u.carry \ {p}])
  BY <1>1, <1>4, EmptyHandsGo
<1>6. QED
  BY <1>3, <1>5 DEF CtfInv

\* PutClientInServer gives nothing and takes nothing: the dead have neither.
LEMMA CtfSpawnInv ==
  ASSUME CtfInv, NEW p \in CtfPlayer, CtfSpawn(p)
  PROVE  CtfInv'
<1> DEFINE h == [ctf.has EXCEPT ![p] = {}]
<1>1. ctf \in CtfState /\ FlagsAgree(ctf) /\ RunesAgree(ctf) /\ p \notin ctf.alive
  BY DEF CtfInv, OwnersAgree, CtfSpawn
<1>2. h = ctf.has
  BY <1>1 DEF CtfState, RunesAgree
<1>3. /\ ctf' \in CtfState /\ ctf'.alive = ctf.alive \cup {p} /\ ctf'.carry = ctf.carry \ {p}
      /\ ctf'.cnt = ctf.cnt /\ ctf'.owner = ctf.owner /\ ctf'.tossed = ctf.tossed
      /\ ctf'.caught = ctf.caught /\ ctf'.has = h /\ ctf'.lying = ctf.lying
  BY <1>1 DEF CtfSpawn, CtfState
<1> HIDE DEF h
<1>4. FlagsAgree(ctf')
  BY <1>1, <1>3 DEF FlagsAgree, CarriedBy
<1>5. RunesAgree(ctf')
  BY <1>1, <1>2, <1>3 DEF RunesAgree
<1>6. QED
  BY <1>3, <1>4, <1>5 DEF CtfInv, OwnersAgree

LEMMA RuneTouchInv ==
  ASSUME CtfInv, NEW r \in Rune, NEW p \in CtfPlayer, RuneTouch(r, p)
  PROVE  CtfInv'
<1> DEFINE h == [ctf.has EXCEPT ![p] = {r}]
           l == [ctf.lying EXCEPT ![r] = ctf.lying[r] - 1]
           x == {y \in ctf.hot : y[1] # r}
<1>1. /\ ctf \in CtfState /\ FlagsAgree(ctf) /\ RunesAgree(ctf)
      /\ p \in ctf.alive /\ ctf.lying[r] > 0 /\ ctf.has[p] = {}
  BY DEF CtfInv, OwnersAgree, RuneTouch
<1>2. ctf.lying[r] = 1
  BY <1>1 DEF CtfState
<1>3. /\ h \in [CtfPlayer -> SUBSET Rune] /\ l \in [Rune -> {0, 1}]
      /\ x \in SUBSET (Rune \X CtfPlayer)
  BY <1>1, <1>2 DEF CtfState
<1>4. /\ h[p] = {r} /\ \A q \in CtfPlayer : q # p => h[q] = ctf.has[q]
      /\ l[r] = 0 /\ \A o \in Rune : o # r => l[o] = ctf.lying[o]
  BY <1>1, <1>2 DEF CtfState
<1>5. ctf' = [ctf EXCEPT !.has = h, !.lying = l, !.hot = x]
  BY <1>1 DEF RuneTouch, CtfState
<1> HIDE DEF h, l, x
<1>6. /\ ctf' \in CtfState /\ ctf'.alive = ctf.alive /\ ctf'.carry = ctf.carry
      /\ ctf'.cnt = ctf.cnt /\ ctf'.owner = ctf.owner /\ ctf'.tossed = ctf.tossed
      /\ ctf'.caught = ctf.caught /\ ctf'.has = h /\ ctf'.lying = l
  BY <1>1, <1>3, <1>5 DEF CtfState
<1>7. FlagsAgree(ctf')
  BY <1>1, <1>6, SameFlags
<1>8. \A q \in CtfPlayer : r \notin ctf.has[q]
  BY <1>1, <1>2 DEF RunesAgree
<1>9. RunesAgree(ctf')
  <2>1. \A q \in CtfPlayer : q \notin ctf'.alive => ctf'.has[q] = {}
    BY <1>1, <1>4, <1>6 DEF RunesAgree
  <2>2. \A q \in CtfPlayer : \A o, m \in ctf'.has[q] : o = m
    BY <1>1, <1>4, <1>6 DEF RunesAgree
  <2>3. \A o \in Rune : \A q, m \in CtfPlayer : o \in ctf'.has[q] /\ o \in ctf'.has[m] => q = m
    BY <1>1, <1>4, <1>6, <1>8 DEF RunesAgree
  <2>4. ASSUME NEW o \in Rune
        PROVE  ctf'.lying[o] = 0 <=> \E q \in CtfPlayer : o \in ctf'.has[q]
    <3>1. CASE o = r
      BY <1>4, <1>6, <3>1
    <3>2. CASE o # r
      <4>1. \A q \in CtfPlayer : o \in ctf'.has[q] <=> o \in ctf.has[q]
        BY <1>1, <1>4, <1>6, <3>2
      <4>2. QED
        BY <1>1, <1>4, <1>6, <3>2, <4>1 DEF RunesAgree
    <3>3. QED BY <3>1, <3>2
  <2>5. QED
    BY <2>1, <2>2, <2>3, <2>4 DEF RunesAgree
<1>10. QED
  BY <1>6, <1>7, <1>9 DEF CtfInv, OwnersAgree

\* Who may touch which rune again (hot) is said by no other field.
LEMMA HotInv ==
  ASSUME NEW s, OwnersAgree(s), NEW x \in SUBSET (Rune \X CtfPlayer)
  PROVE  OwnersAgree([s EXCEPT !.hot = x])
<1> DEFINE u == [s EXCEPT !.hot = x]
<1>1. /\ u \in CtfState /\ u.alive = s.alive /\ u.carry = s.carry /\ u.cnt = s.cnt
      /\ u.owner = s.owner /\ u.tossed = s.tossed /\ u.caught = s.caught
      /\ u.has = s.has /\ u.lying = s.lying
  BY DEF OwnersAgree, CtfState
<1> HIDE DEF u
<1>2. FlagsAgree(u) /\ RunesAgree(u)
  BY <1>1, SameFlags, SameRunes DEF OwnersAgree
<1>3. QED
  BY <1>1, <1>2 DEF OwnersAgree, u

LEMMA TossRuneInv ==
  ASSUME CtfInv, NEW p \in CtfPlayer, TossRune(p)
  PROVE  CtfInv'
<1> DEFINE d == DropRune(ctf, p)
           x == ctf.hot \cup (ctf.has[p] \X {p})
<1>1. OwnersAgree(d) /\ d.hot = ctf.hot
  BY RuneDropped DEF CtfInv
<1>2. x \in SUBSET (Rune \X CtfPlayer)
  BY DEF CtfInv, OwnersAgree, CtfState
<1>3. ctf' = [d EXCEPT !.hot = x]
  BY <1>1 DEF TossRune
<1> HIDE DEF d, x
<1>4. QED
  BY <1>1, <1>2, <1>3, HotInv DEF CtfInv

LEMMA RuneResetOwnerInv ==
  ASSUME CtfInv, NEW r \in Rune, RuneResetOwner(r)
  PROVE  CtfInv'
<1> DEFINE x == {y \in ctf.hot : y[1] # r}
<1>1. x \in SUBSET (Rune \X CtfPlayer)
  BY DEF CtfInv, OwnersAgree, CtfState
<1>2. ctf' = [ctf EXCEPT !.hot = x]
  BY DEF RuneResetOwner
<1> HIDE DEF x
<1>3. QED
  BY <1>1, <1>2, HotInv DEF CtfInv

LEMMA FlagNextInv ==
  ASSUME CtfInv, [FlagNext]_ctf
  PROVE  CtfInv'
<1>1. CASE UNCHANGED ctf
  BY <1>1 DEF CtfInv
<1>2. QED
  BY <1>1, FlagTouchInv, FlagComesHomeInv, FlagResetOwnerInv, TossFlagInv, CtfDieInv,
     CtfDisconnectInv, CtfSpawnInv, RuneTouchInv, TossRuneInv, RuneResetOwnerInv DEF FlagNext

-----------------------------------------------------------------------------
(***************************************************************************)
(* The theorems.                                                           *)
(***************************************************************************)

\* The inductive invariant holds in every state of every behaviour.
THEOREM FlagInvariance == FlagSpec => []CtfInv
<1>1. FlagInit => CtfInv
  BY CtfStartAgrees DEF FlagInit, CtfInv
<1>2. QED
  BY <1>1, FlagNextInv, PTL DEF FlagSpec

\* The flags of ctf.c and the players' CTF_FLAG agree until a toss is caught early.
THEOREM FlagsHaveCarriers == FlagSpec => []FlagHasItsCarrier
<1>1. ASSUME CtfInv PROVE FlagHasItsCarrier
  <2> SUFFICES ASSUME ~ctf.caught
               PROVE  /\ ctf.carry \subseteq ctf.alive
                      /\ \A t \in CtfTeam :
                           IF ctf.cnt[t] = "CARRIED"
                           THEN ctf.owner[t] = Carrier(t) /\ Cardinality(Carrier(t)) = 1
                           ELSE Carrier(t) = {}
    BY DEF FlagHasItsCarrier
  <2>1. FlagsAgree(ctf)
    BY <1>1 DEF CtfInv, OwnersAgree
  <2>2. ASSUME NEW t \in CtfTeam, ctf.cnt[t] = "CARRIED"
        PROVE  ctf.owner[t] = Carrier(t) /\ Cardinality(Carrier(t)) = 1
    <3>1. PICK p \in CtfPlayer : CarriedBy(ctf, t, p)
      BY <2>1, <2>2 DEF FlagsAgree
    <3>2. Carrier(t) = {p} /\ ctf.owner[t] = {p}
      BY <3>1 DEF CarriedBy, Carrier
    <3>3. QED
      BY <3>2, FS_Singleton
  <2>3. ASSUME NEW t \in CtfTeam, ctf.cnt[t] # "CARRIED"
        PROVE  Carrier(t) = {}
    BY <2>1, <2>3 DEF FlagsAgree, Carrier
  <2>4. QED
    BY <2>1, <2>2, <2>3 DEF FlagsAgree
<1>2. QED BY <1>1, FlagInvariance, PTL

\* A rune of runes.c lies somewhere or one living player has it, and nobody has two.
THEOREM RunesAreSingle == FlagSpec => []OneOfEachRune
<1>1. ASSUME CtfInv PROVE OneOfEachRune
  <2>1. ctf \in CtfState /\ RunesAgree(ctf)
    BY <1>1 DEF CtfInv, OwnersAgree
  <2>2. ASSUME NEW r \in Rune
        PROVE  ctf.lying[r] + Cardinality({p \in CtfPlayer : r \in ctf.has[p]}) = 1
    <3> DEFINE H == {p \in CtfPlayer : r \in ctf.has[p]}
    <3>1. CASE ctf.lying[r] = 0
      <4>1. PICK p \in CtfPlayer : r \in ctf.has[p]
        BY <2>1, <3>1 DEF RunesAgree
      <4>2. H = {p}
        BY <2>1, <4>1 DEF RunesAgree
      <4>3. Cardinality(H) = 1
        BY <4>2, FS_Singleton
      <4>4. QED BY <3>1, <4>3
    <3>2. CASE ctf.lying[r] = 1
      <4>1. H = {}
        BY <2>1, <3>2 DEF RunesAgree
      <4>2. Cardinality(H) = 0
        BY <4>1, FS_EmptySet
      <4>3. QED BY <3>2, <4>2
    <3>3. QED BY <2>1, <3>1, <3>2 DEF CtfState
  <2>3. ASSUME NEW p \in CtfPlayer
        PROVE  Cardinality(ctf.has[p]) <= (IF p \in ctf.alive THEN 1 ELSE 0)
    <3>1. CASE ctf.has[p] = {}
      <4>1. Cardinality(ctf.has[p]) = 0
        BY <3>1, FS_EmptySet
      <4>2. QED BY <4>1
    <3>2. CASE ctf.has[p] # {}
      <4>1. p \in ctf.alive /\ \E r : ctf.has[p] = {r}
        BY <2>1, <3>2 DEF RunesAgree
      <4>2. Cardinality(ctf.has[p]) = 1
        BY <4>1, FS_Singleton
      <4>3. QED BY <4>1, <4>2
    <3>3. QED BY <3>1, <3>2
  <2>4. QED
    BY <2>2, <2>3 DEF OneOfEachRune
<1>2. QED BY <1>1, FlagInvariance, PTL

-----------------------------------------------------------------------------
(***************************************************************************)
(* Items: there is one quad damage and too much health rots, for any number *)
(* of players and boxes and any times that the assumptions allow.          *)
(***************************************************************************)
QuadIs == {"there", "wait", "hidden", "removed"}
BoxIs == {"there", "rot", "regen", "removed"}
DropIs == {"none", "there", "taken", "wait", "back"}
Dropped == [is : DropIs, time : Nat, wait : Nat]
MegaBox == [is : BoxIs, owner : ItPlayer \cup {0}, wait : Nat]

ItState ==
  [mode : ItMode, here : SUBSET ItPlayer, health : [ItPlayer -> Nat], power : [ItPlayer -> Nat],
   quad : [is : QuadIs, wait : Nat], drop : [DropSlot -> Dropped], again : Nat,
   pow : BOOLEAN, seen : BOOLEAN, box : [Box -> MegaBox], super : SUBSET ItPlayer]

Holding(s, p) == p \in s.here /\ s.health[p] > 0 /\ s.power[p] > 0
Lies(s, i) == s.drop[i].is = "there" /\ s.drop[i].time > 0

\* Nothing lasts longer than PowerTime, and nothing is away longer than QuadWait.
InTime(s) ==
  /\ \A p \in ItPlayer : s.power[p] <= PowerTime
  /\ \A i \in DropSlot : s.drop[i].time <= PowerTime /\ s.drop[i].wait <= QuadWait
  /\ s.again <= MaxRevived

\* No dropped quad comes and goes.
NoneRevived(s) == \A i \in DropSlot : s.drop[i].is # "wait" /\ s.drop[i].is # "back"

\* OneQuad without counting.
Single(s) ==
  /\ \A p, q \in ItPlayer : Holding(s, p) /\ Holding(s, q) => p = q
  /\ \A i, j \in DropSlot : Lies(s, i) /\ Lies(s, j) => i = j
  /\ \A p \in ItPlayer, i \in DropSlot : ~(Holding(s, p) /\ Lies(s, i))
  /\ s.quad.is = "there" => /\ \A p \in ItPlayer : ~Holding(s, p)
                            /\ \A i \in DropSlot : ~Lies(s, i)

\* The quad of the map comes back after the one in use is used up; killquad has none.
Later(s) ==
  /\ s.mode = "kill" => s.quad.is = "removed"
  /\ s.quad.is = "wait" => /\ \A p \in ItPlayer : Holding(s, p) => s.power[p] <= s.quad.wait
                           /\ \A i \in DropSlot : Lies(s, i) => s.drop[i].time <= s.quad.wait

\* MegaRots, of every slot, whether there is a player in it or not.
Rotting(s) ==
  /\ \A b \in Box : s.box[b].is = "rot" => s.box[b].owner \in ItPlayer
  /\ \A p \in ItPlayer : s.health[p] > HealthMax =>
       p \in s.super /\ \E b \in Box : s.box[b].is = "rot" /\ s.box[b].owner = p

\* There is one until the settings revive a dropped quad that was taken.
OneSoFar(s) == NoneRevived(s) /\ Single(s) /\ Later(s)

QuadInv(s) == InTime(s) /\ (s.again = 0 => OneSoFar(s))

ItInv == it \in ItState /\ QuadInv(it) /\ Rotting(it)

-----------------------------------------------------------------------------
(***************************************************************************)
(* What a step leaves alone stays as it was.                               *)
(***************************************************************************)
SameQuad(s, t) ==
  t.mode = s.mode /\ t.quad = s.quad /\ t.drop = s.drop /\ t.again = s.again /\ t.power = s.power

\* Nobody comes to life, and the quads are where they were.
LEMMA QuadStays ==
  ASSUME NEW s \in ItState, NEW t \in ItState, QuadInv(s), SameQuad(s, t),
         \A p \in ItPlayer : Holding(t, p) => Holding(s, p)
  PROVE  QuadInv(t)
<1>1. InTime(t)
  BY DEF QuadInv, InTime, SameQuad
<1>2. \A i \in DropSlot : Lies(t, i) <=> Lies(s, i)
  BY DEF SameQuad, Lies
<1>3. s.again = 0 => Single(t)
  BY <1>2 DEF QuadInv, OneSoFar, Single, SameQuad
<1>4. s.again = 0 => Later(t) /\ NoneRevived(t)
  BY <1>2 DEF QuadInv, OneSoFar, NoneRevived, Later, SameQuad
<1>5. QED BY <1>1, <1>3, <1>4 DEF QuadInv, OneSoFar, SameQuad

\* The same when a client's time ends who has no quad in use from then on.
LEMMA LessQuad ==
  ASSUME NEW s \in ItState, NEW t \in ItState, QuadInv(s),
         t.mode = s.mode, t.quad = s.quad, t.drop = s.drop, t.again = s.again,
         NEW p \in ItPlayer, t.power[p] = 0, \A c \in ItPlayer : c # p => t.power[c] = s.power[c],
         \A c \in ItPlayer : c # p /\ Holding(t, c) => Holding(s, c)
  PROVE  QuadInv(t)
<1>1. \A c \in ItPlayer : Holding(t, c) => c # p /\ Holding(s, c)
  BY DEF Holding
<1>2. \A i \in DropSlot : Lies(t, i) <=> Lies(s, i)
  BY DEF Lies
<1>3. InTime(t)
  BY ItAssumption DEF QuadInv, InTime
<1>4. s.again = 0 => Single(t)
  BY <1>1, <1>2 DEF QuadInv, OneSoFar, Single
<1>5. s.again = 0 => Later(t) /\ NoneRevived(t)
  BY <1>1, <1>2 DEF QuadInv, OneSoFar, NoneRevived, Later
<1>6. QED BY <1>3, <1>4, <1>5 DEF QuadInv, OneSoFar

\* Health and boxes as they were.
LEMMA RotStays ==
  ASSUME NEW s \in ItState, NEW t \in ItState, Rotting(s),
         t.health = s.health, t.box = s.box, t.super = s.super
  PROVE  Rotting(t)
BY DEF Rotting

-----------------------------------------------------------------------------
(***************************************************************************)
(* The quad.                                                               *)
(***************************************************************************)
\* Who takes the quad of the map is the only one who has it, and it waits longer.
LEMMA TakeQuadStep ==
  ASSUME ItInv, NEW p \in ItPlayer, TakeQuad(p)
  PROVE  ItInv'
<1> DEFINE f == [it.power EXCEPT ![p] = PowerTime]
           q == [is |-> "wait", wait |-> QuadWait]
<1>1. it \in ItState /\ QuadInv(it) /\ Rotting(it)
  BY DEF ItInv
<1>2. PowerTime \in Nat /\ QuadWait \in Nat /\ QuadWait >= PowerTime /\ PowerTime > 0
  BY ItAssumption
<1>3. it.quad.is = "there" /\ p \in it.here /\ it.health[p] > 0
  BY DEF TakeQuad, Live
<1>4. /\ f \in [ItPlayer -> Nat] /\ f[p] = PowerTime /\ \A c \in ItPlayer : c # p => f[c] = it.power[c]
      /\ q \in [is : QuadIs, wait : Nat] /\ q.is = "wait" /\ q.wait = QuadWait
  BY <1>1, <1>2 DEF ItState, QuadIs
<1>5. it' = [it EXCEPT !.quad = q, !.power = f]
  BY <1>1 DEF TakeQuad, ItState
<1> HIDE DEF f, q
<1>6. /\ it' \in ItState /\ it'.quad = q /\ it'.power = f /\ it'.mode = it.mode /\ it'.drop = it.drop /\ it'.again = it.again
      /\ it'.here = it.here /\ it'.health = it.health /\ it'.box = it.box /\ it'.super = it.super
  BY <1>1, <1>4, <1>5 DEF ItState
<1>7. it.again = 0 => \A c \in ItPlayer : Holding(it', c) => c = p
  BY <1>1, <1>3, <1>4, <1>6 DEF Holding, QuadInv, OneSoFar, Single
<1>8. it.again = 0 => \A i \in DropSlot : ~Lies(it', i)
  BY <1>1, <1>3, <1>6 DEF Lies, QuadInv, OneSoFar, Single
<1>9. InTime(it')
  BY <1>1, <1>2, <1>4, <1>6 DEF InTime, QuadInv
<1>10. it.again = 0 => Single(it')
  BY <1>4, <1>6, <1>7, <1>8 DEF Single
<1>11. it.again = 0 => Later(it') /\ NoneRevived(it')
  BY <1>1, <1>2, <1>3, <1>4, <1>6, <1>7, <1>8 DEF Later, NoneRevived, QuadInv, OneSoFar
<1>12. QED BY <1>1, <1>6, <1>9, <1>10, <1>11, RotStays DEF ItInv, QuadInv, OneSoFar

\* Who takes a dropped one has the time that was left of it.
LEMMA TakeDropStep ==
  ASSUME ItInv, NEW p \in ItPlayer, NEW i \in DropSlot, TakeDrop(p, i)
  PROVE  ItInv'
<1> DEFINE n == AtMostPower(it.power[p] + Worth(it, i))
           f == [it.power EXCEPT ![p] = n]
           d == [it.drop EXCEPT ![i] = Taken]
<1>1. it \in ItState /\ QuadInv(it) /\ Rotting(it)
  BY DEF ItInv
<1>2. PowerTime \in Nat /\ PowerTime > 0 /\ QuadWait \in Nat
  BY ItAssumption
<1>3. p \in it.here /\ it.health[p] > 0 /\ Lies(it, i)
  BY DEF TakeDrop, Live, Lies
<1>4. it.power \in [ItPlayer -> Nat] /\ it.drop[i] \in Dropped /\ it.drop \in [DropSlot -> Dropped]
  BY <1>1 DEF ItState
<1>5. (it.again = 0 => it.power[p] = 0) /\ it.drop[i].time <= PowerTime
  BY <1>1, <1>3, <1>4 DEF QuadInv, OneSoFar, Single, Holding, InTime
<1>6. n \in Nat /\ n <= PowerTime /\ (it.again = 0 /\ it.mode # "kill" => n = it.drop[i].time)
  BY <1>2, <1>4, <1>5 DEF AtMostPower, Worth, Dropped
<1>7. it' = [it EXCEPT !.drop = d, !.power = f]
  BY <1>1 DEF TakeDrop, ItState
<1>8. Taken \in Dropped /\ Taken.is = "taken" /\ Taken.time = 0 /\ Taken.wait = 0
  BY DEF Taken, Dropped, DropIs
<1> HIDE DEF n
<1>9. /\ f \in [ItPlayer -> Nat] /\ f[p] = n /\ \A c \in ItPlayer : c # p => f[c] = it.power[c]
      /\ d \in [DropSlot -> Dropped] /\ d[i] = Taken /\ \A j \in DropSlot : j # i => d[j] = it.drop[j]
  BY <1>4, <1>6, <1>8
<1> HIDE DEF f, d
<1>10. /\ it' \in ItState /\ it'.quad = it.quad /\ it'.power = f /\ it'.mode = it.mode /\ it'.drop = d
       /\ it'.here = it.here /\ it'.health = it.health /\ it'.box = it.box /\ it'.super = it.super
       /\ it'.again = it.again
  BY <1>1, <1>7, <1>9 DEF ItState
<1>11. it.again = 0 => \A c \in ItPlayer : Holding(it', c) => c = p
  BY <1>1, <1>3, <1>9, <1>10 DEF Holding, QuadInv, OneSoFar, Single
<1>12. it.again = 0 => \A j \in DropSlot : ~Lies(it', j)
  BY <1>1, <1>3, <1>8, <1>9, <1>10 DEF Lies, QuadInv, OneSoFar, Single
<1>13. InTime(it')
  BY <1>1, <1>2, <1>6, <1>8, <1>9, <1>10 DEF InTime, QuadInv
<1>14. it.again = 0 => Single(it')
  BY <1>1, <1>3, <1>10, <1>11, <1>12 DEF Single, QuadInv, OneSoFar
<1>15. it.again = 0 => NoneRevived(it')
  BY <1>1, <1>8, <1>9, <1>10 DEF NoneRevived, QuadInv, OneSoFar
<1>16. it.again = 0 => Later(it')
  BY <1>1, <1>3, <1>6, <1>9, <1>10, <1>11, <1>12 DEF Later, QuadInv, OneSoFar
<1>17. QED BY <1>1, <1>10, <1>13, <1>14, <1>15, <1>16, RotStays DEF ItInv, QuadInv, OneSoFar

\* A revived one is taken after the settings have revived it.
LEMMA TakeRevivedStep ==
  ASSUME ItInv, NEW p \in ItPlayer, NEW i \in DropSlot, TakeRevived(p, i)
  PROVE  ItInv'
<1> DEFINE f == [it.power EXCEPT ![p] = PowerTime]
           e == IF it.mode = "kill" THEN Taken ELSE ComesIn(QuadWait)
           d == [it.drop EXCEPT ![i] = e]
<1>1. it \in ItState /\ QuadInv(it) /\ Rotting(it)
  BY DEF ItInv
<1>2. PowerTime \in Nat /\ QuadWait \in Nat
  BY ItAssumption
<1>3. it.again # 0
  BY <1>1 DEF TakeRevived, QuadInv, OneSoFar, NoneRevived
<1>4. it' = [it EXCEPT !.drop = d, !.power = f]
  BY <1>1 DEF TakeRevived, ItState
<1>5. e \in Dropped /\ e.time = 0 /\ e.wait <= QuadWait
  BY <1>2 DEF Taken, ComesIn, Dropped, DropIs
<1> HIDE DEF e
<1>6. /\ f \in [ItPlayer -> Nat] /\ f[p] = PowerTime /\ \A c \in ItPlayer : c # p => f[c] = it.power[c]
      /\ d \in [DropSlot -> Dropped] /\ d[i] = e /\ \A j \in DropSlot : j # i => d[j] = it.drop[j]
  BY <1>1, <1>2, <1>5 DEF ItState
<1> HIDE DEF f, d
<1>7. /\ it' \in ItState /\ it'.power = f /\ it'.drop = d /\ it'.again = it.again
      /\ it'.health = it.health /\ it'.box = it.box /\ it'.super = it.super
  BY <1>1, <1>4, <1>6 DEF ItState
<1>8. InTime(it')
  BY <1>1, <1>2, <1>5, <1>6, <1>7 DEF InTime, QuadInv
<1>9. QED BY <1>1, <1>3, <1>7, <1>8, RotStays DEF ItInv, QuadInv

\* And so is one that comes back.
LEMMA DropBackStep ==
  ASSUME ItInv, NEW i \in DropSlot, DropBack(i)
  PROVE  ItInv'
<1> DEFINE e == [it.drop[i] EXCEPT !.is = "back"]
           d == [it.drop EXCEPT ![i] = e]
<1>1. it \in ItState /\ QuadInv(it) /\ Rotting(it)
  BY DEF ItInv
<1>2. it.again # 0
  BY <1>1 DEF DropBack, QuadInv, OneSoFar, NoneRevived
<1>3. it' = [it EXCEPT !.drop = d]
  BY <1>1 DEF DropBack, ItState
<1>4. e \in Dropped /\ e.time = it.drop[i].time /\ e.wait = it.drop[i].wait
  BY <1>1 DEF ItState, Dropped, DropIs
<1> HIDE DEF e
<1>5. d \in [DropSlot -> Dropped] /\ d[i] = e /\ \A j \in DropSlot : j # i => d[j] = it.drop[j]
  BY <1>1, <1>4 DEF ItState
<1> HIDE DEF d
<1>6. /\ it' \in ItState /\ it'.power = it.power /\ it'.drop = d /\ it'.again = it.again
      /\ it'.health = it.health /\ it'.box = it.box /\ it'.super = it.super
  BY <1>1, <1>3, <1>5 DEF ItState
<1>7. InTime(it')
  BY <1>1, <1>4, <1>5, <1>6 DEF InTime, QuadInv
<1>8. QED BY <1>1, <1>2, <1>6, <1>7, RotStays DEF ItInv, QuadInv

\* A drop that nobody wants, or that somebody has taken, is put away.
LEMMA DropGoneStep ==
  ASSUME ItInv, NEW i \in DropSlot, DropGone(i)
  PROVE  ItInv'
<1> DEFINE d == [it.drop EXCEPT ![i] = NoDrop]
<1>1. it \in ItState /\ QuadInv(it) /\ Rotting(it)
  BY DEF ItInv
<1>2. NoDrop \in Dropped /\ NoDrop.is = "none" /\ NoDrop.time = 0 /\ NoDrop.wait = 0
  BY DEF NoDrop, Dropped, DropIs
<1>3. /\ d \in [DropSlot -> Dropped] /\ d[i] = NoDrop
      /\ \A j \in DropSlot : j # i => d[j] = it.drop[j]
  BY <1>1, <1>2 DEF ItState
<1>4. it' = [it EXCEPT !.drop = d]
  BY <1>1 DEF DropGone, ItState
<1> HIDE DEF d
<1>5. /\ it' \in ItState /\ it'.quad = it.quad /\ it'.power = it.power /\ it'.mode = it.mode /\ it'.drop = d
      /\ it'.here = it.here /\ it'.health = it.health /\ it'.box = it.box /\ it'.super = it.super
      /\ it'.again = it.again
  BY <1>1, <1>3, <1>4 DEF ItState
<1>6. \A p \in ItPlayer : Holding(it', p) <=> Holding(it, p)
  BY <1>5 DEF Holding
<1>7. \A j \in DropSlot : Lies(it', j) => Lies(it, j) /\ it'.drop[j] = it.drop[j]
  BY <1>2, <1>3, <1>5 DEF Lies
<1>8. InTime(it')
  BY <1>1, <1>2, <1>3, <1>5, ItAssumption DEF InTime, QuadInv
<1>9. it.again = 0 => Single(it')
  BY <1>1, <1>5, <1>6, <1>7 DEF Single, QuadInv, OneSoFar
<1>10. it.again = 0 => Later(it') /\ NoneRevived(it')
  <2>1. it.again = 0 => Later(it')
    BY <1>1, <1>5, <1>6, <1>7 DEF Later, QuadInv, OneSoFar
  <2>2. it.again = 0 => NoneRevived(it')
    BY <1>1, <1>2, <1>3, <1>5 DEF NoneRevived, QuadInv, OneSoFar
  <2>3. QED BY <2>1, <2>2
<1>11. QED BY <1>1, <1>5, <1>8, <1>9, <1>10, RotStays DEF ItInv, QuadInv, OneSoFar

\* When the quad of the map is back, the one that was taken is used up.
LEMMA QuadBackStep ==
  ASSUME ItInv, QuadBack
  PROVE  ItInv'
<1> DEFINE q == [it.quad EXCEPT !.is = "there"]
<1>1. it \in ItState /\ QuadInv(it) /\ Rotting(it)
  BY DEF ItInv
<1>2. it.quad.is = "wait" /\ it.quad.wait = 0
  BY DEF QuadBack
<1>3. q \in [is : QuadIs, wait : Nat] /\ q.is = "there"
  BY <1>1 DEF ItState, QuadIs
<1>4. it' = [it EXCEPT !.quad = q]
  BY <1>1 DEF QuadBack, ItState
<1> HIDE DEF q
<1>5. /\ it' \in ItState /\ it'.quad = q /\ it'.power = it.power /\ it'.mode = it.mode /\ it'.drop = it.drop
      /\ it'.here = it.here /\ it'.health = it.health /\ it'.box = it.box /\ it'.super = it.super
      /\ it'.again = it.again
  BY <1>1, <1>3, <1>4 DEF ItState
<1>6. it.again = 0 => \A p \in ItPlayer : ~Holding(it', p)
  BY <1>1, <1>2, <1>5 DEF Holding, QuadInv, OneSoFar, Later, ItState
<1>7. it.again = 0 => \A i \in DropSlot : ~Lies(it', i)
  BY <1>1, <1>2, <1>5 DEF Lies, QuadInv, OneSoFar, Later, ItState, Dropped
<1>8. InTime(it')
  BY <1>1, <1>5 DEF InTime, QuadInv
<1>9. it.again = 0 => Single(it')
  BY <1>6, <1>7 DEF Single
<1>10. it.again = 0 => Later(it') /\ NoneRevived(it')
  BY <1>1, <1>2, <1>3, <1>5 DEF Later, NoneRevived, QuadInv, OneSoFar
<1>11. QED BY <1>1, <1>5, <1>8, <1>9, <1>10, RotStays DEF ItInv, QuadInv, OneSoFar

\* The settings change; nothing else does before FixPowerups.
LEMMA SetPowerupsStep ==
  ASSUME ItInv, SetPowerups
  PROVE  ItInv'
<1>1. it \in ItState /\ QuadInv(it) /\ Rotting(it)
  BY DEF ItInv
<1>2. /\ it' \in ItState /\ SameQuad(it, it')
      /\ it'.here = it.here /\ it'.health = it.health /\ it'.box = it.box /\ it'.super = it.super
  BY <1>1 DEF SetPowerups, ItState, SameQuad
<1>3. \A p \in ItPlayer : Holding(it', p) => Holding(it, p)
  BY <1>2 DEF Holding, SameQuad
<1>4. QED BY <1>1, <1>2, <1>3, QuadStays, RotStays DEF ItInv

LEMMA TakenAreCounted == TakenDrops(it) = {} \/ Cardinality(TakenDrops(it)) > 0
<1>1. IsFiniteSet(DropSlot)
  BY ItAssumption, FS_Interval DEF DropSlot
<1>2. IsFiniteSet(TakenDrops(it))
  BY <1>1, FS_Subset DEF TakenDrops
<1>3. QED BY <1>2, FS_EmptySet, FS_CardinalityType

\* When the settings show everything again, the quad of the map waits longer than the one in
\* use lasts.  A dropped one that was taken is there for ever from now on.
LEMMA ShowStep ==
  ASSUME ItInv, FixPowerups, it.pow
  PROVE  ItInv'
<1> DEFINE q == IF it.quad.is \in {"hidden", "wait"} THEN [is |-> "wait", wait |-> ShowWait] ELSE it.quad
           d == [i \in DropSlot |->
                   IF it.drop[i].is \in {"taken", "wait"} THEN ComesIn(ShowWait) ELSE it.drop[i]]
           k == it.again + Cardinality(TakenDrops(it))
<1>1. it \in ItState /\ QuadInv(it) /\ Rotting(it)
  BY DEF ItInv
<1>2. /\ PowerTime \in Nat /\ ShowWait \in Nat /\ PowerTime <= ShowWait /\ QuadWait \in Nat
      /\ ShowWait <= QuadWait
  BY ItAssumption
<1>3. it' = [it EXCEPT !.seen = TRUE, !.quad = q, !.drop = d, !.again = k]
  BY <1>1 DEF FixPowerups, show_powerups, ItState, TakenDrops
<1>4. /\ q \in [is : QuadIs, wait : Nat] /\ (q.is = "wait" => q.wait = ShowWait)
      /\ (q.is = "there" <=> it.quad.is = "there") /\ (q.is = "removed" <=> it.quad.is = "removed")
  BY <1>1, <1>2 DEF ItState, QuadIs
<1>5. /\ ComesIn(ShowWait) \in Dropped /\ ComesIn(ShowWait).is = "wait"
      /\ ComesIn(ShowWait).time = 0 /\ ComesIn(ShowWait).wait = ShowWait
  BY <1>2 DEF ComesIn, Dropped, DropIs
<1>6. d \in [DropSlot -> Dropped]
  BY <1>1, <1>5 DEF ItState
<1>7. \A i \in DropSlot : d[i] = it.drop[i] \/ (it.drop[i].is \in {"taken", "wait"} /\ d[i] = ComesIn(ShowWait))
  OBVIOUS
<1>8. /\ k \in Nat /\ k <= MaxRevived
      /\ k = 0 => it.again = 0 /\ TakenDrops(it) = {}
  <2>1. IsFiniteSet(DropSlot)
    BY ItAssumption, FS_Interval DEF DropSlot
  <2>2. IsFiniteSet(TakenDrops(it))
    BY <2>1, FS_Subset DEF TakenDrops
  <2>3. Cardinality(TakenDrops(it)) \in Nat
    BY <2>2, FS_CardinalityType
  <2>4. it.again \in Nat /\ k <= MaxRevived
    BY <1>1 DEF ItState, FixPowerups
  <2>5. QED BY <2>3, <2>4, TakenAreCounted
<1> HIDE DEF q, d, k
<1>9. /\ it' \in ItState /\ it'.quad = q /\ it'.power = it.power /\ it'.mode = it.mode /\ it'.drop = d
      /\ it'.here = it.here /\ it'.health = it.health /\ it'.box = it.box /\ it'.super = it.super
      /\ it'.again = k
  BY <1>1, <1>3, <1>4, <1>6, <1>8 DEF ItState
<1>10. InTime(it')
  <2>1. \A i \in DropSlot : it'.drop[i].time <= PowerTime /\ it'.drop[i].wait <= QuadWait
    BY <1>1, <1>2, <1>5, <1>7, <1>9 DEF InTime, QuadInv
  <2>2. QED BY <1>1, <1>8, <1>9, <2>1 DEF InTime, QuadInv
<1>11. ASSUME k = 0 PROVE OneSoFar(it')
  <2>1. it.again = 0 /\ \A i \in DropSlot : it.drop[i].is # "taken"
    BY <1>8, <1>11 DEF TakenDrops
  <2>2. OneSoFar(it)
    BY <1>1, <2>1 DEF QuadInv
  <2>3. \A i \in DropSlot : d[i] = it.drop[i]
    BY <1>7, <2>1, <2>2 DEF OneSoFar, NoneRevived
  <2>4. /\ \A p \in ItPlayer : Holding(it', p) <=> Holding(it, p)
        /\ \A i \in DropSlot : Lies(it', i) <=> Lies(it, i)
    BY <1>9, <2>3 DEF Holding, Lies
  <2>5. Single(it')
    BY <1>4, <1>9, <2>2, <2>4 DEF Single, OneSoFar
  <2>6. \A p \in ItPlayer : it.power[p] <= ShowWait
    BY <1>1, <1>2 DEF QuadInv, InTime, ItState
  <2>7. \A i \in DropSlot : it.drop[i].time <= ShowWait
    BY <1>1, <1>2 DEF QuadInv, InTime, ItState, Dropped
  <2>8. Later(it')
    BY <1>4, <1>9, <2>2, <2>3, <2>6, <2>7 DEF Later, OneSoFar
  <2>9. NoneRevived(it')
    BY <1>9, <2>2, <2>3 DEF NoneRevived, OneSoFar
  <2>10. QED BY <2>5, <2>8, <2>9 DEF OneSoFar
<1>12. QED BY <1>1, <1>9, <1>10, <1>11, RotStays DEF ItInv, QuadInv

\* The quad that the settings hide is in use no longer than it takes to show it again.
LEMMA FixPowerupsStep ==
  ASSUME ItInv, FixPowerups
  PROVE  ItInv'
<1>1. it \in ItState /\ QuadInv(it) /\ Rotting(it)
  BY DEF ItInv
<1>2. /\ PowerTime \in Nat /\ ShowWait \in Nat /\ PowerTime <= ShowWait /\ QuadWait \in Nat
      /\ ShowWait <= QuadWait
  BY ItAssumption
<1>3. CASE it.pow
  BY <1>1, <1>3, ShowStep
<1>4. CASE ~it.pow
  <2> DEFINE q == IF it.quad.is = "removed" THEN it.quad ELSE [is |-> "hidden", wait |-> 0]
             d == [i \in DropSlot |-> NoDrop]
  <2>1. it' = [it EXCEPT !.seen = FALSE, !.drop = d, !.quad = q]
    BY <1>1, <1>4 DEF FixPowerups, hide_powerups, ItState
  <2>2. /\ q \in [is : QuadIs, wait : Nat] /\ q.is # "wait" /\ q.is # "there"
        /\ it.quad.is = "removed" => q.is = "removed"
    BY <1>1 DEF ItState, QuadIs
  <2>3. /\ d \in [DropSlot -> Dropped]
        /\ \A i \in DropSlot : d[i].is = "none" /\ d[i].time = 0 /\ d[i].wait = 0
    BY DEF NoDrop, Dropped, DropIs
  <2> HIDE DEF q, d
  <2>4. /\ it' \in ItState /\ it'.quad = q /\ it'.power = it.power /\ it'.mode = it.mode /\ it'.drop = d
        /\ it'.here = it.here /\ it'.health = it.health /\ it'.box = it.box /\ it'.super = it.super
        /\ it'.again = it.again
    BY <1>1, <2>1, <2>2, <2>3 DEF ItState
  <2>5. /\ \A p \in ItPlayer : Holding(it', p) <=> Holding(it, p)
        /\ \A i \in DropSlot : ~Lies(it', i)
    BY <2>3, <2>4 DEF Holding, Lies
  <2>6. InTime(it')
    BY <1>1, <1>2, <2>3, <2>4 DEF InTime, QuadInv
  <2>7. it.again = 0 => Single(it')
    BY <1>1, <2>2, <2>4, <2>5 DEF Single, QuadInv, OneSoFar
  <2>8. it.again = 0 => Later(it') /\ NoneRevived(it')
    BY <1>1, <2>2, <2>3, <2>4 DEF Later, NoneRevived, QuadInv, OneSoFar
  <2>9. QED BY <1>1, <2>4, <2>6, <2>7, <2>8, RotStays DEF ItInv, QuadInv, OneSoFar
<1>5. QED BY <1>1, <1>3, <1>4 DEF ItState

LEMMA HealthStays ==
  ASSUME NEW s \in ItState, NEW t \in ItState, QuadInv(s), SameQuad(s, t), t.here = s.here,
         NEW p \in ItPlayer, s.health[p] > 0, \A c \in ItPlayer : c # p => t.health[c] = s.health[c]
  PROVE  QuadInv(t)
<1>1. \A c \in ItPlayer : Holding(t, c) => Holding(s, c)
  BY DEF Holding, SameQuad
<1>2. QED BY <1>1, QuadStays

\* The box that gave more than max_health rots it.
LEMMA TakeMegaStep ==
  ASSUME ItInv, NEW p \in ItPlayer, NEW b \in Box, TakeMega(p, b)
  PROVE  ItInv'
<1> DEFINE n == AtMostCap(it.health[p] + MegaHeal)
           h == [it.health EXCEPT ![p] = n]
           r == [is |-> "rot", owner |-> p, wait |-> RotWait]
           x == [it.box EXCEPT ![b] = r]
           e == it.super \cup {p}
<1>1. it \in ItState /\ QuadInv(it) /\ Rotting(it)
  BY DEF ItInv
<1>2. it.health[p] > 0 /\ it.box[b].is = "there"
  BY DEF TakeMega, Live
<1>3. it' = [it EXCEPT !.health = h, !.super = e, !.box = x]
  BY <1>1 DEF TakeMega, ItState
<1>4. n \in Nat
  BY <1>1, ItAssumption DEF AtMostCap, ItState
<1>5. r \in MegaBox /\ r.is = "rot" /\ r.owner = p
  BY ItAssumption DEF MegaBox, BoxIs
<1> HIDE DEF n, r
<1>6. /\ h \in [ItPlayer -> Nat] /\ \A c \in ItPlayer : c # p => h[c] = it.health[c]
      /\ x \in [Box -> MegaBox] /\ x[b] = r /\ \A a \in Box : a # b => x[a] = it.box[a]
      /\ e \in SUBSET ItPlayer /\ p \in e /\ \A c \in it.super : c \in e
  BY <1>1, <1>4, <1>5 DEF ItState
<1> HIDE DEF h, x, e
<1>7. /\ it' \in ItState /\ SameQuad(it, it') /\ it'.here = it.here
      /\ it'.health = h /\ it'.box = x /\ it'.super = e
  BY <1>1, <1>3, <1>6 DEF ItState, SameQuad
<1>8. QuadInv(it')
  BY <1>1, <1>2, <1>6, <1>7, HealthStays
<1>9. Rotting(it')
  <2>1. \A a \in Box : it'.box[a].is = "rot" => it'.box[a].owner \in ItPlayer
    BY <1>1, <1>5, <1>6, <1>7 DEF Rotting
  <2>2. ASSUME NEW c \in ItPlayer, it'.health[c] > HealthMax
        PROVE  c \in it'.super /\ \E a \in Box : it'.box[a].is = "rot" /\ it'.box[a].owner = c
    <3>1. CASE c = p
      BY <1>5, <1>6, <1>7, <3>1
    <3>2. CASE c # p
      <4>1. it.health[c] > HealthMax
        BY <1>6, <1>7, <2>2, <3>2
      <4>2. c \in it.super
        BY <1>1, <4>1 DEF Rotting
      <4>3. PICK a \in Box : it.box[a].is = "rot" /\ it.box[a].owner = c
        BY <1>1, <4>1 DEF Rotting
      <4>4. a # b
        BY <1>2, <4>3
      <4>5. QED BY <1>6, <1>7, <4>2, <4>3, <4>4
    <3>3. QED BY <3>1, <3>2
  <2>3. QED BY <2>1, <2>2 DEF Rotting
<1>10. QED BY <1>7, <1>8, <1>9 DEF ItInv

\* The other boxes never give more than max_health.
LEMMA TakeHealthStep ==
  ASSUME ItInv, NEW p \in ItPlayer, TakeHealth(p)
  PROVE  ItInv'
<1> DEFINE h == [it.health EXCEPT ![p] = it.health[p] + 1]
<1>1. it \in ItState /\ QuadInv(it) /\ Rotting(it)
  BY DEF ItInv
<1>2. it.health[p] > 0 /\ it.health[p] < HealthMax
  BY DEF TakeHealth, Live
<1>3. it' = [it EXCEPT !.health = h]
  BY <1>1 DEF TakeHealth, ItState
<1>4. h \in [ItPlayer -> Nat] /\ h[p] = it.health[p] + 1 /\ \A c \in ItPlayer : c # p => h[c] = it.health[c]
  BY <1>1 DEF ItState
<1> HIDE DEF h
<1>5. /\ it' \in ItState /\ SameQuad(it, it') /\ it'.here = it.here
      /\ it'.health = h /\ it'.box = it.box /\ it'.super = it.super
  BY <1>1, <1>3, <1>4 DEF ItState, SameQuad
<1>6. ~(h[p] > HealthMax)
  BY <1>1, <1>2, <1>4, ItAssumption DEF ItState
<1>7. Rotting(it')
  BY <1>1, <1>4, <1>5, <1>6 DEF Rotting
<1>8. QuadInv(it')
  BY <1>1, <1>2, <1>4, <1>5, HealthStays
<1>9. QED BY <1>5, <1>7, <1>8 DEF ItInv

\* A box stops to rot its owner when he has no more than max_health.
LEMMA MegaRotStep ==
  ASSUME ItInv, NEW b \in Box, item_megahealth_rot(b)
  PROVE  ItInv'
<1> DEFINE p == it.box[b].owner
<1>1. it \in ItState /\ QuadInv(it) /\ Rotting(it)
  BY DEF ItInv
<1>2. it.box[b].is = "rot" /\ p \in ItPlayer
  BY <1>1 DEF item_megahealth_rot, Rotting
<1>3. it.box \in [Box -> MegaBox] /\ it.health \in [ItPlayer -> Nat] /\ HealthMax \in Nat
  BY <1>1, ItAssumption DEF ItState
<1>4. CASE it.health[p] > HealthMax
  <2> DEFINE h == [it.health EXCEPT ![p] = it.health[p] - 1]
             r == [it.box[b] EXCEPT !.wait = 1]
             x == [it.box EXCEPT ![b] = r]
  <2>1. it' = [it EXCEPT !.health = h, !.box = x]
    BY <1>1, <1>4 DEF item_megahealth_rot, ItState
  <2>2. r \in MegaBox /\ r.is = "rot" /\ r.owner = p
    BY <1>2, <1>3 DEF MegaBox
  <2> HIDE DEF p, r
  <2>3. /\ h \in [ItPlayer -> Nat] /\ h[p] < it.health[p]
        /\ \A c \in ItPlayer : c # p => h[c] = it.health[c]
        /\ x \in [Box -> MegaBox] /\ x[b] = r /\ \A a \in Box : a # b => x[a] = it.box[a]
    BY <1>2, <1>3, <1>4, <2>2
  <2> HIDE DEF h, x
  <2>4. /\ it' \in ItState /\ SameQuad(it, it') /\ it'.here = it.here
        /\ it'.health = h /\ it'.box = x /\ it'.super = it.super
    BY <1>1, <2>1, <2>3 DEF ItState, SameQuad
  <2>5. \A c \in ItPlayer : h[c] > HealthMax => it.health[c] > HealthMax
    BY <1>3, <1>4, <2>3
  <2>6. \A a \in Box : x[a].is = it.box[a].is /\ x[a].owner = it.box[a].owner
    <3>1. it.box[b].owner = p
      BY DEF p
    <3>2. QED BY <1>2, <2>2, <2>3, <3>1
  <2>7. Rotting(it')
    BY <1>1, <2>4, <2>5, <2>6 DEF Rotting
  <2>8. QuadInv(it')
    BY <1>1, <1>2, <1>3, <1>4, <2>3, <2>4, HealthStays
  <2>9. QED BY <2>4, <2>7, <2>8 DEF ItInv
<1>5. CASE ~(it.health[p] > HealthMax)
  <2> DEFINE r == [is |-> IF it.mode = "mega2" THEN "removed" ELSE "regen", owner |-> p, wait |-> BoxWait]
             x == [it.box EXCEPT ![b] = r]
             e == it.super \ {p}
  <2>1. it' = [it EXCEPT !.super = e, !.box = x]
    BY <1>1, <1>5 DEF item_megahealth_rot, ItState
  <2>2. r \in MegaBox /\ r.is # "rot"
    BY <1>2, ItAssumption DEF MegaBox, BoxIs
  <2>3. it.box[b].owner = p
    OBVIOUS
  <2> HIDE DEF p, r
  <2>4. /\ x \in [Box -> MegaBox] /\ x[b] = r /\ \A a \in Box : a # b => x[a] = it.box[a]
        /\ e \in SUBSET ItPlayer /\ \A c \in it.super : c # p => c \in e
    BY <1>1, <1>3, <2>2 DEF ItState
  <2> HIDE DEF x, e
  <2>5. /\ it' \in ItState /\ SameQuad(it, it') /\ it'.here = it.here
        /\ it'.health = it.health /\ it'.box = x /\ it'.super = e
    BY <1>1, <2>1, <2>4 DEF ItState, SameQuad
  <2>6. QuadInv(it')
    <3>1. \A c \in ItPlayer : Holding(it', c) => Holding(it, c)
      BY <2>5 DEF Holding, SameQuad
    <3>2. QED BY <1>1, <2>5, <3>1, QuadStays
  <2>7. ASSUME NEW c \in ItPlayer, it'.health[c] > HealthMax
        PROVE  c \in it'.super /\ \E a \in Box : it'.box[a].is = "rot" /\ it'.box[a].owner = c
    <3>1. it.health[c] > HealthMax /\ c # p
      BY <1>5, <2>5, <2>7
    <3>2. PICK a \in Box : it.box[a].is = "rot" /\ it.box[a].owner = c
      BY <1>1, <3>1 DEF Rotting
    <3>3. a # b
      BY <2>3, <3>1, <3>2
    <3>4. c \in it.super
      BY <1>1, <3>1 DEF Rotting
    <3>5. QED BY <2>4, <2>5, <3>1, <3>2, <3>3, <3>4
  <2>8. \A a \in Box : it'.box[a].is = "rot" => it'.box[a].owner \in ItPlayer
    BY <1>1, <2>2, <2>4, <2>5 DEF Rotting
  <2>9. Rotting(it')
    BY <2>7, <2>8 DEF Rotting
  <2>10. QED BY <2>5, <2>6, <2>9 DEF ItInv
<1>6. QED BY <1>4, <1>5

\* A box that comes back does not rot anybody, and none that rots is disturbed.
LEMMA BoxBackStep ==
  ASSUME ItInv, NEW b \in Box, BoxBack(b)
  PROVE  ItInv'
<1> DEFINE r == [it.box[b] EXCEPT !.is = "there"]
           x == [it.box EXCEPT ![b] = r]
<1>1. it \in ItState /\ QuadInv(it) /\ Rotting(it)
  BY DEF ItInv
<1>2. it.box[b].is = "regen" /\ it.box \in [Box -> MegaBox]
  BY <1>1 DEF BoxBack, ItState
<1>3. it' = [it EXCEPT !.box = x]
  BY <1>1 DEF BoxBack, ItState
<1>4. r \in MegaBox /\ r.is = "there"
  BY <1>2 DEF MegaBox, BoxIs
<1> HIDE DEF r
<1>5. x \in [Box -> MegaBox] /\ x[b] = r /\ \A a \in Box : a # b => x[a] = it.box[a]
  BY <1>2, <1>4
<1> HIDE DEF x
<1>6. /\ it' \in ItState /\ SameQuad(it, it') /\ it'.here = it.here
      /\ it'.health = it.health /\ it'.box = x /\ it'.super = it.super
  BY <1>1, <1>3, <1>5 DEF ItState, SameQuad
<1>7. \A a \in Box : it'.box[a].is = "rot" <=> it.box[a].is = "rot"
  BY <1>2, <1>4, <1>5, <1>6
<1>8. \A a \in Box : it.box[a].is = "rot" => it'.box[a] = it.box[a]
  BY <1>2, <1>5, <1>6
<1>9. Rotting(it')
  BY <1>1, <1>6, <1>7, <1>8 DEF Rotting
<1>10. \A c \in ItPlayer : Holding(it', c) => Holding(it, c)
  BY <1>6 DEF Holding, SameQuad
<1>11. QED BY <1>1, <1>6, <1>9, <1>10, QuadStays DEF ItInv

-----------------------------------------------------------------------------
(***************************************************************************)
(* Players.                                                                *)
(***************************************************************************)
\* With nobody's quad about, one is dropped: it is the only one, wherever it is put.
LEMMA DropStep ==
  ASSUME NEW s \in ItState, QuadInv(s), NEW t \in Nat, t <= PowerTime,
         s.again = 0 => \A p \in ItPlayer : ~Holding(s, p),
         s.again = 0 /\ t > 0 =>
                  /\ \A i \in DropSlot : ~Lies(s, i)
                  /\ s.quad.is # "there" /\ (s.quad.is = "wait" => t <= s.quad.wait)
  PROVE  LET u == DropPowerup(s, t) IN
         /\ u \in ItState /\ QuadInv(u)
         /\ u.here = s.here /\ u.health = s.health /\ u.box = s.box /\ u.super = s.super
<1> DEFINE u == DropPowerup(s, t)
           i == CHOOSE n \in DropSlot : s.drop[n] = NoDrop
           r == Lying(t)
           d == [s.drop EXCEPT ![i] = r]
<1>1. CASE t > 0
  <2>1. u = [s EXCEPT !.drop = d]
    BY <1>1 DEF DropPowerup, ItState
  <2>2. r \in Dropped /\ r.is = "there" /\ r.time = t /\ r.wait = 0
    BY DEF Dropped, DropIs, Lying
  <2> HIDE DEF r, i
  <2>3. /\ d \in [DropSlot -> Dropped]
        /\ \A j \in DropSlot : IF j = i THEN d[j] = r ELSE d[j] = s.drop[j]
    BY <2>2 DEF ItState
  <2> HIDE DEF d
  <2>4. /\ u \in ItState /\ u.quad = s.quad /\ u.power = s.power /\ u.mode = s.mode /\ u.drop = d
        /\ u.here = s.here /\ u.health = s.health /\ u.box = s.box /\ u.super = s.super
        /\ u.again = s.again
    BY <2>1, <2>3 DEF ItState
  <2> HIDE DEF u
  <2>5. s.again = 0 => \A p \in ItPlayer : ~Holding(u, p)
    BY <2>4 DEF Holding
  <2>6. s.again = 0 => \A j \in DropSlot : Lies(u, j) => j = i /\ u.drop[j] = r
    BY <1>1, <2>3, <2>4 DEF Lies
  <2>7. InTime(u)
    BY <2>2, <2>3, <2>4, ItAssumption DEF InTime, QuadInv
  <2>8. s.again = 0 => Single(u)
    BY <1>1, <2>4, <2>5, <2>6 DEF Single
  <2>9. s.again = 0 => Later(u) /\ NoneRevived(u)
    <3>1. s.again = 0 => Later(u)
      BY <1>1, <2>2, <2>4, <2>5, <2>6 DEF Later, QuadInv, OneSoFar
    <3>2. s.again = 0 => NoneRevived(u)
      BY <2>2, <2>3, <2>4 DEF NoneRevived, QuadInv, OneSoFar
    <3>3. QED BY <3>1, <3>2
  <2>10. /\ u \in ItState /\ QuadInv(u)
         /\ u.here = s.here /\ u.health = s.health /\ u.box = s.box /\ u.super = s.super
    BY <2>4, <2>7, <2>8, <2>9 DEF QuadInv, OneSoFar
  <2>11. QED BY <2>10 DEF u
<1>2. CASE ~(t > 0)
  <2>1. u = s
    BY <1>2 DEF DropPowerup
  <2>2. QED BY <2>1
<1>3. QED BY <1>1, <1>2

\* Who is hurt keeps his quad, and who dies drops what was left of it.
LEMMA DamageStep ==
  ASSUME ItInv, NEW p \in ItPlayer, NEW n \in 1 .. HealthCap, ItDamage(p, n)
  PROVE  ItInv'
<1>1. it \in ItState /\ QuadInv(it) /\ Rotting(it)
  BY DEF ItInv
<1>2. p \in it.here /\ it.health[p] > 0 /\ it.health \in [ItPlayer -> Nat] /\ it.power \in [ItPlayer -> Nat]
  BY <1>1 DEF ItDamage, Live, ItState
<1>3. n \in Nat /\ n > 0 /\ HealthMax \in Nat /\ PowerTime \in Nat
  BY ItAssumption
<1>4. CASE n < it.health[p]
  <2> DEFINE h == [it.health EXCEPT ![p] = it.health[p] - n]
  <2>1. it' = [it EXCEPT !.health = h]
    BY <1>1, <1>4 DEF ItDamage, ItState
  <2>2. /\ h \in [ItPlayer -> Nat] /\ h[p] < it.health[p]
        /\ \A c \in ItPlayer : c # p => h[c] = it.health[c]
    BY <1>2, <1>3, <1>4
  <2> HIDE DEF h
  <2>3. /\ it' \in ItState /\ SameQuad(it, it') /\ it'.here = it.here
        /\ it'.health = h /\ it'.box = it.box /\ it'.super = it.super
    BY <1>1, <2>1, <2>2 DEF ItState, SameQuad
  <2>4. \A c \in ItPlayer : h[c] > HealthMax => it.health[c] > HealthMax
    BY <1>2, <1>3, <2>2
  <2>5. Rotting(it')
    BY <1>1, <2>3, <2>4 DEF Rotting
  <2>6. QuadInv(it')
    BY <1>1, <1>2, <2>2, <2>3, HealthStays
  <2>7. QED BY <2>3, <2>5, <2>6 DEF ItInv
<1>5. CASE ~(n < it.health[p])
  <2> DEFINE h == [it.health EXCEPT ![p] = 0]
             s == [it EXCEPT !.health = h]
  <2>1. it' = DropPowerups(s, p)
    BY <1>1, <1>5 DEF ItDamage, ItState
  <2>2. h \in [ItPlayer -> Nat] /\ h[p] = 0 /\ \A c \in ItPlayer : c # p => h[c] = it.health[c]
    BY <1>2
  <2> HIDE DEF h
  <2>3. /\ s \in ItState /\ SameQuad(it, s) /\ s.here = it.here
        /\ s.health = h /\ s.box = it.box /\ s.super = it.super
    BY <1>1, <2>2 DEF ItState, SameQuad
  <2> HIDE DEF s
  <2>4. \A c \in ItPlayer : Holding(s, c) => Holding(it, c) /\ c # p
    BY <2>2, <2>3 DEF Holding, SameQuad
  <2>5. QuadInv(s)
    BY <1>1, <2>3, <2>4, QuadStays
  <2>6. Rotting(s)
    <3>1. \A c \in ItPlayer : h[c] > HealthMax => it.health[c] > HealthMax
      BY <1>3, <2>2
    <3>2. QED BY <1>1, <2>3, <3>1 DEF Rotting
  <2>7. CASE s.mode = "kill" /\ NeedDropQuad(s)
    <3>1. it' = DropPowerup(s, KillTime)
      BY <2>1, <2>7 DEF DropPowerups
    <3>2. KillTime \in Nat /\ KillTime <= PowerTime
      BY ItAssumption
    <3>3. \A c \in ItPlayer : ~Holding(s, c)
      BY <2>7 DEF NeedDropQuad, Holding, Live
    <3>4. \A i \in DropSlot : ~Lies(s, i)
      BY <2>7 DEF NeedDropQuad, Lies, NoDrop
    <3>5. s.again = 0 => s.quad.is = "removed"
      BY <2>5, <2>7 DEF QuadInv, OneSoFar, Later
    <3>6. /\ it' \in ItState /\ QuadInv(it')
          /\ it'.health = s.health /\ it'.box = s.box /\ it'.super = s.super
      BY <2>3, <2>5, <3>1, <3>2, <3>3, <3>4, <3>5, DropStep
    <3>7. QED BY <2>3, <2>6, <3>6, RotStays DEF ItInv
  <2>8. CASE ~(s.mode = "kill" /\ NeedDropQuad(s)) /\ s.mode = "drop" /\ s.pow
    <3>1. it' = DropPowerup(s, s.power[p])
      BY <2>1, <2>8 DEF DropPowerups
    <3>2. s.power[p] \in Nat /\ s.power[p] <= PowerTime /\ s.power[p] = it.power[p]
      BY <2>3, <2>5 DEF ItState, QuadInv, InTime, SameQuad
    <3>3. CASE s.power[p] > 0
      <4>1. Holding(it, p)
        BY <1>2, <3>2, <3>3 DEF Holding
      <4>2. s.again = 0 => \A c \in ItPlayer : ~Holding(s, c)
        BY <1>1, <2>3, <2>4, <4>1 DEF QuadInv, OneSoFar, Single, SameQuad
      <4>3. s.again = 0 => \A i \in DropSlot : ~Lies(s, i)
        BY <1>1, <2>3, <4>1 DEF QuadInv, OneSoFar, Single, Lies, SameQuad
      <4>4. s.again = 0 => s.quad.is # "there" /\ (s.quad.is = "wait" => s.power[p] <= s.quad.wait)
        BY <1>1, <2>3, <3>2, <4>1 DEF QuadInv, OneSoFar, Single, Later, SameQuad
      <4>5. /\ it' \in ItState /\ QuadInv(it')
            /\ it'.health = s.health /\ it'.box = s.box /\ it'.super = s.super
        BY <2>3, <2>5, <3>1, <3>2, <4>2, <4>3, <4>4, DropStep
      <4>6. QED BY <2>3, <2>6, <4>5, RotStays DEF ItInv
    <3>4. CASE ~(s.power[p] > 0)
      <4>1. it' = s
        BY <3>1, <3>4 DEF DropPowerup
      <4>2. QED BY <2>3, <2>5, <2>6, <4>1 DEF ItInv
    <3>5. QED BY <3>3, <3>4
  <2>9. CASE ~(s.mode = "kill" /\ NeedDropQuad(s)) /\ ~(s.mode = "drop" /\ s.pow)
    <3>1. it' = s
      BY <2>1, <2>9 DEF DropPowerups
    <3>2. QED BY <2>3, <2>5, <2>6, <3>1 DEF ItInv
  <2>10. QED BY <2>7, <2>8, <2>9
<1>6. QED BY <1>4, <1>5

\* The quad of the dead is in use no longer.
LEMMA QuadOfTheDeadStep ==
  ASSUME ItInv, NEW p \in ItPlayer, QuadOfTheDead(p)
  PROVE  ItInv'
<1> DEFINE f == [it.power EXCEPT ![p] = 0]
<1>1. it \in ItState /\ QuadInv(it) /\ Rotting(it)
  BY DEF ItInv
<1>2. it' = [it EXCEPT !.power = f]
  BY <1>1 DEF QuadOfTheDead, ItState
<1>3. f \in [ItPlayer -> Nat] /\ f[p] = 0 /\ \A c \in ItPlayer : c # p => f[c] = it.power[c]
  BY <1>1 DEF ItState
<1> HIDE DEF f
<1>4. /\ it' \in ItState /\ it'.quad = it.quad /\ it'.power = f /\ it'.mode = it.mode /\ it'.drop = it.drop
      /\ it'.here = it.here /\ it'.health = it.health /\ it'.box = it.box /\ it'.super = it.super
      /\ it'.again = it.again
  BY <1>1, <1>2, <1>3 DEF ItState
<1>5. QuadInv(it')
  <2>1. \A c \in ItPlayer : c # p /\ Holding(it', c) => Holding(it, c)
    BY <1>3, <1>4 DEF Holding
  <2>2. QED BY <1>1, <1>3, <1>4, <2>1, LessQuad
<1>6. QED BY <1>1, <1>4, <1>5, RotStays DEF ItInv

\* A newcomer, or who respawns, has nobody's quad and no more than max_health.
LEMMA SpawnStep ==
  ASSUME ItInv, NEW p \in ItPlayer, ItSpawn(p)
  PROVE  ItInv'
<1> DEFINE f == [it.power EXCEPT ![p] = 0]
           h == [it.health EXCEPT ![p] = HealthMax]
           w == it.here \cup {p}
           e == it.super \ {p}
<1>1. it \in ItState /\ QuadInv(it) /\ Rotting(it)
  BY DEF ItInv
<1>2. it' = [it EXCEPT !.here = w, !.health = h, !.power = f, !.super = e]
  BY <1>1 DEF ItSpawn, ItState
<1>3. HealthMax \in Nat /\ ~(HealthMax > HealthMax)
  BY ItAssumption
<1>4. /\ f \in [ItPlayer -> Nat] /\ f[p] = 0 /\ \A c \in ItPlayer : c # p => f[c] = it.power[c]
      /\ h \in [ItPlayer -> Nat] /\ h[p] = HealthMax /\ \A c \in ItPlayer : c # p => h[c] = it.health[c]
      /\ w \in SUBSET ItPlayer /\ \A c \in w : c # p => c \in it.here
      /\ e \in SUBSET ItPlayer /\ \A c \in it.super : c # p => c \in e
  BY <1>1, <1>3 DEF ItState
<1> HIDE DEF f, h, w, e
<1>5. /\ it' \in ItState /\ it'.quad = it.quad /\ it'.power = f /\ it'.mode = it.mode /\ it'.drop = it.drop
      /\ it'.here = w /\ it'.health = h /\ it'.box = it.box /\ it'.super = e
      /\ it'.again = it.again
  BY <1>1, <1>2, <1>4 DEF ItState
<1>6. QuadInv(it')
  <2>1. \A c \in ItPlayer : Holding(it', c) => Holding(it, c)
    BY <1>4, <1>5 DEF Holding
  <2>2. QED BY <1>1, <1>4, <1>5, <2>1, LessQuad
<1>7. Rotting(it')
  <2>1. \A c \in ItPlayer : it'.health[c] > HealthMax => c # p /\ it.health[c] > HealthMax
    BY <1>3, <1>4, <1>5
  <2>2. QED BY <1>1, <1>4, <1>5, <2>1 DEF Rotting
<1>8. QED BY <1>5, <1>6, <1>7 DEF ItInv

\* Who leaves drops nothing, and the box that rotted him has nothing to rot.
LEMMA ItDisconnectStep ==
  ASSUME ItInv, NEW p \in ItPlayer, ItDisconnect(p)
  PROVE  ItInv'
<1> DEFINE h == [it.health EXCEPT ![p] = 0]
           w == it.here \ {p}
<1>1. it \in ItState /\ QuadInv(it) /\ Rotting(it)
  BY DEF ItInv
<1>2. it' = [it EXCEPT !.here = w, !.health = h]
  BY <1>1 DEF ItDisconnect, ItState
<1>3. /\ h \in [ItPlayer -> Nat] /\ h[p] = 0 /\ \A c \in ItPlayer : c # p => h[c] = it.health[c]
      /\ w \in SUBSET ItPlayer /\ \A c \in w : c # p /\ c \in it.here
  BY <1>1 DEF ItState
<1> HIDE DEF h, w
<1>4. /\ it' \in ItState /\ SameQuad(it, it') /\ it'.here = w /\ it'.health = h
      /\ it'.box = it.box /\ it'.super = it.super
  BY <1>1, <1>2, <1>3 DEF ItState, SameQuad
<1>5. \A c \in ItPlayer : Holding(it', c) => Holding(it, c)
  BY <1>3, <1>4 DEF Holding, SameQuad
<1>6. \A c \in ItPlayer : h[c] > HealthMax => it.health[c] > HealthMax
  BY <1>3, ItAssumption
<1>7. Rotting(it')
  BY <1>1, <1>4, <1>6 DEF Rotting
<1>8. QED BY <1>1, <1>4, <1>5, <1>7, QuadStays DEF ItInv

-----------------------------------------------------------------------------
(***************************************************************************)
(* The clock.                                                              *)
(***************************************************************************)
LEMMA LessIsLess ==
  ASSUME NEW n \in Nat
  PROVE  Less(n) \in Nat /\ Less(n) <= n /\ (Less(n) > 0 => n > 0)
BY DEF Less

LEMMA LessKeepsOrder ==
  ASSUME NEW m \in Nat, NEW n \in Nat, m <= n
  PROVE  Less(m) <= Less(n)
BY DEF Less

\* All the times go on together, so none overtakes another one.
LEMMA ItTickStep ==
  ASSUME ItInv, ItTick
  PROVE  ItInv'
<1> DEFINE f == [p \in ItPlayer |-> Less(it.power[p])]
           q == [it.quad EXCEPT !.wait = Less(it.quad.wait)]
           d == [i \in DropSlot |-> [it.drop[i] EXCEPT !.time = Less(it.drop[i].time), !.wait = Less(it.drop[i].wait)]]
           x == [b \in Box |-> [it.box[b] EXCEPT !.wait = Less(it.box[b].wait)]]
<1>1. it \in ItState /\ QuadInv(it) /\ Rotting(it)
  BY DEF ItInv
<1>2. it' = [it EXCEPT !.power = f, !.quad = q, !.drop = d, !.box = x]
  BY <1>1 DEF ItTick, ItState
<1>3. f \in [ItPlayer -> Nat] /\ \A p \in ItPlayer : f[p] = Less(it.power[p])
  BY <1>1, LessIsLess DEF ItState
<1>4. q \in [is : QuadIs, wait : Nat] /\ q.is = it.quad.is /\ q.wait = Less(it.quad.wait)
  BY <1>1, LessIsLess DEF ItState
<1>5. /\ d \in [DropSlot -> Dropped]
      /\ \A i \in DropSlot : /\ d[i].is = it.drop[i].is /\ d[i].time = Less(it.drop[i].time)
                               /\ d[i].wait = Less(it.drop[i].wait)
  <2> DEFINE e(i) == [it.drop[i] EXCEPT !.time = Less(it.drop[i].time), !.wait = Less(it.drop[i].wait)]
  <2>1. ASSUME NEW i \in DropSlot
        PROVE  /\ e(i) \in Dropped /\ e(i).is = it.drop[i].is
               /\ e(i).time = Less(it.drop[i].time) /\ e(i).wait = Less(it.drop[i].wait)
    <3>1. it.drop[i] \in Dropped
      BY <1>1 DEF ItState
    <3>2. Less(it.drop[i].time) \in Nat /\ Less(it.drop[i].wait) \in Nat
      BY <3>1, LessIsLess DEF Dropped
    <3>3. QED BY <3>1, <3>2 DEF Dropped
  <2>2. QED BY <2>1
<1>6. x \in [Box -> MegaBox] /\ \A b \in Box : x[b].is = it.box[b].is /\ x[b].owner = it.box[b].owner
  <2>1. ASSUME NEW b \in Box
        PROVE  /\ [it.box[b] EXCEPT !.wait = Less(it.box[b].wait)] \in MegaBox
               /\ [it.box[b] EXCEPT !.wait = Less(it.box[b].wait)].is = it.box[b].is
               /\ [it.box[b] EXCEPT !.wait = Less(it.box[b].wait)].owner = it.box[b].owner
    <3>1. it.box[b] \in MegaBox
      BY <1>1 DEF ItState
    <3>2. Less(it.box[b].wait) \in Nat
      BY <3>1, LessIsLess DEF MegaBox
    <3>3. QED BY <3>1, <3>2 DEF MegaBox
  <2>2. QED BY <2>1
<1> HIDE DEF f, q, d, x
<1>7. /\ it' \in ItState /\ it'.quad = q /\ it'.power = f /\ it'.mode = it.mode /\ it'.drop = d
      /\ it'.here = it.here /\ it'.health = it.health /\ it'.box = x /\ it'.super = it.super
      /\ it'.again = it.again
  BY <1>1, <1>2, <1>3, <1>4, <1>5, <1>6 DEF ItState
<1>8. /\ \A p \in ItPlayer : it.power[p] \in Nat
      /\ \A i \in DropSlot : it.drop[i].time \in Nat /\ it.drop[i].wait \in Nat
      /\ it.quad.wait \in Nat /\ PowerTime \in Nat /\ QuadWait \in Nat
  BY <1>1, ItAssumption DEF ItState, Dropped
<1>9. \A p \in ItPlayer : Holding(it', p) => Holding(it, p)
  BY <1>3, <1>7, <1>8, LessIsLess DEF Holding
<1>10. \A i \in DropSlot : Lies(it', i) => Lies(it, i)
  BY <1>5, <1>7, <1>8, LessIsLess DEF Lies
<1>11. InTime(it')
  <2>1. ASSUME NEW p \in ItPlayer PROVE it'.power[p] <= PowerTime
    <3>1. it.power[p] <= PowerTime /\ Less(it.power[p]) <= it.power[p] /\ Less(it.power[p]) \in Nat
      BY <1>1, <1>8, LessIsLess DEF QuadInv, InTime
    <3>2. QED BY <1>3, <1>7, <1>8, <3>1
  <2>2. ASSUME NEW i \in DropSlot PROVE it'.drop[i].time <= PowerTime /\ it'.drop[i].wait <= QuadWait
    <3>1. /\ it.drop[i].time <= PowerTime /\ Less(it.drop[i].time) <= it.drop[i].time
          /\ Less(it.drop[i].time) \in Nat
      BY <1>1, <1>8, LessIsLess DEF QuadInv, InTime
    <3>2. /\ it.drop[i].wait <= QuadWait /\ Less(it.drop[i].wait) <= it.drop[i].wait
          /\ Less(it.drop[i].wait) \in Nat
      BY <1>1, <1>8, LessIsLess DEF QuadInv, InTime
    <3>3. QED BY <1>5, <1>7, <1>8, <3>1, <3>2
  <2>3. QED BY <1>1, <1>7, <2>1, <2>2 DEF InTime, QuadInv
<1>12. it.again = 0 => Single(it') /\ NoneRevived(it')
  <2>1. it.again = 0 => Single(it')
    BY <1>1, <1>4, <1>7, <1>9, <1>10 DEF QuadInv, OneSoFar, Single
  <2>2. it.again = 0 => NoneRevived(it')
    BY <1>1, <1>5, <1>7 DEF QuadInv, OneSoFar, NoneRevived
  <2>3. QED BY <2>1, <2>2
<1>13. ASSUME it.again = 0 PROVE Later(it')
  <2>1. it.mode = "kill" => it.quad.is = "removed"
    BY <1>1, <1>13 DEF QuadInv, OneSoFar, Later
  <2>2. ASSUME it.quad.is = "wait", NEW p \in ItPlayer, Holding(it', p)
        PROVE  Less(it.power[p]) <= Less(it.quad.wait)
    <3>1. it.power[p] <= it.quad.wait
      BY <1>1, <1>9, <1>13, <2>2 DEF QuadInv, OneSoFar, Later
    <3>2. QED BY <1>8, <3>1, LessKeepsOrder
  <2>3. ASSUME it.quad.is = "wait", NEW i \in DropSlot, Lies(it', i)
        PROVE  Less(it.drop[i].time) <= Less(it.quad.wait)
    <3>1. it.drop[i].time <= it.quad.wait
      BY <1>1, <1>10, <1>13, <2>3 DEF QuadInv, OneSoFar, Later
    <3>2. QED BY <1>8, <3>1, LessKeepsOrder
  <2>4. QED BY <1>3, <1>4, <1>5, <1>7, <2>1, <2>2, <2>3 DEF Later
<1>14. Rotting(it')
  BY <1>1, <1>6, <1>7 DEF Rotting
<1>15. QED BY <1>7, <1>11, <1>12, <1>13, <1>14 DEF ItInv, QuadInv, OneSoFar

-----------------------------------------------------------------------------
(***************************************************************************)
(* The theorems.                                                           *)
(***************************************************************************)
\* No player and no item of a new match breaks the invariant.
LEMMA StartIsFine ==
  ASSUME ItInit
  PROVE  ItInv
<1>1. PICK mode \in ItMode : it = ItStart(mode)
  BY DEF ItInit
<1>2. /\ PowerTime \in Nat /\ HealthMax \in Nat /\ QuadWait \in Nat /\ MaxRevived \in Nat
      /\ NoDrop \in Dropped /\ NoDrop.is = "none" /\ NoDrop.time = 0 /\ NoDrop.wait = 0
  BY ItAssumption DEF NoDrop, Dropped, DropIs
<1>3. it \in ItState
  BY <1>1, <1>2 DEF ItStart, ItState, QuadIs, BoxIs, MegaBox
<1>4. /\ it.mode = "kill" => it.quad.is = "removed"
      /\ it.quad.is # "wait"
      /\ \A p \in ItPlayer : it.power[p] = 0 /\ it.health[p] = 0
      /\ (\A i \in DropSlot : it.drop[i] = NoDrop) /\ it.again = 0
      /\ \A b \in Box : it.box[b].is # "rot"
  BY <1>1 DEF ItStart
<1>5. InTime(it) /\ OneSoFar(it)
  BY <1>2, <1>4 DEF InTime, OneSoFar, NoneRevived, Single, Later, Holding, Lies
<1>6. Rotting(it)
  BY <1>2, <1>4 DEF Rotting
<1>7. QED BY <1>3, <1>5, <1>6 DEF ItInv, QuadInv

LEMMA ItNextInv == ItInv /\ [ItNext]_it => ItInv'
<1> SUFFICES ASSUME ItInv, [ItNext]_it PROVE ItInv'
  OBVIOUS
<1>1. ASSUME NEW p \in ItPlayer,
             TakeQuad(p) \/ TakeHealth(p) \/ QuadOfTheDead(p) \/ ItSpawn(p) \/ ItDisconnect(p)
      PROVE  ItInv'
  BY <1>1, TakeQuadStep, TakeHealthStep, QuadOfTheDeadStep, SpawnStep, ItDisconnectStep
<1>2. ASSUME NEW p \in ItPlayer, \E i \in DropSlot : TakeDrop(p, i) \/ TakeRevived(p, i)
      PROVE  ItInv'
  BY <1>2, TakeDropStep, TakeRevivedStep
<1>3. ASSUME NEW p \in ItPlayer, \E b \in Box : TakeMega(p, b)
      PROVE  ItInv'
  BY <1>3, TakeMegaStep
<1>4. ASSUME NEW p \in ItPlayer, \E n \in 1 .. HealthCap : ItDamage(p, n)
      PROVE  ItInv'
  BY <1>4, DamageStep
<1>5. CASE \E i \in DropSlot : DropGone(i) \/ DropBack(i)
  BY <1>5, DropGoneStep, DropBackStep
<1>6. CASE \E b \in Box : item_megahealth_rot(b) \/ BoxBack(b)
  BY <1>6, MegaRotStep, BoxBackStep
<1>7. CASE QuadBack \/ SetPowerups \/ FixPowerups \/ ItTick
  BY <1>7, QuadBackStep, SetPowerupsStep, FixPowerupsStep, ItTickStep
<1>8. CASE UNCHANGED it
  BY <1>8 DEF ItInv
<1>9. QED
  BY <1>1, <1>2, <1>3, <1>4, <1>5, <1>6, <1>7, <1>8 DEF ItNext

\* The inductive invariant holds in every state of every behaviour: the quad of items.c is one
\* until show_powerups() revives a dropped quad that was taken, and the megahealth rots.
THEOREM ItemsInvariance == ItSpec => []ItInv
<1>1. QED BY StartIsFine, ItNextInv, PTL DEF ItSpec

\* A set that has no two elements has at most one.
LEMMA AtMostOne ==
  ASSUME NEW S, \A a, b \in S : a = b
  PROVE  Cardinality(S) = IF S = {} THEN 0 ELSE 1
<1>1. CASE S = {}
  BY <1>1, FS_EmptySet
<1>2. CASE S # {}
  <2>1. PICK a : S = {a}
    BY <1>2
  <2>2. Cardinality({a}) = 1
    BY FS_Singleton
  <2>3. QED BY <1>2, <2>1, <2>2
<1>3. QED BY <1>1, <1>2

\* There is one quad of items.c and client.c until a taken drop has been revived, and who has
\* too much health loses it.
THEOREM TakenIsUsedUp == ItSpec => []UsedUpFirst
<1>1. ASSUME ItInv PROVE UsedUpFirst
  <2> DEFINE P == {p \in Live(it) : it.power[p] > 0}
             D == {i \in DropSlot : it.drop[i].is = "back" \/ (it.drop[i].is = "there" /\ it.drop[i].time > 0)}
  <2>1. it \in ItState /\ Rotting(it) /\ (it.again = 0 => OneSoFar(it))
    BY <1>1 DEF ItInv, QuadInv
  <2>2. \A p : p \in P => p \in ItPlayer /\ Holding(it, p)
    BY <2>1 DEF Live, Holding, ItState
  <2>3. it.again = 0 => \A i : i \in D => i \in DropSlot /\ Lies(it, i)
    BY <2>1 DEF Lies, OneSoFar, NoneRevived
  <2> HIDE DEF P, D
  <2>4. ASSUME it.again = 0 PROVE OneQuad
    <3>1. /\ \A p, q \in P : p = q
          /\ \A i, j \in D : i = j
          /\ P = {} \/ D = {}
          /\ it.quad.is = "there" => P = {} /\ D = {}
      BY <2>1, <2>2, <2>3, <2>4 DEF OneSoFar, Single
    <3>2. /\ Cardinality(P) = IF P = {} THEN 0 ELSE 1
          /\ Cardinality(D) = IF D = {} THEN 0 ELSE 1
      BY <3>1, AtMostOne
    <3>3. Cardinality(P) + Cardinality(D) + (IF it.quad.is = "there" THEN 1 ELSE 0) <= 1
      BY <3>1, <3>2
    <3>4. QED BY <3>3 DEF OneQuad, P, D
  <2>5. MegaRots
    BY <2>1 DEF MegaRots, Rotting, ItState
  <2>6. QED BY <2>4, <2>5 DEF UsedUpFirst
<1>2. QED BY <1>1, ItemsInvariance, PTL

-----------------------------------------------------------------------------
(***************************************************************************)
(* Bloodfest: who dies in a round lives again after it only, for every set *)
(* of players and of monsters.                                             *)
(***************************************************************************)
BfKind == [is : {"free", "alive", "dead"}, gone : 0 .. BfCorpse]

BfState ==
  [match : 0 .. 2, here : SUBSET BfPlayer, ready : SUBSET BfPlayer, alive : SUBSET BfPlayer,
   monster : [BfMonster -> BfKind], spawn : 0 .. BfLimit, wave : 0 .. BfPeriod, age : 0 .. BfAge]

BfPresent(s) == s.ready \subseteq s.here /\ s.alive \subseteq s.here

Few(s) == monsters_count(s) <= BfLimit

\* In a round only those live who were ready for it.
TheReadyLive(s) == s.match = 2 => s.alive \subseteq s.ready

BfGood(s) == s \in BfState /\ BfPresent(s) /\ Few(s) /\ TheReadyLive(s)

BfInv == BfGood(bf)

\* No step brings anybody to life while a round is played.
NoSecondLife == bf.match = 2 /\ bf'.match = 2 => bf'.alive \subseteq bf.alive

LEMMA BfConstants ==
  /\ BfLimit \in Nat /\ BfPeriod \in Nat \ {0} /\ BfCorpse \in Nat /\ BfInitial \in Nat /\ BfAge \in Nat
  /\ IsFiniteSet(BfPlayer) /\ IsFiniteSet(BfMonster)
  /\ Cardinality(BfMonster) \in Nat /\ BfLimit <= Cardinality(BfMonster)
<1>1. Cardinality(BfMonster) \in Nat
  BY FS_CardinalityType, BfAssumption
<1>2. QED BY <1>1, BfAssumption

-----------------------------------------------------------------------------
(***************************************************************************)
(* Who is put into the server.                                             *)
(***************************************************************************)
\* The end of a match changes the phase and who is ready, and nothing else.
LEMMA BfEndStep ==
  ASSUME NEW s \in BfState
  PROVE  LET u == BfEndMatch(s) IN
         /\ u \in BfState /\ u.match = 0 /\ u.here = s.here /\ u.alive = s.alive
         /\ u.monster = s.monster /\ u.ready \subseteq s.ready
<1> DEFINE r == IF s.match = 2 THEN {} ELSE s.ready
<1>1. r \in SUBSET BfPlayer /\ r \subseteq s.ready /\ 0 \in 0 .. 2
  BY DEF BfState
<1>2. BfEndMatch(s) = [s EXCEPT !.match = 0, !.ready = r]
  BY DEF BfEndMatch, BfState
<1> HIDE DEF r
<1>3. QED BY <1>1, <1>2 DEF BfState

LEMMA BfKillStep ==
  ASSUME NEW s \in BfState, NEW p \in BfPlayer
  PROVE  LET u == BfKill(s, p) IN
         /\ u \in BfState /\ u.here = s.here /\ u.alive = s.alive \ {p}
         /\ u.monster = s.monster /\ u.ready \subseteq s.ready
         /\ u.match = 0 \/ (u.match = s.match /\ u.ready = s.ready)
<1> DEFINE t == [s EXCEPT !.alive = @ \ {p}]
<1>1. /\ t \in BfState /\ t.here = s.here /\ t.alive = s.alive \ {p} /\ t.monster = s.monster
      /\ t.ready = s.ready /\ t.match = s.match
  BY DEF BfState
<1>2. BfKill(s, p) = IF t.match = 2 /\ t.alive = {} THEN BfEndMatch(t) ELSE t
  BY DEF BfKill
<1> HIDE DEF t
<1>3. CASE t.match = 2 /\ t.alive = {}
  BY <1>1, <1>2, <1>3, BfEndStep
<1>4. CASE ~(t.match = 2 /\ t.alive = {})
  BY <1>1, <1>2, <1>4
<1>5. QED BY <1>3, <1>4

\* Who is put into the server while a match is on lives only if he is ready.
LEMMA BfPutStep ==
  ASSUME NEW s \in BfState, NEW p \in BfPlayer
  PROVE  LET u == BfPutClient(s, p) IN
         /\ u \in BfState /\ u.here = s.here /\ u.monster = s.monster /\ u.ready \subseteq s.ready
         /\ u.alive \subseteq s.alive \cup {p}
         /\ u.match = 0 \/ (u.match = s.match /\ u.ready = s.ready /\ (p \in u.alive => p \in s.ready))
<1> DEFINE t == [s EXCEPT !.alive = @ \cup {p}]
           u == BfPutClient(s, p)
<1>1. /\ t \in BfState /\ t.here = s.here /\ t.alive = s.alive \cup {p} /\ t.monster = s.monster
      /\ t.ready = s.ready /\ t.match = s.match
  BY DEF BfState
<1>2. u = IF s.match # 0 /\ p \notin s.ready THEN BfKill(t, p) ELSE t
  BY DEF BfPutClient
<1> HIDE DEF t, u
<1>3. CASE s.match # 0 /\ p \notin s.ready
  <2>1. u = BfKill(t, p)
    BY <1>2, <1>3
  <2>2. /\ u \in BfState /\ u.here = t.here /\ u.alive = t.alive \ {p}
        /\ u.monster = t.monster /\ u.ready \subseteq t.ready
        /\ u.match = 0 \/ (u.match = t.match /\ u.ready = t.ready)
    BY <1>1, <2>1, BfKillStep
  <2>3. QED BY <1>1, <2>2 DEF u
<1>4. CASE ~(s.match # 0 /\ p \notin s.ready)
  BY <1>1, <1>2, <1>4 DEF u
<1>5. QED BY <1>3, <1>4

\* What a step keeps that does not touch monsters.
LEMMA FewStay ==
  ASSUME NEW s, NEW u, u.monster = s.monster, Few(s) PROVE Few(u)
BY DEF Few, monsters_count

-----------------------------------------------------------------------------
(***************************************************************************)
(* The players' actions.                                                   *)
(***************************************************************************)
LEMMA BfConnectStep ==
  ASSUME BfInv, NEW p \in BfPlayer, BfConnect(p)
  PROVE  BfInv' /\ NoSecondLife
<1> DEFINE h == bf.here \cup {p}
           r == bf.ready \ {p}
           s == [bf EXCEPT !.here = h, !.ready = r]
<1>1. bf \in BfState /\ BfPresent(bf) /\ Few(bf) /\ TheReadyLive(bf) /\ p \notin bf.here
  BY DEF BfInv, BfGood, BfConnect
<1>2. h \in SUBSET BfPlayer /\ r \in SUBSET BfPlayer
  BY <1>1 DEF BfState
<1>3. bf' = BfPutClient(s, p)
  BY <1>1 DEF BfConnect, BfState
<1>4. bf.here \subseteq h /\ p \in h /\ r = bf.ready
  BY <1>1 DEF BfPresent
<1> HIDE DEF h, r
<1>5. /\ s \in BfState /\ s.here = h /\ s.ready = r /\ s.alive = bf.alive /\ s.match = bf.match
      /\ s.monster = bf.monster
  BY <1>1, <1>2 DEF BfState
<1> HIDE DEF s
<1>6. /\ bf' \in BfState /\ bf'.here = h /\ bf'.monster = bf.monster /\ bf'.ready \subseteq r
      /\ bf'.alive \subseteq bf.alive \cup {p}
      /\ bf'.match = 0 \/ (bf'.match = bf.match /\ bf'.ready = r /\ (p \in bf'.alive => p \in r))
  BY <1>3, <1>5, BfPutStep
<1>7. BfPresent(bf') /\ p \notin r
  BY <1>1, <1>4, <1>6 DEF BfPresent
<1>8. TheReadyLive(bf') /\ NoSecondLife
  BY <1>1, <1>4, <1>6, <1>7 DEF TheReadyLive, NoSecondLife
<1>9. QED BY <1>1, <1>6, <1>7, <1>8, FewStay DEF BfInv, BfGood

LEMMA BfDisconnectStep ==
  ASSUME BfInv, NEW p \in BfPlayer, BfDisconnect(p)
  PROVE  BfInv' /\ NoSecondLife
<1> DEFINE s == [bf EXCEPT !.here = @ \ {p}, !.alive = @ \ {p}, !.ready = @ \ {p}]
<1>1. bf \in BfState /\ BfPresent(bf) /\ Few(bf) /\ TheReadyLive(bf)
  BY DEF BfInv, BfGood
<1>2. /\ s \in BfState /\ s.here = bf.here \ {p} /\ s.ready = bf.ready \ {p} /\ s.alive = bf.alive \ {p}
      /\ s.match = bf.match /\ s.monster = bf.monster
  BY <1>1 DEF BfState
<1>3. bf' = IF s.here = {} THEN BfEndMatch(s) ELSE s
  BY DEF BfDisconnect
<1> HIDE DEF s
<1>4. /\ bf' \in BfState /\ bf'.here = s.here /\ bf'.alive = s.alive /\ bf'.monster = s.monster
      /\ bf'.ready \subseteq s.ready /\ (bf'.match = 0 \/ bf' = s)
  BY <1>2, <1>3, BfEndStep
<1>5. BfPresent(bf') /\ TheReadyLive(bf') /\ NoSecondLife
  BY <1>1, <1>2, <1>4 DEF BfPresent, TheReadyLive, NoSecondLife
<1>6. QED BY <1>1, <1>2, <1>4, <1>5, FewStay DEF BfInv, BfGood

LEMMA BfDieStep ==
  ASSUME BfInv, NEW p \in BfPlayer, BfDie(p)
  PROVE  BfInv' /\ NoSecondLife
<1>1. bf \in BfState /\ BfPresent(bf) /\ Few(bf) /\ TheReadyLive(bf) /\ bf' = BfKill(bf, p)
  BY DEF BfInv, BfGood, BfDie
<1>2. /\ bf' \in BfState /\ bf'.here = bf.here /\ bf'.alive = bf.alive \ {p}
      /\ bf'.monster = bf.monster /\ bf'.ready \subseteq bf.ready
      /\ bf'.match = 0 \/ (bf'.match = bf.match /\ bf'.ready = bf.ready)
  BY <1>1, BfKillStep
<1>3. BfPresent(bf') /\ TheReadyLive(bf') /\ NoSecondLife
  BY <1>1, <1>2 DEF BfPresent, TheReadyLive, NoSecondLife
<1>4. QED BY <1>1, <1>2, <1>3, FewStay DEF BfInv, BfGood

LEMMA BfRespawnStep ==
  ASSUME BfInv, NEW p \in BfPlayer, PlayerDeathThink(p)
  PROVE  BfInv' /\ NoSecondLife
<1>1. /\ bf \in BfState /\ BfPresent(bf) /\ Few(bf) /\ bf' = BfPutClient(bf, p)
      /\ p \in bf.here /\ bf.match = 0
  BY DEF BfInv, BfGood, PlayerDeathThink
<1>2. /\ bf' \in BfState /\ bf'.here = bf.here /\ bf'.monster = bf.monster /\ bf'.ready \subseteq bf.ready
      /\ bf'.alive \subseteq bf.alive \cup {p} /\ (bf'.match = 0 \/ bf'.match = bf.match)
  BY <1>1, BfPutStep
<1>3. BfPresent(bf') /\ TheReadyLive(bf') /\ NoSecondLife
  BY <1>1, <1>2 DEF BfPresent, TheReadyLive, NoSecondLife
<1>4. QED BY <1>1, <1>2, <1>3, FewStay DEF BfInv, BfGood

LEMMA BfReadyStep ==
  ASSUME BfInv, NEW p \in BfPlayer, BfReady(p) \/ BfBreak(p)
  PROVE  BfInv' /\ NoSecondLife
<1>1. bf \in BfState /\ BfPresent(bf) /\ Few(bf) /\ bf.match \in {0, 1} /\ p \in bf.here
  BY DEF BfInv, BfGood, BfReady, BfBreak, BfState, BfPresent
<1>2. PICK r \in SUBSET bf.here, m \in {0, 1} : bf' = [bf EXCEPT !.ready = r, !.match = m]
  <2>1. CASE BfReady(p)
    <3> DEFINE m == IF bf.match = 0 THEN 1 ELSE bf.match
    <3>1. bf' = [bf EXCEPT !.ready = bf.ready \cup {p}, !.match = m] /\ m \in {0, 1}
      BY <1>1, <2>1 DEF BfReady, BfState
    <3>2. bf.ready \cup {p} \in SUBSET bf.here
      BY <1>1 DEF BfPresent
    <3> HIDE DEF m
    <3>3. QED BY <3>1, <3>2
  <2>2. CASE BfBreak(p)
    <3> DEFINE m == IF bf.ready = {p} THEN 0 ELSE bf.match
    <3>1. bf' = [bf EXCEPT !.ready = bf.ready \ {p}, !.match = m] /\ m \in {0, 1}
      BY <1>1, <2>2 DEF BfBreak, BfState
    <3>2. bf.ready \ {p} \in SUBSET bf.here
      BY <1>1 DEF BfPresent
    <3> HIDE DEF m
    <3>3. QED BY <3>1, <3>2
  <2>3. QED BY <2>1, <2>2
<1>3. r \in SUBSET BfPlayer /\ m \in 0 .. 2
  BY <1>1 DEF BfState
<1>4. /\ bf' \in BfState /\ bf'.here = bf.here /\ bf'.alive = bf.alive /\ bf'.monster = bf.monster
      /\ bf'.ready = r /\ bf'.match = m
  BY <1>1, <1>2, <1>3 DEF BfState
<1>5. BfPresent(bf') /\ TheReadyLive(bf') /\ NoSecondLife
  BY <1>1, <1>2, <1>4 DEF BfPresent, TheReadyLive, NoSecondLife
<1>6. QED BY <1>1, <1>4, <1>5, FewStay DEF BfInv, BfGood

LEMMA BfStopStep ==
  ASSUME BfInv, BfStop
  PROVE  BfInv' /\ NoSecondLife
<1>1. bf \in BfState /\ BfPresent(bf) /\ Few(bf) /\ bf' = BfEndMatch(bf)
  BY DEF BfInv, BfGood, BfStop
<1>2. /\ bf' \in BfState /\ bf'.match = 0 /\ bf'.here = bf.here /\ bf'.alive = bf.alive
      /\ bf'.monster = bf.monster /\ bf'.ready \subseteq bf.ready
  BY <1>1, BfEndStep
<1>3. BfPresent(bf') /\ TheReadyLive(bf') /\ NoSecondLife
  BY <1>1, <1>2 DEF BfPresent, TheReadyLive, NoSecondLife
<1>4. QED BY <1>1, <1>2, <1>3, FewStay DEF BfInv, BfGood
-----------------------------------------------------------------------------
(***************************************************************************)
(* The start of a round: everybody is put into the server, in some order.  *)
(***************************************************************************)
BfIter(base, seq, iter) ==
  iter = [S \in SUBSET DOMAIN seq |->
          IF S = {} THEN base ELSE BfPutClient(iter[S \ {Max(S)}], seq[Max(S)])]

LEMMA BfWalkIsIter ==
  \A base, seq : FoldLeft(BfPutClient, base, seq) = (CHOOSE iter : BfIter(base, seq, iter))[DOMAIN seq]
BY DEF FoldLeft, MapThenFoldSet, BfIter

\* A sequence of SetToSeqs has every element once.
LEMMA OrderIsComplete ==
  ASSUME NEW S, IsFiniteSet(S), NEW seq \in SetToSeqs(S)
  PROVE  LET n == Cardinality(S) IN
         /\ n \in Nat /\ DOMAIN seq = 1 .. n /\ \A i \in 1 .. n : seq[i] \in S
         /\ \A i, j \in 1 .. n : i # j => seq[i] # seq[j]
         /\ \A x \in S : \E i \in 1 .. n : seq[i] = x
<1> DEFINE n == Cardinality(S)
           D == 1 .. n
<1>1. n \in Nat
  BY FS_CardinalityType
<1>2. seq \in [D -> S] /\ \A i, j \in D : i # j => seq[i] # seq[j]
  BY DEF SetToSeqs
<1>3. IsFiniteSet(D) /\ Cardinality(D) = n
  BY <1>1, FS_Interval
<1> HIDE DEF D
<1>4. ASSUME NEW x \in S, \A i \in D : seq[i] # x PROVE FALSE
  <2> DEFINE T == S \ {x}
  <2>1. IsFiniteSet(T) /\ Cardinality(T) = n - 1
    BY FS_RemoveElement
  <2>2. seq \in [D -> T]
    BY <1>2, <1>4
  <2> HIDE DEF T
  <2>3. Cardinality(T) < Cardinality(D)
    BY <1>1, <1>3, <2>1
  <2>4. \E i, j \in D : i # j /\ seq[i] = seq[j]
    BY <1>3, <2>1, <2>2, <2>3, FS_PigeonHole
  <2>5. QED BY <1>2, <2>4
<1>5. QED BY <1>1, <1>2, <1>4 DEF D

\* After the walk nobody is alive in the round who is not ready.
LEMMA BfWalkStep ==
  ASSUME NEW base \in BfState, base.match = 2, BfPresent(base), NEW seq \in SetToSeqs(base.here)
  PROVE  LET u == FoldLeft(BfPutClient, base, seq) IN
         u \in BfState /\ u.monster = base.monster /\ BfPresent(u) /\ TheReadyLive(u)
<1> DEFINE h == base.here
           n == Cardinality(h)
           D == 1 .. n
           A(k) == {s \in BfState :
                      /\ s.here = h /\ s.monster = base.monster /\ s.alive \subseteq h /\ s.ready \subseteq h
                      /\ \/ s.match = 0
                         \/ /\ s.match = 2 /\ s.ready = base.ready
                            /\ \A i \in 1 .. k : seq[i] \in s.alive => seq[i] \in base.ready}
           F == [z \in D \X BfState |-> BfPutClient(z[2], seq[z[1]])]
           iter == CHOOSE i : BfIter(base, seq, i)
<1>0. IsFiniteSet(h) /\ h \subseteq BfPlayer
  <2>1. h \subseteq BfPlayer
    BY DEF BfState
  <2>2. QED BY <2>1, BfConstants, FS_Subset
<1>1. /\ n \in Nat /\ DOMAIN seq = D /\ \A i \in D : seq[i] \in h
      /\ \A i, j \in D : i # j => seq[i] # seq[j]
      /\ \A x \in h : \E i \in D : seq[i] = x
  <2> HIDE DEF h
  <2>1. seq \in SetToSeqs(h) BY DEF h
  <2>2. QED BY <1>0, <2>1, OrderIsComplete
<1>2. \A s \in BfState, i \in D : BfPutClient(s, seq[i]) \in BfState
  <2> SUFFICES ASSUME NEW s \in BfState, NEW i \in D PROVE BfPutClient(s, seq[i]) \in BfState
    OBVIOUS
  <2>1. seq[i] \in BfPlayer
    BY <1>0, <1>1
  <2>2. QED BY <2>1, BfPutStep
<1>3. F \in [D \X BfState -> BfState] /\ \A i \in D, s \in BfState : F[<<i, s>>] = BfPutClient(s, seq[i])
  BY <1>2
<1> HIDE DEF F, h, n
<1>4. PICK w \in [SUBSET D -> BfState] : WalkIter(w, n, base, F)
  BY <1>1, <1>3, WalkExists
<1>5. BfIter(base, seq, w)
  <2>1. ASSUME NEW S \in SUBSET D
        PROVE  w[S] = IF S = {} THEN base ELSE BfPutClient(w[S \ {Max(S)}], seq[Max(S)])
    <3>1. CASE S = {}
      BY <1>4, <3>1 DEF WalkIter
    <3>2. CASE S # {}
      <4>1. Max(S) \in D
        BY <1>1, <3>2, MaxIsIn
      <4>2. w[S \ {Max(S)}] \in BfState
        OBVIOUS
      <4>3. w[S] = F[<<Max(S), w[S \ {Max(S)}]>>]
        BY <1>4, <3>2 DEF WalkIter
      <4>4. QED BY <1>3, <3>2, <4>1, <4>2, <4>3
    <3>3. QED BY <3>1, <3>2
  <2>2. w = [S \in SUBSET D |-> IF S = {} THEN base ELSE BfPutClient(w[S \ {Max(S)}], seq[Max(S)])]
    BY <2>1
  <2>3. QED BY <1>1, <2>2 DEF BfIter
<1>6. BfIter(base, seq, iter)
  BY <1>5
<1> HIDE DEF iter
<1>7. \A S \in SUBSET D : iter[S] = IF S = {} THEN base ELSE BfPutClient(iter[S \ {Max(S)}], seq[Max(S)])
  BY <1>1, <1>6 DEF BfIter
<1> DEFINE G == {k \in Nat : k <= n => iter[1 .. k] \in A(k)}
<1>8. 0 \in G
  <2>1. 1 .. 0 = {}
    OBVIOUS
  <2>2. iter[{}] = base
    <3>1. {} \in SUBSET D
      OBVIOUS
    <3> HIDE DEF D
    <3>2. QED BY <1>7, <3>1
  <2>3. base \in A(0)
    BY DEF BfPresent, h
  <2>4. QED BY <2>1, <2>2, <2>3
<1>9. ASSUME NEW k \in Nat, k \in G PROVE k + 1 \in G
  <2> SUFFICES ASSUME k + 1 <= n PROVE iter[1 .. k + 1] \in A(k + 1)
    OBVIOUS
  <2> DEFINE R == 1 .. k + 1
             Q == 1 .. k
             s == iter[Q]
             p == seq[k + 1]
  <2>1. Max(R) = k + 1 /\ R \ {k + 1} = Q /\ R # {}
    <3>1. k + 1 \in Nat /\ k + 1 # 0 /\ k + 1 - 1 = k
      OBVIOUS
    <3> DEFINE m == k + 1
    <3>2. Max(1 .. m) = m /\ (1 .. m) \ {m} = 1 .. m - 1 /\ 1 .. m # {}
      <4> HIDE DEF m
      <4>1. m \in Nat /\ m # 0
        BY <3>1 DEF m
      <4>2. QED BY <4>1, MaxOfInterval
    <3>3. QED BY <3>1, <3>2
  <2>2. R \in SUBSET D /\ k + 1 \in D /\ s \in A(k)
    BY <1>1, <1>9
  <2>3. iter[R] = BfPutClient(s, p)
    <3> HIDE DEF R, Q
    <3>1. iter[R] = BfPutClient(iter[R \ {Max(R)}], seq[Max(R)])
      BY <1>7, <2>1, <2>2
    <3>2. QED BY <2>1, <3>1
  <2>4. p \in h /\ \A i \in 1 .. k : seq[i] # p
    BY <1>1, <2>2
  <2> HIDE DEF R, Q, s, p
  <2> DEFINE u == BfPutClient(s, p)
  <2>5. /\ u \in BfState /\ u.here = s.here /\ u.monster = s.monster /\ u.ready \subseteq s.ready
        /\ u.alive \subseteq s.alive \cup {p}
        /\ u.match = 0 \/ (u.match = s.match /\ u.ready = s.ready /\ (p \in u.alive => p \in s.ready))
    BY <1>0, <2>2, <2>4, BfPutStep
  <2> HIDE DEF u
  <2>6. ASSUME u.match = s.match, s.match = 2, u.ready = s.ready, p \in u.alive => p \in s.ready,
               NEW i \in 1 .. k + 1, seq[i] \in u.alive
        PROVE  seq[i] \in base.ready
    <3>1. s.ready = base.ready
      BY <2>2, <2>6
    <3>2. CASE i = k + 1
      BY <2>6, <3>1, <3>2 DEF p
    <3>3. CASE i # k + 1
      <4>1. i \in 1 .. k
        BY <3>3
      <4>2. seq[i] \in s.alive
        BY <2>4, <2>5, <2>6, <4>1
      <4>3. QED BY <2>2, <2>6, <4>1, <4>2
    <3>4. QED BY <3>2, <3>3
  <2>7. u \in A(k + 1)
    <3>1. u.here = h /\ u.monster = base.monster /\ u.alive \subseteq h /\ u.ready \subseteq h
      BY <2>2, <2>4, <2>5
    <3>2. CASE u.match = 0
      BY <2>5, <3>1, <3>2
    <3>3. CASE u.match # 0
      <4>1. u.match = s.match /\ s.match = 2 /\ u.ready = s.ready /\ s.ready = base.ready
            /\ (p \in u.alive => p \in s.ready)
        BY <2>2, <2>5, <3>3
      <4>2. QED BY <2>5, <2>6, <3>1, <4>1
    <3>4. QED BY <3>2, <3>3
  <2>8. QED BY <2>3, <2>7 DEF u, R
<1> HIDE DEF G
<1>10. n \in G /\ n <= n
  BY <1>1, <1>8, <1>9, NumberInduction
<1>11. iter[D] \in A(n)
  BY <1>10 DEF G
<1>12. FoldLeft(BfPutClient, base, seq) = iter[D]
  BY <1>1, BfWalkIsIter DEF iter
<1> DEFINE u == iter[D]
<1>13. \A x \in u.alive : u.match = 2 => x \in u.ready
  <2> SUFFICES ASSUME NEW x \in u.alive, u.match = 2 PROVE x \in u.ready
    OBVIOUS
  <2>1. u.ready = base.ready /\ x \in h /\ \A i \in 1 .. n : seq[i] \in u.alive => seq[i] \in base.ready
    BY <1>11
  <2>2. PICK i \in D : seq[i] = x
    BY <1>1, <2>1
  <2>3. QED BY <2>1, <2>2
<1>14. QED BY <1>11, <1>12, <1>13 DEF BfPresent, TheReadyLive

LEMMA BfStartStep ==
  ASSUME BfInv, BfStartMatch
  PROVE  BfInv' /\ NoSecondLife
<1> DEFINE s == [bf EXCEPT !.match = 2, !.spawn = 0, !.wave = 0, !.age = 0]
<1>1. bf \in BfState /\ BfPresent(bf) /\ Few(bf) /\ bf.match = 1
  BY DEF BfInv, BfGood, BfStartMatch
<1>2. PICK order \in SetToSeqs(bf.here) : bf' = FoldLeft(BfPutClient, s, order)
  BY DEF BfStartMatch
<1>3. 0 \in 0 .. BfLimit /\ 0 \in 0 .. BfPeriod /\ 0 \in 0 .. BfAge /\ 2 \in 0 .. 2
  BY BfConstants
<1>4. /\ s \in BfState /\ s.match = 2 /\ s.here = bf.here /\ s.ready = bf.ready /\ s.alive = bf.alive
      /\ s.monster = bf.monster
  BY <1>1, <1>3 DEF BfState
<1> HIDE DEF s
<1>5. BfPresent(s) /\ order \in SetToSeqs(s.here)
  BY <1>1, <1>4 DEF BfPresent
<1>6. bf' \in BfState /\ bf'.monster = s.monster /\ BfPresent(bf') /\ TheReadyLive(bf')
  BY <1>2, <1>4, <1>5, BfWalkStep
<1>7. QED BY <1>1, <1>4, <1>6, FewStay DEF BfInv, BfGood, NoSecondLife

-----------------------------------------------------------------------------
(***************************************************************************)
(* The monsters.                                                           *)
(***************************************************************************)
Living(s) == {m \in BfMonster : s.monster[m].is = "alive"}

LEMMA CountLiving ==
  ASSUME NEW s
  PROVE  monsters_count(s) = Cardinality(Living(s)) /\ monsters_count(s) \in Nat /\ IsFiniteSet(Living(s))
<1>1. Living(s) \subseteq BfMonster
  BY DEF Living
<1>2. IsFiniteSet(Living(s)) /\ Cardinality(Living(s)) \in Nat
  BY <1>1, BfConstants, FS_Subset, FS_CardinalityType
<1>3. QED BY <1>2 DEF monsters_count, Living

LEMMA FewerLiving ==
  ASSUME NEW s, NEW u, Few(s), Living(u) \subseteq Living(s) PROVE Few(u)
<1>1. /\ Cardinality(Living(u)) <= Cardinality(Living(s))
      /\ Cardinality(Living(s)) \in Nat /\ Cardinality(Living(u)) \in Nat
  BY CountLiving, FS_Subset
<1>2. QED BY <1>1, CountLiving, BfConstants DEF Few

\* A wave is of at most BfLimit monsters.
LEMMA WaveStep ==
  ASSUME NEW s \in BfState
  PROVE  LET u == bloodfest_wave_calculate(s) IN
         /\ u \in BfState /\ u.match = s.match /\ u.here = s.here /\ u.ready = s.ready
         /\ u.alive = s.alive /\ u.monster = s.monster
<1>1. BfWaveSize(s) \in 0 .. BfLimit
  <2> DEFINE size == ((5 * BfPeriod + s.age) * BfInitial) \div (5 * BfPeriod) - monsters_count(s)
  <2>1. s.age \in Nat
    BY BfConstants DEF BfState
  <2>2. 5 * BfPeriod \in Nat \ {0}
    BY BfConstants
  <2>3. (5 * BfPeriod + s.age) * BfInitial \in Nat
    BY <2>1, <2>2, BfConstants
  <2>4. \A a \in Nat, b \in Nat \ {0} : a \div b \in Int
    OBVIOUS
  <2>5. size \in Int
    BY <2>2, <2>3, <2>4, CountLiving
  <2> HIDE DEF size
  <2>6. BfWaveSize(s) = IF size < 0 THEN 0 ELSE IF size > BfLimit THEN BfLimit ELSE size
    BY DEF BfWaveSize, size
  <2>7. QED BY <2>5, <2>6, BfConstants
<1>2. BfPeriod \in 0 .. BfPeriod
  BY BfConstants
<1>3. QED BY <1>1, <1>2 DEF bloodfest_wave_calculate, BfState

LEMMA BfSpawnStep ==
  ASSUME NEW s \in BfState, Few(s), NEW u \in bloodfest_spawn_monsters(s)
  PROVE  /\ u \in BfState /\ u.match = s.match /\ u.here = s.here /\ u.ready = s.ready
         /\ u.alive = s.alive /\ Few(u)
<1> DEFINE t == bloodfest_wave_calculate(s)
           free == {m \in BfMonster : t.monster[m].is = "free"}
<1>1. /\ t \in BfState /\ t.match = s.match /\ t.here = s.here /\ t.ready = s.ready
      /\ t.alive = s.alive /\ t.monster = s.monster
  BY WaveStep
<1>2. Few(t)
  BY <1>1, FewStay
<1>3. CASE s.match # 2
  BY <1>3 DEF bloodfest_spawn_monsters
<1>4. CASE s.match = 2 /\ (t.spawn < 1 \/ monsters_count(t) >= BfLimit)
  <2>1. u = t
    BY <1>4 DEF bloodfest_spawn_monsters
  <2>2. QED BY <1>1, <1>2, <2>1
<1>5. CASE s.match = 2 /\ ~(t.spawn < 1 \/ monsters_count(t) >= BfLimit)
  <2>1. \/ u = [t EXCEPT !.spawn = @ - 1]
        \/ \E m \in free : u = [t EXCEPT !.spawn = @ - 1, !.monster[m] = [is |-> "alive", gone |-> 0]]
    BY <1>5 DEF bloodfest_spawn_monsters
  <2> HIDE DEF t
  <2>2. t.spawn - 1 \in 0 .. BfLimit
    <3>1. t.spawn \in 0 .. BfLimit
      BY <1>1 DEF BfState
    <3>2. QED BY <1>5, <3>1, BfConstants
  <2>3. CASE u = [t EXCEPT !.spawn = @ - 1]
    <3>1. /\ u \in BfState /\ u.match = s.match /\ u.here = s.here /\ u.ready = s.ready
          /\ u.alive = s.alive /\ u.monster = t.monster
      BY <1>1, <2>2, <2>3 DEF BfState
    <3>2. QED BY <1>2, <3>1, FewStay
  <2>4. ASSUME NEW m \in free, u = [t EXCEPT !.spawn = @ - 1, !.monster[m] = [is |-> "alive", gone |-> 0]]
        PROVE  /\ u \in BfState /\ u.match = s.match /\ u.here = s.here /\ u.ready = s.ready
               /\ u.alive = s.alive /\ Few(u)
    <3> DEFINE f == [t.monster EXCEPT ![m] = [is |-> "alive", gone |-> 0]]
    <3>1. u = [t EXCEPT !.spawn = t.spawn - 1, !.monster = f]
      BY <1>1, <2>4 DEF BfState
    <3>2. t.monster \in [BfMonster -> BfKind] /\ m \in BfMonster
      BY <1>1 DEF BfState
    <3>3. f \in [BfMonster -> BfKind] /\ \A k \in BfMonster : k # m => f[k] = t.monster[k]
      BY <3>2, BfConstants DEF BfKind
    <3> HIDE DEF f
    <3>4. /\ u \in BfState /\ u.match = s.match /\ u.here = s.here /\ u.ready = s.ready
          /\ u.alive = s.alive /\ u.monster = f
      BY <1>1, <2>2, <3>1, <3>3 DEF BfState
    <3>5. Living(u) \subseteq Living(t) \cup {m}
      BY <3>3, <3>4 DEF Living
    <3>6. Cardinality(Living(t) \cup {m}) <= Cardinality(Living(t)) + 1 /\ IsFiniteSet(Living(t) \cup {m})
          /\ Cardinality(Living(t) \cup {m}) \in Nat
      <4>1. IsFiniteSet(Living(t)) /\ Cardinality(Living(t)) \in Nat
        BY CountLiving, FS_CardinalityType
      <4> DEFINE V == Living(t) \cup {m}
      <4>2. IsFiniteSet(V) /\ Cardinality(V) = IF m \in Living(t) THEN Cardinality(Living(t))
                                             ELSE Cardinality(Living(t)) + 1
        BY <4>1, FS_AddElement
      <4>3. QED BY <4>1, <4>2
    <3>7. Cardinality(Living(u)) <= Cardinality(Living(t)) + 1
      <4>1. Cardinality(Living(u)) <= Cardinality(Living(t) \cup {m}) /\ Cardinality(Living(u)) \in Nat
        BY <3>5, <3>6, FS_Subset, FS_CardinalityType
      <4>2. Cardinality(Living(t)) \in Nat
        BY CountLiving
      <4>3. QED BY <3>6, <4>1, <4>2
    <3>8. Few(u)
      <4>1. monsters_count(t) < BfLimit /\ monsters_count(t) \in Nat /\ monsters_count(u) \in Nat
        BY <1>5, CountLiving, BfConstants DEF t
      <4>2. monsters_count(u) <= monsters_count(t) + 1
        BY <3>7, CountLiving
      <4>3. QED BY <4>1, <4>2, BfConstants DEF Few
    <3>9. QED BY <3>4, <3>8
  <2>5. QED BY <2>1, <2>3, <2>4
<1>6. QED BY <1>3, <1>4, <1>5 DEF bloodfest_spawn_monsters

LEMMA FreeStep ==
  ASSUME NEW s \in BfState, Few(s)
  PROVE  LET u == bloodfest_free_monsters(s) IN
         /\ u \in BfState /\ u.match = s.match /\ u.here = s.here /\ u.ready = s.ready
         /\ u.alive = s.alive /\ Few(u)
<1> DEFINE f == [m \in BfMonster |->
                   IF s.match # 2 \/ (s.monster[m].is = "dead" /\ s.monster[m].gone = 0) THEN BfNoMonster
                   ELSE s.monster[m]]
           u == bloodfest_free_monsters(s)
<1>1. u = [s EXCEPT !.monster = f]
  BY DEF bloodfest_free_monsters
<1>2. f \in [BfMonster -> BfKind]
  <2>1. BfNoMonster \in BfKind /\ s.monster \in [BfMonster -> BfKind]
    BY BfConstants DEF BfNoMonster, BfKind, BfState
  <2>2. QED BY <2>1
<1>3. \A m \in BfMonster : f[m].is = "alive" => s.monster[m].is = "alive"
  BY DEF BfNoMonster
<1> HIDE DEF f, u
<1>4. /\ u \in BfState /\ u.match = s.match /\ u.here = s.here /\ u.ready = s.ready
      /\ u.alive = s.alive /\ u.monster = f
  BY <1>1, <1>2 DEF BfState
<1>5. Living(u) \subseteq Living(s)
  BY <1>3, <1>4 DEF Living
<1>6. QED BY <1>4, <1>5, FewerLiving DEF u

LEMMA BfFrameStep ==
  ASSUME BfInv, BfFrame
  PROVE  BfInv' /\ NoSecondLife
<1> DEFINE c == bloodfest_check_end_match(bf)
<1>1. bf \in BfState /\ BfPresent(bf) /\ Few(bf) /\ TheReadyLive(bf)
  BY DEF BfInv, BfGood
<1>2. /\ c \in BfState /\ c.here = bf.here /\ c.alive = bf.alive /\ c.monster = bf.monster
      /\ c.ready \subseteq bf.ready /\ (c.match = 0 \/ c = bf)
  BY <1>1, BfEndStep DEF bloodfest_check_end_match
<1>3. PICK s \in bloodfest_spawn_monsters(c) : bf' = bloodfest_free_monsters(s)
  BY DEF BfFrame
<1> HIDE DEF c
<1>4. Few(c)
  BY <1>1, <1>2, FewStay
<1>5. /\ s \in BfState /\ s.match = c.match /\ s.here = c.here /\ s.ready = c.ready
      /\ s.alive = c.alive /\ Few(s)
  BY <1>2, <1>3, <1>4, BfSpawnStep
<1>6. /\ bf' \in BfState /\ bf'.match = s.match /\ bf'.here = s.here /\ bf'.ready = s.ready
      /\ bf'.alive = s.alive /\ Few(bf')
  BY <1>3, <1>5, FreeStep
<1>7. BfPresent(bf') /\ TheReadyLive(bf') /\ NoSecondLife
  BY <1>1, <1>2, <1>5, <1>6 DEF BfPresent, TheReadyLive, NoSecondLife
<1>8. QED BY <1>6, <1>7 DEF BfInv, BfGood

LEMMA BfMonsterDiesStep ==
  ASSUME BfInv, NEW m \in BfMonster, BfMonsterDies(m)
  PROVE  BfInv' /\ NoSecondLife
<1> DEFINE f == [bf.monster EXCEPT ![m] = [is |-> "dead", gone |-> BfCorpse]]
<1>1. bf \in BfState /\ BfPresent(bf) /\ Few(bf) /\ TheReadyLive(bf)
  BY DEF BfInv, BfGood
<1>2. bf' = [bf EXCEPT !.monster = f]
  BY <1>1 DEF BfMonsterDies, BfState
<1>3. bf.monster \in [BfMonster -> BfKind]
  BY <1>1 DEF BfState
<1>4. f \in [BfMonster -> BfKind] /\ \A k \in BfMonster : f[k].is = "alive" => bf.monster[k].is = "alive"
  BY <1>3, BfConstants DEF BfKind
<1> HIDE DEF f
<1>5. /\ bf' \in BfState /\ bf'.match = bf.match /\ bf'.here = bf.here /\ bf'.ready = bf.ready
      /\ bf'.alive = bf.alive /\ bf'.monster = f
  BY <1>1, <1>2, <1>4 DEF BfState
<1>6. Living(bf') \subseteq Living(bf)
  BY <1>4, <1>5 DEF Living
<1>7. Few(bf')
  BY <1>1, <1>6, FewerLiving
<1>8. QED BY <1>1, <1>5, <1>7 DEF BfInv, BfGood, BfPresent, TheReadyLive, NoSecondLife

LEMMA BfTimeStep ==
  ASSUME BfInv, BfTime
  PROVE  BfInv' /\ NoSecondLife
<1> DEFINE down(n) == IF n = 0 THEN 0 ELSE n - 1
           f == [m \in BfMonster |-> [bf.monster[m] EXCEPT !.gone = down(@)]]
           a == IF bf.match = 2 /\ bf.age < BfAge THEN bf.age + 1 ELSE bf.age
<1>1. bf \in BfState /\ BfPresent(bf) /\ Few(bf) /\ TheReadyLive(bf)
  BY DEF BfInv, BfGood
<1>2. bf' = [bf EXCEPT !.wave = down(bf.wave), !.age = a, !.monster = f]
  BY <1>1 DEF BfTime, BfState
<1>3. \A b \in Nat : \A n \in 0 .. b : down(n) \in 0 .. b
  OBVIOUS
<1>4. bf.monster \in [BfMonster -> BfKind] /\ bf.wave \in 0 .. BfPeriod /\ bf.age \in 0 .. BfAge
  BY <1>1 DEF BfState
<1>5. down(bf.wave) \in 0 .. BfPeriod /\ a \in 0 .. BfAge
  BY <1>3, <1>4, BfConstants
<1>6. ASSUME NEW m \in BfMonster PROVE f[m] \in BfKind /\ f[m].is = bf.monster[m].is
  <2>1. bf.monster[m] \in BfKind
    BY <1>4
  <2>2. bf.monster[m].gone \in 0 .. BfCorpse
    BY <2>1 DEF BfKind
  <2>3. down(bf.monster[m].gone) \in 0 .. BfCorpse
    BY <1>3, <2>2, BfConstants
  <2>4. f[m] = [bf.monster[m] EXCEPT !.gone = down(bf.monster[m].gone)]
    BY <2>1 DEF BfKind
  <2> HIDE DEF down, f
  <2>5. QED BY <2>1, <2>3, <2>4 DEF BfKind
<1>7. f \in [BfMonster -> BfKind]
  <2>1. f = [m \in BfMonster |-> f[m]]
    OBVIOUS
  <2> HIDE DEF f
  <2>2. QED BY <1>6, <2>1
<1> HIDE DEF f, a, down
<1>8. /\ bf' \in BfState /\ bf'.match = bf.match /\ bf'.here = bf.here /\ bf'.ready = bf.ready
      /\ bf'.alive = bf.alive /\ bf'.monster = f
  BY <1>1, <1>2, <1>5, <1>7 DEF BfState
<1>9. Living(bf') \subseteq Living(bf)
  BY <1>6, <1>8 DEF Living
<1>10. Few(bf')
  BY <1>1, <1>9, FewerLiving
<1>11. QED BY <1>1, <1>8, <1>10 DEF BfInv, BfGood, BfPresent, TheReadyLive, NoSecondLife

-----------------------------------------------------------------------------
LEMMA BfNextInv == BfInv /\ [BfNext]_bf => BfInv' /\ [NoSecondLife]_bf
<1> SUFFICES ASSUME BfInv, [BfNext]_bf PROVE BfInv' /\ [NoSecondLife]_bf
  OBVIOUS
<1>1. CASE BfNext
  BY <1>1, BfFrameStep, BfTimeStep, BfStopStep, BfStartStep, BfMonsterDiesStep, BfConnectStep,
     BfDisconnectStep, BfDieStep, BfRespawnStep, BfReadyStep DEF BfNext
<1>2. CASE UNCHANGED bf
  BY <1>2 DEF BfInv
<1>3. QED BY <1>1, <1>2

LEMMA BfInitInv == BfInit => BfInv
<1> SUFFICES ASSUME BfInit PROVE BfInv
  OBVIOUS
<1> DEFINE f == [m \in BfMonster |-> BfNoMonster]
<1>1. f \in [BfMonster -> BfKind] /\ \A m \in BfMonster : f[m].is # "alive"
  BY BfConstants DEF BfNoMonster, BfKind
<1>2. bf = [match |-> 0, here |-> {}, ready |-> {}, alive |-> {}, monster |-> f,
            spawn |-> 0, wave |-> 0, age |-> 0]
  BY DEF BfInit, BfEmpty
<1>3. 0 \in 0 .. BfLimit /\ 0 \in 0 .. BfPeriod /\ 0 \in 0 .. BfAge /\ 0 \in 0 .. 2
  BY BfConstants
<1> HIDE DEF f
<1>4. bf \in BfState
  BY <1>1, <1>2, <1>3 DEF BfState
<1>5. Living(bf) = {}
  BY <1>1, <1>2 DEF Living
<1>6. Few(bf)
  BY <1>5, CountLiving, FS_EmptySet, BfConstants DEF Few
<1>7. QED BY <1>2, <1>4, <1>6 DEF BfInv, BfGood, BfPresent, TheReadyLive

\* The types of the round hold, and bloodfest_spawn_monsters() never has more monsters alive
\* than k_bloodfest_monsters.
THEOREM BfTypes == BfSpec => []BfTypeOK
<1>1. BfInv => BfTypeOK
  <2> SUFFICES ASSUME BfInv PROVE BfTypeOK
    OBVIOUS
  <2>1. bf \in BfState /\ BfPresent(bf) /\ Few(bf)
    BY DEF BfInv, BfGood
  <2>2. bf \in [match : 0 .. 2, here : SUBSET BfPlayer, ready : SUBSET bf.here, alive : SUBSET bf.here,
             monster : [BfMonster -> [is : {"free", "alive", "dead"}, gone : 0 .. BfCorpse]],
             spawn : 0 .. BfLimit, wave : 0 .. BfPeriod, age : 0 .. BfAge]
    BY <2>1 DEF BfState, BfKind, BfPresent
  <2>3. QED BY <2>1, <2>2 DEF BfTypeOK, Few
<1>2. QED BY <1>1, BfInitInv, BfNextInv, PTL DEF BfSpec

\* In a round of bloodfest only those live who were ready for it, although the players are put
\* into the server in any order when it starts, and others connect, and no step brings
\* anybody to life.
THEOREM OneLifeEach == BfSpec => []TheReadyLive(bf) /\ [][NoSecondLife]_bf
<1>1. BfInv => TheReadyLive(bf)
  BY DEF BfInv, BfGood
<1>2. QED BY <1>1, BfInitInv, BfNextInv, PTL DEF BfSpec

-----------------------------------------------------------------------------
(***************************************************************************)
(* What the invariants leave of the types.                                 *)
(***************************************************************************)
LEMMA SeriesIsTyped == HmInv => HmTypeOK
BY DEF HmInv, Series, HmTypeOK, HmState, HmEmpty

\* Only who is there lives.
TheLivingAreHere(s) == s.alive \subseteq s.here

LEMMA TouchMovesNobody ==
  ASSUME NEW s \in CtfState, NEW t \in CtfTeam, NEW p \in CtfPlayer
  PROVE  FlagTouchOf(s, t, p).here = s.here /\ FlagTouchOf(s, t, p).alive = s.alive
<1>1. \A f \in CtfTeam : RegenFlag(s, f).here = s.here /\ RegenFlag(s, f).alive = s.alive
  BY DEF RegenFlag, CtfState
<1>2. PickUp(s, t, p).here = s.here /\ PickUp(s, t, p).alive = s.alive
  BY DEF PickUp, CtfState
<1>3. CtfCapture(s, p).here = s.here /\ CtfCapture(s, p).alive = s.alive
  BY DEF CtfCapture, RegenFlag, CtfState
<1>4. QED BY <1>1, <1>2, <1>3 DEF FlagTouchOf

LEMMA TheLivingStayHere ==
  ASSUME CtfInv, TheLivingAreHere(ctf), [FlagNext]_ctf
  PROVE  TheLivingAreHere(ctf')
<1>1. OwnersAgree(ctf) /\ ctf \in CtfState
  BY DEF CtfInv, OwnersAgree
<1>2. CASE ctf'.here = ctf.here /\ ctf'.alive = ctf.alive
  BY <1>2 DEF TheLivingAreHere
<1>3. CASE UNCHANGED ctf
  BY <1>2, <1>3
<1>4. ASSUME NEW t \in CtfTeam, FlagComesHome(t) \/ FlagResetOwner(t)
      PROVE  TheLivingAreHere(ctf')
  <2>1. ctf'.here = ctf.here /\ ctf'.alive = ctf.alive
    BY <1>1, <1>4 DEF FlagComesHome, FlagResetOwner, RegenFlag, CtfState
  <2>2. QED BY <1>2, <2>1
<1>5. ASSUME NEW t \in CtfTeam, NEW p \in CtfPlayer, FlagTouch(t, p)
      PROVE  TheLivingAreHere(ctf')
  BY <1>1, <1>2, <1>5, TouchMovesNobody DEF FlagTouch
<1>6. ASSUME NEW p \in CtfPlayer, TossFlag(p)
      PROVE  TheLivingAreHere(ctf')
  BY <1>1, <1>2, <1>6, FlagDropped DEF TossFlag
<1>7. ASSUME NEW p \in CtfPlayer, CtfDie(p) \/ CtfDisconnect(p)
      PROVE  TheLivingAreHere(ctf')
  <2>1. PICK u : /\ u = PlayerDropFlag(DropRune(ctf, p), p, FALSE)
                 /\ OwnersAgree(u) /\ u.has[p] = {} /\ (~u.caught => p \notin u.carry)
                 /\ u.alive = ctf.alive /\ u.here = ctf.here
    BY <1>1, Emptied
  <2>2. u \in CtfState
    BY <2>1 DEF OwnersAgree
  <2>3. ctf'.alive = ctf.alive \ {p} /\ ctf'.here \in {ctf.here, ctf.here \ {p}}
    <3>1. CASE CtfDie(p)
      <4>1. ctf' = [u EXCEPT !.alive = @ \ {p}]
        BY <2>1, <3>1 DEF CtfDie
      <4>2. QED BY <2>1, <2>2, <4>1 DEF CtfState
    <3>2. CASE CtfDisconnect(p)
      <4>1. ctf' = [u EXCEPT !.here = @ \ {p}, !.alive = @ \ {p}, !.carry = @ \ {p}]
        BY <2>1, <3>2 DEF CtfDisconnect, CtfLeave
      <4>2. QED BY <2>1, <2>2, <4>1 DEF CtfState
    <3>3. QED BY <1>7, <3>1, <3>2
  <2>4. QED BY <2>3 DEF TheLivingAreHere
<1>8. ASSUME NEW p \in CtfPlayer, CtfSpawn(p)
      PROVE  TheLivingAreHere(ctf')
  BY <1>1, <1>8 DEF CtfSpawn, TheLivingAreHere, CtfState
<1>9. ASSUME NEW r \in Rune, NEW p \in CtfPlayer, RuneTouch(r, p)
      PROVE  TheLivingAreHere(ctf')
  <2>1. ctf'.here = ctf.here /\ ctf'.alive = ctf.alive
    BY <1>1, <1>9 DEF RuneTouch, CtfState
  <2>2. QED BY <1>2, <2>1
<1>10. ASSUME NEW p \in CtfPlayer, TossRune(p)
       PROVE  TheLivingAreHere(ctf')
  <2> DEFINE d == DropRune(ctf, p)
  <2>1. OwnersAgree(d) /\ d.here = ctf.here /\ d.alive = ctf.alive
    BY <1>1, RuneDropped
  <2>2. ctf' = [d EXCEPT !.hot = @ \cup (ctf.has[p] \X {p})]
    BY <1>10 DEF TossRune
  <2> HIDE DEF d
  <2>3. ctf'.here = ctf.here /\ ctf'.alive = ctf.alive
    BY <2>1, <2>2 DEF OwnersAgree, CtfState
  <2>4. QED BY <1>2, <2>3
<1>11. ASSUME NEW r \in Rune, RuneResetOwner(r)
       PROVE  TheLivingAreHere(ctf')
  <2>1. ctf'.here = ctf.here /\ ctf'.alive = ctf.alive
    BY <1>1, <1>11 DEF RuneResetOwner, CtfState
  <2>2. QED BY <1>2, <2>1
<1>12. QED
  BY <1>3, <1>4, <1>5, <1>6, <1>7, <1>8, <1>9, <1>10, <1>11 DEF FlagNext

LEMMA FlagsAreTyped == CtfInv /\ TheLivingAreHere(ctf) => CtfTypeOK
BY DEF CtfInv, OwnersAgree, CtfState, TheLivingAreHere, CtfTypeOK, CtfStart, FlagPlace

-----------------------------------------------------------------------------
\* Nobody has more health than HealthCap, and no quad is away longer than QuadWait.
Bounded(s) == (\A p \in ItPlayer : s.health[p] <= HealthCap) /\ s.quad.wait <= QuadWait

LEMMA ItNumbers ==
  /\ PowerTime \in Nat /\ QuadWait \in Nat /\ ShowWait \in Nat /\ ShowWait <= QuadWait
  /\ HealthMax \in Nat /\ HealthCap \in Nat /\ MegaHeal \in Nat /\ HealthMax <= HealthCap
BY ItAssumption

\* A drop changes neither.
LEMMA DropKeepsBounds ==
  ASSUME NEW s \in ItState, NEW p \in ItPlayer
  PROVE  DropPowerups(s, p).health = s.health /\ DropPowerups(s, p).quad = s.quad
<1>1. \A t : DropPowerup(s, t).health = s.health /\ DropPowerup(s, t).quad = s.quad
  BY DEF DropPowerup, ItState
<1>2. QED BY <1>1 DEF DropPowerups

LEMMA BoundedStep ==
  ASSUME ItInv, Bounded(it), [ItNext]_it
  PROVE  Bounded(it')
<1>1. /\ it \in ItState /\ it.health \in [ItPlayer -> Nat] /\ it.quad.wait \in Nat
      /\ it.quad \in [is : QuadIs, wait : Nat]
  BY DEF ItInv, ItState
<1>2. CASE it'.quad = it.quad /\ it'.health = it.health
  BY <1>2 DEF Bounded
<1>3. ASSUME it'.quad = it.quad, NEW p \in ItPlayer, NEW n \in Nat, n <= HealthCap,
             it'.health = [it.health EXCEPT ![p] = n]
      PROVE  Bounded(it')
  BY <1>1, <1>3 DEF Bounded
<1>4. CASE UNCHANGED it
  BY <1>2, <1>4
<1>5. ASSUME NEW p \in ItPlayer, TakeQuad(p)
      PROVE  Bounded(it')
  <2>1. it'.quad.wait = QuadWait /\ it'.health = it.health
    BY <1>1, <1>5 DEF TakeQuad, ItState
  <2>2. QED BY <2>1, ItNumbers DEF Bounded
<1>6. ASSUME NEW p \in ItPlayer, TakeHealth(p)
      PROVE  Bounded(it')
  <2>1. it'.quad = it.quad /\ it'.health = [it.health EXCEPT ![p] = it.health[p] + 1]
    BY <1>1, <1>6 DEF TakeHealth, ItState
  <2>2. it.health[p] + 1 \in Nat /\ it.health[p] + 1 <= HealthCap
    BY <1>1, <1>6, ItNumbers DEF TakeHealth
  <2>3. QED BY <1>3, <2>1, <2>2
<1>7. ASSUME NEW p \in ItPlayer, QuadOfTheDead(p)
      PROVE  Bounded(it')
  <2>1. it'.quad = it.quad /\ it'.health = it.health
    BY <1>1, <1>7 DEF QuadOfTheDead, ItState
  <2>2. QED BY <1>2, <2>1
<1>8. ASSUME NEW p \in ItPlayer, ItSpawn(p)
      PROVE  Bounded(it')
  <2>1. it'.quad = it.quad /\ it'.health = [it.health EXCEPT ![p] = HealthMax]
    BY <1>1, <1>8 DEF ItSpawn, ItState
  <2>2. QED BY <1>3, <2>1, ItNumbers
<1>9. ASSUME NEW p \in ItPlayer, ItDisconnect(p)
      PROVE  Bounded(it')
  <2>1. it'.quad = it.quad /\ it'.health = [it.health EXCEPT ![p] = 0]
    BY <1>1, <1>9 DEF ItDisconnect, ItState
  <2>2. 0 \in Nat /\ 0 <= HealthCap
    BY ItNumbers
  <2>3. QED BY <1>3, <2>1, <2>2
<1>10. ASSUME NEW p \in ItPlayer, NEW i \in DropSlot, TakeDrop(p, i) \/ TakeRevived(p, i)
       PROVE  Bounded(it')
  <2>1. it'.quad = it.quad /\ it'.health = it.health
    BY <1>1, <1>10 DEF TakeDrop, TakeRevived, ItState
  <2>2. QED BY <1>2, <2>1
<1>11. ASSUME NEW p \in ItPlayer, NEW b \in Box, TakeMega(p, b)
       PROVE  Bounded(it')
  <2>1. it'.quad = it.quad /\ it'.health = [it.health EXCEPT ![p] = AtMostCap(it.health[p] + MegaHeal)]
    BY <1>1, <1>11 DEF TakeMega, ItState
  <2>2. AtMostCap(it.health[p] + MegaHeal) \in Nat /\ AtMostCap(it.health[p] + MegaHeal) <= HealthCap
    BY <1>1, ItNumbers DEF AtMostCap
  <2>3. QED BY <1>3, <2>1, <2>2
<1>12. ASSUME NEW p \in ItPlayer, NEW n \in 1 .. HealthCap, ItDamage(p, n)
       PROVE  Bounded(it')
  <2>1. CASE n < it.health[p]
    <3>1. it'.quad = it.quad /\ it'.health = [it.health EXCEPT ![p] = it.health[p] - n]
      BY <1>1, <1>12, <2>1 DEF ItDamage, ItState
    <3>2. it.health[p] - n \in Nat /\ it.health[p] - n <= HealthCap
      BY <1>1, <2>1, ItNumbers DEF Bounded
    <3>3. QED BY <1>3, <3>1, <3>2
  <2>2. CASE ~(n < it.health[p])
    <3> DEFINE h == [it.health EXCEPT ![p] = 0]
               d == [it EXCEPT !.health = h]
    <3>1. h \in [ItPlayer -> Nat] /\ it' = DropPowerups(d, p)
      BY <1>1, <1>12, <2>2 DEF ItDamage, ItState
    <3>2. h = [it.health EXCEPT ![p] = 0]
      OBVIOUS
    <3> HIDE DEF h
    <3>3. d \in ItState /\ d.quad = it.quad /\ d.health = h
      BY <1>1, <3>1 DEF ItState
    <3> HIDE DEF d
    <3>4. it'.quad = it.quad /\ it'.health = h
      BY <3>1, <3>3, DropKeepsBounds
    <3>5. 0 \in Nat /\ 0 <= HealthCap
      BY ItNumbers
    <3>6. QED BY <1>3, <3>2, <3>4, <3>5
  <2>3. QED BY <2>1, <2>2
<1>13. ASSUME NEW i \in DropSlot, DropGone(i) \/ DropBack(i)
       PROVE  Bounded(it')
  <2>1. it'.quad = it.quad /\ it'.health = it.health
    BY <1>1, <1>13 DEF DropGone, DropBack, ItState
  <2>2. QED BY <1>2, <2>1
<1>14. ASSUME NEW b \in Box, item_megahealth_rot(b)
       PROVE  Bounded(it')
  <2> DEFINE p == it.box[b].owner
  <2>1. CASE it.health[p] > HealthMax
    <3>1. it'.quad = it.quad /\ it'.health = [it.health EXCEPT ![p] = it.health[p] - 1]
      BY <1>1, <1>14, <2>1 DEF item_megahealth_rot, ItState
    <3>2. p \in ItPlayer
      BY <1>14 DEF item_megahealth_rot, ItInv, Rotting
    <3>3. it.health[p] - 1 \in Nat /\ it.health[p] - 1 <= HealthCap
      BY <1>1, <2>1, <3>2, ItNumbers DEF Bounded
    <3>4. QED BY <1>3, <3>1, <3>2, <3>3
  <2>2. CASE ~(it.health[p] > HealthMax)
    <3>1. it'.quad = it.quad /\ it'.health = it.health
      BY <1>1, <1>14, <2>2 DEF item_megahealth_rot, ItState
    <3>2. QED BY <1>2, <3>1
  <2>3. QED BY <2>1, <2>2
<1>15. ASSUME NEW b \in Box, BoxBack(b)
       PROVE  Bounded(it')
  <2>1. it'.quad = it.quad /\ it'.health = it.health
    BY <1>1, <1>15 DEF BoxBack, ItState
  <2>2. QED BY <1>2, <2>1
<1>16. CASE QuadBack \/ SetPowerups \/ ItTick
  <2>1. it'.health = it.health /\ (it'.quad.wait = it.quad.wait \/ it'.quad.wait = Less(it.quad.wait))
    <3>1. CASE QuadBack
      BY <1>1, <3>1 DEF QuadBack, ItState
    <3>2. CASE SetPowerups
      BY <1>1, <3>2 DEF SetPowerups, ItState
    <3>3. CASE ItTick
      BY <1>1, <3>3 DEF ItTick, ItState
    <3>4. QED BY <1>16, <3>1, <3>2, <3>3
  <2>2. it'.quad.wait <= QuadWait
    BY <1>1, <2>1, ItNumbers DEF Less, Bounded
  <2>3. QED BY <2>1, <2>2 DEF Bounded
<1>17. CASE FixPowerups
  <2>1. it'.health = it.health /\ it'.quad.wait \in {it.quad.wait, 0, ShowWait}
    BY <1>1, <1>17 DEF FixPowerups, show_powerups, hide_powerups, ItState
  <2>2. it'.quad.wait <= QuadWait
    BY <2>1, ItNumbers DEF Bounded
  <2>3. QED BY <2>1, <2>2 DEF Bounded
<1>18. QED
  BY <1>4, <1>5, <1>6, <1>7, <1>8, <1>9, <1>10, <1>11, <1>12, <1>13, <1>14, <1>15, <1>16, <1>17 DEF ItNext

LEMMA BoundedAtFirst == ItInit => Bounded(it)
BY ItNumbers DEF ItInit, ItStart, Bounded

LEMMA ItemsAreTyped == ItInv /\ Bounded(it) => ItTypeOK
<1> SUFFICES ASSUME ItInv, Bounded(it) PROVE ItTypeOK
  OBVIOUS
<1>1. it \in ItState /\ InTime(it)
  BY DEF ItInv, QuadInv
<1>2. DOMAIN it = DOMAIN ItStart("drop")
  BY <1>1 DEF ItState, ItStart
<1>3. it.health \in [ItPlayer -> 0 .. HealthCap] /\ it.power \in [ItPlayer -> 0 .. PowerTime]
  BY <1>1, ItNumbers DEF ItState, Bounded, InTime
<1>4. it.quad.is \in {"there", "wait", "hidden", "removed"} /\ it.quad.wait \in 0 .. QuadWait
  BY <1>1, ItNumbers DEF ItState, QuadIs, Bounded
<1>5. /\ \A i \in DropSlot : /\ it.drop[i].is \in {"none", "there", "taken", "wait", "back"}
                             /\ it.drop[i].time \in 0 .. PowerTime /\ it.drop[i].wait \in 0 .. QuadWait
      /\ it.again \in 0 .. MaxRevived
  BY <1>1, ItNumbers, ItAssumption DEF ItState, InTime, Dropped, DropIs
<1>6. \A b \in Box : it.box[b].is \in {"there", "rot", "regen", "removed"}
  BY <1>1 DEF ItState, MegaBox, BoxIs
<1>7. QED BY <1>1, <1>2, <1>3, <1>4, <1>5, <1>6 DEF ItTypeOK, ItState, ItFields

\* A round is never written behind the end of hoony_results[], whatever k_hoonyrounds,
\* breaks and draws are.
THEOREM HmTypes == HmSpec => []HmTypeOK
BY SeriesIsTyped, SeriesInvariance, PTL

\* The fields of flags and runes stay in their ranges, and only clients that are there live.
THEOREM CtfTypes == FlagSpec => []CtfTypeOK
<1>1. FlagInit => TheLivingAreHere(ctf)
  BY DEF FlagInit, CtfStart, TheLivingAreHere
<1>2. CtfInv /\ TheLivingAreHere(ctf) /\ [FlagNext]_ctf => TheLivingAreHere(ctf)'
  BY TheLivingStayHere
<1>3. QED BY <1>1, <1>2, FlagsAreTyped, FlagInvariance, PTL DEF FlagSpec

\* T_Heal() (items.c) and item_megahealth_rot() keep everybody's health below its cap, and no
\* powerup lasts longer than it should, a dropped one or one of a match with dp 0.
THEOREM ItTypes == ItSpec => []ItTypeOK
<1>1. ItInv /\ Bounded(it) /\ [ItNext]_it => Bounded(it)'
  BY BoundedStep
<1>2. QED BY <1>1, BoundedAtFirst, ItemsAreTyped, ItemsInvariance, PTL DEF ItSpec

-----------------------------------------------------------------------------
(***************************************************************************)
(* The server plays one game type at a time.  A step of the server is one  *)
(* of at most one component and leaves the others alone, so every          *)
(* component behaves as its own specification says, and what is proved of  *)
(* it holds of the server.                                                 *)
(***************************************************************************)
EachStarts ==
  ArenaInit /\ ClanInit /\ FlagInit /\ RaceInit /\ HmInit /\ ScInit /\ MvInit /\ ItInit /\ BfInit

LEMMA AllStart == ModesInit => EachStarts
<1> SUFFICES ASSUME ModesInit PROVE EachStarts
  OBVIOUS
<1>1. ArenaInit /\ FlagInit /\ HmInit /\ MvInit /\ BfInit
  BY DEF ModesInit
<1>2. ClanInit
  <2>1. ca = CaResting => ClanInit
    BY ModesAssumption DEF CaResting, ClanInit
  <2>2. QED BY <2>1 DEF ModesInit
<1>3. RaceInit
  <2>1. race = RaceResting => RaceInit
    BY ModesAssumption DEF RaceResting, RaceInit
  <2>2. QED BY <2>1 DEF ModesInit
<1>4. ScInit
  <2>1. sc = ScResting => ScInit
    BY ModesAssumption DEF ScResting, ScInit
  <2>2. QED BY <2>1 DEF ModesInit
<1>5. ItInit
  <2>1. it = ItResting => ItInit
    BY ModesAssumption DEF ItResting, ItInit
  <2>2. QED BY <2>1 DEF ModesInit
<1>6. QED BY <1>1, <1>2, <1>3, <1>4, <1>5 DEF EachStarts

LEMMA OneMoves ==
  ASSUME [ModesNext]_modes
  PROVE  /\ [ArenaNext]_ra /\ [ClanNext]_ca /\ [FlagNext]_ctf /\ [RaceNext]_race /\ [HmNext]_hm
         /\ [ScNext]_sc /\ [MvNext]_mv /\ [ItNext]_it /\ [BfNext]_bf
<1>1. CASE UNCHANGED modes
  BY <1>1 DEF modes
<1>2. CASE Arena(ArenaNext)
  BY <1>2 DEF Arena
<1>3. CASE Clan(ClanNext)
  BY <1>3 DEF Clan
<1>4. CASE Flag(FlagNext)
  BY <1>4 DEF Flag
<1>5. CASE Racing(RaceNext)
  BY <1>5 DEF Racing
<1>6. CASE Rounds(HmNext)
  BY <1>6 DEF Rounds
<1>7. CASE Overtime(ScNext)
  BY <1>7 DEF Overtime
<1>8. CASE Maps(MvNext)
  BY <1>8 DEF Maps
<1>9. CASE Pickups(ItNext)
  BY <1>9 DEF Pickups
<1>10. CASE Horde(BfNext)
  BY <1>10 DEF Horde
<1>11. QED
  BY <1>1, <1>2, <1>3, <1>4, <1>5, <1>6, <1>7, <1>8, <1>9, <1>10 DEF ModesNext

\* The server of MCModes implements the specification of every component: the frame of the one
\* game type it plays is a step of that component and a stutter of the eight others.
THEOREM OneAtATime ==
  ModesSpec => /\ ArenaSafety /\ ClanSafety /\ FlagSpec /\ RaceSafety /\ HmSpec
               /\ ScSpec /\ MvSpecification /\ ItSpec /\ BfSpec
<1>1. ModesInit => EachStarts
  BY AllStart
<1>2. [ModesNext]_modes => /\ [ArenaNext]_ra /\ [ClanNext]_ca /\ [FlagNext]_ctf /\ [RaceNext]_race
                           /\ [HmNext]_hm /\ [ScNext]_sc /\ [MvNext]_mv /\ [ItNext]_it /\ [BfNext]_bf
  BY OneMoves
<1>3. QED
  BY <1>1, <1>2, PTL DEF ModesSpec, EachStarts, ArenaSafety, ClanSafety, FlagSpec, RaceSafety, HmSpec,
     ScSpec, MvSpecification, ItSpec, BfSpec

\* Whatever game type the server plays, with any clients, settings and limits the assumptions
\* allow, the fields of all nine components stay in their ranges.
THEOREM ModesTypes == ModesSpec => []ModesTypeOK
<1>1. ArenaTypeOK /\ ClanTypeOK /\ CtfTypeOK /\ RaceTypeOK /\ HmTypeOK
        /\ ScTypeOK /\ MvTypeOK /\ ItTypeOK /\ BfTypeOK => ModesTypeOK
  BY DEF ModesTypeOK
<1>2. QED
  BY <1>1, OneAtATime, ArenaTypes, ClanTypes, CtfTypes, RaceTypes, HmTypes, ScTypes, MvTypes, ItTypes,
     BfTypes, PTL

\* The invariants of the run of all game types, of the server instead of one component, for
\* every value of the constants: the arena's places and fighters, the eliminated of clan
\* arena, the flags and runes of ctf, the ranks of race, the rounds of hoonymode, the frags of
\* players and ghosts, the map with a majority, and the items that are used up.
THEOREM ModesInvariants ==
  ModesSpec => /\ []OnePlaceEach /\ []OnlyFightersBleed /\ LineKeepsOrder
               /\ []OutsidersStayOut /\ []FlagHasItsCarrier /\ []OneOfEachRune
               /\ []TimesRank /\ []SeriesEndsEven /\ []SidesSwap
               /\ []ScoresAreKept /\ []MapByMajority /\ []UsedUpFirst
BY OneAtATime, EverybodyHasOnePlace, FightersOnly, NobodyOvertakes, EliminatedStayOut, FlagsHaveCarriers,
   RunesAreSingle, PlacesAndRecordsRank, SeriesIsFair, SidesAreSwapped, FragsAreKept, MapIsByMajority,
   TakenIsUsedUp, PTL

\* And what holds with the settings of that run: no more than two racers in a duel, points
\* for the survivors where no dead client lags, and overtimes with a winner where telefragging
\* a team mate costs a frag.
THEOREM ModesDecide ==
  /\ RaceDuels => (ModesSpec => []Unassailable)
  /\ CaLaggard = {} => (ModesSpec => PointForTheSurvivors)
  /\ ScTeleDeath => (ModesSpec => OvertimeDecides)
<1>1. ASSUME RaceDuels PROVE ModesSpec => []Unassailable
  <2>1. RaceSafety => []Unassailable
    BY <1>1, LeadsAreUnassailable
  <2>2. QED BY <2>1, OneAtATime, PTL
<1>2. ASSUME CaLaggard = {} PROVE ModesSpec => PointForTheSurvivors
  <2>1. ClanSafety => PointForTheSurvivors
    BY <1>2, SurvivorsScore
  <2>2. QED BY <2>1, OneAtATime, PTL
<1>3. ASSUME ScTeleDeath PROVE ModesSpec => OvertimeDecides
  <2>1. ScSpec => OvertimeDecides
    BY <1>3, OvertimeIsDecided
  <2>2. QED BY <2>1, OneAtATime, PTL
<1>4. QED BY <1>1, <1>2, <1>3
=============================================================================
