----------------------------- MODULE Bloodfest -----------------------------
(***************************************************************************)
(* A round of bloodfest: players with one life each against waves of       *)
(* monsters.  Who connects during a round is killed at once, the round     *)
(* ends when nobody is alive, and what is left of the monsters goes.       *)
(***************************************************************************)
EXTENDS Integers, FiniteSets, SequencesExt

CONSTANTS
  BfPlayer, BfMonster,    \* players; edicts for monsters
  BfLimit,                \* k_bloodfest_monsters
  BfInitial,              \* k_bloodfest_monsters_spawn_initial
  BfPeriod,               \* k_bloodfest_monsters_spawn_period, in ticks
  BfCorpse,               \* ticks after which a corpse is removed
  BfAge                   \* bound: the length of a round to which waves grow

ASSUME BfAssumption ==
  /\ IsFiniteSet(BfPlayer) /\ IsFiniteSet(BfMonster) /\ BfLimit \in 1 .. Cardinality(BfMonster) - 1
  /\ {BfInitial, BfPeriod, BfCorpse} \subseteq Nat \ {0} /\ BfAge \in Nat

VARIABLE bf    \* the round, a record

BfNoMonster == [is |-> "free", gone |-> 0]

BfEmpty ==
  [match |-> 0,                                   \* match_in_progress
   here |-> {}, ready |-> {}, alive |-> {},
   monster |-> [m \in BfMonster |-> BfNoMonster],  \* edicts with FL_MONSTER, and until when corpses stay
   spawn |-> 0,                                   \* g_bloodfest.monsters_to_spawn
   wave |-> 0,                                    \* ticks until g_bloodfest.monsters_spawn_time
   age |-> 0]                                     \* ticks since match_start_time

monsters_count(s) == Cardinality({m \in BfMonster : s.monster[m].is = "alive"})

-----------------------------------------------------------------------------
\* EndMatch(), which leaves match_over 0 in this mode.
BfEndMatch(s) == [s EXCEPT !.match = 0, !.ready = IF s.match = 2 THEN {} ELSE @]

\* Mutant: the end is looked for when somebody dies only.
check_end_matchNever(s) == s

bloodfest_check_end_match(s) == IF s.match = 2 /\ s.alive = {} THEN BfEndMatch(s) ELSE s

\* bloodfest_killed_hook() of a player; monsters that are killed stay as corpses.
BfKill(s, p) ==
  LET t == [s EXCEPT !.alive = @ \ {p}]
  IN IF t.match = 2 /\ t.alive = {} THEN BfEndMatch(t) ELSE t

\* PutClientInServer(): who is not ready in a round is killed.
BfPutClient(s, p) ==
  IF s.match # 0 /\ p \notin s.ready THEN BfKill([s EXCEPT !.alive = @ \cup {p}], p)
  ELSE [s EXCEPT !.alive = @ \cup {p}]

\* The wave of monsters_spawn_factor 0.2, without the monsters that are left.
BfWaveSize(s) ==
  LET size == ((5 * BfPeriod + s.age) * BfInitial) \div (5 * BfPeriod) - monsters_count(s)
  IN IF size < 0 THEN 0 ELSE IF size > BfLimit THEN BfLimit ELSE size

\* k_bloodfest_boss_chance is -1: no wave has a boss.
bloodfest_wave_calculate(s) ==
  IF s.wave > 0 THEN s ELSE [s EXCEPT !.wave = BfPeriod, !.spawn = BfWaveSize(s)]

\* What bloodfest_spawn_monsters() may come to: a spot is tried up to 30 times, and each
\* of them may be occupied.
bloodfest_spawn_monsters(s) ==
  LET t == bloodfest_wave_calculate(s)
      free == {m \in BfMonster : t.monster[m].is = "free"}
  IN IF s.match # 2 THEN {s}
     ELSE IF t.spawn < 1 \/ monsters_count(t) >= BfLimit THEN {t}
     ELSE {[t EXCEPT !.spawn = @ - 1]}
            \cup {[t EXCEPT !.spawn = @ - 1, !.monster[m] = [is |-> "alive", gone |-> 0]] : m \in free}

bloodfest_free_monsters(s) ==
  [s EXCEPT !.monster = [m \in BfMonster |->
     IF s.match # 2 \/ (s.monster[m].is = "dead" /\ s.monster[m].gone = 0) THEN BfNoMonster
     ELSE s.monster[m]]]

-----------------------------------------------------------------------------
\* bloodfest_think(), in every StartFrame().
BfFrame ==
  \E s \in bloodfest_spawn_monsters(bloodfest_check_end_match(bf)) : bf' = bloodfest_free_monsters(s)

\* A tick of the clocks the frame looks at.
BfTime ==
  LET down(n) == IF n = 0 THEN 0 ELSE n - 1
  IN bf' = [bf EXCEPT !.wave = down(@), !.age = IF bf.match = 2 /\ @ < BfAge THEN @ + 1 ELSE @,
                      !.monster = [m \in BfMonster |-> [bf.monster[m] EXCEPT !.gone = down(@)]]]

\* A monster is killed by a player or by lava, slime or water.
BfMonsterDies(m) ==
  /\ bf.monster[m].is = "alive"
  /\ bf' = [bf EXCEPT !.monster[m] = [is |-> "dead", gone |-> BfCorpse]]

BfConnect(p) ==
  /\ p \notin bf.here
  /\ bf' = BfPutClient([bf EXCEPT !.here = @ \cup {p}, !.ready = @ \ {p}], p)

\* ClientDisconnect(): the last player takes the match with him.
BfDisconnect(p) ==
  /\ p \in bf.here
  /\ LET s == [bf EXCEPT !.here = @ \ {p}, !.alive = @ \ {p}, !.ready = @ \ {p}]
     IN bf' = IF s.here = {} THEN BfEndMatch(s) ELSE s

\* Monsters kill in a round, and a player himself at any time.
BfDie(p) == p \in bf.alive /\ bf' = BfKill(bf, p)

PlayerDeathThink(p) ==
  p \in bf.here \ bf.alive /\ bf.match = 0 /\ bf' = BfPutClient(bf, p)

\* PlayerReady(): one is enough to start the countdown.
BfReady(p) ==
  /\ p \in bf.here \ bf.ready /\ bf.match < 2
  /\ bf' = [bf EXCEPT !.ready = @ \cup {p}, !.match = IF @ = 0 THEN 1 ELSE @]

\* PlayerBreak() of a ready player, StopTimer() when nobody else is ready (k_matchLess).
BfBreak(p) ==
  /\ p \in bf.ready /\ bf.match < 2
  /\ bf' = [bf EXCEPT !.ready = @ \ {p}, !.match = IF bf.ready = {p} THEN 0 ELSE @]

\* TimerStartThink() aborts, vote_check_break().
BfStop == bf.match > 0 /\ bf' = BfEndMatch(bf)

\* StartMatch(): bloodfest_reset(), and SM_PrepareClients() respawns all, in random order.
BfStartMatch ==
  /\ bf.match = 1
  /\ \E order \in SetToSeqs(bf.here) :
       bf' = FoldLeft(BfPutClient, [bf EXCEPT !.match = 2, !.spawn = 0, !.wave = 0, !.age = 0], order)

-----------------------------------------------------------------------------
BfInit == bf = BfEmpty

BfNext ==
  \/ BfFrame \/ BfTime \/ BfStop \/ BfStartMatch
  \/ \E m \in BfMonster : BfMonsterDies(m)
  \/ \E p \in BfPlayer : BfConnect(p) \/ BfDisconnect(p) \/ BfDie(p) \/ PlayerDeathThink(p)
                           \/ BfReady(p) \/ BfBreak(p)

BfSpec == BfInit /\ [][BfNext]_bf

-----------------------------------------------------------------------------
\* Types, and the limit of living monsters.
BfTypeOK ==
  /\ bf \in [match : 0 .. 2, here : SUBSET BfPlayer, ready : SUBSET bf.here, alive : SUBSET bf.here,
             monster : [BfMonster -> [is : {"free", "alive", "dead"}, gone : 0 .. BfCorpse]],
             spawn : 0 .. BfLimit, wave : 0 .. BfPeriod, age : 0 .. BfAge]
  /\ monsters_count(bf) <= BfLimit

(***************************************************************************)
(* A player has one life in a round, however he leaves, connects, gets     *)
(* ready or waits, and the round ends with the last life, also if it is    *)
(* the departure of a player that takes it.                                *)
(***************************************************************************)
OneLife ==
  /\ [][bf.match = 2 /\ bf'.match = 2 => bf'.alive \subseteq bf.alive]_bf
  /\ []<>(bf.match = 2 => bf.alive # {})
=============================================================================
