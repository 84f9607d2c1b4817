------------------------------- MODULE Items -------------------------------
(***************************************************************************)
(* Items that must not be there twice: the quad damage of a map, which a    *)
(* dying player may drop with the seconds he had left and which the         *)
(* settings may hide, and the megahealth boxes, which come back when the    *)
(* health they gave has rotted away.  An entity is known by its number, and *)
(* so is the player an entity remembers as its owner.                       *)
(***************************************************************************)
EXTENDS Integers, FiniteSets

CONSTANTS
  ItPlayer,      \* client slots
  ItMode,        \* subset of {"drop", "keep", "kill", "mega", "mega2"}, see ItStart
  Box,           \* the megahealth boxes of the map
  PowerTime,     \* 30 s of quad damage, in steps of the clock
  QuadWait,      \* 60 s until a taken quad is back
  ShowWait,      \* 30 s until a hidden quad is back
  KillTime,      \* 10 s until a quad dropped in killquad mode is removed
  HealthMax,     \* max_health, in steps of rotting
  MegaHeal,      \* what a box adds
  HealthCap,     \* the most a player can have
  RotWait,       \* 5 s from the touch until the health begins to rot
  BoxWait,       \* 20 s until a box is back
  MaxDrops,      \* bound: dropped quads at a time
  MaxRevived     \* bound: taken drops that the settings revive

ASSUME ItAssumption ==
  /\ IsFiniteSet(ItPlayer) /\ PowerTime \in Nat \ {0} /\ KillTime \in 1 .. PowerTime
  /\ QuadWait \in Nat /\ QuadWait >= 2 * PowerTime /\ ShowWait \in PowerTime .. QuadWait
  /\ HealthMax \in Nat \ {0} /\ MegaHeal \in Nat \ {0}
  /\ HealthCap \in Nat /\ HealthCap >= HealthMax + MegaHeal /\ RotWait \in Nat \ {0} /\ BoxWait \in Nat \ {0}
  /\ MaxDrops \in Nat \ {0} /\ MaxRevived \in Nat

VARIABLE it   \* items and players, a record

\* Dropped quads have edicts of their own; a free one ("none") is used again.  One that lies
\* "there" has time left, one that is "taken" is removed by its next think, and one that
\* show_powerups() has revived ("wait", "back") comes and goes as the quad of the map does.
DropSlot == 1 .. MaxDrops
NoDrop == [is |-> "none", time |-> 0, wait |-> 0]
Lying(t) == [is |-> "there", time |-> t, wait |-> 0]
Taken == [is |-> "taken", time |-> 0, wait |-> 0]
ComesIn(t) == [is |-> "wait", time |-> 0, wait |-> t]

\* A match: "drop" with dq 1, "keep" with dq 0, "kill" is killquad, where SM_PrepareMap()
\* removes the quad of the map; "mega" is a map without a quad, "mega2" the same in dmm2.
ItStart(mode) ==
  [mode   |-> mode,
   here   |-> {},
   health |-> [p \in ItPlayer |-> 0],        \* ISDEAD: 0
   power  |-> [p \in ItPlayer |-> 0],        \* super_damage_finished, from now
   quad   |-> [is |-> IF mode \in {"drop", "keep"} THEN "there" ELSE "removed", wait |-> 0],
   drop   |-> [i \in DropSlot |-> NoDrop],
   again  |-> 0,                             \* taken drops that have been revived
   pow    |-> TRUE,                          \* k_pow and k_pow_q
   seen   |-> TRUE,                          \* FixPowerups' static copy of them
   box    |-> [b \in Box |-> IF mode \in {"mega", "mega2"} THEN [is |-> "there", owner |-> 0, wait |-> 0]
                             ELSE [is |-> "removed", owner |-> 0, wait |-> 0]],
   super  |-> {}]                            \* IT_SUPERHEALTH in items

Live(s) == {p \in s.here : s.health[p] > 0}

-----------------------------------------------------------------------------
(***************************************************************************)
(* The quad.                                                               *)
(***************************************************************************)
\* powerup_touch() at the quad of the map, k_pow_pickup off.
TakeQuad(p) ==
  /\ p \in Live(it) /\ it.quad.is = "there" /\ it.pow
  /\ it' = [it EXCEPT !.quad = [is |-> "wait", wait |-> QuadWait], !.power[p] = PowerTime]

\* What is left of a dropped one; killquad's are worth 666 s.
Worth(s, i) == IF s.mode = "kill" THEN PowerTime ELSE s.drop[i].time

AtMostPower(n) == IF n > PowerTime THEN PowerTime ELSE n

\* powerup_touch() at a dropped one, which SUB_RM_01() removes later.
TakeDrop(p, i) ==
  /\ p \in Live(it) /\ it.drop[i].is = "there" /\ it.drop[i].time > 0 /\ it.pow
  /\ it' = [it EXCEPT !.drop[i] = Taken, !.power[p] = AtMostPower(@ + Worth(it, i))]

\* powerup_touch() at one that has been revived.  Its cnt is over and it comes back for ever;
\* only killquad's 666 s are not, and it is removed.
TakeRevived(p, i) ==
  /\ p \in Live(it) /\ it.drop[i].is = "back" /\ it.pow
  /\ it' = [it EXCEPT !.drop[i] = IF it.mode = "kill" THEN Taken ELSE ComesIn(QuadWait),
                      !.power[p] = PowerTime]

\* SUB_Remove() or KillQuadThink().
DropGone(i) ==
  /\ it.drop[i].is = "taken" \/ (it.drop[i].is = "there" /\ it.drop[i].time = 0)
  /\ it' = [it EXCEPT !.drop[i] = NoDrop]

\* SUB_regen_powerups() and SUB_regen(), of the quad of the map and of a revived drop.
QuadBack ==
  /\ it.quad.is = "wait" /\ it.quad.wait = 0
  /\ it' = [it EXCEPT !.quad.is = "there"]

DropBack(i) ==
  /\ it.drop[i].is = "wait" /\ it.drop[i].wait = 0
  /\ it' = [it EXCEPT !.drop[i].is = "back"]

DropPowerup(s, t) ==
  LET i == CHOOSE n \in DropSlot : s.drop[n] = NoDrop
  IN  IF t > 0 THEN [s EXCEPT !.drop[i] = Lying(t)] ELSE s

NeedDropQuad(s) ==
  /\ \A p \in Live(s) : s.power[p] = 0
  /\ \A i \in DropSlot : s.drop[i] = NoDrop

\* Mutant: a dropped quad has its full time again.
DropPowerupsFresh(s, p) ==
  IF s.mode = "drop" /\ s.pow /\ s.power[p] > 0 THEN DropPowerup(s, PowerTime) ELSE s

\* self is dead already when PlayerDie() calls it.
DropPowerups(s, p) ==
  CASE s.mode = "kill" /\ NeedDropQuad(s) -> DropPowerup(s, KillTime)
    [] s.mode = "drop" /\ s.pow           -> DropPowerup(s, s.power[p])
    [] OTHER                              -> s

-----------------------------------------------------------------------------
(***************************************************************************)
(* The settings: k_pow and k_pow_q change in a match that has no end, by    *)
(* the console or because players come and go (k_pow_min_players).          *)
(***************************************************************************)
SetPowerups == it' = [it EXCEPT !.pow = ~@]

hide_powerups(s) ==
  [s EXCEPT !.drop = [i \in DropSlot |-> NoDrop],
            !.quad = IF @.is = "removed" THEN @ ELSE [is |-> "hidden", wait |-> 0]]

TakenDrops(s) == {i \in DropSlot : s.drop[i].is = "taken"}

\* Whatever is not to be seen comes in 30 s, a drop that has just been taken too: the think
\* that would have removed it is lost.
show_powerups(s) ==
  [s EXCEPT !.quad = IF @.is \in {"hidden", "wait"} THEN [is |-> "wait", wait |-> ShowWait] ELSE @,
            !.drop = [i \in DropSlot |-> IF @[i].is \in {"taken", "wait"} THEN ComesIn(ShowWait) ELSE @[i]],
            !.again = @ + Cardinality(TakenDrops(s))]

\* A change of any of the settings is a reason to show or hide them all, at the start of a
\* frame, before the entities think.
FixPowerups ==
  /\ it.pow => it.again + Cardinality(TakenDrops(it)) <= MaxRevived
  /\ it' = IF it.pow THEN show_powerups([it EXCEPT !.seen = TRUE])
           ELSE hide_powerups([it EXCEPT !.seen = FALSE])

-----------------------------------------------------------------------------
(***************************************************************************)
(* Health.                                                                 *)
(***************************************************************************)
AtMostCap(n) == IF n > HealthCap THEN HealthCap ELSE n

\* health_touch() at a megahealth box.
TakeMega(p, b) ==
  /\ p \in Live(it) /\ it.box[b].is = "there" /\ it.health[p] < HealthCap
  /\ it' = [it EXCEPT !.health[p] = AtMostCap(@ + MegaHeal), !.super = @ \cup {p},
                      !.box[b] = [is |-> "rot", owner |-> p, wait |-> RotWait]]

\* health_touch() at another box: never more than max_health.
TakeHealth(p) ==
  /\ p \in Live(it) /\ it.mode \in {"mega", "mega2"} /\ it.health[p] < HealthMax
  /\ it' = [it EXCEPT !.health[p] = @ + 1]

\* The owner may have died, left, or be somebody else in the same slot.
item_megahealth_rot(b) ==
  LET p == it.box[b].owner
  IN  /\ it.box[b].is = "rot" /\ it.box[b].wait = 0
      /\ it' = IF it.health[p] > HealthMax
               THEN [it EXCEPT !.health[p] = @ - 1, !.box[b].wait = 1]
               ELSE [it EXCEPT !.super = @ \ {p},
                               !.box[b] = [is |-> IF it.mode = "mega2" THEN "removed" ELSE "regen",
                                           owner |-> p, wait |-> BoxWait]]

BoxBack(b) ==
  /\ it.box[b].is = "regen" /\ it.box[b].wait = 0
  /\ it' = [it EXCEPT !.box[b].is = "there"]

-----------------------------------------------------------------------------
(***************************************************************************)
(* Players.                                                                *)
(***************************************************************************)
\* T_Damage(), and PlayerDie() when it kills; more than he has left does no more.
ItDamage(p, n) ==
  /\ p \in Live(it) /\ n <= it.health[p]
  /\ n >= it.health[p] => \E i \in DropSlot : it.drop[i] = NoDrop
  /\ it' = IF n < it.health[p] THEN [it EXCEPT !.health[p] = @ - n]
           ELSE DropPowerups([it EXCEPT !.health[p] = 0], p)

\* PlayerPreThink() of the dead and FixQuad(): his quad works a moment longer than he.
QuadOfTheDead(p) ==
  /\ p \in it.here \ Live(it) /\ it.power[p] > 0
  /\ it' = [it EXCEPT !.power[p] = 0]

\* PutClientInServer(), of who has connected or respawns.
ItSpawn(p) ==
  /\ p \notin Live(it)
  /\ it' = [it EXCEPT !.here = @ \cup {p}, !.health[p] = HealthMax, !.power[p] = 0,
                      !.super = @ \ {p}]

\* set_important_fields(); nothing is dropped.
ItDisconnect(p) ==
  p \in it.here /\ it' = [it EXCEPT !.here = @ \ {p}, !.health[p] = 0]

-----------------------------------------------------------------------------
(***************************************************************************)
(* The clock.  Every think that is due, and FixPowerups after a change of   *)
(* the settings, come before it moves on.  CheckPowerups() of the player    *)
(* whose time is over belongs to the same moment.                           *)
(***************************************************************************)
Less(n) == IF n > 0 THEN n - 1 ELSE 0

ItTick ==
  /\ it.pow = it.seen
  /\ it.quad.is = "wait" => it.quad.wait > 0
  /\ \A i \in DropSlot :
       CASE it.drop[i].is = "there" -> it.drop[i].time > 0
         [] it.drop[i].is = "wait"  -> it.drop[i].wait > 0
         [] OTHER                   -> it.drop[i].is # "taken"
  /\ \A b \in Box : it.box[b].is \in {"rot", "regen"} => it.box[b].wait > 0
  /\ it' = [it EXCEPT !.power = [p \in ItPlayer |-> Less(@[p])],
                      !.quad.wait = Less(@),
                      !.drop = [i \in DropSlot |-> [it.drop[i] EXCEPT !.time = Less(@), !.wait = Less(@)]],
                      !.box = [b \in Box |-> [it.box[b] EXCEPT !.wait = Less(@)]]]

ItInit == \E mode \in ItMode : it = ItStart(mode)

ItNext ==
  \/ \E p \in ItPlayer :
       \/ TakeQuad(p) \/ TakeHealth(p) \/ QuadOfTheDead(p) \/ ItSpawn(p) \/ ItDisconnect(p)
       \/ \E i \in DropSlot : TakeDrop(p, i) \/ TakeRevived(p, i)
       \/ \E b \in Box : TakeMega(p, b)
       \/ \E n \in 1 .. HealthCap : ItDamage(p, n)
  \/ \E i \in DropSlot : DropGone(i) \/ DropBack(i)
  \/ \E b \in Box : item_megahealth_rot(b) \/ BoxBack(b)
  \/ QuadBack \/ SetPowerups \/ FixPowerups \/ ItTick

ItSpec == ItInit /\ [][ItNext]_it

-----------------------------------------------------------------------------
\* The fields of the record.
ItFields == DOMAIN ItStart("drop")

ItTypeOK ==
  /\ DOMAIN it = ItFields
  /\ it.here \subseteq ItPlayer /\ it.super \subseteq ItPlayer
  /\ it.health \in [ItPlayer -> 0 .. HealthCap] /\ it.power \in [ItPlayer -> 0 .. PowerTime]
  /\ it.quad.is \in {"there", "wait", "hidden", "removed"} /\ it.quad.wait \in 0 .. QuadWait
  /\ \A i \in DropSlot : it.drop[i].is \in {"none", "there", "taken", "wait", "back"}
                           /\ it.drop[i].time \in 0 .. PowerTime /\ it.drop[i].wait \in 0 .. QuadWait
  /\ it.again \in 0 .. MaxRevived
  /\ \A b \in Box : it.box[b].is \in {"there", "rot", "regen", "removed"}

(***************************************************************************)
(* What is taken is used up before it is there again.  There is one quad:   *)
(* it lies where the map has it, or where somebody died, or a living player *)
(* has it, also when it changes hands several times, its holder leaves, or  *)
(* the settings hide the quad of the map and show it again while it is in   *)
(* use.  This is claimed until the settings have revived a dropped quad     *)
(* that was taken (TakenDropGoes): from then on there are two.  And as long *)
(* as a player has more than max_health, a box that is away rots him,       *)
(* whatever he took and however often he died since.                        *)
(***************************************************************************)
OneQuad ==
  Cardinality({p \in Live(it) : it.power[p] > 0})
    + Cardinality({i \in DropSlot : it.drop[i].is = "back" \/ (it.drop[i].is = "there" /\ it.drop[i].time > 0)})
    + (IF it.quad.is = "there" THEN 1 ELSE 0) <= 1

MegaRots ==
  \A p \in it.here :
     it.health[p] > HealthMax =>
       p \in it.super /\ \E b \in Box : it.box[b].is = "rot" /\ it.box[b].owner = p

UsedUpFirst == (it.again = 0 => OneQuad) /\ MegaRots

(***************************************************************************)
(* items.c:2224 says of a dropped quad that is taken "remove later": it     *)
(* stays taken until it is removed.  A change of the settings between the   *)
(* touch and the think that removes it breaks this: show_powerups() puts    *)
(* SUB_regen_powerups() in the place of that think.                         *)
(***************************************************************************)
TakenDropGoes ==
  [][\A i \in DropSlot : it.drop[i].is = "taken" => it'.drop[i].is \in {"taken", "none"}]_it
=============================================================================
