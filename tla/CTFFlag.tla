------------------------------ MODULE CTFFlag ------------------------------
(***************************************************************************)
(* Capture the flag during a match: the two flags, who carries them, and    *)
(* the runes.  A flag is touched, dropped by the dead and by who leaves,    *)
(* tossed to a teammate, returned and captured; a rune is picked up,        *)
(* dropped, tossed and moved when nobody wants it.                          *)
(***************************************************************************)
EXTENDS Integers, FiniteSets

CONSTANTS
  CtfPlayer,     \* the clients that play
  CtfRed,        \* those of them in team "red"; the others are "blue"
  Rune           \* the kinds of runes the settings allow

ASSUME CtfAssumption == CtfRed \subseteq CtfPlayer /\ IsFiniteSet(CtfPlayer)

VARIABLE ctf   \* flags, runes and players, a record

CtfTeam == {1, 2}                          \* k_teamnumber: 1 red, 2 blue
TeamNo(p) == IF p \in CtfRed THEN 1 ELSE 2

\* k_teamnumber t, as spawn_item_flag and RegenFlags leave it.
CtfStart ==
  [here  |-> CtfPlayer,
   alive |-> CtfPlayer,                     \* health >= 1
   carry |-> {},                            \* players with CTF_FLAG in ctf_flag
   cnt   |-> [t \in CtfTeam |-> "AT_BASE"],
   owner |-> [t \in CtfTeam |-> {}],        \* the player owner stands for, if it is one
   tossed |-> {},                           \* flags whose think is FlagResetOwner
   caught |-> FALSE,                        \* history: a toss was caught before that
   has   |-> [p \in CtfPlayer |-> {}],      \* the runes in ctf_flag
   lying |-> [r \in Rune |-> 1],            \* entities "rune" of a kind
   hot   |-> {}]                            \* <<rune, who tossed it a moment ago>>

-----------------------------------------------------------------------------
(***************************************************************************)
(* The flag entity.                                                        *)
(***************************************************************************)
RegenFlag(s, t) == [s EXCEPT !.cnt[t] = "RETURNED", !.owner[t] = {}]

\* Mutant: only the own flag goes back to its base.
CtfCaptureOwnFlagOnly(s, p) ==
  RegenFlag([s EXCEPT !.carry = @ \ {p}], TeamNo(p))

CtfCapture(s, p) ==
  RegenFlag(RegenFlag([s EXCEPT !.carry = @ \ {p}], 1), 2)

PickUp(s, t, p) ==
  [s EXCEPT !.carry = @ \cup {p}, !.cnt[t] = "CARRIED", !.owner[t] = {p},
            !.caught = @ \/ t \in s.tossed]

FlagTouchOf(s, t, p) ==
  CASE TeamNo(p) = t /\ s.cnt[t] = "AT_BASE" /\ p \in s.carry -> CtfCapture(s, p)
    [] TeamNo(p) = t /\ s.cnt[t] = "DROPPED"                  -> RegenFlag(s, t)
    [] TeamNo(p) # t                                          -> PickUp(s, t, p)
    [] OTHER                                                  -> s

\* A carried flag is SOLID_NOT; its owner does not touch what he has just tossed.
FlagTouch(t, p) ==
  /\ p \in ctf.alive
  /\ ctf.cnt[t] \in {"AT_BASE", "DROPPED"} /\ p \notin ctf.owner[t]
  /\ FlagTouchOf(ctf, t, p) # ctf
  /\ ctf' = FlagTouchOf(ctf, t, p)

\* FlagThink and FlagResetOwner; FLAG_RETURN_TIME may be over at any time.
FlagComesHome(t) ==
  /\ t \notin ctf.tossed
  /\ \/ ctf.cnt[t] = "DROPPED" /\ ctf' = RegenFlag(ctf, t)
     \/ ctf.cnt[t] = "RETURNED" /\ ctf' = [ctf EXCEPT !.cnt[t] = "AT_BASE"]

FlagResetOwner(t) ==
  t \in ctf.tossed /\ ctf' = [ctf EXCEPT !.tossed = @ \ {t}, !.owner[t] = {}]

\* Clears CTF_FLAG of the owner, which need not be the player that drops it.
DropFlag(s, t, tossed) ==
  [s EXCEPT !.carry = @ \ s.owner[t], !.cnt[t] = "DROPPED",
            !.owner[t] = IF tossed THEN @ ELSE {},
            !.tossed = IF tossed THEN @ \cup {t} ELSE @]

PlayerDropFlag(s, p, tossed) ==
  IF p \in s.carry THEN DropFlag(s, 3 - TeamNo(p), tossed) ELSE s

TossFlag(p) == p \in ctf.carry /\ ctf' = PlayerDropFlag(ctf, p, TRUE)

-----------------------------------------------------------------------------
(***************************************************************************)
(* Runes.                                                                  *)
(***************************************************************************)
\* Mutant: who drops a rune keeps its power.
DropRuneKeeps(s, p) ==
  [s EXCEPT !.lying = [r \in Rune |-> @[r] + IF r \in s.has[p] THEN 1 ELSE 0]]

DropRune(s, p) ==
  [s EXCEPT !.has[p] = {}, !.lying = [r \in Rune |-> @[r] + IF r \in s.has[p] THEN 1 ELSE 0]]

TossRune(p) ==
  /\ ctf.has[p] # {}
  /\ ctf' = [DropRune(ctf, p) EXCEPT !.hot = @ \cup (ctf.has[p] \X {p})]

RuneTouch(r, p) ==
  /\ p \in ctf.alive /\ ctf.lying[r] > 0 /\ <<r, p>> \notin ctf.hot /\ ctf.has[p] = {}
  /\ ctf' = [ctf EXCEPT !.has[p] = {r}, !.lying[r] = @ - 1,
                        !.hot = {x \in @ : x[1] # r}]

\* Later RuneRespawn moves it to another place, which changes nothing here.
RuneResetOwner(r) ==
  /\ \E x \in ctf.hot : x[1] = r
  /\ ctf' = [ctf EXCEPT !.hot = {x \in @ : x[1] # r}]

-----------------------------------------------------------------------------
(***************************************************************************)
(* Players die, respawn, leave and connect.                                *)
(***************************************************************************)
CtfDie(p) ==
  /\ p \in ctf.alive
  /\ ctf' = [PlayerDropFlag(DropRune(ctf, p), p, FALSE) EXCEPT !.alive = @ \ {p}]

CtfLeave(s, p) ==
  [PlayerDropFlag(DropRune(s, p), p, FALSE)
     EXCEPT !.here = @ \ {p}, !.alive = @ \ {p}, !.carry = @ \ {p}]

CtfDisconnect(p) == p \in ctf.here /\ ctf' = CtfLeave(ctf, p)

\* PutClientInServer clears ctf_flag.
CtfSpawn(p) ==
  /\ p \notin ctf.alive
  /\ ctf' = [ctf EXCEPT !.here = @ \cup {p}, !.alive = @ \cup {p},
                        !.carry = @ \ {p}, !.has[p] = {}]

-----------------------------------------------------------------------------
FlagInit == ctf = CtfStart

FlagNext ==
  \/ \E t \in CtfTeam : FlagComesHome(t) \/ FlagResetOwner(t)
  \/ \E t \in CtfTeam, p \in CtfPlayer : FlagTouch(t, p)
  \/ \E p \in CtfPlayer : TossFlag(p) \/ CtfDie(p) \/ CtfDisconnect(p) \/ CtfSpawn(p)
  \/ \E r \in Rune, p \in CtfPlayer : RuneTouch(r, p)
  \/ \E p \in CtfPlayer : TossRune(p)
  \/ \E r \in Rune : RuneResetOwner(r)

FlagSpec == FlagInit /\ [][FlagNext]_ctf

-----------------------------------------------------------------------------
CtfTypeOK ==
  /\ DOMAIN ctf = DOMAIN CtfStart
  /\ ctf.alive \subseteq ctf.here /\ ctf.here \subseteq CtfPlayer /\ ctf.carry \subseteq CtfPlayer
  /\ ctf.cnt \in [CtfTeam -> {"AT_BASE", "CARRIED", "DROPPED", "RETURNED"}]
  /\ ctf.owner \in [CtfTeam -> SUBSET CtfPlayer]

(***************************************************************************)
(* Until a toss is caught before FlagResetOwner() has run, the flags and    *)
(* the players agree: a carried flag has one carrier, alive, of the other   *)
(* team, who is marked with CTF_FLAG, and nobody else is marked.            *)
(***************************************************************************)
Carrier(t) == {p \in ctf.carry : TeamNo(p) # t}
FlagHasItsCarrier ==
  ~ctf.caught =>
    /\ ctf.carry \subseteq ctf.alive
    /\ \A t \in CtfTeam :
         IF ctf.cnt[t] = "CARRIED"
         THEN ctf.owner[t] = Carrier(t) /\ Cardinality(Carrier(t)) = 1
         ELSE Carrier(t) = {}

(***************************************************************************)
(* A rune is in one place: it lies somewhere or one living player has it,   *)
(* and nobody has two.                                                      *)
(***************************************************************************)
OneOfEachRune ==
  /\ \A r \in Rune :
       ctf.lying[r] + Cardinality({p \in CtfPlayer : r \in ctf.has[p]}) = 1
  /\ \A p \in CtfPlayer : Cardinality(ctf.has[p]) <= (IF p \in ctf.alive THEN 1 ELSE 0)
=============================================================================
