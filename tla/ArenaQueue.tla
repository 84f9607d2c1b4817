----------------------------- MODULE ArenaQueue -----------------------------
(***************************************************************************)
(* Rocket Arena: two players fight, the winner and the challenger, while   *)
(* the others stand in line.  Who dies goes to the end of the line, the    *)
(* first in line becomes the next challenger, and ra_Frame() repairs the   *)
(* roles in every frame after players have come, gone or died.             *)
(***************************************************************************)
EXTENDS Naturals, Sequences, FiniteSets

CONSTANTS
  RaClient,      \* the clients that may play
  ReadyTime      \* bound: steps of the clock from a new challenger to FIGHT! (13 s)

ASSUME RaClientAssumption == IsFiniteSet(RaClient)
ASSUME ReadyTimeAssumption == ReadyTime \in Nat

VARIABLE ra    \* the state of the arena, a record

RaRole == {"raNone", "raQue", "raWinner", "raLoser"}

RaEmpty ==
  [here |-> {},                                \* clients that play
   que  |-> <<>>,                              \* ra_que, the line
   pt   |-> [p \in RaClient |-> "raNone"],     \* ra_pt, the part a client plays
   hurt |-> {},                                \* takedamage is DAMAGE_AIM
   dead |-> {},                                \* dead and not yet respawned
   idle |-> {},                                \* the five minutes of a break run
   fight |-> 0,                                \* ra_match_fight
   left |-> 0,                                 \* time_to_start minus the time
   match |-> 0]                                \* match_in_progress, 3 is match_over

-----------------------------------------------------------------------------
(***************************************************************************)
(* The line.  A walk over the slots finds the winner and the loser.        *)
(***************************************************************************)
Having(s, role) == {p \in s.here : s.pt[p] = role}
HasBoth(s) == Having(s, "raWinner") # {} /\ Having(s, "raLoser") # {}
Fighters(s) == Having(s, "raWinner") \cup Having(s, "raLoser")
InLine(s, p) == \E i \in 1 .. Len(s.que) : s.que[i] = p

ra_in_que(s, p) == [s EXCEPT !.que = Append(@, p), !.pt[p] = "raQue"]

\* Mutant: the last one takes the place of who leaves the line.
ra_out_queSwaps(s, p) ==
  LET i == CHOOSE j \in 1 .. Len(s.que) : s.que[j] = p
      last == Len(s.que)
  IN [s EXCEPT !.que = SubSeq([s.que EXCEPT ![i] = s.que[last]], 1, last - 1), !.pt[p] = "raNone"]

ra_out_que(s, p) ==
  LET i == CHOOSE j \in 1 .. Len(s.que) : s.que[j] = p
  IN [s EXCEPT !.que = SubSeq(@, 1, i - 1) \o SubSeq(@, i + 1, Len(@)),
               !.pt[p] = "raNone"]

\* PutClientInServer: setnowep() disarms, and forgets the end of a break.
RaPutClientInServer(s, p) ==
  [s EXCEPT !.hurt = @ \ {p}, !.dead = @ \ {p}, !.idle = @ \ {p}]

-----------------------------------------------------------------------------
(***************************************************************************)
(* Clients come, go and take a break.                                      *)
(***************************************************************************)
RaConnect(p) ==
  /\ p \notin ra.here
  /\ ra' = RaPutClientInServer(ra_in_que([ra EXCEPT !.here = @ \cup {p}], p), p)

\* Mutant: the one who stays can still be hurt.
RaLeavesAndFightGoesOn(s, p) == IF p \in Fighters(s) THEN [s EXCEPT !.fight = 0] ELSE s

\* The winner or the loser leaves: the other one is safe from now on.
RaLeaves(s, p) ==
  IF p \in Fighters(s)
  THEN [s EXCEPT !.fight = 0, !.hurt = @ \ (Fighters(s) \ {p})]
  ELSE s

RaDisconnect(p) ==
  /\ p \in ra.here
  /\ LET s == RaLeaves(ra, p)
         t == IF InLine(s, p) THEN ra_out_que(s, p) ELSE s
         gone == {p}
     IN ra' = [t EXCEPT !.pt[p] = "raNone", !.here = @ \ gone, !.hurt = @ \ gone,
                        !.dead = @ \ gone, !.idle = @ \ gone,
                        !.match = IF t.here = gone /\ @ # 0 THEN 3 ELSE @]

RaMayBreak(p) == p \in ra.here /\ p \notin Fighters(ra)

RaBreak(p) ==
  /\ RaMayBreak(p)
  /\ ra' = IF InLine(ra, p)
           THEN [ra_out_que(ra, p) EXCEPT !.idle = @ \cup {p}]
           ELSE [ra_in_que(ra, p) EXCEPT !.idle = @ \ {p}]

\* The break is over; the client is told to disconnect.
RaBreakEnds(p) ==
  /\ p \in ra.idle
  /\ ra' = [ra EXCEPT !.idle = @ \ {p}]

-----------------------------------------------------------------------------
(***************************************************************************)
(* Deaths.  Only who can be damaged dies; Killed() calls the obituary and  *)
(* then makes the victim safe.                                             *)
(***************************************************************************)
ra_ClientObituary(s, targ) ==
  LET t == [s EXCEPT !.fight = 0, !.hurt = @ \ Fighters(s)]
  IN IF HasBoth(s) /\ targ \in Fighters(s) THEN ra_in_que(t, targ) ELSE t

RaKilled(targ) ==
  /\ targ \in ra.hurt
  /\ LET s == IF ra.match = 2 THEN ra_ClientObituary(ra, targ) ELSE ra
     IN ra' = [s EXCEPT !.hurt = @ \ {targ}, !.dead = @ \cup {targ}]

\* PlayerDeathThink: in this mode the dead respawn in the next frame.
RaRespawn(p) ==
  /\ p \in ra.dead
  /\ ra' = RaPutClientInServer(ra, p)

-----------------------------------------------------------------------------
(***************************************************************************)
(* ra_Frame: fill the two parts, run the clock, FIGHT!                     *)
(***************************************************************************)
Promote(s) ==
  IF Having(s, "raWinner") = {} /\ Having(s, "raLoser") # {}
  THEN [s EXCEPT !.pt = [p \in RaClient |->
                           IF p \in Having(s, "raLoser") THEN "raWinner" ELSE @[p]]]
  ELSE s

\* Mutant: who takes the part stays in the line.
FillStaysInLine(s, role) ==
  IF Having(s, role) = {} /\ s.que # <<>>
  THEN RaPutClientInServer([s EXCEPT !.pt[Head(s.que)] = role], Head(s.que))
  ELSE s

\* The first in line takes a part nobody plays, and respawns.
Fill(s, role) ==
  IF Having(s, role) = {} /\ s.que # <<>>
  THEN LET p == Head(s.que)
       IN RaPutClientInServer([ra_out_que(s, p) EXCEPT !.pt[p] = role], p)
  ELSE s

Cast(s) ==
  IF HasBoth(s) THEN s
  ELSE Fill(Fill(Promote([s EXCEPT !.fight = 0]), "raWinner"), "raLoser")

\* Mutant: the clock starts anew in every frame.
StartClockAlways(s) == [s EXCEPT !.fight = 1, !.left = ReadyTime]

StartClock(s) == IF s.fight = 0 THEN [s EXCEPT !.fight = 1, !.left = ReadyTime] ELSE s

Fight(s) ==
  IF s.left = 0 THEN [s EXCEPT !.fight = 2, !.hurt = @ \cup Fighters(s)] ELSE s

RaFrameOf(s) ==
  LET t == Cast(s)
  IN IF ~HasBoth(t) \/ t.fight = 2 \/ t.match # 2 THEN t ELSE Fight(StartClock(t))

\* match_over stops the frames.
RaFrame == ra.match # 3 /\ \E next \in {RaFrameOf(ra)} : next # ra /\ ra' = next

RaTime == ra.left > 0 /\ ra' = [ra EXCEPT !.left = @ - 1]

-----------------------------------------------------------------------------
(***************************************************************************)
(* The match around the fights (module Match has its details): countdown,  *)
(* match, the end, and the next level, where the clients connect anew.     *)
(***************************************************************************)
RaMatchStep ==
  \/ ra.match = 0 /\ ra.here # {} /\ ra' = [ra EXCEPT !.match = 1]
  \/ ra.match = 1 /\ ra' = [ra EXCEPT !.match = 2]
  \/ ra.match = 1 /\ ra' = [ra EXCEPT !.match = 0]
  \/ ra.match \in {1, 2} /\ ra' = [ra EXCEPT !.match = 3]
  \/ ra.match = 3 /\ ra' = RaEmpty

ArenaInit == ra = RaEmpty

ArenaClients ==
  \E p \in RaClient : RaConnect(p) \/ RaDisconnect(p) \/ RaBreak(p) \/ RaBreakEnds(p)

ArenaNext ==
  \/ ArenaClients
  \/ \E p \in RaClient : RaKilled(p) \/ RaRespawn(p)
  \/ RaFrame \/ RaTime
  \/ RaMatchStep

\* The engine runs every frame; nothing makes a client or a match do anything.
ArenaFair ==
  /\ WF_ra(RaFrame)
  /\ WF_ra(RaTime)

ArenaSafety == ArenaInit /\ [][ArenaNext]_ra
ArenaSpec == ArenaSafety /\ ArenaFair

-----------------------------------------------------------------------------
ArenaTypeOK ==
  /\ DOMAIN ra = DOMAIN RaEmpty
  /\ ra.here \subseteq RaClient /\ ra.hurt \subseteq RaClient
  /\ ra.dead \subseteq RaClient /\ ra.idle \subseteq RaClient
  /\ ra.que \in Seq(RaClient)
  /\ ra.pt \in [RaClient -> RaRole]
  /\ ra.fight \in 0 .. 2 /\ ra.left \in 0 .. ReadyTime /\ ra.match \in 0 .. 3

(***************************************************************************)
(* Everybody has one place: the line holds exactly the clients marked      *)
(* raQue, each of them once, nobody who has left, and at most one client   *)
(* has either part.  So ra_in_que() never finds the line full and          *)
(* ra_out_que() always finds its client (both stop the server otherwise).  *)
(***************************************************************************)
OnePlaceEach ==
  /\ {ra.que[i] : i \in 1 .. Len(ra.que)} = {p \in RaClient : ra.pt[p] = "raQue"}
  /\ \A i, j \in 1 .. Len(ra.que) : ra.que[i] = ra.que[j] => i = j
  /\ \A p \in RaClient : ra.pt[p] # "raNone" => p \in ra.here
  /\ \A role \in {"raWinner", "raLoser"} : Cardinality(Having(ra, role)) <= 1

(***************************************************************************)
(* Only the two who fight can be damaged, and only while both are there    *)
(* and alive: the obituary never meets its "BUG" branches, and a player in *)
(* line is never hit.                                                      *)
(***************************************************************************)
OnlyFightersBleed ==
  ra.match # 3 =>
    /\ ra.hurt # {} => ra.fight = 2
    /\ ra.fight = 2 => HasBoth(ra) /\ ra.hurt = Fighters(ra) /\ ra.dead \cap Fighters(ra) = {}

(***************************************************************************)
(* The line is fair: of two who stand in line the one behind never gets    *)
(* ahead, and a part is never given to anybody but the first in line or    *)
(* the challenger who is promoted.                                         *)
(***************************************************************************)
Behind(s, p, q) == \E i, j \in 1 .. Len(s.que) : i < j /\ s.que[i] = p /\ s.que[j] = q
LineKeepsOrder ==
  [][ \A p, q \in {ra.que[i] : i \in 1 .. Len(ra.que)} :
        Behind(ra, p, q) => /\ ~Behind(ra', q, p)
                            /\ q \in Fighters(ra') => p \notin ra'.here \/ ra'.pt[p] # "raQue" ]_ra

(***************************************************************************)
(* As long as the match goes on, two players have places and nobody leaves *)
(* a part, there is a next fight.                                          *)
(***************************************************************************)
CanFight == ra.match = 2 /\ Len(ra.que) + Cardinality(Fighters(ra)) >= 2
FightersLeave == \E p \in RaClient : p \in Fighters(ra) /\ RaDisconnect(p)
AFightFollows == <>[]CanFight => []<>(ra.fight = 2) \/ []<><<FightersLeave>>_ra
=============================================================================
