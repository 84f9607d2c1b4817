------------------------------ MODULE Election ------------------------------
(***************************************************************************)
(* Elections on a KTX server before a team match: a client asks to become  *)
(* admin or captain, the players vote, the election passes, is given up or *)
(* times out.  Two captains then pick the free players in turn, each       *)
(* player being called by the number shown as his frags.                   *)
(*                                                                         *)
(* The handlers call each other (a vote elects, an elected captain begins  *)
(* the picking, which may cancel the captains, which aborts the election), *)
(* so each function of the code is an operator from the state s before it  *)
(* to the state after it, and an action composes them in the code's order. *)
(***************************************************************************)
EXTENDS Integers, FiniteSets

CONSTANTS
  MaxClients,     \* number of slots; find_plr() walks them in ascending order
  Viewers,        \* slots of the clients that connect as spectators
  TeamSetters,    \* bound: the clients that ever set a team, as a captain must
  AdminSeekers,   \* bound: the clients that ask for admin rights
  Codes,          \* those of them that have the admin code or are VIPs
  Fast,           \* clients who show their speed as frags, and run fast (KF_SPEED)
  Team,           \* the team names a client may set
  NoTeam,         \* the empty team name
  isCA,           \* the mode is clan arena, where teams are set freely
  k_vp_admin,     \* percentage of the players an admin needs
  k_vp_captain    \* percentage of the players a captain needs

Client == 1 .. MaxClients

ASSUME SlotAssumption ==
  /\ MaxClients \in Nat
  /\ Viewers \subseteq Client /\ TeamSetters \subseteq Client /\ AdminSeekers \subseteq Client
  /\ Codes \subseteq AdminSeekers /\ Fast \subseteq Client
ASSUME NoTeamAssumption == NoTeam \notin Team
ASSUME ModeAssumption == isCA \in BOOLEAN
ASSUME PercentAssumption == k_vp_admin \in 51 .. 100 /\ k_vp_captain \in 51 .. 100

VARIABLE g    \* the part of the game's state the elections work on, a record

vars == g

Captains == 0 .. 2
Idle == [p \in Client |-> "none"]
Teams(p) == IF p \in TeamSetters THEN Team \cup {NoTeam} ELSE {NoTeam}
Zero == [p \in Client |-> 0]
Off  == [p \in Client |-> FALSE]

\* What a level starts with.
Empty ==
  [ct         |-> Idle,    \* kind of client in the slot: "none", "player", "spec"
   team       |-> [p \in Client |-> NoTeam],
   k_admin    |-> Off,
   elect      |-> Off,     \* v.elect, the vote for the election
   elect_type |-> Idle,    \* v.elect_type, what the client wants to become
   blocked    |-> Off,     \* v.elect_block_till is still to come
   k_captain  |-> Zero,    \* 1 or 2: the client is this captain
   k_picked   |-> Zero,    \* 1 or 2: this captain has picked the client
   frags      |-> Zero,    \* the number of a free player
   guards     |-> 0,       \* the "electguard" entities
   k_captains |-> 0,       \* in halves: 2 for a captain, 1 for a candidate
   k_captainturn |-> 1,
   turn_number |-> 0,      \* saturates at 2, only "the second pick" matters
   lead       |-> 0,       \* auxiliary: picks of captain 1 minus picks of captain 2
   match      |-> FALSE]   \* match_in_progress: countdown or match

-----------------------------------------------------------------------------
(***************************************************************************)
(* Walks over the clients.                                                 *)
(***************************************************************************)
Clients(s) == {p \in Client : s.ct[p] # "none"}
Players(s) == {p \in Client : s.ct[p] = "player"}
CountPlayers(s) == Cardinality(Players(s))
FreePlayers(s) == {p \in Players(s) : s.frags[p] # 0}

First(S) == CHOOSE p \in S : \A q \in S : p <= q

Candidates(s) == {p \in Clients(s) : s.elect_type[p] # "none"}
CaptainsOf(s) == {p \in Players(s) : s.k_captain[p] # 0}
InTurn(s) == {p \in Players(s) : s.k_captain[p] = s.k_captainturn}

Votes(s) == Cardinality({p \in Clients(s) : s.elect[p]})

\* get_votes_req(OV_ELECT, ...): nobody elects himself alone.
VotesReq(s) ==
  LET types   == {s.elect_type[p] : p \in Candidates(s)}
      percent == CASE "admin" \in types   -> k_vp_admin
                   [] "captain" \in types -> k_vp_captain
                   [] OTHER               -> 100
      req     == (percent * CountPlayers(s) + 99) \div 100
  IN IF req < 2 THEN 2 ELSE req

-----------------------------------------------------------------------------
(***************************************************************************)
(* Elections and captains.                                                 *)
(***************************************************************************)
Floor(n) == n - (n % 2)

\* Mutant: a candidate's half stays in k_captains.
AbortElectKeepsHalf(s) ==
  [s EXCEPT !.elect_type = [p \in Client |-> IF p \in Clients(s) THEN "none" ELSE s.elect_type[p]],
            !.blocked = [p \in Client |-> s.blocked[p] \/ p \in Candidates(s)],
            !.elect = [p \in Client |-> s.elect[p] /\ p \notin Clients(s)],
            !.guards = 0]

AbortElect(s) ==
  [s EXCEPT !.k_captains = IF \E p \in Clients(s) : s.elect_type[p] = "captain"
                           THEN Floor(@) ELSE @,
            !.elect_type = [p \in Client |-> IF p \in Clients(s) THEN "none" ELSE s.elect_type[p]],
            !.blocked = [p \in Client |-> s.blocked[p] \/ p \in Candidates(s)],
            !.elect = [p \in Client |-> s.elect[p] /\ p \notin Clients(s)],
            !.guards = 0]

CancelCaptains(s) ==
  LET t == [s EXCEPT !.k_captains = 0,
                     !.k_captain = [p \in Client |-> IF p \in Players(s) THEN 0 ELSE s.k_captain[p]],
                     !.k_picked = [p \in Client |-> IF p \in Players(s) THEN 0 ELSE s.k_picked[p]]]
  IN IF \E p \in Players(s) : s.elect_type[p] = "captain" THEN AbortElect(t) ELSE t

\* Mutant: the turn stays after the first pick, not after the second.
SetPlayerParamsEarly(s, p, cap) ==
  [s EXCEPT !.k_captainturn = IF s.turn_number # 0 THEN 3 - @ ELSE @,
            !.turn_number = IF @ < 2 THEN @ + 1 ELSE @,
            !.lead = IF s.k_captain[cap] = 1 THEN @ + 1 ELSE @ - 1,
            !.frags[p] = 0,
            !.k_picked[p] = s.k_captain[cap]]

\* Captain cap gets player p; the turn changes except after the second pick.
SetPlayerParams(s, p, cap) ==
  [s EXCEPT !.k_captainturn = IF s.turn_number # 1 THEN 3 - @ ELSE @,
            !.turn_number = IF @ < 2 THEN @ + 1 ELSE @,
            !.lead = IF s.k_captain[cap] = 1 THEN @ + 1 ELSE @ - 1,
            !.frags[p] = 0,
            !.k_picked[p] = s.k_captain[cap]]

PrintCaptainInTurn(s) == IF InTurn(s) = {} THEN CancelCaptains(s) ELSE s

\* The last free player goes to the captain in turn.
CheckFinishCaptain(s) ==
  LET free == FreePlayers(s)
      last == IF InTurn(s) = {} THEN s
              ELSE SetPlayerParams(s, First(free), First(InTurn(s)))
  IN CASE Cardinality(free) > 1 -> s
       [] Cardinality(free) = 1 -> CancelCaptains(last)
       [] OTHER                 -> CancelCaptains(s)

BeginPicking(s, turn) ==
  LET free == Players(s) \ CaptainsOf(s)
      number(p) == Cardinality({q \in free : q <= p})
  IN IF CountPlayers(s) < 3
     THEN CancelCaptains(s)
     ELSE PrintCaptainInTurn(
            [s EXCEPT !.k_picked = [p \in Client |-> IF p \in Players(s) THEN 0 ELSE s.k_picked[p]],
                      !.frags = [p \in Client |-> IF p \in free THEN number(p) ELSE s.frags[p]],
                      !.turn_number = 0,
                      !.lead = 0,
                      !.k_captainturn = turn])

\* Mutant: the number is the count of the captains, not the one that is not taken.
BecomeCaptainByCount(s, p, turn) ==
  LET t == [s EXCEPT !.k_captain[p] = 1 + Cardinality(CaptainsOf(s)),
                     !.k_captains = Floor(@) + 2]
  IN IF t.k_captains = 4 THEN BeginPicking(t, turn) ELSE t

BecomeCaptain(s, p, turn) ==
  LET taken == CaptainsOf(s) # {} /\ s.k_captain[First(CaptainsOf(s))] = 1
      t == [s EXCEPT !.k_captain[p] = IF taken THEN 2 ELSE 1,
                     !.k_captains = Floor(@) + 2]
  IN IF t.k_captains = 4 THEN BeginPicking(t, turn) ELSE t

\* The rights, and with them a clear of everything in v: votes, candidacy, block.
BecomeAdmin(s, p) ==
  [s EXCEPT !.k_admin[p] = TRUE, !.elect[p] = FALSE,
            !.elect_type[p] = "none", !.blocked[p] = FALSE]

\* Mutant: the test that p is a captain is missing.
ExitCaptainAlways(s, p) ==
  [s EXCEPT !.k_captain[p] = 0, !.k_captains = @ - 2]

ExitCaptain(s, p) ==
  IF s.k_captain[p] = 0 THEN s
  ELSE [s EXCEPT !.k_captain[p] = 0,
                 !.frags = IF s.k_captains = 4
                           THEN [q \in Client |-> IF q \in Players(s) THEN 0 ELSE s.frags[q]]
                           ELSE @,
                 !.k_captains = @ - 2]

\* Mutant: a captain may be elected in a countdown or match.
vote_check_electInMatch(s, turn) ==
  LET p == First(Candidates(s))
      elected ==
        IF Candidates(s) = {} THEN s
        ELSE IF s.elect_type[p] = "admin" THEN BecomeAdmin(s, p)
        ELSE BecomeCaptain(s, p, turn)
  IN IF Votes(s) < VotesReq(s) THEN s ELSE AbortElect(elected)

\* The election passes when it has its votes, with no effect if it is too late.
vote_check_elect(s, turn) ==
  LET p == First(Candidates(s))
      elected ==
        IF Candidates(s) = {} THEN s
        ELSE CASE s.elect_type[p] = "admin" /\ ~(s.ct[p] = "spec" /\ s.match) -> BecomeAdmin(s, p)
               [] s.elect_type[p] = "captain" /\ ~s.match -> BecomeCaptain(s, p, turn)
               [] OTHER -> s
  IN IF Votes(s) < VotesReq(s) THEN s ELSE AbortElect(elected)

\* Mutant: no guard entity is spawned.
AnnounceUnguarded(s, p, type) ==
  [s EXCEPT !.elect[p] = TRUE, !.elect_type[p] = type]

\* A candidacy: the client's own vote and a minute to find the others.
Announce(s, p, type) ==
  [s EXCEPT !.elect[p] = TRUE, !.elect_type[p] = type, !.guards = @ + 1]

-----------------------------------------------------------------------------
(***************************************************************************)
(* The commands.                                                           *)
(***************************************************************************)
AbortElection(p, type) ==
  /\ g.elect_type[p] = type
  /\ g' = AbortElect(g)

ResignCaptain(p) ==
  /\ p \in CaptainsOf(g)
  /\ g.elect_type[p] # "captain"
  /\ g' = ExitCaptain(g, p)

\* May p stand as captain?  Another captain must have another team.
MayStand(p) ==
  /\ g.elect_type[p] # "captain" /\ g.k_captain[p] = 0
  /\ ~g.match
  /\ CountPlayers(g) >= 3
  /\ g.k_captains # 4
  /\ Votes(g) = 0
  /\ ~g.blocked[p]
  /\ g.team[p] # NoTeam
  /\ CaptainsOf(g) # {} => g.team[First(CaptainsOf(g))] # g.team[p]

StandAsCaptain(p) ==
  /\ MayStand(p)
  /\ g' = [Announce(g, p, "captain") EXCEPT !.k_captains = @ + 1]

\* "captain"
VoteCaptain(p) ==
  /\ p \in Players(g)
  /\ AbortElection(p, "captain") \/ ResignCaptain(p) \/ StandAsCaptain(p)

\* Mutant: the test that there is no election is missing.
StandAsAdminAnyway(p) ==
  /\ g.elect_type[p] # "admin"
  /\ ~g.blocked[p]
  /\ ~(g.ct[p] = "spec" /\ g.match)
  /\ g' = Announce(g, p, "admin")

StandAsAdmin(p) ==
  /\ g.elect_type[p] # "admin"
  /\ Votes(g) = 0
  /\ ~g.blocked[p]
  /\ ~(g.ct[p] = "spec" /\ g.match)
  /\ g' = Announce(g, p, "admin")

\* "elect"
VoteAdmin(p) ==
  /\ p \in Clients(g) \cap AdminSeekers
  /\ ~g.k_admin[p]
  /\ AbortElection(p, "admin") \/ StandAsAdmin(p)

\* "admin", by an admin: he gives the rights up.
GiveUpAdmin(p) ==
  /\ g.k_admin[p]
  /\ g' = [g EXCEPT !.k_admin[p] = FALSE]

\* "admin", by a VIP or with the code, at once or by its last digit (AdminImpBot).
AdminByCode(p) ==
  /\ ~g.k_admin[p]
  /\ p \in Codes
  /\ g' = BecomeAdmin(g, p)

ReqAdmin(p) ==
  /\ p \in Clients(g) \cap AdminSeekers
  /\ g.elect_type[p] # "admin"
  /\ GiveUpAdmin(p) \/ AdminByCode(p)

\* "yes"
VoteYes(p, turn) ==
  /\ p \in Players(g)
  /\ Votes(g) # 0 /\ g.elect_type[p] = "none" /\ ~g.elect[p]
  /\ g' = vote_check_elect([g EXCEPT !.elect[p] = TRUE], turn)

\* "no"
VoteNo(p, turn) ==
  /\ p \in Players(g)
  /\ g.elect_type[p] = "none" /\ g.elect[p]
  /\ g' = vote_check_elect([g EXCEPT !.elect[p] = FALSE], turn)

\* A captain's impulse: the first player whose frags show that number.
CaptainPickPlayer(p) ==
  /\ p \in Players(g)
  /\ g.k_captains = 4 /\ g.k_captain[p] = g.k_captainturn
  /\ \E impulse \in Client :
       LET named == {q \in Players(g) : g.frags[q] = impulse}
           t == CheckFinishCaptain(SetPlayerParams(g, First(named), p))
       IN /\ named # {}
          /\ g' = IF t.k_captains # 0 THEN PrintCaptainInTurn(t) ELSE t

\* May p set the team t?  In clan arena the function returns before it asks about
\* captains.  There only who is in the line-up (ca_ready, not modelled here) keeps
\* his team in a match.
FixPlayerTeam(p, t) ==
  isCA \/ (/\ ~g.match
           /\ g.k_captain[p] = 0 /\ g.elect_type[p] # "captain"
           /\ g.k_captains = 4 =>
                t = IF g.k_picked[p] = 0 THEN NoTeam
                    ELSE g.team[CHOOSE c \in CaptainsOf(g) : g.k_captain[c] = g.k_picked[p]])

SetTeam(p, t) ==
  /\ p \in Players(g)
  /\ FixPlayerTeam(p, t)
  /\ g' = [g EXCEPT !.team[p] = t]

Commands ==
  \E p \in Client :
    \/ VoteCaptain(p)
    \/ VoteAdmin(p)
    \/ ReqAdmin(p)
    \/ \E turn \in {1, 2} : VoteYes(p, turn) \/ VoteNo(p, turn)
    \/ CaptainPickPlayer(p)
    \/ \E t \in Teams(p) : SetTeam(p, t)

-----------------------------------------------------------------------------
(***************************************************************************)
(* Clients that come and go.  The engine hands out a cleared slot.         *)
(***************************************************************************)
\* Mutant: a client who connects gets the number after the last free player's.
FreeNumberByCount(s) == Cardinality(FreePlayers(s)) + 1

FreeNumber(s) ==
  First({i \in 1 .. MaxClients + 1 : \A q \in Players(s) : s.frags[q] # i})

Connect(p, t) ==
  /\ g.ct[p] = "none"
  /\ g' = [g EXCEPT
       !.ct[p] = IF p \in Viewers THEN "spec" ELSE "player",
       !.team[p] = t,
       !.k_admin[p] = FALSE, !.elect[p] = FALSE,
       !.elect_type[p] = "none", !.blocked[p] = FALSE,
       !.k_captain[p] = 0, !.k_picked[p] = 0,
       !.frags[p] = IF g.k_captains = 4 /\ p \notin Viewers THEN FreeNumber(g) ELSE 0]

\* What is left of the slot once the client is gone.
Vacate(s, p) ==
  [s EXCEPT !.ct[p] = "none", !.team[p] = NoTeam, !.k_admin[p] = FALSE,
            !.elect[p] = FALSE, !.blocked[p] = FALSE,
            !.k_captain[p] = 0, !.k_picked[p] = 0, !.frags[p] = 0]

ClientDisconnect(p) ==
  LET a == IF g.elect_type[p] # "none" THEN AbortElect(g) ELSE g
      b == Vacate(ExitCaptain([a EXCEPT !.ct[p] = "none"], p), p)
  IN /\ p \in Players(g)
     /\ g' = IF b.k_captains = 4 THEN CheckFinishCaptain(b) ELSE b

SpectatorDisconnect(p) ==
  /\ g.ct[p] = "spec"
  /\ g' = Vacate(IF g.elect_type[p] # "none" THEN AbortElect(g) ELSE g, p)

-----------------------------------------------------------------------------
(***************************************************************************)
(* Time and the match.                                                     *)
(***************************************************************************)
ElectThink ==
  /\ g.guards > 0
  /\ g' = AbortElect(g)

\* The votes are counted again in every frame, as players leave.
VoteFrame ==
  /\ Votes(g) >= VotesReq(g)
  /\ \E turn \in {1, 2} : g' = vote_check_elect(g, turn)

BlockEnds(p) ==
  /\ g.blocked[p]
  /\ g' = [g EXCEPT !.blocked[p] = FALSE]

\* Before a match without captains the frags show nothing, or the speed; in clan
\* arena they are left alone but for the speed.
PlayerPostThink(p) ==
  /\ p \in Players(g)
  /\ ~g.match /\ g.k_captains = 0
  /\ isCA => p \in Fast
  /\ \E n \in IF p \in Fast THEN {0, 1} ELSE {0} : g' = [g EXCEPT !.frags[p] = n]

\* A countdown begins.  While players without a team wait to be picked it cannot
\* become a match (isCanStart), and it is not modelled then; in clan arena they can
\* set one themselves, and it is modelled whether they have or not.
MatchStarts ==
  /\ ~g.match
  /\ g.k_captains = 4 => isCA
  /\ g' = [g EXCEPT !.match = TRUE]

\* In a match the frags are the score, which matters here while captains pick; they
\* do so in a match in clan arena only (MatchStarts).
Score(p) ==
  /\ isCA /\ g.match /\ g.k_captains = 4
  /\ p \in Players(g)
  /\ \E n \in {0, 1} : g' = [g EXCEPT !.frags[p] = n]

MatchStops ==
  /\ g.match
  /\ g' = [g EXCEPT !.match = FALSE]

NewLevel ==
  /\ g.match
  /\ g' = Empty

Engine ==
  \/ ElectThink \/ VoteFrame \/ MatchStarts \/ MatchStops \/ NewLevel
  \/ \E p \in Client :
       \/ BlockEnds(p) \/ PlayerPostThink(p) \/ Score(p)
       \/ ClientDisconnect(p) \/ SpectatorDisconnect(p)
       \/ \E t \in Teams(p) : Connect(p, t)

Init == g = Empty
Next == Commands \/ Engine
Spec == Init /\ [][Next]_vars

\* The engine runs the think of an electguard when its minute is over.
FairSpec == Spec /\ WF_vars(ElectThink)

-----------------------------------------------------------------------------
(***************************************************************************)
(* Properties.                                                             *)
(***************************************************************************)
\* The fields of the record keep their types.
TypeOK ==
  g \in [ct : [Client -> {"none", "player", "spec"}],
         team : [Client -> Team \cup {NoTeam}],
         k_admin : [Client -> BOOLEAN], elect : [Client -> BOOLEAN],
         elect_type : [Client -> {"none", "admin", "captain"}],
         blocked : [Client -> BOOLEAN],
         k_captain : [Client -> Captains], k_picked : [Client -> Captains],
         frags : [Client -> Nat], guards : Nat, k_captains : 0 .. 4,
         k_captainturn : {1, 2}, turn_number : 0 .. 2, lead : Int, match : BOOLEAN]

\* One elected captain is worth 1 and a player being elected 0.5 (captain.c:24-25),
\* whatever ends an election or takes a captain away.
CaptainsWorth ==
  g.k_captains = 2 * Cardinality(CaptainsOf(g))
                 + Cardinality({p \in Players(g) : g.elect_type[p] = "captain"})

\* There is one election at a time, with votes and one guard that ends it; without
\* an election nothing is left that could end or pass the next one.
OneElection ==
  /\ g.guards = Cardinality(Candidates(g))
  /\ g.guards <= 1
  /\ g.guards = 0 <=> Votes(g) = 0

\* Picking goes on between two captains with different numbers, so that the captain
\* in turn is always somebody (BecomeCaptain, captain.c:410), and of different teams.
\* In clan arena only the numbers are claimed: a captain may take the other's team
\* there (g_userinfo.c:402), although VoteCaptain refuses a second captain of a team.
PickingHasTwoCaptains ==
  g.k_captains = 4 => \E c, d \in Players(g) :
    /\ g.k_captain[c] = 1 /\ g.k_captain[d] = 2
    /\ isCA \/ g.team[c] # g.team[d]

\* While picking goes on somebody is free, the numbers name exactly the players who
\* are neither captain nor picked, and each number names one of them, although
\* players leave, connect and are picked (CheckFinishCaptain counts by them).  Not
\* claimed of clan arena, where a match may begin meanwhile and frags be scored.
NumbersNameTheFree ==
  g.k_captains = 4 /\ ~isCA =>
    /\ FreePlayers(g) # {}
    /\ FreePlayers(g) = {p \in Players(g) : g.k_captain[p] = 0 /\ g.k_picked[p] = 0}
    /\ \A p, q \in FreePlayers(g) : g.frags[p] = g.frags[q] => p = q

\* Turns go c1 c2 c2 c1 c2 c1 ... (captain.c:51): no captain is ever more than one
\* pick ahead, whoever begins and whoever comes or leaves.
PicksAreFair == g.lead \in -1 .. 1

\* Nobody becomes captain but a candidate with the votes of the majority and never
\* when a countdown or match is on (vote_check_elect, vote.c:651).
MajorityElects ==
  [][\A p \in Client :
       (g.k_captain[p] = 0 /\ g'.k_captain[p] # 0) =>
         /\ g.elect_type[p] = "captain" /\ ~g.match
         /\ Votes(g) + 1 >= VotesReq(g)
         /\ Votes(g) >= 1]_vars

\* Every election ends, also one nobody votes in any more (ElectThink, vote.c:77).
ElectionsEnd == Candidates(g) # {} ~> Candidates(g) = {}
=============================================================================
