------------------------------- MODULE Match -------------------------------
(***************************************************************************)
(* The life of a match on one KTX server in the standard deathmatch modes  *)
(* (duel, team, ffa): ready and break, the countdown, the last second      *)
(* before the start when the players are taken out of the world, the       *)
(* match clock, overtime and sudden death, the end of the match and the    *)
(* intermission, with everything that interferes: the idle bot, the        *)
(* admins' forcestart and forcebreak, the vote to break, clients that      *)
(* come and go, and level changes.                                         *)
(*                                                                         *)
(* The program is single threaded: the engine calls the think function of  *)
(* an entity when its nextthink has come, and the handlers of the clients' *)
(* commands in between.  An action is one such call.  The order of two     *)
(* thinks that are due is left open, as a long server frame makes several  *)
(* due at once and the engine then runs them in the order of the entities. *)
(***************************************************************************)
EXTENDS Integers, FiniteSets

CONSTANTS
  Client,       \* the client slots of the server
  Team,         \* the team names a client may set
  NoTeam,       \* the empty team name
  Admin,        \* the slots whose client has admin rights
  Mode,         \* "duel", "team" or "ffa"
  k_count,      \* length of the countdown in seconds
  k_idletime,   \* seconds the idle bot waits, 0: no idle bot
  k_lockmin,    \* least number of teams
  k_lockmax,    \* greatest number of teams
  k_membercount,\* least number of members of a team
  k_vp_break,   \* percentage of the players that must vote for a break
  k_overtime,   \* 0 none, 1 added time, 2 sudden death, 3 tie-break, 4 golden frag
  k_exttime,    \* minutes an overtime adds
  timelimit,    \* minutes, 0: no limit
  fraglimit,    \* TRUE when there is a frag limit
  Minute,       \* seconds of a minute of the match clock (60)
  ForceDelay    \* ticks of the forcestart message (10 + 1)

ASSUME ClientAssumption == IsFiniteSet(Client) /\ Admin \subseteq Client
ASSUME TeamAssumption == NoTeam \notin Team
ASSUME ModeAssumption == Mode \in {"duel", "team", "ffa"}
ASSUME LimitAssumption ==
  /\ k_count \in Nat /\ k_idletime \in Nat /\ timelimit \in Nat
  /\ k_lockmin \in Nat /\ k_lockmax \in Nat /\ k_membercount \in Nat
  /\ k_vp_break \in 51 .. 100
  /\ k_overtime \in 0 .. 4
  /\ k_exttime \in Nat \ {0}
  /\ fraglimit \in BOOLEAN
  /\ Minute \in Nat \ {0}
  /\ ForceDelay \in Nat \ {0}

VARIABLES
  ct,                   \* kind of client in a slot: "none", "player", "spec"
  team,                 \* the team in the userinfo of a slot's client
  ready,                \* is the client ready?
  brk,                  \* does the client vote for a break?
  body,                 \* is the player in the world (takedamage, solid, model)?
  match_in_progress,    \* 0 no match, 1 countdown, 2 match
  match_over,           \* the match of this level has ended
  k_sudden_death,       \* is the match in sudden death?
  timers,               \* the "timer" entities
  standby_th,           \* is a "standby_th" entity waiting to think?
  k_standby,            \* have the players been taken out of the world?
  changelevel,          \* is a "trigger_changelevel" waiting to think?
  intermission_running,
  idlebot,              \* the idle bot's seconds left, 0: there is none
  k_force,              \* an admin forces the start
  mess                  \* the "mess" entity that counts down a forced start

clientVars == <<ct, team, ready, brk, body>>
matchVars  == <<match_in_progress, match_over, k_sudden_death, timers,
                standby_th, k_standby>>
levelVars  == <<changelevel, intermission_running>>
helperVars == <<idlebot, k_force, mess>>
vars == <<clientVars, matchVars, levelVars, helperVars>>

-----------------------------------------------------------------------------
(***************************************************************************)
(* Counting, over the kinds c of the slots and the readiness r.            *)
(***************************************************************************)
AtLeast3(n) == IF n < 3 THEN 3 ELSE n

Players(c) == {p \in Client : c[p] = "player"}
RPlayers(c, r) == {p \in Players(c) : r[p]}

CountPlayers(c) == Cardinality(Players(c))
CountRPlayers(c, r) == Cardinality(RPlayers(c, r))
CountTeams(c) == Cardinality({team[p] : p \in Players(c)} \ {NoTeam})
CountRTeams(c, r) == Cardinality({team[p] : p \in RPlayers(c, r)} \ {NoTeam})

\* Every team has at least k_membercount members; no team is a team of one.
CheckMembers(c) ==
  \A p \in Players(c) :
    Cardinality({q \in Players(c) : q = p \/ (team[q] = team[p] /\ team[p] # NoTeam)})
      >= k_membercount

\* Do the players who are here allow a start?
isCanStart(c, r) ==
  CASE Mode = "duel" -> CountPlayers(c) <= 2
    [] Mode = "ffa"  -> TRUE
    [] Mode = "team" -> /\ \A p \in Players(c) : team[p] # NoTeam
                        /\ CountRTeams(c, r) \in k_lockmin .. k_lockmax
                        /\ CheckMembers(c)

\* Less than half of the players are ready, or there is nobody to play with.
TooFewReady(c, r) ==
  2 * CountRPlayers(c, r) < CountPlayers(c) \/ CountPlayers(c) < 2

Votes(c, b) == Cardinality({p \in Client : c[p] # "none" /\ b[p]})

\* get_votes_req(OV_BREAK, ...): k_vp_break percent of the players, rounded up.
BreakVotesReq(c) ==
  LET req == (k_vp_break * CountPlayers(c) + 99) \div 100
  IN IF req < 1 THEN 1 ELSE req

-----------------------------------------------------------------------------
(***************************************************************************)
(* The entities that think.                                                *)
(***************************************************************************)
Timer == [think : {"TimerStartThink", "TimerThink"}, cnt : Nat, cnt2 : Nat]

CountdownTimer ==
  [think |-> "TimerStartThink", cnt |-> 0, cnt2 |-> AtLeast3(k_count) + 1]

MatchTimer == [think |-> "TimerThink", cnt |-> timelimit, cnt2 |-> Minute]

(***************************************************************************)
(* What handlers share.  c, b and r are the kinds, the bodies and the      *)
(* readiness of the slots, and f is k_force, at the time of the call.      *)
(***************************************************************************)

\* Mutant: the test of match_over is missing.
CanStartTimerAfterEnd == match_in_progress = 0 /\ ~intermission_running

\* A countdown begins, if there is neither match nor intermission.
CanStartTimer == match_in_progress = 0 /\ ~intermission_running /\ ~match_over

StartTimer(f) ==
  IF CanStartTimer
    THEN /\ k_force' = FALSE
         /\ timers' = {CountdownTimer}
         /\ standby_th' = FALSE
         /\ match_in_progress' = 1
         /\ UNCHANGED <<match_over, k_sudden_death, k_standby>>
    ELSE k_force' = f /\ UNCHANGED matchVars

\* Mutant: the idle bot stays.
IdlebotStays == idlebot

\* StartTimer also removes the idle bot.
IdlebotOnStart == IF CanStartTimer THEN 0 ELSE idlebot

\* Mutant: the players who were taken out of the world stay out.
StopTimerLeavesGhosts(c, b) ==
  /\ k_force' = FALSE
  /\ match_in_progress' = 0
  /\ k_standby' = FALSE
  /\ body' = b
  /\ timers' = {}
  /\ standby_th' = FALSE

\* Mutant: a standby_th that waits is forgotten.
StopTimerLeavesThink(c, b) ==
  /\ k_force' = FALSE
  /\ match_in_progress' = 0
  /\ k_standby' = FALSE
  /\ body' = IF k_standby THEN [p \in Client |-> c[p] = "player" \/ b[p]] ELSE b
  /\ timers' = {}
  /\ UNCHANGED standby_th

\* A countdown or a match stops: no timer is left, and the players who were
\* taken out of the world come back.
StopTimer(c, b) ==
  /\ k_force' = FALSE
  /\ match_in_progress' = 0
  /\ k_standby' = FALSE
  /\ body' = IF k_standby THEN [p \in Client |-> c[p] = "player" \/ b[p]] ELSE b
  /\ timers' = {}
  /\ standby_th' = FALSE

\* The match is over: the level is going to change.
EndMatch(c, b, r, f) ==
  IF match_over \/ match_in_progress = 0
    THEN /\ body' = b
         /\ ready' = r
         /\ k_force' = f
         /\ UNCHANGED <<matchVars, changelevel>>
    ELSE /\ match_over' = TRUE
         /\ k_sudden_death' = FALSE
         /\ StopTimer(c, b)
         /\ ready' = IF match_in_progress = 2
                       THEN [p \in Client |-> r[p] /\ c[p] # "player"]
                       ELSE r
         /\ changelevel' = TRUE

EndMatchNow == EndMatch(ct, body, ready, k_force)

\* The idle bot after IdlebotCheck.
IdlebotCheck(c, r) ==
  CASE k_idletime = 0 \/ TooFewReady(c, r) -> 0
    [] k_idletime > 0 /\ ~TooFewReady(c, r) ->
         IF \/ match_in_progress # 0 \/ intermission_running \/ k_force
            \/ idlebot > 0 \/ ~isCanStart(c, r)
           THEN idlebot
           ELSE AtLeast3(k_idletime)

-----------------------------------------------------------------------------
(***************************************************************************)
(* Ready and break.                                                        *)
(***************************************************************************)

\* The checks of PlayerReady before the player becomes ready.
MayReady(p) ==
  /\ ct[p] = "player"
  /\ ~intermission_running /\ match_in_progress # 2 /\ ~match_over
  /\ ~ready[p]
  /\ Mode = "team" =>
       /\ team[p] # NoTeam
       /\ k_force => \E q \in RPlayers(ct, ready) : team[q] = team[p]

\* With readiness r, do all conditions for a countdown hold?
AllReady(r) ==
  /\ match_in_progress = 0 /\ isCanStart(ct, r) /\ ~k_force
  /\ RPlayers(ct, r) = Players(ct)
  /\ CountRPlayers(ct, r) >= 2

\* The idle bot after PlayerReady when the countdown does not begin.
IdlebotOnReady(r) ==
  IF /\ match_in_progress = 0 /\ isCanStart(ct, r) /\ ~k_force
     /\ RPlayers(ct, r) # Players(ct)
    THEN IdlebotCheck(ct, r)
    ELSE idlebot

PlayerReady(p) ==
  /\ MayReady(p)
  /\ LET r == [ready EXCEPT ![p] = TRUE] IN
       /\ ready' = r
       /\ IF AllReady(r)
            THEN StartTimer(k_force) /\ idlebot' = IdlebotOnStart
            ELSE /\ \/ idlebot' = IdlebotOnReady(r)   \* PlayerFastReady
                    \/ idlebot' = idlebot             \* PlayerSlowReady
                 /\ UNCHANGED <<matchVars, k_force>>
  /\ brk' = [brk EXCEPT ![p] = FALSE]
  /\ UNCHANGED <<ct, team, body, levelVars, mess>>

\* vote_check_break, with votes b: enough votes end the match.
VotesEndMatch(b) ==
  /\ match_in_progress # 0 /\ ~intermission_running /\ ~match_over
  /\ Votes(ct, b) >= BreakVotesReq(ct)

ClearBreakVotes(b) == [p \in Client |-> b[p] /\ ct[p] = "none"]

MayBreak(p) ==
  ct[p] = "player" /\ ready[p] /\ ~intermission_running /\ ~match_over

BreakReady(p) ==
  /\ MayBreak(p)
  /\ match_in_progress = 0
  /\ ready' = [ready EXCEPT ![p] = FALSE]
  /\ UNCHANGED <<ct, team, brk, body, matchVars, levelVars, helperVars>>

\* A player stops the countdown, except in its last second.
BreakCountdown(p) ==
  /\ MayBreak(p)
  /\ match_in_progress = 1
  /\ \E t \in timers : t.cnt2 > 1
  /\ ready' = [ready EXCEPT ![p] = FALSE]
  /\ StopTimer(ct, body)
  /\ UNCHANGED <<ct, team, brk, match_over, k_sudden_death, levelVars,
                 idlebot, mess>>

\* Mutant: break also votes in the last second of the countdown.
BreakVoteEarly(p) ==
  /\ MayBreak(p)
  /\ match_in_progress # 0
  /\ LET b == [brk EXCEPT ![p] = ~brk[p]] IN
       IF b[p] /\ VotesEndMatch(b)
         THEN brk' = ClearBreakVotes(b) /\ EndMatchNow
         ELSE brk' = b /\ UNCHANGED <<ready, body, matchVars, changelevel, k_force>>
  /\ UNCHANGED <<ct, team, intermission_running, idlebot, mess>>

\* In the match, break votes or takes the vote back.
BreakVote(p) ==
  /\ MayBreak(p)
  /\ match_in_progress = 2
  /\ LET b == [brk EXCEPT ![p] = ~brk[p]] IN
       IF b[p] /\ VotesEndMatch(b)
         THEN brk' = ClearBreakVotes(b) /\ EndMatchNow
         ELSE brk' = b /\ UNCHANGED <<ready, body, matchVars, changelevel, k_force>>
  /\ UNCHANGED <<ct, team, intermission_running, idlebot, mess>>

PlayerBreak(p) == BreakReady(p) \/ BreakCountdown(p) \/ BreakVote(p)

\* StartFrame counts the votes again in every frame.
VoteCheckBreak ==
  /\ VotesEndMatch(brk)
  /\ brk' = ClearBreakVotes(brk)
  /\ EndMatchNow
  /\ UNCHANGED <<ct, team, intermission_running, idlebot, mess>>

-----------------------------------------------------------------------------
(***************************************************************************)
(* The countdown and the start of the match.                               *)
(***************************************************************************)

\* The match begins: timer t becomes the match clock (and is removed when
\* there is no time limit) and every player is put into the world.
StartMatch(t) ==
  /\ k_standby' = FALSE
  /\ match_in_progress' = 2
  /\ body' = [p \in Client |-> ct[p] = "player" \/ body[p]]
  /\ timers' = (timers \ {t}) \union (IF timelimit = 0 THEN {} ELSE {MatchTimer})
  /\ UNCHANGED <<match_over, k_sudden_death, standby_th, k_force>>

\* Mutant: a countdown that does not count.
SecondLost(t) == t

Second(t) == [t EXCEPT !.cnt2 = @ - 1]

TimerStartThink(t) ==
  /\ t \in timers /\ t.think = "TimerStartThink"
  /\ IF ~isCanStart(ct, ready)
       THEN StopTimer(ct, body) /\ UNCHANGED <<match_over, k_sudden_death>>
       ELSE IF Second(t).cnt2 <= 0
         THEN StartMatch(t)
         ELSE /\ timers' = (timers \ {t}) \union {Second(t)}
              /\ standby_th' = (standby_th \/ Second(t).cnt2 = 1)
              /\ UNCHANGED <<body, match_in_progress, match_over,
                             k_sudden_death, k_standby, k_force>>
  /\ UNCHANGED <<ct, team, ready, brk, levelVars, idlebot, mess>>

\* Mutant: the think does not ask whether the countdown still runs.
HidesAlways == TRUE

HidesPlayers == match_in_progress = 1

\* 0.8 seconds after the last tick the players are taken out of the world.
StandbyThink ==
  /\ standby_th
  /\ standby_th' = FALSE
  /\ IF HidesPlayers
       THEN /\ k_standby' = TRUE
            /\ body' = [p \in Client |-> body[p] /\ ct[p] # "player"]
       ELSE UNCHANGED <<k_standby, body>>
  /\ UNCHANGED <<ct, team, ready, brk, match_in_progress, match_over,
                 k_sudden_death, timers, levelVars, helperVars>>

-----------------------------------------------------------------------------
(***************************************************************************)
(* The match clock.  Scores are not modelled here: whether the match is    *)
(* close enough for an overtime, and whether a frag decides it, is left    *)
(* open.                                                                   *)
(***************************************************************************)
OvertimeAllowed(close) ==
  /\ k_overtime # 0
  /\ close \/ k_overtime = 4
  /\ CountPlayers(ct) > 1
  /\ Mode = "team" => CountTeams(ct) = 2

\* Mutant: the minutes are not decremented.
TickForever(t) == IF t.cnt2 > 1 THEN [t EXCEPT !.cnt2 = @ - 1]
                                ELSE [t EXCEPT !.cnt2 = Minute]

\* Mutant: a minute has a second too many.
TickLate(t) == IF t.cnt2 > 0 THEN [t EXCEPT !.cnt2 = @ - 1]
                             ELSE [t EXCEPT !.cnt = @ - 1, !.cnt2 = Minute]

Tick(t) == IF t.cnt2 > 1 THEN [t EXCEPT !.cnt2 = @ - 1]
                         ELSE [t EXCEPT !.cnt = @ - 1, !.cnt2 = Minute]

Exttime(t) == [Tick(t) EXCEPT !.cnt = k_exttime, !.cnt2 = Minute]

CheckOvertime(t) ==
  \E close \in BOOLEAN :
    IF ~OvertimeAllowed(close)
      THEN EndMatchNow
      ELSE /\ timers' = IF k_overtime = 1
                          THEN (timers \ {t}) \union {Exttime(t)}
                          ELSE {}
           /\ k_sudden_death' = (k_overtime # 1)
           /\ UNCHANGED <<ready, body, match_in_progress, match_over,
                          standby_th, k_standby, changelevel, k_force>>

TimerThink(t) ==
  /\ t \in timers /\ t.think = "TimerThink"
  /\ IF Players(ct) = {}
       THEN EndMatchNow
       ELSE /\ ~k_sudden_death
            /\ IF Tick(t).cnt = 0
                 THEN CheckOvertime(t)
                 ELSE /\ timers' = (timers \ {t}) \union {Tick(t)}
                      /\ UNCHANGED <<ready, body, match_in_progress, match_over,
                                     k_sudden_death, standby_th, k_standby,
                                     changelevel, k_force>>
  /\ UNCHANGED <<ct, team, brk, intermission_running, idlebot, mess>>

\* A death in sudden death, or a frag that reaches the limit, may end it.
FragEndsMatch ==
  /\ match_in_progress # 0
  /\ k_sudden_death \/ fraglimit
  /\ Players(ct) # {}
  /\ EndMatchNow
  /\ UNCHANGED <<ct, team, brk, intermission_running, idlebot, mess>>

-----------------------------------------------------------------------------
(***************************************************************************)
(* The idle bot and the admins.                                            *)
(***************************************************************************)
EnoughReady == CountRPlayers(ct, ready) > 1

IdlebotThink ==
  /\ idlebot > 0
  /\ IF TooFewReady(ct, ready) \/ ~isCanStart(ct, ready)
       THEN idlebot' = 0 /\ UNCHANGED <<matchVars, k_force, ready, body, changelevel>>
       ELSE IF idlebot - 1 >= 1
         THEN /\ idlebot' = idlebot - 1
              /\ UNCHANGED <<matchVars, k_force, ready, body, changelevel>>
         ELSE /\ idlebot' = 0
              /\ IF EnoughReady
                   THEN StartTimer(k_force) /\ UNCHANGED <<ready, body, changelevel>>
                   ELSE EndMatchNow
  /\ UNCHANGED <<ct, team, brk, intermission_running, mess>>

\* forcestart.  A player who is not ready becomes ready first, with all that
\* PlayerReady does: when everybody is ready now, the countdown begins, and
\* the message begins all the same.
AdminForceStart(p) ==
  LET readies == ct[p] = "player" /\ ~ready[p] /\ MayReady(p)
      r == IF readies THEN [ready EXCEPT ![p] = TRUE] ELSE ready
      forces == /\ ct[p] = "spec" \/ r[p]
                /\ mess = {}
                /\ isCanStart(ct, r)
                /\ Players(ct) # {}
      starts == readies /\ AllReady(r) /\ CanStartTimer
  IN /\ p \in Admin /\ ct[p] # "none"
     /\ match_in_progress = 0 /\ ~match_over
     /\ ready' = r
     /\ brk' = IF readies THEN [brk EXCEPT ![p] = FALSE] ELSE brk
     /\ IF starts
          THEN /\ match_in_progress' = 1
               /\ timers' = {CountdownTimer}
               /\ standby_th' = FALSE
               /\ idlebot' = 0
          ELSE /\ idlebot' = IF readies THEN IdlebotOnReady(r) ELSE idlebot
               /\ UNCHANGED <<match_in_progress, timers, standby_th>>
     /\ k_force' = (forces \/ (k_force /\ ~starts))
     /\ mess' = IF forces THEN {[owner |-> p, left |-> ForceDelay]} ELSE mess
     /\ UNCHANGED <<ct, team, body, match_over, k_sudden_death, k_standby, levelVars>>

ForceInterrupted(m) ==
  \/ ct[m.owner] = "player" /\ ~ready[m.owner]
  \/ ct[m.owner] = "spec" /\ ~k_force

\* Mutant: k_force is not reset before the start.
AdminMatchStartKeepsForce ==
  IF RPlayers(ct, ready) # {}
    THEN /\ StartTimer(k_force)
         /\ idlebot' = IdlebotOnStart
         /\ UNCHANGED <<ready, body, changelevel>>
    ELSE EndMatchNow /\ UNCHANGED idlebot

\* AdminMatchStart: whoever is ready starts the countdown.
AdminMatchStart ==
  IF RPlayers(ct, ready) # {}
    THEN /\ StartTimer(FALSE)
         /\ idlebot' = IdlebotOnStart
         /\ UNCHANGED <<ready, body, changelevel>>
    ELSE EndMatch(ct, body, ready, FALSE) /\ UNCHANGED idlebot

\* Mutant: one tick too many.
LastTickLate(m) == m.left - 1 < 0

LastTick(m) == m.left - 1 <= 0

\* The message's think: it counts down to the forced start, unless its admin
\* has called it off or the players do not allow it.
ReadyThink(m) ==
  /\ m \in mess
  /\ IF ForceInterrupted(m) \/ ~isCanStart(ct, ready)
       THEN /\ mess' = mess \ {m}
            /\ k_force' = FALSE
            /\ UNCHANGED <<ready, body, matchVars, changelevel, idlebot>>
       ELSE IF ~LastTick(m)
         THEN /\ mess' = (mess \ {m}) \union {[m EXCEPT !.left = @ - 1]}
              /\ UNCHANGED <<ready, body, matchVars, changelevel, idlebot, k_force>>
         ELSE /\ mess' = mess \ {m}
              /\ AdminMatchStart
  /\ UNCHANGED <<ct, team, brk, intermission_running>>

\* forcebreak: a spectator calls off the forcestart or the countdown, and
\* every other admin ends the match.
AdminForceBreak(p) ==
  /\ p \in Admin /\ ct[p] # "none"
  /\ \/ /\ ct[p] = "spec" /\ match_in_progress = 0
        /\ k_force' = FALSE
        /\ UNCHANGED <<ready, body, matchVars, changelevel>>
     \/ /\ ct[p] = "spec" /\ match_in_progress = 1
        /\ StopTimer(ct, body)
        /\ UNCHANGED <<ready, match_over, k_sudden_death, changelevel>>
     \/ /\ match_in_progress = 2 \/ (match_in_progress = 1 /\ ct[p] = "player")
        /\ EndMatchNow
  /\ UNCHANGED <<ct, team, brk, intermission_running, idlebot, mess>>

-----------------------------------------------------------------------------
(***************************************************************************)
(* Clients come, go and change their team; the level changes.              *)
(***************************************************************************)

\* A client that connects while a countdown or a match runs is ready.  The
\* engine clears the slot before.
ClientConnect(p, tm) ==
  /\ ct[p] = "none"
  /\ ct' = [ct EXCEPT ![p] = "player"]
  /\ team' = [team EXCEPT ![p] = tm]
  /\ ready' = [ready EXCEPT ![p] = match_in_progress # 0]
  /\ brk' = [brk EXCEPT ![p] = FALSE]
  /\ body' = [body EXCEPT ![p] = ~intermission_running]
  /\ UNCHANGED <<matchVars, levelVars, helperVars>>

SpectatorConnect(p, tm) ==
  /\ ct[p] = "none"
  /\ ct' = [ct EXCEPT ![p] = "spec"]
  /\ team' = [team EXCEPT ![p] = tm]
  /\ ready' = [ready EXCEPT ![p] = FALSE]
  /\ brk' = [brk EXCEPT ![p] = FALSE]
  /\ body' = [body EXCEPT ![p] = FALSE]
  /\ UNCHANGED <<matchVars, levelVars, helperVars>>

\* A player leaves: the idle bot is checked, and the last one ends the match.
ClientDisconnect(p) ==
  /\ ct[p] = "player"
  /\ team' = [team EXCEPT ![p] = NoTeam]
  /\ LET c == [ct EXCEPT ![p] = "none"]
         b == [body EXCEPT ![p] = FALSE]
     IN /\ ct' = c
        /\ idlebot' = IF k_idletime > 0 THEN IdlebotCheck(c, ready) ELSE idlebot
        /\ IF Players(c) = {}
             THEN EndMatch(c, b, ready, k_force)
             ELSE body' = b /\ UNCHANGED <<ready, matchVars, changelevel, k_force>>
  /\ UNCHANGED <<brk, intermission_running, mess>>

SpectatorDisconnect(p) ==
  /\ ct[p] = "spec"
  /\ ct' = [ct EXCEPT ![p] = "none"]
  /\ team' = [team EXCEPT ![p] = NoTeam]
  /\ UNCHANGED <<ready, brk, body, matchVars, levelVars, helperVars>>

\* FixPlayerTeam: no change in a countdown or match, and no empty team for a
\* player who is ready.
SetTeam(p, tm) ==
  /\ ct[p] # "none"
  /\ ct[p] = "player" =>
       /\ match_in_progress = 0
       /\ ~(Mode = "team" /\ ready[p] /\ tm = NoTeam)
  /\ team' = [team EXCEPT ![p] = tm]
  /\ UNCHANGED <<ct, ready, brk, body, matchVars, levelVars, helperVars>>

\* 0.1 seconds after the end of the match the intermission begins.
ExecuteChangelevel ==
  /\ changelevel
  /\ changelevel' = FALSE
  /\ intermission_running' = TRUE
  /\ body' = [p \in Client |-> body[p] /\ ct[p] # "player"]
  /\ UNCHANGED <<ct, team, ready, brk, matchVars, helperVars>>

\* The next level: by a player in the intermission, a vote, an admin or the
\* map guard.  All entities and globals are new, and the clients connect anew.
NewLevel ==
  /\ ct' = [p \in Client |-> "none"]
  /\ ready' = [p \in Client |-> FALSE]
  /\ team' = [p \in Client |-> NoTeam]
  /\ brk' = [p \in Client |-> FALSE]
  /\ body' = [p \in Client |-> FALSE]
  /\ match_in_progress' = 0 /\ match_over' = FALSE /\ k_sudden_death' = FALSE
  /\ timers' = {} /\ standby_th' = FALSE /\ k_standby' = FALSE
  /\ changelevel' = FALSE /\ intermission_running' = FALSE
  /\ idlebot' = 0 /\ k_force' = FALSE /\ mess' = {}

-----------------------------------------------------------------------------
Init ==
  /\ ct = [p \in Client |-> "none"]
  /\ team = [p \in Client |-> NoTeam]
  /\ ready = [p \in Client |-> FALSE]
  /\ brk = [p \in Client |-> FALSE]
  /\ body = [p \in Client |-> FALSE]
  /\ match_in_progress = 0 /\ match_over = FALSE /\ k_sudden_death = FALSE
  /\ timers = {} /\ standby_th = FALSE /\ k_standby = FALSE
  /\ changelevel = FALSE /\ intermission_running = FALSE
  /\ idlebot = 0 /\ k_force = FALSE /\ mess = {}

Thinks ==
  \/ \E t \in timers : TimerStartThink(t) \/ TimerThink(t)
  \/ StandbyThink \/ IdlebotThink \/ ExecuteChangelevel
  \/ \E m \in mess : ReadyThink(m)

Commands(p) ==
  \/ PlayerReady(p) \/ PlayerBreak(p)
  \/ AdminForceStart(p) \/ AdminForceBreak(p)

Clients(p) ==
  \/ ClientDisconnect(p) \/ SpectatorDisconnect(p)
  \/ \E tm \in Team \union {NoTeam} :
       ClientConnect(p, tm) \/ SpectatorConnect(p, tm) \/ SetTeam(p, tm)

Next ==
  \/ Thinks \/ VoteCheckBreak \/ FragEndsMatch \/ NewLevel
  \/ \E p \in Client : Commands(p) \/ Clients(p)

Spec == Init /\ [][Next]_vars

\* The engine runs every think that is due, and StartFrame in every frame.
Fairness ==
  /\ WF_vars(\E t \in timers : TimerStartThink(t) \/ TimerThink(t))
  /\ WF_vars(StandbyThink) /\ WF_vars(IdlebotThink) /\ WF_vars(ExecuteChangelevel)
  /\ WF_vars(\E m \in mess : ReadyThink(m))
  /\ WF_vars(VoteCheckBreak)

FairSpec == Spec /\ Fairness

-----------------------------------------------------------------------------
(***************************************************************************)
(* Properties.                                                             *)
(***************************************************************************)

\* Every variable has its type.
TypeOK ==
  /\ ct \in [Client -> {"none", "player", "spec"}]
  /\ team \in [Client -> Team \union {NoTeam}]
  /\ ready \in [Client -> BOOLEAN]
  /\ brk \in [Client -> BOOLEAN]
  /\ body \in [Client -> BOOLEAN]
  /\ match_in_progress \in 0 .. 2
  /\ match_over \in BOOLEAN
  /\ k_sudden_death \in BOOLEAN
  /\ timers \in SUBSET Timer
  /\ standby_th \in BOOLEAN
  /\ k_standby \in BOOLEAN
  /\ changelevel \in BOOLEAN
  /\ intermission_running \in BOOLEAN
  /\ idlebot \in Nat
  /\ k_force \in BOOLEAN
  /\ mess \in SUBSET [owner : Client, left : 1 .. ForceDelay]

\* The clock that runs is the clock of the phase, and there is never a second
\* one: a countdown has the countdown's timer, a match its clock (none when
\* there is no time limit or in sudden death), and otherwise none is left
\* behind that could start or end a later match.
OneClock ==
  /\ \A t, u \in timers : t = u
  /\ match_in_progress = 0 => timers = {} /\ ~standby_th
  /\ match_in_progress = 1 =>
       timers # {} /\ \A t \in timers : t.think = "TimerStartThink"
  /\ match_in_progress = 2 =>
       /\ \A t \in timers : t.think = "TimerThink" /\ t.cnt > 0
       /\ timers = {} <=> (timelimit = 0 \/ k_sudden_death)

\* A player is out of the world only in the last second of a countdown or in
\* the intermission: whoever stops a countdown, and whenever, nobody stays
\* behind as a ghost, and no think of an old countdown hides the players of a
\* new one early.
NobodyLeftOut ==
  /\ \A p \in Players(ct) : body[p] \/ k_standby \/ intermission_running
  /\ k_standby => match_in_progress = 1 /\ \A t \in timers : t.cnt2 = 1

\* While k_force keeps the players' "ready" from starting a countdown there is
\* a message whose think will clear it.
ForceHasAMessage == k_force => mess # {}

\* When the match of a level is over nothing starts another one, neither a
\* message nor an idle bot that was on its way, and the intermission follows.
OverMeansOver ==
  match_over => match_in_progress = 0 /\ (changelevel \/ intermission_running)

\* The idle bot never waits, and kicks nobody, during a countdown or a match.
NoIdlebotInMatch == idlebot > 0 => match_in_progress = 0

\* A match begins without votes to break it: none is left from the last one
\* and none is cast in the countdown.
MatchBeginsWithoutVotes ==
  [][match_in_progress = 1 /\ match_in_progress' = 2 => Votes(ct, brk) = 0]_vars

\* The clock of a match counts its seconds: timelimit minutes, minute by
\* minute, and k_exttime minutes from its last second on when there is an
\* overtime; no other handler moves it.
Left(t) == (t.cnt - 1) * Minute + t.cnt2

ClockCountsSeconds ==
  [][\A t \in timers, u \in timers' :
       /\ match_in_progress = 1 /\ match_in_progress' = 2 => Left(u) = timelimit * Minute
       /\ match_in_progress = 2 /\ t # u =>
            \/ Left(u) = Left(t) - 1
            \/ Left(t) = 1 /\ Left(u) = k_exttime * Minute]_vars

\* A duel begins with two players.  (The comment of isCanStart says "we need
\* two players in duel", and it is asked again in every tick of the countdown.)
DuelNeedsTwoPlayers ==
  [][Mode = "duel" /\ match_in_progress = 1 /\ match_in_progress' = 2 =>
       CountPlayers(ct) = 2]_vars

\* A countdown ends: in a match, or stopped.
CountdownEnds == match_in_progress = 1 ~> match_in_progress # 1

\* A match with a time limit reaches its end or sudden death, or, where time is
\* added, its last second again and again, whatever clients come and go.
ClockRunsOut ==
  timelimit > 0 =>
    (match_in_progress = 2 ~>
       (match_in_progress = 0 \/ k_sudden_death
          \/ (k_overtime = 1 /\ \E t \in timers : Left(t) = 1)))

\* A forcestart is carried out or called off: it does not block the players
\* for ever.
ForceResolves == k_force ~> ~k_force

\* What MatchLife promises, for this server.
Phase ==
  IF match_over THEN "over"
  ELSE IF match_in_progress = 0 THEN "prewar"
  ELSE IF match_in_progress = 1 THEN "countdown"
  ELSE "match"

Clock ==
  IF timers = {} THEN "off"
  ELSE IF \E t \in timers : t.think = "TimerThink" THEN "match" ELSE "countdown"

Life == INSTANCE MatchLife WITH phase <- Phase, clock <- Clock, hidden <- k_standby

\* The server's match follows the lifecycle of MatchLife.
ImplementsLife == Life!Spec
=============================================================================
