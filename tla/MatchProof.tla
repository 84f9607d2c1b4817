----------------------------- MODULE MatchProof -----------------------------
(***************************************************************************)
(* Proofs that Match keeps its types and its safety invariants, that it    *)
(* implements MatchLife, that a match begins without votes to break it and *)
(* that its clock counts seconds, for every set of clients and teams, every *)
(* mode and every setting.                                                 *)
(***************************************************************************)
EXTENDS Match, FiniteSetTheorems, TLAPS

\* Sudden death belongs to a running match.
SuddenDeathInMatch == k_sudden_death => match_in_progress = 2

\* A standby_th that waits in a countdown was spawned by its last tick.
StandbyInLastSecond ==
  standby_th /\ match_in_progress = 1 => \A t \in timers : t.cnt2 = 1

\* The invariants of the runs, with the two facts that make them inductive.
Inv ==
  /\ TypeOK
  /\ OneClock
  /\ NobodyLeftOut
  /\ ForceHasAMessage
  /\ OverMeansOver
  /\ NoIdlebotInMatch
  /\ SuddenDeathInMatch
  /\ StandbyInLastSecond

Kind == {"none", "player", "spec"}
(***************************************************************************)
(* What the shared effects leave behind.                                   *)
(***************************************************************************)

\* The two timers that are spawned have the type of a timer.
LEMMA TimersTyped ==
  /\ CountdownTimer \in Timer
  /\ timelimit # 0 => MatchTimer \in Timer /\ MatchTimer.cnt > 0
BY LimitAssumption DEF CountdownTimer, MatchTimer, Timer, AtLeast3

\* After StopTimer (match.c) no clock runs, no think waits, and every player
\* is in the world, unless the intermission runs.
LEMMA StopTimerStops ==
  ASSUME Inv,
         NEW c \in [Client -> Kind], NEW b \in [Client -> BOOLEAN],
         \A p \in Client : c[p] = "player" => ct[p] = "player" /\ b[p] = body[p],
         StopTimer(c, b)
  PROVE  /\ match_in_progress' = 0
         /\ timers' = {}
         /\ ~standby_th' /\ ~k_standby' /\ ~k_force'
         /\ standby_th' \in BOOLEAN /\ k_standby' \in BOOLEAN /\ k_force' \in BOOLEAN
         /\ body' \in [Client -> BOOLEAN]
         /\ \A p \in Players(c) : body'[p] \/ intermission_running
BY DEF Inv, TypeOK, NobodyLeftOut, StopTimer, Players, Kind

\* EndMatch (match.c) either does nothing or leaves a server whose match is
\* over, with no clock and nobody out of the world.
LEMMA EndMatchEnds ==
  ASSUME Inv,
         NEW c \in [Client -> Kind], NEW b \in [Client -> BOOLEAN],
         NEW f \in BOOLEAN,
         \A p \in Client : c[p] = "player" => ct[p] = "player" /\ b[p] = body[p],
         EndMatch(c, b, ready, f),
         ct' = c, UNCHANGED intermission_running
  PROVE  /\ ready' \in [Client -> BOOLEAN]
         /\ body' \in [Client -> BOOLEAN]
         /\ match_in_progress' = 0
         /\ match_over' \in BOOLEAN /\ k_sudden_death' \in BOOLEAN
         /\ timers' = {}
         /\ standby_th' \in BOOLEAN /\ k_standby' \in BOOLEAN
         /\ changelevel' \in BOOLEAN /\ k_force' \in BOOLEAN
         /\ k_force' => f
         /\ OneClock'
         /\ NobodyLeftOut'
         /\ OverMeansOver'
         /\ SuddenDeathInMatch'
         /\ StandbyInLastSecond'
<1>1. CASE match_over \/ match_in_progress = 0
  <2>1. match_in_progress = 0 /\ timers = {} /\ ~standby_th
    BY <1>1 DEF Inv, OneClock, OverMeansOver
  <2>2. /\ body' = b /\ ready' = ready /\ k_force' = f
        /\ UNCHANGED <<matchVars, changelevel>>
    BY <1>1 DEF EndMatch
  <2>3. /\ OneClock' /\ OverMeansOver' /\ SuddenDeathInMatch'
        /\ StandbyInLastSecond'
    BY <2>1, <2>2 DEF Inv, matchVars, OneClock, OverMeansOver, SuddenDeathInMatch,
       StandbyInLastSecond
  <2>4. NobodyLeftOut'
    BY <2>1, <2>2 DEF Inv, matchVars, NobodyLeftOut, Players
  <2>5. QED
    BY <2>1, <2>2, <2>3, <2>4 DEF Inv, TypeOK, matchVars
<1>2. CASE ~(match_over \/ match_in_progress = 0)
  <2>1. /\ match_over' = TRUE /\ k_sudden_death' = FALSE /\ changelevel' = TRUE
        /\ StopTimer(c, b)
        /\ ready' \in [Client -> BOOLEAN]
    BY <1>2 DEF EndMatch, Inv, TypeOK
  <2>2. /\ match_in_progress' = 0
        /\ timers' = {}
        /\ ~standby_th' /\ ~k_standby' /\ ~k_force'
        /\ standby_th' \in BOOLEAN /\ k_standby' \in BOOLEAN /\ k_force' \in BOOLEAN
        /\ body' \in [Client -> BOOLEAN]
        /\ \A p \in Players(c) : body'[p] \/ intermission_running
    BY <2>1, StopTimerStops
  <2>3. OneClock' /\ OverMeansOver' /\ SuddenDeathInMatch' /\ StandbyInLastSecond'
    BY <2>1, <2>2 DEF OneClock, OverMeansOver, SuddenDeathInMatch, StandbyInLastSecond
  <2>4. NobodyLeftOut'
    BY <2>2 DEF NobodyLeftOut, Players
  <2>5. match_over' \in BOOLEAN /\ k_sudden_death' \in BOOLEAN /\ changelevel' \in BOOLEAN
    BY <2>1
  <2>6. k_force' => f
    BY <2>2
  <2>7. QED
    BY <2>1, <2>2, <2>3, <2>4, <2>5, <2>6
<1>3. QED BY <1>1, <1>2

\* StartTimer (match.c) either does nothing or leaves a countdown with one
\* timer.
LEMMA StartTimerStarts ==
  ASSUME Inv, NEW f \in BOOLEAN, StartTimer(f), UNCHANGED <<ct, body, levelVars>>
  PROVE  /\ match_in_progress' \in 0 .. 2
         /\ match_over' \in BOOLEAN /\ k_sudden_death' \in BOOLEAN
         /\ timers' \in SUBSET Timer
         /\ standby_th' \in BOOLEAN /\ k_standby' \in BOOLEAN
         /\ k_force' \in BOOLEAN
         /\ k_force' => f
         /\ OneClock'
         /\ NobodyLeftOut'
         /\ OverMeansOver'
         /\ SuddenDeathInMatch'
         /\ StandbyInLastSecond'
         /\ IdlebotOnStart \in Nat
         /\ IdlebotOnStart > 0 => match_in_progress' = 0
<1>1. CASE CanStartTimer
  <2>1. /\ k_force' = FALSE /\ timers' = {CountdownTimer} /\ standby_th' = FALSE
        /\ match_in_progress' = 1
        /\ UNCHANGED <<match_over, k_sudden_death, k_standby>>
        /\ IdlebotOnStart = 0
    BY <1>1 DEF StartTimer, IdlebotOnStart
  <2>2. ~match_over /\ match_in_progress = 0
    BY <1>1 DEF CanStartTimer
  <2>3. ~k_standby /\ ~k_sudden_death
    BY <2>2 DEF Inv, NobodyLeftOut, SuddenDeathInMatch
  <2>4. OneClock'
    BY <2>1 DEF OneClock, CountdownTimer
  <2>5. NobodyLeftOut'
    BY <2>1, <2>3 DEF Inv, NobodyLeftOut, Players, levelVars
  <2>6. OverMeansOver' /\ SuddenDeathInMatch' /\ StandbyInLastSecond'
    BY <2>1, <2>2, <2>3 DEF OverMeansOver, SuddenDeathInMatch, StandbyInLastSecond
  <2>7. /\ match_over' \in BOOLEAN /\ k_sudden_death' \in BOOLEAN
        /\ standby_th' \in BOOLEAN /\ k_standby' \in BOOLEAN /\ k_force' \in BOOLEAN
    BY <2>1 DEF Inv, TypeOK
  <2>8. QED
    BY <2>1, <2>4, <2>5, <2>6, <2>7, TimersTyped
<1>2. CASE ~CanStartTimer
  <2>1. k_force' = f /\ UNCHANGED matchVars /\ IdlebotOnStart = idlebot
    BY <1>2 DEF StartTimer, IdlebotOnStart
  <2>2. QED
    BY <2>1 DEF Inv, TypeOK, matchVars, levelVars, OneClock, NobodyLeftOut, Players,
       OverMeansOver, NoIdlebotInMatch, SuddenDeathInMatch, StandbyInLastSecond
<1>3. QED BY <1>1, <1>2

\* IdlebotCheck never brings an idle bot into a countdown or match.
LEMMA IdlebotCheckSafe ==
  ASSUME Inv, NEW c, NEW r
  PROVE  /\ IdlebotCheck(c, r) \in Nat
         /\ IdlebotCheck(c, r) > 0 => match_in_progress = 0
BY LimitAssumption DEF Inv, TypeOK, NoIdlebotInMatch, IdlebotCheck, AtLeast3

\* A handler that touches neither the match nor the level keeps what is said
\* of them alone.
LEMMA MatchUntouched ==
  ASSUME Inv, UNCHANGED <<matchVars, levelVars>>
  PROVE  OneClock' /\ OverMeansOver' /\ SuddenDeathInMatch' /\ StandbyInLastSecond'
BY DEF Inv, matchVars, levelVars, OneClock, OverMeansOver, SuddenDeathInMatch,
   StandbyInLastSecond

\* If it also leaves the clients and their bodies alone, nobody is left out.
LEMMA PlayersUntouched ==
  ASSUME Inv, UNCHANGED <<matchVars, levelVars, ct, body>>
  PROVE  NobodyLeftOut'
BY DEF Inv, matchVars, levelVars, NobodyLeftOut, Players

-----------------------------------------------------------------------------
(***************************************************************************)
(* Every action keeps the invariant.                                       *)
(***************************************************************************)
LEMMA PlayerReadyInv ==
  ASSUME Inv, NEW p \in Client, PlayerReady(p)
  PROVE  Inv'
<1> DEFINE r == [ready EXCEPT ![p] = TRUE]
<1>1. /\ ready' = r /\ brk' = [brk EXCEPT ![p] = FALSE]
      /\ UNCHANGED <<ct, team, body, levelVars, mess>>
  BY DEF PlayerReady
<1>2. ready' \in [Client -> BOOLEAN] /\ brk' \in [Client -> BOOLEAN]
  BY <1>1 DEF Inv, TypeOK
<1>3. k_force \in BOOLEAN
  BY DEF Inv, TypeOK
<1>4. CASE AllReady(r)
  <2>1. StartTimer(k_force) /\ idlebot' = IdlebotOnStart
    BY <1>4 DEF PlayerReady
  <2>2. UNCHANGED <<ct, body, levelVars>>
    BY <1>1
  <2>3. /\ match_in_progress' \in 0 .. 2
        /\ match_over' \in BOOLEAN /\ k_sudden_death' \in BOOLEAN
        /\ timers' \in SUBSET Timer
        /\ standby_th' \in BOOLEAN /\ k_standby' \in BOOLEAN
        /\ k_force' \in BOOLEAN
        /\ k_force' => k_force
        /\ OneClock' /\ NobodyLeftOut' /\ OverMeansOver' /\ SuddenDeathInMatch'
        /\ StandbyInLastSecond'
        /\ IdlebotOnStart \in Nat
        /\ IdlebotOnStart > 0 => match_in_progress' = 0
    BY <1>3, <2>1, <2>2, StartTimerStarts
  <2>4. TypeOK'
    BY <1>1, <1>2, <2>1, <2>3 DEF Inv, TypeOK, levelVars
  <2>5. ForceHasAMessage' /\ NoIdlebotInMatch'
    BY <1>1, <2>1, <2>3 DEF Inv, ForceHasAMessage, NoIdlebotInMatch
  <2>6. QED
    BY <2>3, <2>4, <2>5 DEF Inv
<1>5. CASE ~AllReady(r)
  <2>1. UNCHANGED <<matchVars, k_force>>
    BY <1>5 DEF PlayerReady
  <2>2. idlebot' = idlebot \/ idlebot' = IdlebotCheck(ct, r)
    BY <1>5 DEF PlayerReady, IdlebotOnReady
  <2>3. idlebot' \in Nat /\ (idlebot' > 0 => match_in_progress = 0)
    BY <2>2, IdlebotCheckSafe DEF Inv, TypeOK, NoIdlebotInMatch
  <2>4. TypeOK'
    BY <1>1, <1>2, <2>1, <2>3 DEF Inv, TypeOK, levelVars, matchVars
  <2>5. ForceHasAMessage' /\ NoIdlebotInMatch'
    BY <1>1, <2>1, <2>3 DEF Inv, ForceHasAMessage, NoIdlebotInMatch, matchVars
  <2>6. QED
    BY <1>1, <2>1, <2>4, <2>5, MatchUntouched, PlayersUntouched DEF Inv
<1>6. QED BY <1>4, <1>5

\* A ready player who breaks before the countdown is only not ready any more.
LEMMA BreakReadyInv ==
  ASSUME Inv, NEW p \in Client, BreakReady(p)
  PROVE  Inv'
<1>1. /\ ready' = [ready EXCEPT ![p] = FALSE]
      /\ UNCHANGED <<ct, team, brk, body, matchVars, levelVars, helperVars>>
  BY DEF BreakReady
<1>2. TypeOK'
  BY <1>1 DEF Inv, TypeOK, matchVars, levelVars, helperVars
<1>3. ForceHasAMessage' /\ NoIdlebotInMatch'
  BY <1>1 DEF Inv, ForceHasAMessage, NoIdlebotInMatch, matchVars, helperVars
<1>4. QED
  BY <1>1, <1>2, <1>3, MatchUntouched, PlayersUntouched DEF Inv

\* A countdown that stops, without the end of a match: by a break, by a tick
\* that finds too few players, or by an admin.
LEMMA AbortInv ==
  ASSUME Inv, match_in_progress = 1, StopTimer(ct, body),
         ready' \in [Client -> BOOLEAN],
         UNCHANGED <<ct, team, brk, match_over, k_sudden_death, levelVars,
                     idlebot, mess>>
  PROVE  Inv'
<1>1. ct \in [Client -> Kind] /\ body \in [Client -> BOOLEAN]
  BY DEF Inv, TypeOK, Kind
<1>2. /\ match_in_progress' = 0
      /\ timers' = {}
      /\ ~standby_th' /\ ~k_standby' /\ ~k_force'
      /\ standby_th' \in BOOLEAN /\ k_standby' \in BOOLEAN /\ k_force' \in BOOLEAN
      /\ body' \in [Client -> BOOLEAN]
      /\ \A p \in Players(ct) : body'[p] \/ intermission_running
  BY <1>1, StopTimerStops
<1>3. TypeOK'
  BY <1>2 DEF Inv, TypeOK, levelVars
<1>4. NobodyLeftOut'
  BY <1>2 DEF NobodyLeftOut, Players, levelVars
<1>5. ~match_over /\ ~k_sudden_death
  BY DEF Inv, OverMeansOver, SuddenDeathInMatch
<1>6. /\ OneClock' /\ OverMeansOver' /\ SuddenDeathInMatch'
      /\ StandbyInLastSecond' /\ ForceHasAMessage' /\ NoIdlebotInMatch'
  BY <1>2, <1>5 DEF OneClock, OverMeansOver, SuddenDeathInMatch,
     StandbyInLastSecond, ForceHasAMessage, NoIdlebotInMatch
<1>7. QED
  BY <1>3, <1>4, <1>6 DEF Inv

LEMMA BreakCountdownInv ==
  ASSUME Inv, NEW p \in Client, BreakCountdown(p)
  PROVE  Inv'
<1>1. ready' \in [Client -> BOOLEAN]
  BY DEF Inv, TypeOK, BreakCountdown
<1>2. QED
  BY <1>1, AbortInv DEF BreakCountdown

\* Everything that ends a match through EndMatch without moving a client.
LEMMA EndMatchInv ==
  ASSUME Inv, NEW f \in BOOLEAN, f => k_force,
         EndMatch(ct, body, ready, f),
         brk' \in [Client -> BOOLEAN],
         mess' \in SUBSET [owner : Client, left : 1 .. ForceDelay],
         f => mess' # {},
         idlebot' \in Nat,
         UNCHANGED <<ct, team, intermission_running>>
  PROVE  Inv'
<1>1. ct \in [Client -> Kind] /\ body \in [Client -> BOOLEAN]
  BY DEF Inv, TypeOK, Kind
<1>2. /\ ready' \in [Client -> BOOLEAN]
      /\ body' \in [Client -> BOOLEAN]
      /\ match_in_progress' = 0
      /\ match_over' \in BOOLEAN /\ k_sudden_death' \in BOOLEAN
      /\ timers' = {}
      /\ standby_th' \in BOOLEAN /\ k_standby' \in BOOLEAN
      /\ changelevel' \in BOOLEAN /\ k_force' \in BOOLEAN
      /\ k_force' => f
      /\ OneClock' /\ NobodyLeftOut' /\ OverMeansOver' /\ SuddenDeathInMatch'
      /\ StandbyInLastSecond'
  BY <1>1, EndMatchEnds
<1>3. TypeOK'
  BY <1>2 DEF Inv, TypeOK
<1>4. ForceHasAMessage' /\ NoIdlebotInMatch'
  BY <1>2 DEF ForceHasAMessage, NoIdlebotInMatch
<1>5. QED
  BY <1>2, <1>3, <1>4 DEF Inv

LEMMA EndMatchNowInv ==
  ASSUME Inv, EndMatchNow, brk' \in [Client -> BOOLEAN], idlebot' \in Nat,
         UNCHANGED <<ct, team, intermission_running, mess>>
  PROVE  Inv'
<1>1. /\ k_force \in BOOLEAN /\ mess \in SUBSET [owner : Client, left : 1 .. ForceDelay]
      /\ k_force => mess # {}
  BY DEF Inv, TypeOK, ForceHasAMessage
<1>2. QED
  BY <1>1, EndMatchInv DEF EndMatchNow

\* A vote either only counts or ends the match.
LEMMA BreakVoteInv ==
  ASSUME Inv, NEW p \in Client, BreakVote(p)
  PROVE  Inv'
<1> DEFINE b == [brk EXCEPT ![p] = ~brk[p]]
<1>1. UNCHANGED <<ct, team, intermission_running, idlebot, mess>>
  BY DEF BreakVote
<1>2. CASE b[p] /\ VotesEndMatch(b)
  <2>1. brk' = ClearBreakVotes(b) /\ EndMatchNow
    BY <1>2 DEF BreakVote
  <2>2. brk' \in [Client -> BOOLEAN] /\ idlebot' \in Nat
    BY <1>1, <2>1 DEF ClearBreakVotes, Inv, TypeOK
  <2>3. QED
    BY <1>1, <2>1, <2>2, EndMatchNowInv
<1>3. CASE ~(b[p] /\ VotesEndMatch(b))
  <2>1. brk' = b /\ UNCHANGED <<ready, body, matchVars, changelevel, k_force>>
    BY <1>3 DEF BreakVote
  <2>2. UNCHANGED levelVars
    BY <1>1, <2>1 DEF levelVars
  <2>3. TypeOK'
    BY <1>1, <2>1 DEF Inv, TypeOK, matchVars
  <2>4. ForceHasAMessage' /\ NoIdlebotInMatch'
    BY <1>1, <2>1 DEF Inv, ForceHasAMessage, NoIdlebotInMatch, matchVars
  <2>5. QED
    BY <1>1, <2>1, <2>2, <2>3, <2>4, MatchUntouched, PlayersUntouched DEF Inv
<1>4. QED BY <1>2, <1>3

LEMMA PlayerBreakInv ==
  ASSUME Inv, NEW p \in Client, PlayerBreak(p)
  PROVE  Inv'
BY BreakReadyInv, BreakCountdownInv, BreakVoteInv DEF PlayerBreak

LEMMA VoteCheckBreakInv ==
  ASSUME Inv, VoteCheckBreak
  PROVE  Inv'
<1>1. brk' \in [Client -> BOOLEAN] /\ idlebot' \in Nat
  BY DEF VoteCheckBreak, ClearBreakVotes, Inv, TypeOK
<1>2. QED
  BY <1>1, EndMatchNowInv DEF VoteCheckBreak

LEMMA FragEndsMatchInv ==
  ASSUME Inv, FragEndsMatch
  PROVE  Inv'
<1>1. brk' \in [Client -> BOOLEAN] /\ idlebot' \in Nat
  BY DEF FragEndsMatch, Inv, TypeOK
<1>2. QED
  BY <1>1, EndMatchNowInv DEF FragEndsMatch

\* A countdown's timer is the only timer, and its last tick is the first that
\* lets the players be hidden.
LEMMA TimerStartThinkInv ==
  ASSUME Inv, NEW t \in timers, TimerStartThink(t)
  PROVE  Inv'
<1>1. /\ t.think = "TimerStartThink"
      /\ UNCHANGED <<ct, team, ready, brk, levelVars, idlebot, mess>>
  BY DEF TimerStartThink
<1>2. /\ match_in_progress = 1 /\ timers = {t}
      /\ t \in Timer
  <2>1. t \in Timer /\ match_in_progress \in 0 .. 2 /\ \A u \in timers : u = t
    BY DEF Inv, TypeOK, OneClock
  <2>2. match_in_progress # 0 /\ match_in_progress # 2
    BY <1>1 DEF Inv, OneClock
  <2>3. QED
    BY <2>1, <2>2
<1>3. ~match_over /\ ~k_sudden_death /\ k_sudden_death = FALSE /\ idlebot = 0
  BY <1>2 DEF Inv, TypeOK, OverMeansOver, SuddenDeathInMatch, NoIdlebotInMatch
<1>4. CASE ~isCanStart(ct, ready)
  <2>1. ready' \in [Client -> BOOLEAN]
    BY <1>1 DEF Inv, TypeOK
  <2>2. QED
    BY <1>1, <1>2, <1>4, <2>1, AbortInv DEF TimerStartThink
<1>5. CASE isCanStart(ct, ready) /\ Second(t).cnt2 <= 0
  <2>1. /\ k_standby' = FALSE /\ match_in_progress' = 2
        /\ timers' = IF timelimit = 0 THEN {} ELSE {MatchTimer}
        /\ UNCHANGED <<match_over, k_sudden_death, standby_th, k_force>>
    BY <1>1, <1>2, <1>5 DEF TimerStartThink, StartMatch
  <2>2. body' = [p \in Client |-> ct[p] = "player" \/ body[p]]
    BY <1>1, <1>5 DEF TimerStartThink, StartMatch
  <2>3. TypeOK'
    <3>1. body' \in [Client -> BOOLEAN]
      BY <2>2
    <3>2. timers' \in SUBSET Timer
      BY <2>1, TimersTyped
    <3>3. k_standby' \in BOOLEAN
      BY <2>1
    <3>4. match_in_progress' \in 0 .. 2
      BY <2>1
    <3>5. QED
      BY <1>1, <2>1, <3>1, <3>2, <3>3, <3>4 DEF Inv, TypeOK, levelVars
  <2>4. OneClock'
    BY <1>3, <2>1, TimersTyped DEF OneClock, MatchTimer
  <2>5. NobodyLeftOut'
    BY <1>1, <2>1, <2>2 DEF NobodyLeftOut, Players
  <2>6. /\ OverMeansOver' /\ SuddenDeathInMatch' /\ StandbyInLastSecond'
        /\ ForceHasAMessage' /\ NoIdlebotInMatch'
    BY <1>1, <1>3, <2>1 DEF Inv, OverMeansOver, SuddenDeathInMatch,
       StandbyInLastSecond, ForceHasAMessage, NoIdlebotInMatch
  <2>7. QED
    BY <2>3, <2>4, <2>5, <2>6 DEF Inv
<1>6. CASE isCanStart(ct, ready) /\ ~(Second(t).cnt2 <= 0)
  <2>1. /\ timers' = {Second(t)}
        /\ standby_th' = (standby_th \/ Second(t).cnt2 = 1)
        /\ UNCHANGED <<body, match_in_progress, match_over, k_sudden_death,
                       k_standby, k_force>>
    BY <1>1, <1>2, <1>6 DEF TimerStartThink
  <2>2. /\ Second(t) \in Timer /\ Second(t).think = "TimerStartThink"
        /\ t.cnt2 # 1
        /\ standby_th' \in BOOLEAN
    BY <1>1, <1>2, <1>6, <2>1 DEF Second, Timer, Inv, TypeOK
  <2>3. ~k_standby /\ ~standby_th
    BY <1>2, <2>2 DEF Inv, NobodyLeftOut, StandbyInLastSecond
  <2>4. TypeOK'
    BY <1>1, <2>1, <2>2 DEF Inv, TypeOK, levelVars
  <2>5. OneClock'
    BY <1>2, <2>1, <2>2 DEF OneClock
  <2>6. NobodyLeftOut'
    BY <1>1, <2>1, <2>3 DEF Inv, NobodyLeftOut, Players, levelVars
  <2>7. StandbyInLastSecond'
    BY <2>1, <2>3 DEF StandbyInLastSecond
  <2>8. /\ OverMeansOver' /\ SuddenDeathInMatch' /\ ForceHasAMessage'
        /\ NoIdlebotInMatch'
    BY <1>1, <1>3, <2>1 DEF Inv, OverMeansOver, SuddenDeathInMatch,
       ForceHasAMessage, NoIdlebotInMatch
  <2>9. QED
    BY <2>4, <2>5, <2>6, <2>7, <2>8 DEF Inv
<1>7. QED BY <1>4, <1>5, <1>6

\* The players are hidden in the last second only.
LEMMA StandbyThinkInv ==
  ASSUME Inv, StandbyThink
  PROVE  Inv'
<1>1. /\ standby_th /\ standby_th' = FALSE
      /\ UNCHANGED <<ct, team, ready, brk, match_in_progress, match_over,
                     k_sudden_death, timers, levelVars, helperVars>>
  BY DEF StandbyThink
<1>2. CASE HidesPlayers
  <2>1. /\ k_standby' = TRUE
        /\ body' = [p \in Client |-> body[p] /\ ct[p] # "player"]
        /\ match_in_progress = 1 /\ \A t \in timers : t.cnt2 = 1
    BY <1>1, <1>2 DEF StandbyThink, HidesPlayers, Inv, StandbyInLastSecond
  <2>2. body' \in [Client -> BOOLEAN]
    BY <2>1
  <2>3. TypeOK'
    BY <1>1, <2>1, <2>2 DEF Inv, TypeOK, levelVars, helperVars
  <2>4. /\ OneClock' /\ NobodyLeftOut' /\ OverMeansOver' /\ SuddenDeathInMatch'
        /\ StandbyInLastSecond'
    BY <1>1, <2>1 DEF Inv, OneClock, NobodyLeftOut, OverMeansOver,
       SuddenDeathInMatch, StandbyInLastSecond, levelVars
  <2>5. ForceHasAMessage' /\ NoIdlebotInMatch'
    BY <1>1 DEF Inv, ForceHasAMessage, NoIdlebotInMatch, helperVars
  <2>6. QED
    BY <2>3, <2>4, <2>5 DEF Inv
<1>3. CASE ~HidesPlayers
  <2>1. UNCHANGED <<k_standby, body>>
    BY <1>3 DEF StandbyThink
  <2>2. TypeOK'
    BY <1>1, <2>1 DEF Inv, TypeOK, levelVars, helperVars
  <2>3. /\ OneClock' /\ OverMeansOver' /\ SuddenDeathInMatch' /\ StandbyInLastSecond'
    BY <1>1 DEF Inv, OneClock, OverMeansOver, SuddenDeathInMatch,
       StandbyInLastSecond, levelVars
  <2>4. NobodyLeftOut'
    BY <1>1, <2>1 DEF Inv, NobodyLeftOut, Players, levelVars
  <2>5. ForceHasAMessage' /\ NoIdlebotInMatch'
    BY <1>1 DEF Inv, ForceHasAMessage, NoIdlebotInMatch, helperVars
  <2>6. QED
    BY <2>2, <2>3, <2>4, <2>5 DEF Inv
<1>4. QED BY <1>2, <1>3

\* What a tick makes of a clock, and an overtime.
LEMMA TickTyped ==
  ASSUME NEW t \in Timer, t.think = "TimerThink", t.cnt > 0
  PROVE  /\ Tick(t) \in Timer /\ Tick(t).think = "TimerThink"
         /\ Exttime(t) \in Timer /\ Exttime(t).think = "TimerThink"
         /\ Exttime(t).cnt > 0
<1>1. Minute \in Nat /\ k_exttime \in Nat /\ k_exttime > 0
  BY LimitAssumption
<1>2. Tick(t) \in Timer /\ Tick(t).think = "TimerThink"
  <2>1. t.cnt \in Nat /\ t.cnt2 \in Nat
    BY DEF Timer
  <2>2. CASE t.cnt2 > 1
    <3>1. Tick(t) = [t EXCEPT !.cnt2 = t.cnt2 - 1] /\ t.cnt2 - 1 \in Nat
      BY <2>1, <2>2 DEF Tick
    <3>2. QED
      BY <3>1 DEF Timer
  <2>3. CASE ~(t.cnt2 > 1)
    <3>1. Tick(t) = [t EXCEPT !.cnt = t.cnt - 1, !.cnt2 = Minute] /\ t.cnt - 1 \in Nat
      BY <2>1, <2>3 DEF Tick
    <3>2. QED
      BY <1>1, <3>1 DEF Timer
  <2>4. QED BY <2>2, <2>3
<1>3. Exttime(t) = [Tick(t) EXCEPT !.cnt = k_exttime, !.cnt2 = Minute]
  BY DEF Exttime
<1>4. QED
  BY <1>1, <1>2, <1>3 DEF Timer

\* While a match has a clock, that clock is the only timer and nothing else
\* is going on.
LEMMA MatchClockAlone ==
  ASSUME Inv, NEW t \in timers, t.think = "TimerThink"
  PROVE  /\ match_in_progress = 2 /\ timers = {t}
         /\ t \in Timer /\ t.cnt > 0
         /\ timelimit # 0 /\ ~k_sudden_death
         /\ ~match_over /\ ~k_standby
<1>1. t \in Timer /\ match_in_progress \in 0 .. 2 /\ \A u \in timers : u = t
  BY DEF Inv, TypeOK, OneClock
<1>2. match_in_progress # 0 /\ match_in_progress # 1
  BY DEF Inv, OneClock
<1>3. match_in_progress = 2 /\ timers = {t}
  BY <1>1, <1>2
<1>4. ~match_over /\ ~k_standby
  BY <1>3 DEF Inv, OverMeansOver, NobodyLeftOut
<1>5. QED
  BY <1>1, <1>3, <1>4 DEF Inv, OneClock

\* A match whose clock goes on, with one timer or in sudden death with none.
LEMMA ClockGoesOn ==
  ASSUME Inv, match_in_progress = 2, ~match_over, ~k_standby, timelimit # 0,
         k_sudden_death' \in BOOLEAN, timers' \in SUBSET Timer,
         \A u, v \in timers' : u = v,
         \A u \in timers' : u.think = "TimerThink" /\ u.cnt > 0,
         timers' = {} <=> k_sudden_death',
         UNCHANGED <<ct, team, ready, brk, body, match_in_progress, match_over,
                     standby_th, k_standby, levelVars, helperVars>>
  PROVE  Inv'
<1>1. TypeOK'
  BY DEF Inv, TypeOK, levelVars, helperVars
<1>2. OneClock'
  BY DEF OneClock
<1>3. NobodyLeftOut'
  BY DEF Inv, NobodyLeftOut, Players, levelVars
<1>4. /\ ForceHasAMessage' /\ OverMeansOver' /\ NoIdlebotInMatch'
      /\ SuddenDeathInMatch' /\ StandbyInLastSecond'
  BY DEF Inv, ForceHasAMessage, OverMeansOver, NoIdlebotInMatch, SuddenDeathInMatch,
     StandbyInLastSecond, levelVars, helperVars
<1>5. QED
  BY <1>1, <1>2, <1>3, <1>4 DEF Inv

LEMMA TimerThinkInv ==
  ASSUME Inv, NEW t \in timers, TimerThink(t)
  PROVE  Inv'
<1>1. /\ t.think = "TimerThink"
      /\ UNCHANGED <<ct, team, brk, intermission_running, idlebot, mess>>
  BY DEF TimerThink
<1>2. /\ match_in_progress = 2 /\ timers = {t}
      /\ t \in Timer /\ t.cnt > 0
      /\ timelimit # 0 /\ ~k_sudden_death
      /\ ~match_over /\ ~k_standby
  BY <1>1, MatchClockAlone
<1>3. /\ Tick(t) \in Timer /\ Tick(t).think = "TimerThink"
      /\ Exttime(t) \in Timer /\ Exttime(t).think = "TimerThink"
      /\ Exttime(t).cnt > 0
  BY <1>1, <1>2, TickTyped
<1>4. brk' \in [Client -> BOOLEAN] /\ idlebot' \in Nat /\ k_sudden_death \in BOOLEAN
  BY <1>1 DEF Inv, TypeOK
<1>5. CASE EndMatchNow
  BY <1>1, <1>4, <1>5, EndMatchNowInv
<1>6. CASE ~EndMatchNow
  <2>1. Players(ct) # {}
    BY <1>6 DEF TimerThink
  <2>2. CASE Tick(t).cnt = 0
    <3>1. CheckOvertime(t)
      BY <2>1, <2>2 DEF TimerThink
    <3>2. /\ timers' = IF k_overtime = 1 THEN {Exttime(t)} ELSE {}
          /\ k_sudden_death' = (k_overtime # 1)
          /\ UNCHANGED <<ready, body, match_in_progress, match_over,
                         standby_th, k_standby, changelevel, k_force>>
      BY <1>2, <1>6, <3>1 DEF CheckOvertime
    <3>3. UNCHANGED <<levelVars, helperVars>>
      BY <1>1, <3>2 DEF levelVars, helperVars
    <3>4. CASE k_overtime = 1
      <4>1. timers' = {Exttime(t)} /\ k_sudden_death' = FALSE
        BY <3>2, <3>4
      <4>2. /\ k_sudden_death' \in BOOLEAN /\ (timers' = {} <=> k_sudden_death')
            /\ timers' \in SUBSET Timer /\ \A u, v \in timers' : u = v
            /\ \A u \in timers' : u.think = "TimerThink" /\ u.cnt > 0
        BY <1>3, <4>1
      <4>3. QED
        BY <1>1, <1>2, <3>2, <3>3, <4>2, ClockGoesOn
    <3>5. CASE k_overtime # 1
      <4>1. timers' = {} /\ k_sudden_death' = TRUE
        BY <3>2, <3>5
      <4>2. QED
        BY <1>1, <1>2, <3>2, <3>3, <4>1, ClockGoesOn
    <3>6. QED BY <3>4, <3>5
  <2>3. CASE Tick(t).cnt # 0
    <3>1. /\ timers' = {Tick(t)}
          /\ UNCHANGED <<ready, body, match_in_progress, match_over,
                         k_sudden_death, standby_th, k_standby, changelevel, k_force>>
      BY <1>2, <2>1, <2>3 DEF TimerThink
    <3>2. UNCHANGED <<levelVars, helperVars>>
      BY <1>1, <3>1 DEF levelVars, helperVars
    <3>3. Tick(t).cnt > 0
      BY <1>3, <2>3 DEF Timer
    <3>4. k_sudden_death' = FALSE
      BY <1>2, <1>4, <3>1
    <3>5. /\ k_sudden_death' \in BOOLEAN /\ (timers' = {} <=> k_sudden_death')
          /\ timers' \in SUBSET Timer /\ \A u, v \in timers' : u = v
          /\ \A u \in timers' : u.think = "TimerThink" /\ u.cnt > 0
      BY <1>3, <3>1, <3>3, <3>4
    <3>6. QED
      BY <1>1, <1>2, <3>1, <3>2, <3>5, ClockGoesOn
  <2>4. QED BY <2>2, <2>3
<1>7. QED BY <1>5, <1>6

\* StartTimer, called by anything that moves no client.
LEMMA StartTimerInv ==
  ASSUME Inv, NEW f \in BOOLEAN, StartTimer(f), idlebot' = IdlebotOnStart,
         f => mess' # {},
         ready' \in [Client -> BOOLEAN], brk' \in [Client -> BOOLEAN],
         mess' \in SUBSET [owner : Client, left : 1 .. ForceDelay],
         UNCHANGED <<ct, team, body, levelVars>>
  PROVE  Inv'
<1>1. /\ match_in_progress' \in 0 .. 2
      /\ match_over' \in BOOLEAN /\ k_sudden_death' \in BOOLEAN
      /\ timers' \in SUBSET Timer
      /\ standby_th' \in BOOLEAN /\ k_standby' \in BOOLEAN
      /\ k_force' \in BOOLEAN
      /\ k_force' => f
      /\ OneClock' /\ NobodyLeftOut' /\ OverMeansOver' /\ SuddenDeathInMatch'
      /\ StandbyInLastSecond'
      /\ IdlebotOnStart \in Nat
      /\ IdlebotOnStart > 0 => match_in_progress' = 0
  BY StartTimerStarts
<1>2. TypeOK'
  BY <1>1 DEF Inv, TypeOK, levelVars
<1>3. ForceHasAMessage' /\ NoIdlebotInMatch'
  BY <1>1 DEF ForceHasAMessage, NoIdlebotInMatch
<1>4. QED
  BY <1>1, <1>2, <1>3 DEF Inv

\* A handler that only changes the idle bot, k_force or the message, and what
\* clients say of themselves.
LEMMA HelpersInv ==
  ASSUME Inv, UNCHANGED <<ct, body, matchVars, levelVars>>,
         team' \in [Client -> Team \union {NoTeam}],
         ready' \in [Client -> BOOLEAN], brk' \in [Client -> BOOLEAN],
         idlebot' \in Nat, idlebot' > 0 => match_in_progress = 0,
         k_force' \in BOOLEAN, k_force' => mess' # {},
         mess' \in SUBSET [owner : Client, left : 1 .. ForceDelay]
  PROVE  Inv'
<1>1. TypeOK'
  BY DEF Inv, TypeOK, matchVars, levelVars
<1>2. ForceHasAMessage' /\ NoIdlebotInMatch'
  BY DEF ForceHasAMessage, NoIdlebotInMatch, matchVars
<1>3. QED
  BY <1>1, <1>2, MatchUntouched, PlayersUntouched DEF Inv

LEMMA IdlebotThinkInv ==
  ASSUME Inv, IdlebotThink
  PROVE  Inv'
<1>1. /\ idlebot > 0 /\ UNCHANGED <<ct, team, brk, intermission_running, mess>>
  BY DEF IdlebotThink
<1>2. /\ team \in [Client -> Team \union {NoTeam}] /\ ready \in [Client -> BOOLEAN]
      /\ brk \in [Client -> BOOLEAN] /\ idlebot \in Nat /\ k_force \in BOOLEAN
      /\ mess \in SUBSET [owner : Client, left : 1 .. ForceDelay]
      /\ k_force => mess # {}
      /\ match_in_progress = 0
  BY <1>1 DEF Inv, TypeOK, ForceHasAMessage, NoIdlebotInMatch
<1>3. CASE UNCHANGED <<matchVars, k_force, ready, body, changelevel>>
  <2>1. idlebot' = 0 \/ (idlebot' = idlebot - 1 /\ idlebot - 1 >= 1)
    BY <1>3 DEF IdlebotThink
  <2>2. idlebot' \in Nat
    BY <1>2, <2>1
  <2>3. UNCHANGED levelVars
    BY <1>1, <1>3 DEF levelVars
  <2>4. QED
    BY <1>1, <1>2, <1>3, <2>2, <2>3, HelpersInv
<1>4. CASE ~UNCHANGED <<matchVars, k_force, ready, body, changelevel>>
  <2>1. idlebot' = 0
    BY <1>4 DEF IdlebotThink
  <2>2. CASE EnoughReady
    <3>1. StartTimer(k_force) /\ UNCHANGED <<ready, body, changelevel>>
      BY <1>4, <2>2 DEF IdlebotThink
    <3>2. CanStartTimer
      BY <1>4, <3>1 DEF StartTimer
    <3>3. idlebot' = IdlebotOnStart
      BY <2>1, <3>2 DEF IdlebotOnStart
    <3>4. UNCHANGED levelVars
      BY <1>1, <3>1 DEF levelVars
    <3>5. QED
      BY <1>1, <1>2, <3>1, <3>3, <3>4, StartTimerInv
  <2>3. CASE ~EnoughReady
    <3>1. EndMatchNow
      BY <1>4, <2>3 DEF IdlebotThink
    <3>2. brk' \in [Client -> BOOLEAN] /\ idlebot' \in Nat
      BY <1>1, <1>2, <2>1
    <3>3. QED
      BY <1>1, <3>1, <3>2, EndMatchNowInv
  <2>4. QED BY <2>2, <2>3
<1>5. QED BY <1>3, <1>4

\* A forcestart leaves either a countdown, with or without a message, or
\* k_force and its message.
LEMMA AdminForceStartInv ==
  ASSUME Inv, NEW p \in Client, AdminForceStart(p)
  PROVE  Inv'
<1> DEFINE readies == ct[p] = "player" /\ ~ready[p] /\ MayReady(p)
           r == IF readies THEN [ready EXCEPT ![p] = TRUE] ELSE ready
           forces == /\ ct[p] = "spec" \/ r[p]
                     /\ mess = {}
                     /\ isCanStart(ct, r)
                     /\ Players(ct) # {}
           starts == readies /\ AllReady(r) /\ CanStartTimer
<1>1. /\ match_in_progress = 0 /\ ~match_over
      /\ ready' = r
      /\ brk' = IF readies THEN [brk EXCEPT ![p] = FALSE] ELSE brk
      /\ k_force' = (forces \/ (k_force /\ ~starts))
      /\ mess' = IF forces THEN {[owner |-> p, left |-> ForceDelay]} ELSE mess
      /\ UNCHANGED <<ct, team, body, match_over, k_sudden_death, k_standby, levelVars>>
  BY DEF AdminForceStart
<1>2. /\ ready' \in [Client -> BOOLEAN] /\ brk' \in [Client -> BOOLEAN]
  BY <1>1 DEF Inv, TypeOK
<1>3. /\ k_force \in BOOLEAN
      /\ mess \in SUBSET [owner : Client, left : 1 .. ForceDelay]
      /\ k_force => mess # {}
  BY DEF Inv, TypeOK, ForceHasAMessage
<1>4. mess' \in SUBSET [owner : Client, left : 1 .. ForceDelay]
  BY <1>1, <1>3, LimitAssumption
<1>5. k_force' \in BOOLEAN /\ (k_force' => mess' # {})
  <2>1. k_force' \in BOOLEAN
    BY <1>1
  <2>2. CASE forces
    BY <1>1, <2>1, <2>2
  <2>3. CASE ~forces
    BY <1>1, <1>3, <2>1, <2>3
  <2>4. QED BY <2>2, <2>3
<1>6. CASE starts
  <2>1. /\ match_in_progress' = 1 /\ timers' = {CountdownTimer}
        /\ standby_th' = FALSE /\ idlebot' = 0
    BY <1>6 DEF AdminForceStart
  <2>2. ~k_standby /\ ~k_sudden_death
    BY <1>1 DEF Inv, NobodyLeftOut, SuddenDeathInMatch
  <2>3. TypeOK'
    <3>1. timers' \in SUBSET Timer
      BY <2>1, TimersTyped
    <3>2. match_in_progress' \in 0 .. 2 /\ idlebot' \in Nat
      BY <2>1
    <3>3. standby_th' \in BOOLEAN
      BY <2>1
    <3>4. QED
      BY <1>1, <1>2, <1>4, <1>5, <3>1, <3>2, <3>3 DEF Inv, TypeOK, levelVars
  <2>4. OneClock'
    BY <2>1 DEF OneClock, CountdownTimer
  <2>5. NobodyLeftOut'
    BY <1>1, <2>2 DEF Inv, NobodyLeftOut, Players, levelVars
  <2>6. OverMeansOver' /\ SuddenDeathInMatch' /\ StandbyInLastSecond'
    BY <1>1, <2>1, <2>2 DEF OverMeansOver, SuddenDeathInMatch, StandbyInLastSecond
  <2>7. ForceHasAMessage' /\ NoIdlebotInMatch'
    BY <1>5, <2>1 DEF ForceHasAMessage, NoIdlebotInMatch
  <2>8. QED
    BY <2>3, <2>4, <2>5, <2>6, <2>7 DEF Inv
<1>7. CASE ~starts
  <2>1. /\ idlebot' = IF readies THEN IdlebotOnReady(r) ELSE idlebot
        /\ UNCHANGED <<match_in_progress, timers, standby_th>>
    BY <1>7 DEF AdminForceStart
  <2>2. idlebot' = idlebot \/ idlebot' = IdlebotCheck(ct, r)
    BY <2>1 DEF IdlebotOnReady
  <2>3. idlebot' \in Nat /\ (idlebot' > 0 => match_in_progress = 0)
    BY <2>2, IdlebotCheckSafe DEF Inv, TypeOK, NoIdlebotInMatch
  <2>4. UNCHANGED <<ct, body, matchVars, levelVars>>
    BY <1>1, <2>1 DEF matchVars
  <2>5. team' \in [Client -> Team \union {NoTeam}]
    BY <1>1 DEF Inv, TypeOK
  <2>6. QED
    BY <1>2, <1>4, <1>5, <2>3, <2>4, <2>5, HelpersInv
<1>8. QED BY <1>6, <1>7

LEMMA ReadyThinkInv ==
  ASSUME Inv, NEW m \in mess, ReadyThink(m)
  PROVE  Inv'
<1>1. UNCHANGED <<ct, team, brk, intermission_running>>
  BY DEF ReadyThink
<1>2. /\ team' \in [Client -> Team \union {NoTeam}] /\ ready \in [Client -> BOOLEAN]
      /\ brk' \in [Client -> BOOLEAN] /\ idlebot \in Nat /\ k_force \in BOOLEAN
      /\ mess \in SUBSET [owner : Client, left : 1 .. ForceDelay]
      /\ idlebot > 0 => match_in_progress = 0
  BY <1>1 DEF Inv, TypeOK, NoIdlebotInMatch
<1>3. CASE ForceInterrupted(m) \/ ~isCanStart(ct, ready)
  <2>1. /\ mess' = mess \ {m} /\ k_force' = FALSE
        /\ UNCHANGED <<ready, body, matchVars, changelevel, idlebot>>
    BY <1>3 DEF ReadyThink
  <2>2. UNCHANGED levelVars
    BY <1>1, <2>1 DEF levelVars
  <2>3. k_force' \in BOOLEAN /\ ~k_force'
    BY <2>1
  <2>4. mess' \in SUBSET [owner : Client, left : 1 .. ForceDelay]
    BY <1>2, <2>1
  <2>5. QED
    BY <1>1, <1>2, <2>1, <2>2, <2>3, <2>4, HelpersInv
<1>4. CASE ~(ForceInterrupted(m) \/ ~isCanStart(ct, ready)) /\ ~LastTick(m)
  <2>1. /\ mess' = (mess \ {m}) \union {[m EXCEPT !.left = m.left - 1]}
        /\ UNCHANGED <<ready, body, matchVars, changelevel, idlebot, k_force>>
    BY <1>4 DEF ReadyThink
  <2>2. UNCHANGED levelVars
    BY <1>1, <2>1 DEF levelVars
  <2>3. [m EXCEPT !.left = m.left - 1] \in [owner : Client, left : 1 .. ForceDelay]
    <3>1. m \in [owner : Client, left : 1 .. ForceDelay]
      BY <1>2
    <3>2. m.left - 1 \in 1 .. ForceDelay
      BY <1>4, <3>1, LimitAssumption DEF LastTick
    <3>3. QED
      BY <3>1, <3>2
  <2>4. mess' \in SUBSET [owner : Client, left : 1 .. ForceDelay] /\ mess' # {}
    BY <1>2, <2>1, <2>3
  <2>5. QED
    BY <1>1, <1>2, <2>1, <2>2, <2>4, HelpersInv
<1>5. CASE ~(ForceInterrupted(m) \/ ~isCanStart(ct, ready)) /\ LastTick(m)
  <2>1. mess' = mess \ {m} /\ AdminMatchStart
    BY <1>5 DEF ReadyThink
  <2>2. mess' \in SUBSET [owner : Client, left : 1 .. ForceDelay]
    BY <1>2, <2>1
  <2>3. CASE RPlayers(ct, ready) # {}
    <3>1. /\ StartTimer(FALSE) /\ idlebot' = IdlebotOnStart
          /\ UNCHANGED <<ready, body, changelevel>>
      BY <2>1, <2>3 DEF AdminMatchStart
    <3>2. UNCHANGED levelVars
      BY <1>1, <3>1 DEF levelVars
    <3>3. QED
      BY <1>1, <1>2, <2>2, <3>1, <3>2, StartTimerInv
  <2>4. CASE RPlayers(ct, ready) = {}
    <3>1. EndMatch(ct, body, ready, FALSE) /\ UNCHANGED idlebot
      BY <2>1, <2>4 DEF AdminMatchStart
    <3>2. QED
      BY <1>1, <1>2, <2>2, <3>1, EndMatchInv
  <2>5. QED BY <2>3, <2>4
<1>6. QED BY <1>3, <1>4, <1>5

LEMMA AdminForceBreakInv ==
  ASSUME Inv, NEW p \in Client, AdminForceBreak(p)
  PROVE  Inv'
<1>1. UNCHANGED <<ct, team, brk, intermission_running, idlebot, mess>>
  BY DEF AdminForceBreak
<1>2. /\ team \in [Client -> Team \union {NoTeam}] /\ ready \in [Client -> BOOLEAN]
      /\ brk \in [Client -> BOOLEAN] /\ idlebot \in Nat
      /\ mess \in SUBSET [owner : Client, left : 1 .. ForceDelay]
      /\ idlebot > 0 => match_in_progress = 0
  BY DEF Inv, TypeOK, NoIdlebotInMatch
<1>3. CASE k_force' = FALSE /\ UNCHANGED <<ready, body, matchVars, changelevel>>
  <2>1. UNCHANGED levelVars
    BY <1>1, <1>3 DEF levelVars
  <2>2. k_force' \in BOOLEAN /\ ~k_force'
    BY <1>3
  <2>3. QED
    BY <1>1, <1>2, <1>3, <2>1, <2>2, HelpersInv
<1>4. CASE /\ match_in_progress = 1 /\ StopTimer(ct, body)
           /\ UNCHANGED <<ready, match_over, k_sudden_death, changelevel>>
  <2>1. UNCHANGED levelVars
    BY <1>1, <1>4 DEF levelVars
  <2>2. QED
    BY <1>1, <1>2, <1>4, <2>1, AbortInv
<1>5. CASE EndMatchNow
  BY <1>1, <1>2, <1>5, EndMatchNowInv
<1>6. QED
  BY <1>3, <1>4, <1>5 DEF AdminForceBreak

\* A client who comes is in the world, unless the intermission runs.
LEMMA ClientConnectInv ==
  ASSUME Inv, NEW p \in Client, NEW tm \in Team \union {NoTeam}, ClientConnect(p, tm)
  PROVE  Inv'
<1>1. /\ ct' = [ct EXCEPT ![p] = "player"]
      /\ team' = [team EXCEPT ![p] = tm]
      /\ brk' = [brk EXCEPT ![p] = FALSE]
      /\ UNCHANGED <<matchVars, levelVars, helperVars>>
  BY DEF ClientConnect
<1>2. ready' = [ready EXCEPT ![p] = match_in_progress # 0]
  BY DEF ClientConnect
<1>3. body' = [body EXCEPT ![p] = ~intermission_running]
  BY DEF ClientConnect
<1>4. TypeOK'
  <2>1. ready' \in [Client -> BOOLEAN]
    BY <1>2 DEF Inv, TypeOK
  <2>2. body' \in [Client -> BOOLEAN]
    BY <1>3 DEF Inv, TypeOK
  <2>3. QED
    BY <1>1, <2>1, <2>2 DEF Inv, TypeOK, matchVars, levelVars, helperVars
<1>5. NobodyLeftOut'
  BY <1>1, <1>3 DEF Inv, TypeOK, NobodyLeftOut, Players, matchVars, levelVars
<1>6. ForceHasAMessage' /\ NoIdlebotInMatch'
  BY <1>1 DEF Inv, ForceHasAMessage, NoIdlebotInMatch, matchVars, helperVars
<1>7. QED
  BY <1>1, <1>4, <1>5, <1>6, MatchUntouched DEF Inv

LEMMA SpectatorConnectInv ==
  ASSUME Inv, NEW p \in Client, NEW tm \in Team \union {NoTeam}, SpectatorConnect(p, tm)
  PROVE  Inv'
<1>1. /\ ct' = [ct EXCEPT ![p] = "spec"]
      /\ team' = [team EXCEPT ![p] = tm]
      /\ ready' = [ready EXCEPT ![p] = FALSE]
      /\ brk' = [brk EXCEPT ![p] = FALSE]
      /\ body' = [body EXCEPT ![p] = FALSE]
      /\ UNCHANGED <<matchVars, levelVars, helperVars>>
  BY DEF SpectatorConnect
<1>2. TypeOK'
  BY <1>1 DEF Inv, TypeOK, matchVars, levelVars, helperVars
<1>3. NobodyLeftOut'
  BY <1>1 DEF Inv, TypeOK, NobodyLeftOut, Players, matchVars, levelVars
<1>4. ForceHasAMessage' /\ NoIdlebotInMatch'
  BY <1>1 DEF Inv, ForceHasAMessage, NoIdlebotInMatch, matchVars, helperVars
<1>5. QED
  BY <1>1, <1>2, <1>3, <1>4, MatchUntouched DEF Inv

LEMMA SpectatorDisconnectInv ==
  ASSUME Inv, NEW p \in Client, SpectatorDisconnect(p)
  PROVE  Inv'
<1>1. /\ ct' = [ct EXCEPT ![p] = "none"]
      /\ team' = [team EXCEPT ![p] = NoTeam]
      /\ UNCHANGED <<ready, brk, body, matchVars, levelVars, helperVars>>
  BY DEF SpectatorDisconnect
<1>2. TypeOK'
  BY <1>1 DEF Inv, TypeOK, matchVars, levelVars, helperVars
<1>3. NobodyLeftOut'
  BY <1>1 DEF Inv, TypeOK, NobodyLeftOut, Players, matchVars, levelVars
<1>4. ForceHasAMessage' /\ NoIdlebotInMatch'
  BY <1>1 DEF Inv, ForceHasAMessage, NoIdlebotInMatch, matchVars, helperVars
<1>5. QED
  BY <1>1, <1>2, <1>3, <1>4, MatchUntouched DEF Inv

\* A player who leaves takes nobody along: the others are where they were.
LEMMA ClientDisconnectInv ==
  ASSUME Inv, NEW p \in Client, ClientDisconnect(p)
  PROVE  Inv'
<1> DEFINE c == [ct EXCEPT ![p] = "none"]
           b == [body EXCEPT ![p] = FALSE]
<1>1. /\ ct' = c /\ team' = [team EXCEPT ![p] = NoTeam]
      /\ idlebot' = IF k_idletime > 0 THEN IdlebotCheck(c, ready) ELSE idlebot
      /\ UNCHANGED <<brk, intermission_running, mess>>
  BY DEF ClientDisconnect
<1>2. /\ c \in [Client -> Kind] /\ b \in [Client -> BOOLEAN]
      /\ \A q \in Client : c[q] = "player" => ct[q] = "player" /\ b[q] = body[q]
  BY DEF Inv, TypeOK, Kind
<1>3. /\ idlebot' \in Nat /\ (idlebot' > 0 => match_in_progress = 0)
  BY <1>1, IdlebotCheckSafe DEF Inv, TypeOK, NoIdlebotInMatch
<1>4. /\ team' \in [Client -> Team \union {NoTeam}]
      /\ brk' \in [Client -> BOOLEAN] /\ ready \in [Client -> BOOLEAN]
      /\ k_force \in BOOLEAN /\ (k_force => mess' # {})
      /\ mess' \in SUBSET [owner : Client, left : 1 .. ForceDelay]
  BY <1>1 DEF Inv, TypeOK, ForceHasAMessage
<1>5. CASE Players(c) = {}
  <2>1. EndMatch(c, b, ready, k_force)
    BY <1>5 DEF ClientDisconnect
  <2>2. /\ ready' \in [Client -> BOOLEAN]
        /\ body' \in [Client -> BOOLEAN]
        /\ match_in_progress' = 0
        /\ match_over' \in BOOLEAN /\ k_sudden_death' \in BOOLEAN
        /\ timers' = {}
        /\ standby_th' \in BOOLEAN /\ k_standby' \in BOOLEAN
        /\ changelevel' \in BOOLEAN /\ k_force' \in BOOLEAN
        /\ k_force' => k_force
        /\ OneClock' /\ NobodyLeftOut' /\ OverMeansOver' /\ SuddenDeathInMatch'
        /\ StandbyInLastSecond'
    <3> HIDE DEF c, b
    <3>1. QED
      BY <1>1, <1>2, <1>4, <2>1, EndMatchEnds
  <2>3. TypeOK'
    <3>1. ct' \in [Client -> {"none", "player", "spec"}]
      BY <1>1, <1>2 DEF Kind
    <3>2. intermission_running' \in BOOLEAN /\ match_in_progress' \in 0 .. 2
      BY <1>1, <2>2 DEF Inv, TypeOK
    <3>3. timers' \in SUBSET Timer
      BY <2>2
    <3>4. QED
      BY <1>3, <1>4, <2>2, <3>1, <3>2, <3>3 DEF TypeOK
  <2>4. ForceHasAMessage' /\ NoIdlebotInMatch'
    BY <1>4, <2>2 DEF ForceHasAMessage, NoIdlebotInMatch
  <2>5. QED
    BY <2>2, <2>3, <2>4 DEF Inv
<1>6. CASE Players(c) # {}
  <2>1. body' = b /\ UNCHANGED <<ready, matchVars, changelevel, k_force>>
    BY <1>6 DEF ClientDisconnect
  <2>2. UNCHANGED levelVars
    BY <1>1, <2>1 DEF levelVars
  <2>3. TypeOK'
    <3>1. ct' \in [Client -> {"none", "player", "spec"}] /\ body' \in [Client -> BOOLEAN]
      BY <1>1, <1>2, <2>1 DEF Kind
    <3>2. QED
      BY <1>3, <1>4, <2>1, <2>2, <3>1 DEF Inv, TypeOK, matchVars, levelVars
  <2>4. NobodyLeftOut'
    BY <1>1, <1>2, <2>1, <2>2 DEF Inv, NobodyLeftOut, Players, matchVars, levelVars
  <2>5. ForceHasAMessage' /\ NoIdlebotInMatch'
    BY <1>3, <1>4, <2>1 DEF ForceHasAMessage, NoIdlebotInMatch, matchVars
  <2>6. QED
    BY <2>1, <2>2, <2>3, <2>4, <2>5, MatchUntouched DEF Inv
<1>7. QED BY <1>5, <1>6

LEMMA SetTeamInv ==
  ASSUME Inv, NEW p \in Client, NEW tm \in Team \union {NoTeam}, SetTeam(p, tm)
  PROVE  Inv'
<1>1. /\ team' = [team EXCEPT ![p] = tm]
      /\ UNCHANGED <<ct, ready, brk, body, matchVars, levelVars, helperVars>>
  BY DEF SetTeam
<1>2. TypeOK'
  BY <1>1 DEF Inv, TypeOK, matchVars, levelVars, helperVars
<1>3. ForceHasAMessage' /\ NoIdlebotInMatch'
  BY <1>1 DEF Inv, ForceHasAMessage, NoIdlebotInMatch, matchVars, helperVars
<1>4. QED
  BY <1>1, <1>2, <1>3, MatchUntouched, PlayersUntouched DEF Inv

LEMMA ExecuteChangelevelInv ==
  ASSUME Inv, ExecuteChangelevel
  PROVE  Inv'
<1>1. /\ changelevel' = FALSE /\ intermission_running' = TRUE
      /\ UNCHANGED <<ct, team, ready, brk, matchVars, helperVars>>
  BY DEF ExecuteChangelevel
<1>2. body' \in [Client -> BOOLEAN]
  BY DEF ExecuteChangelevel
<1>3. TypeOK'
  BY <1>1, <1>2 DEF Inv, TypeOK, matchVars, helperVars
<1>4. /\ OneClock' /\ NobodyLeftOut' /\ ForceHasAMessage' /\ OverMeansOver'
      /\ NoIdlebotInMatch' /\ SuddenDeathInMatch' /\ StandbyInLastSecond'
  BY <1>1 DEF Inv, OneClock, NobodyLeftOut, Players, ForceHasAMessage, OverMeansOver,
     NoIdlebotInMatch, SuddenDeathInMatch, StandbyInLastSecond, matchVars, helperVars
<1>5. QED
  BY <1>3, <1>4 DEF Inv

\* A new level is the initial state again.
LEMMA InitInv == Init => Inv
<1> SUFFICES ASSUME Init PROVE Inv
  OBVIOUS
<1>1. /\ ct \in [Client -> {"none", "player", "spec"}]
      /\ team \in [Client -> Team \union {NoTeam}]
      /\ Players(ct) = {}
  BY DEF Init, Players
<1>2. /\ ready \in [Client -> BOOLEAN] /\ brk \in [Client -> BOOLEAN]
      /\ body \in [Client -> BOOLEAN]
  BY DEF Init
<1>3. match_in_progress \in 0 .. 2 /\ idlebot \in Nat
  BY DEF Init
<1>4. /\ match_over \in BOOLEAN /\ k_sudden_death \in BOOLEAN
      /\ standby_th \in BOOLEAN /\ k_standby \in BOOLEAN
      /\ changelevel \in BOOLEAN /\ intermission_running \in BOOLEAN
      /\ k_force \in BOOLEAN
      /\ timers = {} /\ mess = {}
  BY DEF Init
<1>5. TypeOK
  BY <1>1, <1>2, <1>3, <1>4 DEF TypeOK
<1>6. QED
  BY <1>1, <1>5 DEF Init, Inv, OneClock, NobodyLeftOut, ForceHasAMessage, OverMeansOver,
     NoIdlebotInMatch, SuddenDeathInMatch, StandbyInLastSecond

LEMMA NewLevelInv ==
  ASSUME NewLevel
  PROVE  Inv'
<1>1. /\ ct' \in [Client -> {"none", "player", "spec"}]
      /\ team' \in [Client -> Team \union {NoTeam}]
      /\ \A p \in Client : ct'[p] # "player"
  BY DEF NewLevel
<1>2. TypeOK'
  <2>1. /\ ready' \in [Client -> BOOLEAN] /\ brk' \in [Client -> BOOLEAN]
        /\ body' \in [Client -> BOOLEAN]
    BY DEF NewLevel
  <2>2. match_in_progress' \in 0 .. 2 /\ idlebot' \in Nat
    BY DEF NewLevel
  <2>3. /\ match_over' \in BOOLEAN /\ k_sudden_death' \in BOOLEAN
        /\ standby_th' \in BOOLEAN /\ k_standby' \in BOOLEAN
        /\ changelevel' \in BOOLEAN /\ intermission_running' \in BOOLEAN
        /\ k_force' \in BOOLEAN
        /\ timers' = {} /\ mess' = {}
    BY DEF NewLevel
  <2>4. QED
    BY <1>1, <2>1, <2>2, <2>3 DEF TypeOK
<1>3. NobodyLeftOut'
  BY <1>1 DEF NewLevel, NobodyLeftOut, Players
<1>4. /\ OneClock' /\ ForceHasAMessage' /\ OverMeansOver' /\ NoIdlebotInMatch'
      /\ SuddenDeathInMatch' /\ StandbyInLastSecond'
  BY DEF NewLevel, OneClock, ForceHasAMessage, OverMeansOver, NoIdlebotInMatch,
     SuddenDeathInMatch, StandbyInLastSecond
<1>5. QED
  BY <1>2, <1>3, <1>4 DEF Inv

LEMMA StutterInv ==
  ASSUME Inv, UNCHANGED vars
  PROVE  Inv'
<1>1. TypeOK'
  BY DEF Inv, TypeOK, vars, clientVars, matchVars, levelVars, helperVars
<1>2. UNCHANGED <<matchVars, levelVars, helperVars, ct, body>>
  BY DEF vars, clientVars
<1>3. ForceHasAMessage' /\ NoIdlebotInMatch'
  BY <1>2 DEF Inv, ForceHasAMessage, NoIdlebotInMatch, matchVars, helperVars
<1>4. QED
  BY <1>1, <1>2, <1>3, MatchUntouched, PlayersUntouched DEF Inv

\* One step of the server, whatever it is, keeps the invariant.
LEMMA NextInv ==
  ASSUME Inv, [Next]_vars
  PROVE  Inv'
<1>1. CASE Thinks
  BY <1>1, TimerStartThinkInv, TimerThinkInv, StandbyThinkInv, IdlebotThinkInv,
     ExecuteChangelevelInv, ReadyThinkInv DEF Thinks
<1>2. CASE VoteCheckBreak \/ FragEndsMatch \/ NewLevel
  BY <1>2, VoteCheckBreakInv, FragEndsMatchInv, NewLevelInv
<1>3. ASSUME NEW p \in Client, Commands(p)
      PROVE  Inv'
  BY <1>3, PlayerReadyInv, PlayerBreakInv, AdminForceStartInv, AdminForceBreakInv
     DEF Commands
<1>4. ASSUME NEW p \in Client, Clients(p)
      PROVE  Inv'
  BY <1>4, ClientDisconnectInv, SpectatorDisconnectInv, ClientConnectInv,
     SpectatorConnectInv, SetTeamInv DEF Clients
<1>5. CASE UNCHANGED vars
  BY <1>5, StutterInv
<1>6. QED
  BY <1>1, <1>2, <1>3, <1>4, <1>5 DEF Next

-----------------------------------------------------------------------------
(***************************************************************************)
(* The theorems.                                                           *)
(***************************************************************************)

\* The inductive invariant holds in every state of every behaviour.
THEOREM Invariance == Spec => []Inv
BY InitInv, NextInv, PTL DEF Spec

\* Every variable keeps its type (Match's TypeOK).
THEOREM TypeCorrect == Spec => []TypeOK
<1>1. Inv => TypeOK
  BY DEF Inv
<1>2. QED BY <1>1, Invariance, PTL

\* Never two clocks, never the wrong one, and none left behind by StopTimer,
\* EndMatch, StartMatch or CheckOvertime (match.c).
THEOREM ClockCorrect == Spec => []OneClock
<1>1. Inv => OneClock
  BY DEF Inv
<1>2. QED BY <1>1, Invariance, PTL

\* Whoever stops a countdown, in whatever second, no player stays hidden by
\* standby_think (match.c).
THEOREM NoGhosts == Spec => []NobodyLeftOut
<1>1. Inv => NobodyLeftOut
  BY DEF Inv
<1>2. QED BY <1>1, Invariance, PTL

\* While k_force blocks the players' ready, a ReadyThink is on its way
\* (admin.c).
THEOREM ForceOwned == Spec => []ForceHasAMessage
<1>1. Inv => ForceHasAMessage
  BY DEF Inv
<1>2. QED BY <1>1, Invariance, PTL

\* After EndMatch nothing starts a countdown on this level, and the
\* intermission comes (match.c, client.c).
THEOREM OverStaysOver == Spec => []OverMeansOver
<1>1. Inv => OverMeansOver
  BY DEF Inv
<1>2. QED BY <1>1, Invariance, PTL

\* The idle bot of match.c waits outside of countdown and match only.
THEOREM IdlebotOutside == Spec => []NoIdlebotInMatch
<1>1. Inv => NoIdlebotInMatch
  BY DEF Inv
<1>2. QED BY <1>1, Invariance, PTL

-----------------------------------------------------------------------------
(***************************************************************************)
(* The server implements MatchLife: every action is one step of it or none, *)
(* by the inductive invariant above.                                       *)
(***************************************************************************)
\* No step of MatchLife.
LifeStutters == UNCHANGED <<Phase, Clock, k_standby>>

\* What a step may be that is no change of the level.
LifeStep ==
  \/ Life!Begin \/ Life!Hide \/ Life!Abort \/ Life!Start \/ Life!SuddenDeath \/ Life!Finish
  \/ LifeStutters

-----------------------------------------------------------------------------
(***************************************************************************)
(* The phases, as Match's variables say them.                              *)
(***************************************************************************)
LEMMA Phases ==
  ASSUME Inv
  PROVE  /\ match_in_progress = 0 => Phase \in {"prewar", "over"} /\ Clock = "off" /\ k_standby = FALSE
         /\ match_in_progress = 0 /\ ~match_over => Phase = "prewar"
         /\ match_in_progress = 1 => Phase = "countdown" /\ Clock = "countdown" /\ ~match_over
         /\ match_in_progress = 2 => Phase = "match" /\ ~match_over /\ k_standby = FALSE
         /\ Phase \in {"prewar", "countdown"} <=> match_in_progress # 2 /\ ~match_over
<1>1. /\ match_in_progress \in 0 .. 2 /\ k_standby \in BOOLEAN /\ match_over \in BOOLEAN
      /\ match_over => match_in_progress = 0
  BY DEF Inv, TypeOK, OverMeansOver
<1>2. k_standby => match_in_progress = 1
  BY DEF Inv, NobodyLeftOut
<1>3. match_in_progress = 0 => timers = {}
  BY DEF Inv, OneClock
<1>4. match_in_progress = 1 =>
        timers # {} /\ \A t \in timers : t.think = "TimerStartThink"
  BY DEF Inv, OneClock
<1>5. QED
  BY <1>1, <1>2, <1>3, <1>4 DEF Phase, Clock

\* The same for the state after a step, where nothing is known yet.
LEMMA NextPhase ==
  /\ match_over' => Phase' = "over"
  /\ ~match_over' /\ match_in_progress' = 0 => Phase' = "prewar"
  /\ ~match_over' /\ match_in_progress' = 1 => Phase' = "countdown"
  /\ ~match_over' /\ match_in_progress' = 2 => Phase' = "match"
BY DEF Phase

\* A handler that leaves the match alone is no step.
LEMMA NothingHappens ==
  ASSUME UNCHANGED matchVars
  PROVE  LifeStutters
BY DEF LifeStutters, Phase, Clock, matchVars

\* EndMatch (match.c) is the end of the match, or nothing.
LEMMA EndMatchStep ==
  ASSUME Inv, NEW c, NEW b, NEW r, NEW f, EndMatch(c, b, r, f)
  PROVE  LifeStep
<1>1. CASE match_over \/ match_in_progress = 0
  BY <1>1, NothingHappens DEF EndMatch, LifeStep
<1>2. CASE ~(match_over \/ match_in_progress = 0)
  <2>1. /\ match_over' = TRUE /\ match_in_progress' = 0 /\ timers' = {} /\ k_standby' = FALSE
    BY <1>2 DEF EndMatch, StopTimer
  <2>2. Phase' = "over" /\ Clock' = "off"
    BY <2>1, NextPhase DEF Clock
  <2>3. Phase \in {"countdown", "match"}
    <3>1. match_in_progress = 1 \/ match_in_progress = 2
      BY <1>2 DEF Inv, TypeOK
    <3>2. QED
      BY <3>1, Phases
  <2>4. QED
    BY <2>1, <2>2, <2>3 DEF Life!Finish, Life!Rest, LifeStep
<1>3. QED BY <1>1, <1>2

\* StopTimer (match.c) in a countdown calls it off.
LEMMA AbortStep ==
  ASSUME Inv, match_in_progress = 1, NEW c, NEW b, StopTimer(c, b), UNCHANGED match_over
  PROVE  LifeStep
<1>1. Phase = "countdown" /\ ~match_over
  BY Phases
<1>2. match_in_progress' = 0 /\ timers' = {} /\ k_standby' = FALSE /\ ~match_over'
  BY <1>1 DEF StopTimer
<1>3. Phase' = "prewar" /\ Clock' = "off"
  BY <1>2, NextPhase DEF Clock
<1>4. QED
  BY <1>1, <1>2, <1>3 DEF Life!Abort, Life!Rest, LifeStep

\* One timer of a countdown, where there was none.
LEMMA BeginStep ==
  ASSUME Inv, match_in_progress = 0, ~match_over, match_in_progress' = 1,
         timers' = {CountdownTimer}, UNCHANGED <<match_over, k_standby>>
  PROVE  LifeStep
<1>1. Phase = "prewar" /\ k_standby = FALSE
  BY Phases
<1>2. Phase' = "countdown" /\ Clock' = "countdown" /\ k_standby' = FALSE
  <2>1. Phase' = "countdown"
    BY NextPhase
  <2>2. Clock' = "countdown"
    <3>1. CountdownTimer.think = "TimerStartThink"
      BY DEF CountdownTimer
    <3>2. QED
      BY <3>1 DEF Clock
  <2>3. QED
    BY <1>1, <2>1, <2>2
<1>3. QED
  BY <1>1, <1>2 DEF Life!Begin, LifeStep

\* StartTimer (match.c) begins a countdown, or does nothing.
LEMMA StartTimerStep ==
  ASSUME Inv, NEW f, StartTimer(f)
  PROVE  LifeStep
<1>1. CASE CanStartTimer
  <2>1. match_in_progress = 0 /\ ~match_over
    BY <1>1 DEF CanStartTimer
  <2>2. /\ match_in_progress' = 1 /\ timers' = {CountdownTimer}
        /\ UNCHANGED <<match_over, k_standby>>
    BY <1>1 DEF StartTimer
  <2>3. QED
    BY <2>1, <2>2, BeginStep
<1>2. CASE ~CanStartTimer
  BY <1>2, NothingHappens DEF StartTimer, LifeStep
<1>3. QED BY <1>1, <1>2

-----------------------------------------------------------------------------
(***************************************************************************)
(* Every action is a step of MatchLife, or none.                           *)
(***************************************************************************)
LEMMA TimerStartThinkStep ==
  ASSUME Inv, NEW t \in timers, TimerStartThink(t)
  PROVE  LifeStep
<1>1. /\ t.think = "TimerStartThink" /\ t \in Timer
      /\ match_in_progress = 1 /\ timers = {t}
  <2>1. t.think = "TimerStartThink"
    BY DEF TimerStartThink
  <2>2. t \in Timer /\ match_in_progress \in 0 .. 2 /\ \A u \in timers : u = t
    BY DEF Inv, TypeOK, OneClock
  <2>3. match_in_progress # 0 /\ match_in_progress # 2
    BY <2>1 DEF Inv, OneClock
  <2>4. QED
    BY <2>1, <2>2, <2>3
<1>2. Phase = "countdown" /\ Clock = "countdown" /\ ~match_over
  BY <1>1, Phases
<1>3. CASE ~isCanStart(ct, ready)
  <2>1. StopTimer(ct, body) /\ UNCHANGED match_over
    BY <1>3 DEF TimerStartThink
  <2>2. QED
    BY <1>1, <2>1, AbortStep
<1>4. CASE isCanStart(ct, ready) /\ Second(t).cnt2 <= 0
  <2>1. /\ k_standby' = FALSE /\ match_in_progress' = 2 /\ UNCHANGED match_over
        /\ timers' = IF timelimit = 0 THEN {} ELSE {MatchTimer}
    BY <1>1, <1>4 DEF TimerStartThink, StartMatch
  <2>2. Phase' = "match"
    BY <1>2, <2>1, NextPhase
  <2>3. Clock' \in {"match", "off"}
    <3>1. MatchTimer.think = "TimerThink"
      BY DEF MatchTimer
    <3>2. QED
      BY <2>1, <3>1 DEF Clock
  <2>4. QED
    BY <1>2, <2>1, <2>2, <2>3 DEF Life!Start, LifeStep
<1>5. CASE isCanStart(ct, ready) /\ ~(Second(t).cnt2 <= 0)
  <2>1. /\ timers' = {Second(t)}
        /\ UNCHANGED <<match_in_progress, match_over, k_standby>>
    BY <1>1, <1>5 DEF TimerStartThink
  <2>2. Second(t).think = "TimerStartThink"
    BY <1>1 DEF Second, Timer
  <2>3. Phase' = "countdown" /\ Clock' = "countdown"
    <3>1. Phase' = "countdown"
      BY <1>1, <1>2, <2>1, NextPhase
    <3>2. Clock' = "countdown"
      BY <2>1, <2>2 DEF Clock
    <3>3. QED BY <3>1, <3>2
  <2>4. QED
    BY <1>2, <2>1, <2>3 DEF LifeStutters, LifeStep
<1>6. QED BY <1>3, <1>4, <1>5

LEMMA StandbyThinkStep ==
  ASSUME Inv, StandbyThink
  PROVE  LifeStep
<1>1. UNCHANGED <<match_in_progress, match_over, timers>>
  BY DEF StandbyThink
<1>2. UNCHANGED <<Phase, Clock>>
  BY <1>1 DEF Phase, Clock
<1>3. CASE HidesPlayers
  BY <1>2, <1>3, Phases DEF StandbyThink, HidesPlayers, Life!Hide, LifeStep
<1>4. CASE ~HidesPlayers
  BY <1>2, <1>4 DEF StandbyThink, LifeStutters, LifeStep
<1>5. QED BY <1>3, <1>4

\* A tick of the match's clock, an overtime, sudden death, or the end.
LEMMA TimerThinkStep ==
  ASSUME Inv, NEW t \in timers, TimerThink(t)
  PROVE  LifeStep
<1>1. t.think = "TimerThink"
  BY DEF TimerThink
<1>2. /\ match_in_progress = 2 /\ timers = {t}
      /\ t \in Timer /\ t.cnt > 0 /\ ~match_over
  BY <1>1, MatchClockAlone
<1>3. Phase = "match" /\ Clock = "match"
  <2>1. Phase = "match"
    BY <1>2, Phases
  <2>2. Clock = "match"
    BY <1>1, <1>2 DEF Clock
  <2>3. QED BY <2>1, <2>2
<1>4. Tick(t).think = "TimerThink" /\ Exttime(t).think = "TimerThink"
  BY <1>1, <1>2, TickTyped
<1>5. CASE EndMatchNow
  BY <1>5, EndMatchStep DEF EndMatchNow
<1>6. CASE ~EndMatchNow
  <2>1. UNCHANGED <<match_in_progress, match_over, k_standby>>
    BY <1>6 DEF TimerThink, CheckOvertime
  <2>2. timers' \in {{Tick(t)}, {Exttime(t)}, {}}
    BY <1>2, <1>6 DEF TimerThink, CheckOvertime
  <2>3. Phase' = "match"
    BY <1>2, <2>1, NextPhase
  <2>4. CASE timers' = {}
    <3>1. Clock' = "off"
      BY <2>4 DEF Clock
    <3>2. QED
      BY <1>3, <2>1, <2>3, <3>1 DEF Life!SuddenDeath, LifeStep
  <2>5. CASE timers' = {Tick(t)} \/ timers' = {Exttime(t)}
    <3>1. Clock' = "match"
      BY <1>4, <2>5 DEF Clock
    <3>2. QED
      BY <1>3, <2>1, <2>3, <3>1 DEF LifeStutters, LifeStep
  <2>6. QED BY <2>2, <2>4, <2>5
<1>7. QED BY <1>5, <1>6

LEMMA IdlebotThinkStep ==
  ASSUME Inv, IdlebotThink
  PROVE  LifeStep
BY StartTimerStep, EndMatchStep, NothingHappens DEF IdlebotThink, EndMatchNow, LifeStep

LEMMA ReadyThinkStep ==
  ASSUME Inv, NEW m \in mess, ReadyThink(m)
  PROVE  LifeStep
BY StartTimerStep, EndMatchStep, NothingHappens DEF ReadyThink, AdminMatchStart, LifeStep

LEMMA PlayerReadyStep ==
  ASSUME Inv, NEW p \in Client, PlayerReady(p)
  PROVE  LifeStep
BY StartTimerStep, NothingHappens DEF PlayerReady, LifeStep

LEMMA PlayerBreakStep ==
  ASSUME Inv, NEW p \in Client, PlayerBreak(p)
  PROVE  LifeStep
<1>1. CASE BreakReady(p)
  BY <1>1, NothingHappens DEF BreakReady, LifeStep
<1>2. CASE BreakCountdown(p)
  BY <1>2, AbortStep DEF BreakCountdown
<1>3. CASE BreakVote(p)
  BY <1>3, EndMatchStep, NothingHappens DEF BreakVote, EndMatchNow, LifeStep
<1>4. QED BY <1>1, <1>2, <1>3 DEF PlayerBreak

\* The countdown that an admin's own ready begins.
LEMMA AdminForceStartStep ==
  ASSUME Inv, NEW p \in Client, AdminForceStart(p)
  PROVE  LifeStep
<1>1. /\ match_in_progress = 0 /\ ~match_over
      /\ UNCHANGED <<match_over, k_sudden_death, k_standby>>
  BY DEF AdminForceStart
<1>2. \/ match_in_progress' = 1 /\ timers' = {CountdownTimer}
      \/ UNCHANGED <<match_in_progress, timers>>
  BY DEF AdminForceStart
<1>3. CASE match_in_progress' = 1 /\ timers' = {CountdownTimer}
  BY <1>1, <1>3, BeginStep
<1>4. CASE UNCHANGED <<match_in_progress, timers>>
  BY <1>1, <1>4 DEF Phase, Clock, LifeStutters, LifeStep
<1>5. QED BY <1>2, <1>3, <1>4

LEMMA AdminForceBreakStep ==
  ASSUME Inv, NEW p \in Client, AdminForceBreak(p)
  PROVE  LifeStep
BY AbortStep, EndMatchStep, NothingHappens DEF AdminForceBreak, EndMatchNow, LifeStep

LEMMA ClientsStep ==
  ASSUME Inv, NEW p \in Client, Clients(p)
  PROVE  LifeStep
<1>1. CASE ClientDisconnect(p)
  BY <1>1, EndMatchStep, NothingHappens DEF ClientDisconnect, LifeStep
<1>2. CASE UNCHANGED matchVars
  BY <1>2, NothingHappens DEF LifeStep
<1>3. QED
  BY <1>1, <1>2 DEF Clients, SpectatorDisconnect, ClientConnect, SpectatorConnect, SetTeam

\* Every step but a change of the level.
LEMMA StepOfLife ==
  ASSUME Inv, [Next]_vars
  PROVE  LifeStep \/ NewLevel
<1>1. CASE Thinks
  <2>1. CASE ExecuteChangelevel
    BY <2>1, NothingHappens DEF ExecuteChangelevel, LifeStep
  <2>2. QED
    BY <1>1, <2>1, TimerStartThinkStep, TimerThinkStep, StandbyThinkStep, IdlebotThinkStep,
       ReadyThinkStep DEF Thinks
<1>2. CASE VoteCheckBreak \/ FragEndsMatch
  BY <1>2, EndMatchStep DEF VoteCheckBreak, FragEndsMatch, EndMatchNow
<1>3. ASSUME NEW p \in Client, Commands(p)
      PROVE  LifeStep
  BY <1>3, PlayerReadyStep, PlayerBreakStep, AdminForceStartStep, AdminForceBreakStep
     DEF Commands
<1>4. CASE UNCHANGED vars
  <2>1. UNCHANGED matchVars
    BY <1>4 DEF vars, matchVars
  <2>2. QED
    BY <2>1, NothingHappens DEF LifeStep
<1>5. QED
  BY <1>1, <1>2, <1>3, <1>4, ClientsStep DEF Next

-----------------------------------------------------------------------------
(***************************************************************************)
(* The votes to break.  Nobody votes before a match: the votes of a match  *)
(* end with the level, because a match that is over stays over.            *)
(***************************************************************************)
NoEarlyVotes ==
  match_in_progress # 2 /\ ~match_over => \A p \in Client : ct[p] # "none" => ~brk[p]

\* No step of the lifecycle leads from a match back before it.
LEMMA NoWayBack ==
  ASSUME Inv, Inv', LifeStep, match_in_progress' # 2, ~match_over'
  PROVE  match_in_progress # 2 /\ ~match_over
<1>1. Phase \in {"prewar", "countdown"} <=> match_in_progress # 2 /\ ~match_over
  BY Phases
<1>2. Phase' \in {"prewar", "countdown"}
  <2>1. match_in_progress' \in 0 .. 2
    BY DEF Inv, TypeOK
  <2>2. QED
    BY <2>1, NextPhase
<1>3. QED
  BY <1>1, <1>2 DEF LifeStep, LifeStutters, Life!Begin, Life!Hide, Life!Abort, Life!Start,
     Life!SuddenDeath, Life!Finish, Life!Rest

\* Before a match, and while it goes on to be none, no step casts a vote.
LEMMA NobodyVotes ==
  ASSUME Inv, [Next]_vars, ~NewLevel, match_in_progress # 2, match_in_progress' # 2
  PROVE  \A p \in Client : ct'[p] # "none" /\ brk'[p] => ct[p] # "none" /\ brk[p]
<1> SUFFICES ASSUME NEW p \in Client, ct'[p] # "none", brk'[p]
             PROVE  ct[p] # "none" /\ brk[p]
  OBVIOUS
<1>1. ct \in [Client -> {"none", "player", "spec"}] /\ brk \in [Client -> BOOLEAN]
  BY DEF Inv, TypeOK
<1>2. CASE Thinks \/ FragEndsMatch
  BY <1>2 DEF Thinks, TimerStartThink, TimerThink, StandbyThink, IdlebotThink,
     ExecuteChangelevel, ReadyThink, FragEndsMatch
<1>3. CASE VoteCheckBreak
  BY <1>3 DEF VoteCheckBreak, ClearBreakVotes
<1>4. ASSUME NEW q \in Client, Commands(q)
      PROVE  ct[p] # "none" /\ brk[p]
  <2>1. CASE PlayerReady(q)
    BY <1>1, <2>1 DEF PlayerReady
  <2>2. CASE PlayerBreak(q)
    BY <2>2 DEF PlayerBreak, BreakReady, BreakCountdown, BreakVote
  <2>3. CASE AdminForceStart(q)
    <3>1. ct' = ct /\ (brk' = brk \/ brk' = [brk EXCEPT ![q] = FALSE])
      BY <2>3 DEF AdminForceStart
    <3>2. QED
      BY <1>1, <3>1
  <2>4. CASE AdminForceBreak(q)
    BY <2>4 DEF AdminForceBreak
  <2>5. QED BY <1>4, <2>1, <2>2, <2>3, <2>4 DEF Commands
<1>5. ASSUME NEW q \in Client, Clients(q)
      PROVE  ct[p] # "none" /\ brk[p]
  <2>1. CASE ClientDisconnect(q)
    BY <1>1, <2>1 DEF ClientDisconnect
  <2>2. CASE SpectatorDisconnect(q)
    BY <1>1, <2>2 DEF SpectatorDisconnect
  <2>3. ASSUME NEW tm, ClientConnect(q, tm) \/ SpectatorConnect(q, tm)
        PROVE  ct[p] # "none" /\ brk[p]
    BY <1>1, <2>3 DEF ClientConnect, SpectatorConnect
  <2>4. ASSUME NEW tm, SetTeam(q, tm)
        PROVE  ct[p] # "none" /\ brk[p]
    BY <2>4 DEF SetTeam
  <2>5. QED BY <1>5, <2>1, <2>2, <2>3, <2>4 DEF Clients
<1>6. CASE UNCHANGED vars
  BY <1>6 DEF vars, clientVars
<1>7. QED
  BY <1>2, <1>3, <1>4, <1>5, <1>6 DEF Next

LEMMA NoEarlyVotesStep ==
  ASSUME Inv, Inv', NoEarlyVotes, [Next]_vars
  PROVE  NoEarlyVotes'
<1>1. CASE NewLevel
  BY <1>1 DEF NewLevel, NoEarlyVotes
<1>2. CASE ~NewLevel
  <2>1. LifeStep
    BY <1>2, StepOfLife
  <2>2. SUFFICES ASSUME match_in_progress' # 2, ~match_over'
                 PROVE  \A p \in Client : ct'[p] # "none" => ~brk'[p]
    BY DEF NoEarlyVotes
  <2>3. match_in_progress # 2 /\ ~match_over
    BY <2>1, <2>2, NoWayBack
  <2>4. QED
    BY <1>2, <2>2, <2>3, NobodyVotes DEF NoEarlyVotes
<1>3. QED BY <1>1, <1>2

-----------------------------------------------------------------------------
(***************************************************************************)
(* The match clock.  All but the two thinks of a timer leave it alone, end *)
(* it with the match, or have to do with a countdown only.                 *)
(***************************************************************************)
\* A second of a minute is left on the clock of a match.
SecondsLeft == \A t \in timers : t.think = "TimerThink" => t.cnt2 > 0

ClockRests ==
  \/ UNCHANGED <<timers, match_in_progress>>
  \/ timers' = {}
  \/ match_in_progress # 2 /\ match_in_progress' # 2

\* What ClockCountsSeconds says of a step.
ClockCounts ==
  \A t \in timers, u \in timers' :
    /\ match_in_progress = 1 /\ match_in_progress' = 2 => Left(u) = timelimit * Minute
    /\ match_in_progress = 2 /\ t # u =>
         \/ Left(u) = Left(t) - 1
         \/ Left(t) = 1 /\ Left(u) = k_exttime * Minute

LEMMA EndMatchRests ==
  ASSUME NEW c, NEW b, NEW r, NEW f, EndMatch(c, b, r, f)
  PROVE  ClockRests
BY DEF EndMatch, StopTimer, matchVars, ClockRests

LEMMA StartTimerRests ==
  ASSUME NEW f, StartTimer(f)
  PROVE  ClockRests
BY DEF StartTimer, CanStartTimer, matchVars, ClockRests

LEMMA CommandsRest ==
  ASSUME NEW p \in Client, Commands(p)
  PROVE  ClockRests
<1>1. CASE PlayerReady(p)
  BY <1>1, StartTimerRests DEF PlayerReady, matchVars, ClockRests
<1>2. CASE PlayerBreak(p)
  BY <1>2, EndMatchRests DEF PlayerBreak, BreakReady, BreakCountdown, BreakVote, EndMatchNow, StopTimer,
     matchVars, ClockRests
<1>3. CASE AdminForceStart(p)
  BY <1>3 DEF AdminForceStart, ClockRests
<1>4. CASE AdminForceBreak(p)
  BY <1>4, EndMatchRests DEF AdminForceBreak, EndMatchNow, StopTimer, matchVars, ClockRests
<1>5. QED BY <1>1, <1>2, <1>3, <1>4 DEF Commands

LEMMA ClientsRest ==
  ASSUME NEW p \in Client, Clients(p)
  PROVE  ClockRests
<1>1. CASE ClientDisconnect(p)
  BY <1>1, EndMatchRests DEF ClientDisconnect, matchVars, ClockRests
<1>2. CASE UNCHANGED matchVars
  BY <1>2 DEF matchVars, ClockRests
<1>3. QED
  BY <1>1, <1>2 DEF Clients, SpectatorDisconnect, ClientConnect, SpectatorConnect, SetTeam

\* Every step but a tick of a timer.
LEMMA OthersRest ==
  ASSUME [Next]_vars, \A t \in timers : ~TimerStartThink(t) /\ ~TimerThink(t)
  PROVE  ClockRests
<1>1. CASE Thinks
  <2>1. CASE StandbyThink \/ ExecuteChangelevel
    BY <2>1 DEF StandbyThink, ExecuteChangelevel, matchVars, ClockRests
  <2>2. CASE IdlebotThink
    BY <2>2, StartTimerRests, EndMatchRests DEF IdlebotThink, EndMatchNow, matchVars, ClockRests
  <2>3. ASSUME NEW m \in mess, ReadyThink(m) PROVE ClockRests
    BY <2>3, StartTimerRests, EndMatchRests DEF ReadyThink, AdminMatchStart, matchVars, ClockRests
  <2>4. QED BY <1>1, <2>1, <2>2, <2>3 DEF Thinks
<1>2. CASE VoteCheckBreak \/ FragEndsMatch
  BY <1>2, EndMatchRests DEF VoteCheckBreak, FragEndsMatch, EndMatchNow
<1>3. CASE NewLevel
  BY <1>3 DEF NewLevel, ClockRests
<1>4. CASE UNCHANGED vars
  BY <1>4 DEF vars, matchVars, ClockRests
<1>5. QED BY <1>1, <1>2, <1>3, <1>4, CommandsRest, ClientsRest DEF Next

\* A clock that rests counts nothing.
LEMMA RestingClock ==
  ASSUME Inv, Inv', SecondsLeft, ClockRests
  PROVE  ClockCounts /\ SecondsLeft'
<1>1. CASE UNCHANGED <<timers, match_in_progress>>
  <2>1. \A t, u \in timers : t = u
    BY DEF Inv, OneClock
  <2>2. QED BY <1>1, <2>1 DEF ClockCounts, SecondsLeft
<1>2. CASE timers' = {}
  BY <1>2 DEF ClockCounts, SecondsLeft
<1>3. CASE match_in_progress # 2 /\ match_in_progress' # 2
  <2>1. match_in_progress' = 0 \/ match_in_progress' = 1
    BY <1>3 DEF Inv, TypeOK
  <2>2. \A t \in timers' : t.think = "TimerStartThink"
    BY <2>1 DEF Inv, OneClock
  <2>3. QED BY <1>3, <2>2 DEF ClockCounts, SecondsLeft
<1>4. QED BY <1>1, <1>2, <1>3 DEF ClockRests

\* The match begins with the whole time, and a countdown's tick concerns no match.
LEMMA CountdownCounts ==
  ASSUME Inv, Inv', SecondsLeft, NEW t \in timers, TimerStartThink(t)
  PROVE  ClockCounts /\ SecondsLeft'
<1>1. match_in_progress = 1 /\ timers = {t}
  <2>1. t.think = "TimerStartThink"
    BY DEF TimerStartThink
  <2>2. match_in_progress # 2 /\ match_in_progress # 0 /\ match_in_progress \in 0 .. 2
    BY <2>1 DEF Inv, OneClock, TypeOK
  <2>3. \A u \in timers : u = t
    BY DEF Inv, OneClock
  <2>4. QED BY <2>2, <2>3
<1>2. CASE match_in_progress' # 2
  BY <1>1, <1>2, RestingClock DEF ClockRests
<1>3. CASE match_in_progress' = 2
  <2>1. StartMatch(t)
    BY <1>1, <1>3 DEF TimerStartThink, StopTimer
  <2>2. \A u \in timers' : u = MatchTimer
    BY <1>1, <2>1 DEF StartMatch
  <2>3. Left(MatchTimer) = timelimit * Minute /\ MatchTimer.cnt2 > 0
    <3>1. timelimit \in Nat /\ Minute \in Nat /\ Minute > 0
      BY LimitAssumption
    <3>2. (timelimit - 1) * Minute + Minute = timelimit * Minute
      BY <3>1
    <3>3. QED BY <3>1, <3>2 DEF Left, MatchTimer
  <2>4. QED BY <1>1, <2>2, <2>3 DEF ClockCounts, SecondsLeft
<1>4. QED BY <1>2, <1>3

\* A tick takes a second, and the last one may add the overtime.
LEMMA MatchCounts ==
  ASSUME Inv, Inv', SecondsLeft, NEW t \in timers, TimerThink(t)
  PROVE  ClockCounts /\ SecondsLeft'
<1>1. t.think = "TimerThink"
  BY DEF TimerThink
<1>2. match_in_progress = 2 /\ timers = {t} /\ t \in Timer /\ t.cnt > 0
  BY <1>1, MatchClockAlone
<1>3. t.cnt \in Nat /\ t.cnt2 \in Nat /\ t.cnt2 > 0 /\ Minute \in Nat /\ Minute > 0
      /\ k_exttime \in Nat
  BY <1>1, <1>2, LimitAssumption DEF Timer, SecondsLeft
<1>4. CASE EndMatchNow
  BY <1>4, EndMatchRests, RestingClock DEF EndMatchNow
<1>5. CASE ~EndMatchNow
  <2>1. \/ timers' = {Tick(t)}
        \/ timers' = {Exttime(t)} /\ Tick(t).cnt = 0
        \/ timers' = {}
    BY <1>2, <1>5 DEF TimerThink, CheckOvertime
  <2>2. Tick(t).cnt2 > 0 /\ Left(Tick(t)) = Left(t) - 1
    <3>1. CASE t.cnt2 > 1
      BY <1>2, <1>3, <3>1 DEF Tick, Left, Timer
    <3>2. CASE ~(t.cnt2 > 1)
      <4>1. t.cnt2 = 1 /\ Tick(t).cnt = t.cnt - 1 /\ Tick(t).cnt2 = Minute
        BY <1>2, <1>3, <3>2 DEF Tick, Timer
      <4>2. (t.cnt - 1 - 1) * Minute + Minute = (t.cnt - 1) * Minute + 1 - 1
        BY <1>3
      <4>3. QED BY <1>3, <4>1, <4>2 DEF Left
    <3>3. QED BY <3>1, <3>2
  <2>3. ASSUME Tick(t).cnt = 0
        PROVE  Left(t) = 1 /\ Left(Exttime(t)) = k_exttime * Minute /\ Exttime(t).cnt2 > 0
    <3>1. t.cnt = 1 /\ t.cnt2 = 1
      BY <1>2, <1>3, <2>3 DEF Tick, Timer
    <3>2. Exttime(t).cnt = k_exttime /\ Exttime(t).cnt2 = Minute
      BY <1>2, <1>3 DEF Exttime, Tick, Timer
    <3>3. (k_exttime - 1) * Minute + Minute = k_exttime * Minute /\ (1 - 1) * Minute + 1 = 1
      BY <1>3
    <3>4. QED BY <1>3, <3>1, <3>2, <3>3 DEF Left
  <2>4. QED BY <1>2, <2>1, <2>2, <2>3 DEF ClockCounts, SecondsLeft
<1>6. QED BY <1>4, <1>5

LEMMA EveryStepCounts ==
  ASSUME Inv, Inv', SecondsLeft, [Next]_vars
  PROVE  ClockCounts /\ SecondsLeft'
BY OthersRest, RestingClock, CountdownCounts, MatchCounts

-----------------------------------------------------------------------------
(***************************************************************************)
(* The theorems.                                                           *)
(***************************************************************************)

\* The server's match follows the lifecycle of MatchLife: the handlers and
\* thinks of match.c, admin.c, vote.c and client.c make its steps or none.
THEOREM LifeIsImplemented == Spec => ImplementsLife
<1>1. Init => Life!Init
  BY DEF Init, Life!Init, Phase, Clock
<1>2. ASSUME Inv, [Next]_vars
      PROVE  [Life!Next]_(Life!vars)
  <2>1. CASE NewLevel
    <3>1. Phase' = "prewar" /\ Clock' = "off" /\ k_standby' = FALSE
      BY <2>1 DEF NewLevel, Phase, Clock
    <3>2. QED
      BY <3>1 DEF Life!NewLevel, Life!Rest, Life!Next
  <2>2. CASE LifeStep
    BY <2>2 DEF LifeStep, LifeStutters, Life!Next, Life!vars
  <2>3. QED
    BY <1>2, <2>1, <2>2, StepOfLife
<1>3. QED
  BY <1>1, <1>2, Invariance, PTL DEF Spec, ImplementsLife, Life!Spec

\* A match begins without votes to break it (vote.c, match.c).
THEOREM NobodyVotedBefore == Spec => MatchBeginsWithoutVotes
<1>1. Init => NoEarlyVotes
  BY DEF Init, NoEarlyVotes
<1>2. ASSUME Inv, NoEarlyVotes, match_in_progress = 1
      PROVE  Votes(ct, brk) = 0
  <2>1. ~match_over
    BY <1>2 DEF Inv, OverMeansOver
  <2>2. {p \in Client : ct[p] # "none" /\ brk[p]} = {}
    BY <1>2, <2>1 DEF NoEarlyVotes
  <2>3. QED
    BY <2>2, FS_EmptySet DEF Votes
<1>3. QED
  BY <1>1, <1>2, NoEarlyVotesStep, Invariance, PTL DEF Spec, MatchBeginsWithoutVotes

\* The clock of TimerThink (match.c) counts its seconds, whatever happens between them.
THEOREM ClockIsRight == Spec => ClockCountsSeconds
<1>1. Init => SecondsLeft
  BY DEF Init, SecondsLeft
<1>2. ASSUME Inv, Inv', SecondsLeft, [Next]_vars
      PROVE  SecondsLeft' /\ [ClockCounts]_vars
  BY <1>2, EveryStepCounts
<1>3. QED
  BY <1>1, <1>2, Invariance, PTL DEF Spec, ClockCountsSeconds, ClockCounts
=============================================================================
