--------------------------------- MODULE Race ---------------------------------
(***************************************************************************)
(* Race: players join a line-up and run a route against the clock, one at  *)
(* a time, all together, or all together in a match of several rounds with *)
(* points for the places.  race_think(), called in every frame, starts a   *)
(* race when somebody is in the line-up, counts it down, and ends the runs *)
(* of those who idle, die or are too late; the other runs end where the    *)
(* client touches the end, fails or leaves the line-up.  The end of the    *)
(* last run is the end of the race, and begins the next one.               *)
(***************************************************************************)
EXTENDS Integers, Sequences, FiniteSets, SequencesExt

CONSTANTS
  RaceSlots,       \* number of client slots
  RaceSeats,       \* k_maxclients in each of the modes to check: turns, together, duel, ffa
  RaceScoring,     \* k_race_scoring_system: "Win Only", "Scaled" or "Formula1"
  RaceRounds,      \* race.rounds, 3 .. 21 in the code
  RaceBest,        \* NUM_BESTSCORES
  RaceCountdown,   \* bound: steps of the clock in a countdown (4 s)
  RaceLimit,       \* bound: steps of the clock until the timeout
  RaceMatchLimit,  \* bound: the same in the modes of a match
  RaceWarmup       \* bound: points with which one races in match mode before the match

ASSUME RaceModeAssumption ==
  /\ DOMAIN RaceSeats \subseteq {"turns", "together", "duel", "ffa"}
  /\ \A mode \in DOMAIN RaceSeats : RaceSeats[mode] \in 1 .. RaceSlots
ASSUME RaceScoringAssumption == RaceScoring \in {"Win Only", "Scaled", "Formula1"}
ASSUME RaceNumberAssumption ==
  /\ {RaceSlots, RaceRounds, RaceBest, RaceLimit} \subseteq Nat \ {0}
  /\ {RaceCountdown, RaceWarmup} \subseteq Nat /\ RaceMatchLimit \in 1 .. RaceLimit

VARIABLE race    \* the struct race and the race fields of the clients, a record

Racers == 1 .. RaceSlots
RaceAll(v) == [p \in Racers |-> v]

RaceEmpty(mode) ==
  [mode |-> mode,
   here |-> {},                     \* clients that play
   ready |-> {},                    \* race_ready: the line-up
   racer |-> {},                    \* those whose run is not over
   part |-> {},                     \* race_participant
   status |-> 0,                    \* raceNone, raceCD, raceActive
   cd |-> 0,                        \* cd_cnt
   clock |-> 0,                     \* race_time()
   next |-> 1,                      \* next_racer
   competing |-> 0,                 \* racers_competing
   complete |-> 0,                  \* racers_complete
   time |-> RaceAll(0),             \* currentrace[].time
   place |-> RaceAll(0),            \* currentrace[].position
   best |-> <<>>,                   \* records, without the invalid ones
   frags |-> RaceAll(0),
   ed |-> <<0, 0>>,                 \* ed_scores1, ed_scores2
   nochange |-> FALSE,              \* k_nochange: ed is up to date
   round |-> 0,                     \* round_number
   game |-> 0]                      \* 0 no match, 1 match, 2 decided, 3 stopped

MatchMode(s) == s.mode \in {"duel", "ffa"}
Simultaneous(s) == s.mode # "turns"

-----------------------------------------------------------------------------
(***************************************************************************)
(* The line-up and the start of a race.                                    *)
(***************************************************************************)
Ahead(p, from) == (p + 2 * RaceSlots - from) % RaceSlots

\* _race_line(): the first one of the line-up at or after a slot, around the slots.
Line(s, from) ==
  IF s.ready = {} THEN {}
  ELSE {p \in s.ready : \A q \in s.ready : Ahead(p, from) <= Ahead(q, from)}

race_cancel(s) == [s EXCEPT !.racer = {}, !.part = {}, !.status = 0]

\* Mutant: the same slot stays first in the line.
LineUpStays(s) ==
  IF Simultaneous(s) THEN [s EXCEPT !.racer = s.ready]
  ELSE [s EXCEPT !.racer = Line(s, s.next),
                 !.next = IF s.ready = {} THEN @ ELSE CHOOSE p \in Line(s, s.next) : TRUE]

\* The whole line-up races, or the next one, and the one after him is next.
LineUp(s) ==
  IF Simultaneous(s) THEN [s EXCEPT !.racer = s.ready]
  ELSE [s EXCEPT !.racer = Line(s, s.next),
                 !.next = IF s.ready = {} THEN @
                          ELSE LET r == CHOOSE p \in Line(s, @) : TRUE
                               IN CHOOSE p \in Line(s, r + 1) : TRUE]

\* Mutant: the number of those who have finished is not set back.
race_startKeepsPlaces(s) ==
  LET t == LineUp(race_cancel(s))
  IN [t EXCEPT !.part = t.racer, !.competing = Cardinality(t.racer),
               !.status = 1, !.cd = RaceCountdown,
               !.time = [p \in Racers |-> IF p \in t.racer THEN 0 ELSE @[p]],
               !.place = [p \in Racers |-> IF p \in t.racer THEN 0 ELSE @[p]]]

race_start(s) ==
  LET t == LineUp(race_cancel(s))
  IN [t EXCEPT !.part = t.racer, !.competing = Cardinality(t.racer), !.complete = 0,
               !.status = 1, !.cd = RaceCountdown,
               !.time = [p \in Racers |-> IF p \in t.racer THEN 0 ELSE @[p]],
               !.place = [p \in Racers |-> IF p \in t.racer THEN 0 ELSE @[p]]]

-----------------------------------------------------------------------------
(***************************************************************************)
(* The top scores: one for a name, the best first.                         *)
(***************************************************************************)
TopScore(best, p, t) ==
  LET n == Len(best)
      time == Min({i \in 1 .. n : t < best[i].time} \cup {n + 1})
      ranked == {i \in 1 .. n : best[i].who = p}
      name == IF ranked # {} THEN Max(ranked) ELSE IF n < RaceBest THEN n + 1 ELSE n
      Down(i) == CASE i = time            -> [who |-> p, time |-> t]
                   [] time < i /\ i <= name -> best[i - 1]
                   [] OTHER                -> best[i]
  IN IF time > RaceBest \/ (ranked # {} /\ name < time) THEN best
     ELSE [i \in 1 .. IF name > n THEN name ELSE n |-> Down(i)]

TopScores(s) ==
  [s EXCEPT !.best = FoldLeft(LAMBDA b, p : IF p \in s.part /\ s.time[p] # 0
                                            THEN TopScore(b, p, s.time[p]) ELSE b,
                              @, [i \in Racers |-> i])]

-----------------------------------------------------------------------------
(***************************************************************************)
(* A round of a match.                                                     *)
(***************************************************************************)
\* scoring_systems[]: points for a place, and, if "Scaled", for the end and for who is beaten.
Positions == IF RaceScoring = "Formula1" THEN <<25, 18, 15, 12, 10, 8, 6, 4, 2, 1>>
             ELSE <<1, 0, 0, 0, 0, 0, 0, 0, 0, 0>>
RoundMaxDiff == CASE RaceScoring = "Win Only" -> 1 [] RaceScoring = "Scaled" -> 3 [] OTHER -> 25

Points(place, n) ==
  IF place \notin 1 .. 10 THEN 0
  ELSE Positions[place] + (IF RaceScoring = "Scaled" THEN 1 + (n - place) ELSE 0)

\* The first of the best in slot order.
Leader(s, S) ==
  IF S = {} THEN 0
  ELSE CHOOSE p \in S : \A q \in S : s.frags[q] < s.frags[p] \/ (s.frags[q] = s.frags[p] /\ p <= q)

\* The best two, looked for again only after somebody has cleared k_nochange.
ReScores(s) ==
  IF s.nochange THEN s
  ELSE LET first == Leader(s, s.here)
       IN [s EXCEPT !.nochange = TRUE,
                    !.ed = IF Cardinality(s.here) < 2 THEN <<0, 0>>
                           ELSE <<first, Leader(s, s.here \ {first})>>]

RaceEndMatch(s) == IF s.game = 1 THEN [s EXCEPT !.game = 2] ELSE s

\* Mutant: an unassailable lead is one of as many rounds as are left.
EndsEarlyLeq(left, diff) == left * RoundMaxDiff <= diff

EndsEarly(left, diff) == left * RoundMaxDiff < diff

race_match_round_end(s) ==
  LET paid == ReScores([s EXCEPT !.frags = [p \in Racers |->
                          @[p] + IF p \in s.part THEN Points(s.place[p], s.competing) ELSE 0]])
      both == paid.ed[1] # 0 /\ paid.ed[2] # 0
      score1 == IF both THEN paid.frags[paid.ed[1]] ELSE 0
      sc == IF both THEN score1 - paid.frags[paid.ed[2]] ELSE 0
      t == [paid EXCEPT !.round = IF @ < RaceRounds THEN @ + 1 ELSE @, !.nochange = FALSE]
      top == {p \in s.part : t.frags[p] = score1}
  IN CASE t.round = RaceRounds /\ sc = 0 ->
            race_start([t EXCEPT !.ready = (@ \ s.part) \cup top])
       [] t.round = RaceRounds /\ sc # 0 -> RaceEndMatch(t)
       [] t.round < RaceRounds /\ EndsEarly(RaceRounds - t.round, sc) -> RaceEndMatch(t)
       [] OTHER -> race_start(t)

race_over(s) ==
  LET t == TopScores(s)
  IN IF MatchMode(s) /\ (s.status # 0 \/ s.game = 1) THEN race_match_round_end(t)
     ELSE race_start(t)

\* race_end() of the clients in S, one after the other; the last one ends the race.
race_end(s, S) ==
  IF S # {} /\ s.racer \subseteq S THEN race_over([s EXCEPT !.racer = {}])
  ELSE [s EXCEPT !.racer = @ \ S]

-----------------------------------------------------------------------------
(***************************************************************************)
(* Clients.                                                                *)
(***************************************************************************)
RaceConnect(p) ==
  /\ p \notin race.here /\ p <= RaceSeats[race.mode]
  /\ race' = [race EXCEPT !.here = @ \cup {p}, !.nochange = FALSE]

\* Mutant: who leaves stays in the line-up.
RaceDisconnectKeepsReady(p) ==
  /\ p \in race.here
  /\ race' = IF race.here = {p} THEN RaceEmpty(race.mode)
             ELSE [race EXCEPT !.here = @ \ {p}, !.racer = @ \ {p}, !.part = @ \ {p},
                               !.nochange = FALSE, !.time[p] = 0, !.place[p] = 0, !.frags[p] = 0]

\* The frame finds out that a racer has vanished; without clients race is switched off.
RaceDisconnect(p) ==
  LET gone == {p}
  IN /\ p \in race.here
     /\ race' = IF race.here = gone THEN RaceEmpty(race.mode)
                ELSE [race EXCEPT !.here = @ \ gone, !.ready = @ \ gone, !.racer = @ \ gone,
                                  !.part = @ \ gone, !.nochange = FALSE,
                                  !.time[p] = 0, !.place[p] = 0, !.frags[p] = 0]

\* r_changestatus(): ready, break, toggle, cancel.
RaceReady(p) ==
  /\ p \in race.here \ race.ready /\ ~(MatchMode(race) /\ race.status # 0)
  /\ race' = [race EXCEPT !.ready = @ \cup {p}]

Quit(p) == IF p \in race.racer /\ race.status # 0 THEN race_end(race, {p}) ELSE race

RaceBreak(p) == p \in race.ready \cup race.racer /\ race' = [Quit(p) EXCEPT !.ready = @ \ {p}]

RaceToggle(p) ==
  /\ p \in race.here
  /\ race' = [Quit(p) EXCEPT !.ready = IF p \in @ THEN @ \ {p} ELSE @ \cup {p}]

\* race_cancel, the commands and triggers that fail a run, lava.
RaceFail(p) == p \in race.racer /\ race.status # 0 /\ race' = race_end(race, {p})

\* Bound: in warm-up, and when opponents leave the deciding rounds, points go on for ever.
PointsCap(s) == IF s.game = 0 THEN RaceWarmup ELSE RaceRounds * Points(1, RaceSlots)

\* The end is touched.  last_completion_time stays 0, so nobody ever "also finished".
RaceFinish(p) ==
  /\ p \in race.racer /\ race.status = 2 /\ race.clock > 0 /\ race.time[p] = 0
  /\ MatchMode(race) => race.frags[p] < PointsCap(race)
  /\ LET n == race.complete + IF race.competing > 1 THEN 1 ELSE 0
     IN race' = race_end([race EXCEPT !.complete = n, !.time[p] = race.clock, !.place[p] = n], {p})

-----------------------------------------------------------------------------
(***************************************************************************)
(* race_think().                                                           *)
(***************************************************************************)
Timeout(s) == IF MatchMode(s) THEN RaceMatchLimit ELSE RaceLimit
Late(s) == IF s.clock = Timeout(s) THEN s.racer ELSE {}

\* race_can_go(TRUE), and in a race the end of the runs of D, who have died, and of the late.
race_can_go(s, D) ==
  CASE s.ready = {}                                  -> race_cancel(s)
    [] s.ready # {} /\ s.status # 0 /\ s.racer = {}  -> race_start(s)
    [] s.ready # {} /\ s.status = 2 /\ s.racer # {}  -> race_end(s, (D \cap s.racer) \cup Late(s))
    [] OTHER                                         -> s

\* GO! ends the runs of the false starters F.
Go(s, F) ==
  race_end([s EXCEPT !.status = 2, !.clock = 0, !.time = RaceAll(0), !.place = RaceAll(0)], F)

\* kill_race_idler(): who stands at the start a while, K of them once too often.
Idle(s, I, K) ==
  race_end([s EXCEPT !.ready = IF MatchMode(s) THEN @ ELSE @ \ K], I)

\* During the run of one, what the others are shown every 100 ms names the next in line,
\* and race_get_from_line() makes him next_racer, which is read where turns are taken only.
ShowNext(s) ==
  IF ~Simultaneous(s) /\ s.competing = 1 /\ s.racer # {} /\ s.ready # {}
  THEN [s EXCEPT !.next = CHOOSE p \in Line(s, @) : TRUE] ELSE s

RaceFrameOf(s, F, I, K, show) ==
  CASE s.game > 1                   -> [s EXCEPT !.status = 0]
    [] s.game < 2 /\ s.status = 0   -> IF s.ready = {} THEN race_cancel(s) ELSE race_start(s)
    [] s.game < 2 /\ s.status = 1   ->
         IF s.ready = {} \/ s.racer = {} \/ s.cd > 0 THEN race_can_go(s, {}) ELSE Go(s, F)
    [] OTHER ->
         LET c == IF s.clock = 1 THEN Idle(s, I, K) ELSE [s EXCEPT !.nochange = @ /\ F = {}]
             t == race_can_go(c, F)
         IN IF show /\ t.status = c.status THEN ShowNext(t) ELSE t

\* F false-start or have died, I idle, and K of those three times in a row.
RaceFrame ==
  LET some == IF race.status = 2 \/ race.cd = 0 THEN SUBSET race.racer ELSE {{}}
      idle == IF race.status = 2 /\ race.clock = 1 THEN SUBSET race.racer ELSE {{}}
  IN \E F \in some, I \in idle : \E K \in IF MatchMode(race) THEN {{}} ELSE SUBSET I :
        \E show \in BOOLEAN :
          \E next \in {RaceFrameOf(race, F, I, K, show)} : next # race /\ race' = next

RaceTime ==
  \/ race.status = 1 /\ race.cd > 0 /\ race' = [race EXCEPT !.cd = @ - 1]
  \/ race.status = 2 /\ race.clock < Timeout(race) /\ race' = [race EXCEPT !.clock = @ + 1]

\* Somebody looks at the scores.
RaceScores == MatchMode(race) /\ ~race.nochange /\ race' = ReScores(race)

\* race_match_start(), all players being ready, and the end of the level.
race_match_start ==
  /\ MatchMode(race) /\ race.game = 0 /\ Cardinality(race.here) > 1
  /\ race' = race_start([race EXCEPT !.game = 1, !.ready = race.here, !.round = 0,
                                     !.frags = RaceAll(0), !.nochange = FALSE])

RaceMatchStops == race.game = 1 /\ race' = [race EXCEPT !.game = 3]

RaceNewLevel == race.game > 1 /\ race' = RaceEmpty(race.mode)

-----------------------------------------------------------------------------
RaceInit == \E mode \in DOMAIN RaceSeats : race = RaceEmpty(mode)

RaceClients ==
  \E p \in Racers :
     RaceConnect(p) \/ RaceDisconnect(p) \/ RaceReady(p) \/ RaceBreak(p) \/ RaceToggle(p)
       \/ RaceFail(p) \/ RaceFinish(p)

RaceNext ==
  \/ race.game < 2 /\ RaceClients
  \/ RaceFrame
  \/ race.game < 2 /\ RaceTime
  \/ RaceScores
  \/ race_match_start \/ RaceMatchStops \/ RaceNewLevel

\* The engine runs the frames and the clock.
RaceFair == WF_race(RaceFrame) /\ WF_race(race.game < 2 /\ RaceTime)

RaceSafety == RaceInit /\ [][RaceNext]_race
RaceSpec == RaceSafety /\ RaceFair

-----------------------------------------------------------------------------
\* The fields of the record.
RaceFields == DOMAIN RaceEmpty("turns")

RaceTypeOK ==
  /\ DOMAIN race = RaceFields
  /\ race.here \subseteq Racers /\ race.ready \subseteq race.here
  /\ race.racer \subseteq race.part /\ race.part \subseteq race.here
  /\ race.status \in 0 .. 2 /\ race.cd \in 0 .. RaceCountdown /\ race.clock \in 0 .. RaceLimit
  /\ race.next \in Racers /\ race.competing \in 0 .. RaceSlots
  /\ race.time \in [Racers -> 0 .. RaceLimit] /\ race.place \in [Racers -> 0 .. RaceSlots]
  /\ race.ed \in (0 .. RaceSlots) \X (0 .. RaceSlots)
  /\ race.round \in 0 .. RaceRounds /\ race.game \in 0 .. 3

\* Of those who race together.
PlacesFollowTimes ==
  LET placed == {p \in race.part : race.place[p] # 0}
  IN /\ \A p \in placed : race.place[p] <= race.competing
     /\ \A p, q \in placed :
          p # q => /\ race.place[p] # race.place[q]
                   /\ race.time[p] < race.time[q] => race.place[p] < race.place[q]

RecordsRank ==
  \A i, j \in 1 .. Len(race.best) :
     i < j => /\ race.best[i].time <= race.best[j].time
              /\ race.best[i].who # race.best[j].who

(***************************************************************************)
(* Times give the places of a race and the top scores: nobody has a place  *)
(* before a faster one, two have none in common and none is worse than the *)
(* number of the racers; the top scores are ordered and have nobody twice. *)
(* All this although runs end by touch, failure, death and departure in    *)
(* any order, and the end of the last one starts the next race.            *)
(***************************************************************************)
TimesRank == PlacesFollowTimes /\ RecordsRank

(***************************************************************************)
(* A match ends when it is decided: "can finish as soon as leading player  *)
(* has unassailable lead" (race.c:5592).  The leader is ahead of everybody *)
(* by more than the rounds that are left are worth.                        *)
(***************************************************************************)
Unassailable ==
  race.game = 2 =>
    \E p \in race.here : \A q \in race.here \ {p} :
       race.frags[p] - race.frags[q]
         > (RaceRounds - race.round) * Points(1, Cardinality(race.here))

(***************************************************************************)
(* Taking turns, everybody who stays in the line-up gets his run again and *)
(* again, whoever joins or leaves, idles or is disconnected in his run.    *)
(***************************************************************************)
TurnComes ==
  race.mode = "turns" =>
    \A p \in Racers : <>[](p \in race.ready) => []<>(p \in race.racer)
=============================================================================
