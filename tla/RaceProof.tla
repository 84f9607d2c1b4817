------------------------------ MODULE RaceProof ------------------------------
(***************************************************************************)
(* Proof that the places of a race and the top scores follow the times,    *)
(* and that a match of two ends with an unassailable lead, for any number  *)
(* of slots, rounds and records and any length of the clock.               *)
(***************************************************************************)
EXTENDS Race, FoldProof

Record == [who : Racers, time : Nat]

RaceState ==
  [mode : DOMAIN RaceSeats, here : SUBSET Racers, ready : SUBSET Racers,
   racer : SUBSET Racers, part : SUBSET Racers, status : 0 .. 2,
   cd : 0 .. RaceCountdown, clock : 0 .. RaceLimit, next : Racers,
   competing : 0 .. RaceSlots, complete : 0 .. RaceSlots,
   time : [Racers -> 0 .. RaceLimit], place : [Racers -> 0 .. RaceSlots],
   best : Seq(Record), frags : [Racers -> Int],
   ed : (0 .. RaceSlots) \X (0 .. RaceSlots), nochange : BOOLEAN,
   round : 0 .. RaceRounds, game : 0 .. 3]

Ranked(b) ==
  \A i, j \in 1 .. Len(b) : i < j => b[i].time <= b[j].time /\ b[i].who # b[j].who

Placed(s) == {p \in s.part : s.place[p] # 0}

\* A place is the number of those who had finished, at a time that has passed.
Places(s) ==
  /\ \A p \in Placed(s) : s.place[p] <= s.complete /\ s.time[p] <= s.clock
  /\ \A p, q \in Placed(s) :
       p # q => /\ s.place[p] # s.place[q]
                /\ s.time[p] < s.time[q] => s.place[p] < s.place[q]

\* Those who have finished and those who still race are not more than those who started.
RaceCounted(s) == s.complete + Cardinality(s.racer) <= s.competing

LinedUp(s) ==
  /\ s \in RaceState /\ Ranked(s.best)
  /\ s.ready \subseteq s.here /\ s.part \subseteq s.here

Sound(s) == LinedUp(s) /\ s.racer \subseteq s.part /\ Places(s)

RaceLawful(s) == Sound(s) /\ RaceCounted(s)
RaceInv == RaceLawful(race)

\* What only the end of a race and the clients change.
Keeps(s, t) ==
  /\ t.mode = s.mode /\ t.here = s.here /\ t.frags = s.frags /\ t.ed = s.ed
  /\ t.nochange = s.nochange /\ t.round = s.round /\ t.game = s.game

LEMMA RaceConstants ==
  /\ RaceSlots \in Nat \ {0} /\ RaceRounds \in Nat \ {0} /\ RaceBest \in Nat \ {0}
  /\ RaceLimit \in Nat \ {0} /\ RaceCountdown \in Nat /\ RaceWarmup \in Nat
BY RaceNumberAssumption

LEMMA RaceFinite ==
  \A S \in SUBSET Racers :
       IsFiniteSet(S) /\ Cardinality(S) \in Nat /\ Cardinality(S) <= RaceSlots
<1>1. IsFiniteSet(Racers) /\ Cardinality(Racers) = RaceSlots
  BY RaceNumberAssumption, FS_Interval DEF Racers
<1>2. QED BY <1>1, RaceNumberAssumption, FS_Subset, FS_CardinalityType

-----------------------------------------------------------------------------
(***************************************************************************)
(* The line-up.                                                            *)
(***************************************************************************)
LEMMA LineIsThere ==
  ASSUME NEW s, s.ready \subseteq Racers, s.ready # {}, NEW from \in 1 .. RaceSlots + 1
  PROVE  Line(s, from) # {} /\ Line(s, from) \subseteq s.ready
<1> DEFINE T == {Ahead(p, from) : p \in s.ready}
<1>1. \A p \in Racers : Ahead(p, from) \in Nat
  BY RaceConstants DEF Ahead, Racers
<1>2. T \subseteq Nat /\ T # {}
  BY <1>1
<1>3. PICK n \in T : \A m \in T : n <= m
  <2> HIDE DEF T
  <2>1. QED BY <1>2, LeastNumber
<1>4. QED BY <1>3 DEF Line

LEMMA LineUpType ==
  ASSUME NEW s, LinedUp(s)
  PROVE  \E r \in SUBSET s.ready, n \in Racers : LineUp(s) = [s EXCEPT !.racer = r, !.next = n]
<1>0. s \in RaceState /\ s.ready \in SUBSET Racers /\ s.next \in Racers
  BY DEF LinedUp, RaceState
<1>1. CASE Simultaneous(s)
  <2>1. LineUp(s) = [s EXCEPT !.racer = s.ready, !.next = s.next]
    BY <1>0, <1>1 DEF LineUp, RaceState
  <2>2. QED BY <1>0, <2>1
<1>2. CASE ~Simultaneous(s) /\ s.ready = {}
  <2>1. Line(s, s.next) = {}
    BY <1>2 DEF Line
  <2>2. LineUp(s) = [s EXCEPT !.racer = Line(s, s.next), !.next = s.next]
    BY <1>0, <1>2 DEF LineUp, RaceState
  <2>3. QED BY <1>0, <2>1, <2>2
<1>3. CASE ~Simultaneous(s) /\ s.ready # {}
  <2> DEFINE r == CHOOSE p \in Line(s, s.next) : TRUE
             n == CHOOSE p \in Line(s, r + 1) : TRUE
  <2>1. Line(s, s.next) # {} /\ Line(s, s.next) \subseteq s.ready
    BY <1>0, <1>3, LineIsThere, RaceConstants DEF Racers
  <2>2. r \in Racers
    BY <1>0, <2>1
  <2>3. Line(s, r + 1) # {} /\ Line(s, r + 1) \subseteq s.ready
    <3> HIDE DEF r
    <3>1. r + 1 \in 1 .. RaceSlots + 1
      BY <2>2, RaceConstants DEF Racers
    <3>2. QED BY <1>0, <1>3, <3>1, LineIsThere
  <2>4. n \in Racers
    BY <1>0, <2>3
  <2>5. LineUp(s) = [s EXCEPT !.racer = Line(s, s.next), !.next = n]
    BY <1>3 DEF LineUp
  <2> HIDE DEF r, n
  <2>6. QED BY <2>1, <2>4, <2>5
<1>4. QED BY <1>1, <1>2, <1>3

LEMMA CancelType ==
  ASSUME NEW s, LinedUp(s)
  PROVE  /\ LinedUp(race_cancel(s)) /\ Sound(race_cancel(s)) /\ Keeps(s, race_cancel(s))
         /\ race_cancel(s) = [s EXCEPT !.racer = {}, !.part = {}, !.status = 0]
<1>1. race_cancel(s) \in RaceState
  <2>1. s \in RaceState /\ 0 \in 0 .. 2
    BY DEF LinedUp
  <2>2. race_cancel(s) = [s EXCEPT !.racer = {}, !.part = {}, !.status = 0]
    BY DEF race_cancel
  <2>3. QED BY <2>1, <2>2 DEF RaceState
<1>2. Keeps(s, race_cancel(s))
  BY DEF LinedUp, RaceState, race_cancel, Keeps
<1>3. QED BY <1>1, <1>2 DEF LinedUp, Sound, Places, Placed, RaceState, race_cancel

LEMMA StartType ==
  ASSUME NEW s, LinedUp(s)
  PROVE  RaceLawful(race_start(s)) /\ Keeps(s, race_start(s))
<1> DEFINE c == race_cancel(s)
           t == LineUp(c)
           u == race_start(s)
<1>1. LinedUp(c) /\ Keeps(s, c)
  BY CancelType
<1>2. PICK r \in SUBSET c.ready, n \in Racers : t = [c EXCEPT !.racer = r, !.next = n]
  <2> HIDE DEF c
  <2>1. QED BY <1>1, LineUpType
<1>3. t \in RaceState /\ t.racer = r /\ t.here = c.here /\ t.ready = c.ready /\ t.best = c.best
  <2> HIDE DEF c, t
  <2>1. c.ready \in SUBSET Racers
    BY <1>1 DEF LinedUp, RaceState
  <2>2. QED BY <1>1, <1>2, <2>1 DEF LinedUp, RaceState
<1>4. u = [t EXCEPT !.part = t.racer, !.competing = Cardinality(t.racer), !.complete = 0,
               !.status = 1, !.cd = RaceCountdown,
               !.time = [p \in Racers |-> IF p \in t.racer THEN 0 ELSE @[p]],
               !.place = [p \in Racers |-> IF p \in t.racer THEN 0 ELSE @[p]]]
  BY DEF race_start
<1>5. r \in SUBSET c.here /\ r \in SUBSET Racers
  <2> HIDE DEF c, t
  <2>1. QED BY <1>1 DEF LinedUp, RaceState
<1>6. Cardinality(r) \in 0 .. RaceSlots
  BY <1>5, RaceConstants, RaceFinite
<1> HIDE DEF c, t, u
<1> DEFINE time == [p \in Racers |-> IF p \in r THEN 0 ELSE t.time[p]]
           place == [p \in Racers |-> IF p \in r THEN 0 ELSE t.place[p]]
<1>7. u \in RaceState
  <2>1. time \in [Racers -> 0 .. RaceLimit] /\ place \in [Racers -> 0 .. RaceSlots]
    <3>1. t.time \in [Racers -> 0 .. RaceLimit] /\ t.place \in [Racers -> 0 .. RaceSlots]
      BY <1>3 DEF RaceState
    <3>2. 0 \in 0 .. RaceLimit /\ 0 \in 0 .. RaceSlots
      BY RaceConstants
    <3>3. QED BY <3>1, <3>2
  <2>2. u = [t EXCEPT !.part = r, !.competing = Cardinality(r), !.complete = 0,
                 !.status = 1, !.cd = RaceCountdown, !.time = time, !.place = place]
    BY <1>3, <1>4 DEF RaceState
  <2>3. 0 \in 0 .. RaceSlots /\ 1 \in 0 .. 2 /\ RaceCountdown \in 0 .. RaceCountdown
    BY RaceConstants
  <2> HIDE DEF time, place
  <2>4. QED BY <1>3, <1>5, <1>6, <2>1, <2>2, <2>3 DEF RaceState
<1>8. /\ u.part = r /\ u.racer = r /\ u.complete = 0 /\ u.competing = Cardinality(r)
      /\ u.here = c.here /\ u.ready = c.ready /\ u.best = c.best
      /\ \A p \in r : u.place[p] = 0
  BY <1>3, <1>4, <1>5 DEF RaceState
<1>9. Placed(u) = {}
  BY <1>8 DEF Placed
<1>10. LinedUp(u)
  BY <1>1, <1>5, <1>7, <1>8 DEF LinedUp
<1>11. RaceLawful(u)
  BY <1>6, <1>8, <1>9, <1>10 DEF RaceLawful, Sound, Places, RaceCounted
<1>12. Keeps(c, t)
  BY <1>1, <1>2 DEF LinedUp, RaceState, Keeps
<1>13. Keeps(t, u)
  BY <1>3, <1>4 DEF RaceState, Keeps
<1>14. Keeps(s, u)
  BY <1>1, <1>12, <1>13 DEF Keeps
<1>15. QED BY <1>11, <1>14 DEF u

-----------------------------------------------------------------------------
(***************************************************************************)
(* The top scores.                                                         *)
(***************************************************************************)
LEMMA TopScoreRanks ==
  ASSUME NEW b \in Seq(Record), Ranked(b), NEW p \in Racers, NEW t \in Nat
  PROVE  TopScore(b, p, t) \in Seq(Record) /\ Ranked(TopScore(b, p, t))
<1> DEFINE n == Len(b)
           T == {i \in 1 .. n : t < b[i].time} \cup {n + 1}
           time == Min(T)
           ranked == {i \in 1 .. n : b[i].who = p}
           name == IF ranked # {} THEN Max(ranked) ELSE IF n < RaceBest THEN n + 1 ELSE n
           m == IF name > n THEN name ELSE n
           r == [who |-> p, time |-> t]
           new == [i \in 1 .. m |-> CASE i = time -> r
                                      [] time < i /\ i <= name -> b[i - 1]
                                      [] OTHER -> b[i]]
           keep == time > RaceBest \/ (ranked # {} /\ name < time)
<1>1. TopScore(b, p, t) = IF keep THEN b ELSE new
  BY DEF TopScore
<1>2. n \in Nat /\ \A i \in 1 .. n : b[i] \in Record /\ b[i].time \in Nat
  <2>1. n \in Nat /\ \A i \in 1 .. n : b[i] \in Record
    OBVIOUS
  <2>2. \A x \in Record : x.time \in Nat
    BY DEF Record
  <2>3. QED BY <2>1, <2>2
<1> HIDE DEF n
<1>3. time \in T /\ \A i \in T : time <= i
  <2>1. T \subseteq Nat /\ T # {}
    BY <1>2
  <2> HIDE DEF T
  <2>2. QED BY <2>1, LeastNumber DEF Min
<1>4. ranked # {} => name \in ranked
  <2>1. ranked \in SUBSET (1 .. n)
    OBVIOUS
  <2> HIDE DEF ranked
  <2>2. QED BY <1>2, <2>1, MaxIsIn
<1>5. time \in 1 .. n + 1 /\ \A i \in 1 .. n : (i < time => b[i].time <= t)
  <2> HIDE DEF time
  <2>1. time \in 1 .. n + 1
    BY <1>2, <1>3
  <2>2. \A i \in 1 .. n : t < b[i].time => time <= i
    BY <1>3
  <2>3. QED BY <1>2, <2>1, <2>2
<1>6. \A i \in 1 .. n : i >= time => t < b[i].time
  <2> HIDE DEF time
  <2> SUFFICES ASSUME NEW i \in 1 .. n, i >= time PROVE t < b[i].time
    OBVIOUS
  <2>1. time \in 1 .. n /\ t < b[time].time
    BY <1>2, <1>3
  <2>2. time = i \/ b[time].time <= b[i].time
    BY <1>2, <2>1 DEF Ranked, n
  <2>3. QED BY <1>2, <2>1, <2>2
<1>7. \A i \in 1 .. n : b[i].who = p => name = i
  <2>1. ASSUME NEW i \in 1 .. n, b[i].who = p PROVE name = i
    <3>1. name \in ranked
      BY <1>4, <2>1
    <3>2. name \in 1 .. n /\ b[name].who = p
      BY <3>1
    <3> HIDE DEF name
    <3>3. QED BY <1>2, <2>1, <3>2 DEF Ranked, n
  <2>2. QED BY <2>1
<1> HIDE DEF time, T
<1>8. CASE keep
  BY <1>1, <1>8
<1>9. CASE ~keep
  <2>1. name \in 1 .. n + 1 /\ time <= name /\ (name \in 1 .. n => m = n) /\ (name = n + 1 => m = n + 1)
    <3>1. CASE ranked # {}
      BY <1>2, <1>4, <1>5, <1>9, <3>1
    <3>2. CASE ranked = {}
      BY <1>2, <1>5, <1>9, <3>2, RaceConstants
    <3>3. QED BY <3>1, <3>2
  <2>2. (ranked = {} /\ name \in 1 .. n) => \A i \in 1 .. n : b[i].who # p
    OBVIOUS
  <2> HIDE DEF name, ranked, keep
  <2>3. m \in Nat /\ time \in 1 .. m /\ m <= n + 1 /\ name <= m
    BY <1>2, <1>5, <2>1
  <2> DEFINE k == [i \in 1 .. m |-> IF time < i /\ i <= name THEN i - 1 ELSE i]
  <2>4. \A i \in 1 .. m : i # time => /\ k[i] \in 1 .. n /\ new[i] = b[k[i]] /\ k[i] # name
                                      /\ (i < time => k[i] < time) /\ (i > time => k[i] >= time)
    <3> SUFFICES ASSUME NEW i \in 1 .. m, i # time
                 PROVE  /\ k[i] \in 1 .. n /\ new[i] = b[k[i]] /\ k[i] # name
                        /\ (i < time => k[i] < time) /\ (i > time => k[i] >= time)
      OBVIOUS
    <3> HIDE DEF m
    <3>1. CASE time < i /\ i <= name
      <4>1. k[i] = i - 1 /\ new[i] = b[i - 1]
        BY <2>3, <3>1
      <4>2. QED BY <1>2, <1>5, <2>1, <2>3, <3>1, <4>1
    <3>2. CASE ~(time < i /\ i <= name)
      <4>1. k[i] = i /\ new[i] = b[i]
        BY <2>3, <3>2
      <4>2. i # name /\ i \in 1 .. n
        BY <1>2, <1>5, <2>1, <2>3, <3>2
      <4>3. QED BY <1>2, <1>5, <2>1, <2>3, <3>2, <4>1, <4>2
    <3>3. QED BY <3>1, <3>2
  <2>5. \A i, j \in 1 .. m : i < j /\ i # time /\ j # time => k[i] < k[j]
    <3> HIDE DEF m
    <3>1. QED BY <1>5, <2>1, <2>3
  <2>6. new[time] = r
    BY <2>3
  <2>7. r \in Record
    BY DEF Record
  <2> HIDE DEF k, m, r
  <2>8. \A i \in 1 .. m : new[i] \in Record
    <3> SUFFICES ASSUME NEW i \in 1 .. m PROVE new[i] \in Record
      OBVIOUS
    <3>1. i = time \/ (k[i] \in 1 .. n /\ new[i] = b[k[i]])
      BY <2>4
    <3> HIDE DEF new
    <3>2. QED BY <1>2, <2>6, <2>7, <3>1
  <2>9. new \in Seq(Record) /\ Len(new) = m
    <3>1. new \in [1 .. m -> Record]
      BY <2>8
    <3>2. DOMAIN new = 1 .. m
      OBVIOUS
    <3> HIDE DEF new
    <3>3. QED BY <2>3, <3>1, <3>2
  <2> HIDE DEF new
  <2>10. \A i \in 1 .. m : i # time => new[i].who # p
    BY <1>7, <2>4
  <2>11. r.who = p /\ r.time = t
    BY DEF r
  <2>12. ASSUME NEW i \in 1 .. m, NEW j \in 1 .. m, i < j
         PROVE  new[i].time <= new[j].time /\ new[i].who # new[j].who
    <3>1. CASE i = time
      <4>1. k[j] \in 1 .. n /\ k[j] >= time /\ new[j] = b[k[j]]
        BY <1>5, <2>4, <2>12, <3>1
      <4>2. t < new[j].time /\ new[j].time \in Nat
        BY <1>2, <1>6, <4>1
      <4>3. QED BY <2>6, <2>10, <2>11, <2>12, <3>1, <4>2
    <3>2. CASE j = time
      <4>1. k[i] \in 1 .. n /\ k[i] < time /\ new[i] = b[k[i]]
        BY <1>5, <2>4, <2>12, <3>2
      <4>2. new[i].time <= t /\ new[i].time \in Nat
        BY <1>2, <1>5, <4>1
      <4>3. QED BY <2>6, <2>10, <2>11, <2>12, <3>2, <4>2
    <3>3. CASE i # time /\ j # time
      <4>1. k[i] \in 1 .. n /\ k[j] \in 1 .. n /\ k[i] < k[j] /\ new[i] = b[k[i]] /\ new[j] = b[k[j]]
        BY <2>4, <2>5, <2>12, <3>3
      <4>2. QED BY <4>1 DEF Ranked, n
    <3>4. QED BY <3>1, <3>2, <3>3
  <2>13. Ranked(new)
    <3>1. SUFFICES ASSUME NEW i \in 1 .. Len(new), NEW j \in 1 .. Len(new), i < j
                   PROVE  new[i].time <= new[j].time /\ new[i].who # new[j].who
      BY DEF Ranked
    <3>2. QED BY <2>9, <2>12, <3>1
  <2>14. QED BY <1>1, <1>9, <2>9, <2>13 DEF new, r, m
<1>10. QED BY <1>8, <1>9

-----------------------------------------------------------------------------
\* The top scores after the run of one client, and the walk of race_over() along the slots.
ScoreRun(s, b, p) == IF p \in s.part /\ s.time[p] # 0 THEN TopScore(b, p, s.time[p]) ELSE b

RunIter(s, it) ==
  it = [S \in SUBSET DOMAIN [i \in Racers |-> i] |->
          IF S = {} THEN s.best
          ELSE ScoreRun(s, it[S \ {Max(S)}], [i \in Racers |-> i][Max(S)])]

LEMMA TopScoresAreIter ==
  \A s : TopScores(s) =
           [s EXCEPT !.best = (CHOOSE it : RunIter(s, it))[DOMAIN [i \in Racers |-> i]]]
BY DEF TopScores, FoldLeft, MapThenFoldSet, RunIter, ScoreRun

LEMMA TopScoresRank ==
  ASSUME NEW s \in RaceState, Ranked(s.best)
  PROVE  \E b \in Seq(Record) : Ranked(b) /\ TopScores(s) = [s EXCEPT !.best = b]
<1> DEFINE A == {b \in Seq(Record) : Ranked(b)}
           F == [z \in Racers \X A |-> ScoreRun(s, z[2], z[1])]
           seq == [i \in Racers |-> i]
           it == CHOOSE i : RunIter(s, i)
<1>0. DOMAIN seq = Racers /\ \A p \in Racers : seq[p] = p
  OBVIOUS
<1>1. \A p \in Racers, b \in A : ScoreRun(s, b, p) \in A
  <2> SUFFICES ASSUME NEW p \in Racers, NEW b \in A PROVE ScoreRun(s, b, p) \in A
    OBVIOUS
  <2>1. s.time[p] \in Nat
    BY RaceConstants DEF RaceState
  <2>2. QED BY <2>1, TopScoreRanks DEF ScoreRun
<1>2. F \in [Racers \X A -> A] /\ \A p \in Racers, b \in A : F[<<p, b>>] = ScoreRun(s, b, p)
  BY <1>1
<1>3. s.best \in A
  BY DEF RaceState
<1> HIDE DEF A
<1>4. PICK w \in [SUBSET Racers -> A] : WalkIter(w, RaceSlots, s.best, F)
  <2> HIDE DEF F
  <2>1. QED BY <1>2, <1>3, RaceConstants, WalkExists DEF Racers
<1> HIDE DEF F, seq
<1>5. RunIter(s, w)
  <2>1. ASSUME NEW S \in SUBSET Racers
        PROVE  w[S] = IF S = {} THEN s.best ELSE ScoreRun(s, w[S \ {Max(S)}], seq[Max(S)])
    <3>1. CASE S = {}
      BY <1>4, <3>1 DEF WalkIter, Racers
    <3>2. CASE S # {}
      <4>1. Max(S) \in Racers
        BY <3>2, RaceConstants, MaxIsIn DEF Racers
      <4>2. w[S \ {Max(S)}] \in A
        OBVIOUS
      <4>3. w[S] = F[<<Max(S), w[S \ {Max(S)}]>>]
        BY <1>4, <3>2 DEF WalkIter, Racers
      <4>4. QED BY <1>0, <1>2, <3>2, <4>1, <4>2, <4>3
    <3>3. QED BY <3>1, <3>2
  <2>2. w = [S \in SUBSET Racers |->
               IF S = {} THEN s.best ELSE ScoreRun(s, w[S \ {Max(S)}], seq[Max(S)])]
    BY <2>1
  <2>3. QED BY <1>0, <2>2 DEF RunIter, seq
<1>6. RunIter(s, it)
  BY <1>5
<1> HIDE DEF it
<1>7. \A S \in SUBSET Racers :
        it[S] = IF S = {} THEN s.best ELSE ScoreRun(s, it[S \ {Max(S)}], seq[Max(S)])
  BY <1>0, <1>6 DEF RunIter, seq
<1> DEFINE G == {n \in Nat : n <= RaceSlots => it[1 .. n] \in A}
<1>8. 0 \in G
  <2>1. 1 .. 0 = {}
    OBVIOUS
  <2>2. it[{}] = s.best
    BY <1>7
  <2>3. QED BY <1>3, <2>1, <2>2
<1>9. ASSUME NEW n \in Nat, n \in G PROVE n + 1 \in G
  <2> SUFFICES ASSUME n + 1 <= RaceSlots PROVE it[1 .. n + 1] \in A
    OBVIOUS
  <2> DEFINE R == 1 .. n + 1
             Q == 1 .. n
  <2>1. Max(R) = n + 1 /\ R \ {n + 1} = Q /\ R # {}
    <3>1. n + 1 \in Nat /\ n + 1 # 0 /\ n + 1 - 1 = n
      OBVIOUS
    <3> DEFINE m == n + 1
    <3>2. Max(1 .. m) = m /\ (1 .. m) \ {m} = 1 .. m - 1 /\ 1 .. m # {}
      <4> HIDE DEF m
      <4>1. m \in Nat /\ m # 0
        BY <3>1 DEF m
      <4>2. QED BY <4>1, MaxOfInterval
    <3>3. QED BY <3>1, <3>2
  <2>2. R \in SUBSET Racers /\ n + 1 \in Racers /\ it[Q] \in A
    BY <1>9, RaceConstants DEF Racers
  <2> HIDE DEF R, Q
  <2>3. it[R] = ScoreRun(s, it[R \ {Max(R)}], seq[Max(R)])
    BY <1>7, <2>1, <2>2
  <2>4. it[R] = ScoreRun(s, it[Q], n + 1)
    BY <1>0, <2>1, <2>2, <2>3
  <2>5. it[R] \in A
    BY <1>1, <2>2, <2>4
  <2>6. QED BY <2>5 DEF R
<1> HIDE DEF G
<1>10. RaceSlots \in G /\ RaceSlots <= RaceSlots
  BY <1>8, <1>9, NumberInduction, RaceConstants
<1>11. it[Racers] \in A
  BY <1>10 DEF G, Racers
<1>12. TopScores(s) = [s EXCEPT !.best = it[Racers]]
  BY <1>0, TopScoresAreIter DEF it, seq
<1>13. QED BY <1>11, <1>12 DEF A

-----------------------------------------------------------------------------
(***************************************************************************)
(* The end of a race.                                                      *)
(***************************************************************************)
LEMMA LeaderIs ==
  ASSUME NEW s \in RaceState, NEW S \in SUBSET Racers, S # {}
  PROVE  Leader(s, S) \in S
<1> DEFINE First(p, T) == \A q \in T : s.frags[q] < s.frags[p] \/ (s.frags[q] = s.frags[p] /\ p <= q)
           G == {T \in SUBSET S : T # {} => \E p \in T : First(p, T)}
<1>1. IsFiniteSet(S)
  BY RaceFinite
<1>2. {} \in G
  OBVIOUS
<1>3. ASSUME NEW T \in SUBSET S, NEW x \in S \ T, T \in G PROVE T \cup {x} \in G
  <2>0. \A p \in S : p \in Int /\ s.frags[p] \in Int
    BY RaceConstants DEF RaceState, Racers
  <2>1. CASE T = {}
    <3>1. First(x, T \cup {x})
      BY <2>0, <2>1
    <3>2. QED BY <3>1
  <2>2. CASE T # {}
    <3>1. PICK p \in T : First(p, T)
      BY <1>3, <2>2
    <3>2. First(p, T \cup {x}) \/ First(x, T \cup {x})
      <4>1. CASE s.frags[x] < s.frags[p] \/ (s.frags[x] = s.frags[p] /\ p <= x)
        BY <2>0, <3>1, <4>1
      <4>2. CASE s.frags[p] < s.frags[x] \/ (s.frags[x] = s.frags[p] /\ x <= p)
        BY <2>0, <3>1, <4>2
      <4>3. QED BY <2>0, <4>1, <4>2
    <3>3. QED BY <3>2
  <2>3. QED BY <2>1, <2>2
<1> HIDE DEF G
<1>4. \A T \in SUBSET S : T \in G
  BY <1>1, <1>2, <1>3, SetInduction
<1>5. S \in G
  BY <1>4
<1>6. \E p \in S : First(p, S)
  BY <1>5 DEF G
<1>7. QED BY <1>6 DEF Leader

\* Two who are there, if there are two.
PairOf(e, H) == e[1] # 0 /\ e[2] # 0 => e[1] # e[2] /\ e[1] \in H /\ e[2] \in H
KnowsPair(s) == s.nochange => PairOf(s.ed, s.here)

LEMMA ReScoresType ==
  ASSUME NEW s \in RaceState
  PROVE  \E e \in (0 .. RaceSlots) \X (0 .. RaceSlots) :
           /\ ReScores(s) = [s EXCEPT !.nochange = TRUE, !.ed = e]
           /\ KnowsPair(s) => PairOf(e, s.here)
<1>1. CASE s.nochange
  <2>1. ReScores(s) = [s EXCEPT !.nochange = TRUE, !.ed = s.ed]
    BY <1>1 DEF ReScores, RaceState
  <2>2. s.ed \in (0 .. RaceSlots) \X (0 .. RaceSlots)
    BY DEF RaceState
  <2>3. QED BY <1>1, <2>1, <2>2 DEF KnowsPair
<1>2. CASE ~s.nochange
  <2> DEFINE first == Leader(s, s.here)
             second == Leader(s, s.here \ {first})
             e == IF Cardinality(s.here) < 2 THEN <<0, 0>> ELSE <<first, second>>
  <2>1. ReScores(s) = [s EXCEPT !.nochange = TRUE, !.ed = e]
    BY <1>2 DEF ReScores
  <2>2. s.here \in SUBSET Racers /\ \A p \in Racers : p \in 0 .. RaceSlots
    <3>1. s.here \in SUBSET Racers
      BY DEF RaceState
    <3>2. \A p \in Racers : p \in 0 .. RaceSlots
      BY RaceConstants DEF Racers
    <3>3. QED BY <3>1, <3>2
  <2>3. CASE Cardinality(s.here) < 2
    <3>1. e = <<0, 0>>
      BY <2>3
    <3> HIDE DEF e
    <3>2. e \in (0 .. RaceSlots) \X (0 .. RaceSlots) /\ e[1] = 0
      BY <3>1, RaceConstants
    <3>3. QED BY <2>1, <3>2 DEF PairOf
  <2>4. CASE ~(Cardinality(s.here) < 2)
    <3>1. s.here # {}
      BY <2>4, FS_EmptySet
    <3>2. first \in s.here
      BY <2>2, <3>1, LeaderIs
    <3>3. s.here \ {first} # {}
      <4> HIDE DEF first
      <4>1. ASSUME s.here = {first} PROVE FALSE
        BY <2>4, <4>1, FS_Singleton
      <4>2. QED BY <3>2, <4>1
    <3>4. second \in s.here \ {first}
      <4> HIDE DEF first
      <4>1. s.here \ {first} \in SUBSET Racers
        BY <2>2
      <4>2. QED BY <3>3, <4>1, LeaderIs
    <3>5. e = <<first, second>>
      BY <2>4
    <3> HIDE DEF first, second, e
    <3>6. first \in 0 .. RaceSlots /\ second \in 0 .. RaceSlots
      BY <2>2, <3>2, <3>4
    <3>7. e \in (0 .. RaceSlots) \X (0 .. RaceSlots) /\ e[1] = first /\ e[2] = second
      BY <3>5, <3>6
    <3>8. QED BY <2>1, <3>2, <3>4, <3>7 DEF PairOf
  <2>5. QED BY <2>3, <2>4
<1>3. QED BY <1>1, <1>2

LEMMA PointsType ==
  ASSUME NEW place \in Int, NEW n \in Int
  PROVE  Points(place, n) \in Int /\ RoundMaxDiff \in {1, 3, 25}
<1>1. \A i \in 1 .. 10 : Positions[i] \in Int
  BY DEF Positions
<1>2. QED BY <1>1 DEF Points, RoundMaxDiff

\* The leader's points are ahead by more than the rounds that are left are worth.
Ahead2(f, e, r) ==
  /\ e[1] # 0 /\ e[2] # 0
  /\ \/ r = RaceRounds /\ f[e[1]] - f[e[2]] # 0
     \/ r < RaceRounds /\ (RaceRounds - r) * RoundMaxDiff < f[e[1]] - f[e[2]]

LEMMA RoundEndForm ==
  ASSUME NEW s \in RaceState
  PROVE  \E f \in [Racers -> Int], e \in (0 .. RaceSlots) \X (0 .. RaceSlots), r \in 0 .. RaceRounds :
           LET t == [s EXCEPT !.frags = f, !.nochange = FALSE, !.ed = e, !.round = r]
           IN /\ KnowsPair(s) => PairOf(e, s.here)
              /\ \/ \E R \in SUBSET (s.ready \cup s.part) :
                      race_match_round_end(s) = race_start([t EXCEPT !.ready = R])
                 \/ race_match_round_end(s) = RaceEndMatch(t) /\ Ahead2(f, e, r)
<1> DEFINE f == [p \in Racers |->
                   s.frags[p] + IF p \in s.part THEN Points(s.place[p], s.competing) ELSE 0]
           a == [s EXCEPT !.frags = [p \in Racers |->
                   @[p] + IF p \in s.part THEN Points(s.place[p], s.competing) ELSE 0]]
           r == IF s.round < RaceRounds THEN s.round + 1 ELSE s.round
<1>1. f \in [Racers -> Int]
  <2> SUFFICES ASSUME NEW p \in Racers PROVE f[p] \in Int
    OBVIOUS
  <2>1. s.frags[p] \in Int /\ s.place[p] \in Int /\ s.competing \in Int
    BY RaceConstants DEF RaceState
  <2>2. Points(s.place[p], s.competing) \in Int
    BY <2>1, PointsType
  <2>3. QED BY <2>1, <2>2
<1>2. a = [s EXCEPT !.frags = f]
  BY DEF RaceState
<1> HIDE DEF f
<1>3. a \in RaceState /\ a.here = s.here /\ a.nochange = s.nochange /\ a.ed = s.ed
  <2> HIDE DEF a
  <2>1. QED BY <1>1, <1>2 DEF RaceState
<1>4. PICK e \in (0 .. RaceSlots) \X (0 .. RaceSlots) :
        /\ ReScores(a) = [a EXCEPT !.nochange = TRUE, !.ed = e]
        /\ KnowsPair(a) => PairOf(e, a.here)
  <2> HIDE DEF a
  <2>1. QED BY <1>3, ReScoresType
<1>5. r \in 0 .. RaceRounds
  <2>1. s.round \in 0 .. RaceRounds
    BY DEF RaceState
  <2>2. QED BY <2>1, RaceConstants
<1> DEFINE paid == ReScores(a)
           both == paid.ed[1] # 0 /\ paid.ed[2] # 0
           score1 == IF both THEN paid.frags[paid.ed[1]] ELSE 0
           sc == IF both THEN score1 - paid.frags[paid.ed[2]] ELSE 0
           t == [paid EXCEPT !.round = IF @ < RaceRounds THEN @ + 1 ELSE @, !.nochange = FALSE]
           u == [s EXCEPT !.frags = f, !.nochange = FALSE, !.ed = e, !.round = r]
           R == (t.ready \ s.part) \cup {p \in s.part : t.frags[p] = score1}
           v == [t EXCEPT !.ready = R]
<1>6. race_match_round_end(s) =
        CASE t.round = RaceRounds /\ sc = 0 -> race_start(v)
          [] t.round = RaceRounds /\ sc # 0 -> RaceEndMatch(t)
          [] t.round < RaceRounds /\ EndsEarly(RaceRounds - t.round, sc) -> RaceEndMatch(t)
          [] OTHER -> race_start(t)
  BY DEF race_match_round_end
<1>7. paid.ed = e /\ paid.frags = f /\ paid.round = s.round /\ paid.ready = s.ready
  <2> HIDE DEF a
  <2>1. a.frags = f /\ a.round = s.round /\ a.ready = s.ready
    BY <1>2 DEF RaceState
  <2>2. QED BY <1>3, <1>4, <2>1 DEF RaceState
<1>8. t = u
  <2>1. paid = [s EXCEPT !.frags = f, !.nochange = TRUE, !.ed = e]
    <3> HIDE DEF a
    <3>1. QED BY <1>2, <1>4
  <2> HIDE DEF paid
  <2>2. t = [paid EXCEPT !.round = r, !.nochange = FALSE]
    BY <1>7
  <2>3. QED BY <2>1, <2>2 DEF RaceState
<1>9. u.round = r /\ u.frags = f /\ u.ready = s.ready
  BY DEF RaceState
<1> HIDE DEF a, r, paid
<1>10. KnowsPair(s) => PairOf(e, s.here)
  BY <1>3, <1>4 DEF KnowsPair
<1>11. R \in SUBSET (s.ready \cup s.part)
  BY <1>8, <1>9
<1>12. u = [u EXCEPT !.ready = s.ready]
  BY DEF RaceState
<1> HIDE DEF t, R, v
<1>13. (both /\ sc = f[e[1]] - f[e[2]]) \/ (~both /\ sc = 0)
  BY <1>7
<1>14. both <=> e[1] # 0 /\ e[2] # 0
  BY <1>7
<1> HIDE DEF sc, both, u, score1
<1>15. sc \in Int
  BY <1>1, <1>13, <1>14 DEF Racers
<1>16. RoundMaxDiff \in {1, 3, 25}
  BY PointsType
<1>17. CASE r = RaceRounds /\ sc = 0
  <2>1. v = [u EXCEPT !.ready = R]
    BY <1>8 DEF v
  <2>2. race_match_round_end(s) = race_start(v)
    <3>1. t.round = RaceRounds /\ sc = 0 /\ ~(t.round < RaceRounds)
      BY <1>8, <1>9, <1>17, RaceConstants
    <3>2. QED BY <1>6, <3>1, Zenon
  <2>3. race_match_round_end(s) = race_start([u EXCEPT !.ready = R])
    BY <2>1, <2>2
  <2>4. QED BY <1>1, <1>5, <1>10, <1>11, <2>3 DEF u
<1>18. CASE r = RaceRounds /\ sc # 0
  <2>1. race_match_round_end(s) = RaceEndMatch(u) /\ Ahead2(f, e, r)
    BY <1>6, <1>8, <1>9, <1>13, <1>14, <1>18 DEF Ahead2
  <2>2. QED BY <1>1, <1>5, <1>10, <2>1 DEF u
<1>19. CASE r < RaceRounds /\ EndsEarly(RaceRounds - r, sc)
  <2>0. r # RaceRounds
    BY <1>5, <1>19, RaceConstants
  <2>1. (RaceRounds - r) * RoundMaxDiff < sc
    BY <1>19 DEF EndsEarly
  <2>2. sc # 0
    BY <1>5, <1>16, <1>19, <2>1, RaceConstants
  <2>3. Ahead2(f, e, r)
    BY <1>13, <1>14, <1>19, <2>1, <2>2 DEF Ahead2
  <2>4. race_match_round_end(s) = RaceEndMatch(u)
    BY <1>6, <1>8, <1>9, <1>19, <2>0
  <2>5. QED BY <1>1, <1>5, <1>10, <2>3, <2>4 DEF u
<1>20. CASE r < RaceRounds /\ ~EndsEarly(RaceRounds - r, sc)
  <2>0. r # RaceRounds
    BY <1>5, <1>20, RaceConstants
  <2>1. race_match_round_end(s) = race_start(u)
    BY <1>6, <1>8, <1>9, <1>20, <2>0
  <2>2. s.ready \in SUBSET (s.ready \cup s.part)
    OBVIOUS
  <2>3. race_match_round_end(s) = race_start([u EXCEPT !.ready = s.ready])
    BY <1>12, <2>1
  <2>4. QED BY <1>1, <1>5, <1>10, <2>2, <2>3 DEF u
<1>21. r = RaceRounds \/ r < RaceRounds
  BY <1>5, RaceConstants
<1>22. QED BY <1>17, <1>18, <1>19, <1>20, <1>21

\* What the places depend on.
Agree(s, t) ==
  /\ t.here = s.here /\ t.ready = s.ready /\ t.racer = s.racer /\ t.part = s.part
  /\ t.clock = s.clock /\ t.competing = s.competing /\ t.complete = s.complete
  /\ t.time = s.time /\ t.place = s.place

LEMMA AgreeLawful ==
  ASSUME NEW s, NEW t \in RaceState, Agree(s, t), Ranked(t.best)
  PROVE  (Sound(s) => Sound(t)) /\ (RaceLawful(s) => RaceLawful(t))
<1>1. Placed(t) = Placed(s)
  BY DEF Agree, Placed
<1>2. Places(s) => Places(t)
  BY <1>1 DEF Agree, Places
<1>3. QED BY <1>2 DEF Agree, RaceLawful, Sound, LinedUp, RaceCounted

LEMMA RoundEndLawful ==
  ASSUME NEW s, RaceLawful(s) PROVE RaceLawful(race_match_round_end(s))
<1>0. s \in RaceState /\ LinedUp(s) /\ Sound(s)
  BY DEF RaceLawful, Sound, LinedUp
<1>1. PICK f \in [Racers -> Int], e \in (0 .. RaceSlots) \X (0 .. RaceSlots), r \in 0 .. RaceRounds :
        LET t == [s EXCEPT !.frags = f, !.nochange = FALSE, !.ed = e, !.round = r]
        IN /\ KnowsPair(s) => PairOf(e, s.here)
           /\ \/ \E R \in SUBSET (s.ready \cup s.part) :
                   race_match_round_end(s) = race_start([t EXCEPT !.ready = R])
              \/ race_match_round_end(s) = RaceEndMatch(t) /\ Ahead2(f, e, r)
  BY <1>0, RoundEndForm
<1> DEFINE t == [s EXCEPT !.frags = f, !.nochange = FALSE, !.ed = e, !.round = r]
<1>2. t \in RaceState /\ Agree(s, t) /\ t.best = s.best
  BY <1>0 DEF RaceState, Agree
<1>3. RaceLawful(t)
  <2> HIDE DEF t
  <2>1. Ranked(t.best)
    BY <1>0, <1>2 DEF LinedUp
  <2>2. QED BY <1>2, <2>1, AgreeLawful
<1>4. ASSUME NEW R \in SUBSET (s.ready \cup s.part) PROVE RaceLawful(race_start([t EXCEPT !.ready = R]))
  <2> DEFINE u == [t EXCEPT !.ready = R]
  <2>1. R \subseteq s.here /\ R \in SUBSET Racers
    BY <1>0 DEF LinedUp, RaceState
  <2>2. u \in RaceState /\ u.here = s.here /\ u.part = s.part /\ u.best = s.best /\ u.ready = R
    <3> HIDE DEF t
    <3>1. t.here = s.here /\ t.part = s.part
      BY <1>2 DEF Agree
    <3>2. QED BY <1>2, <2>1, <3>1 DEF RaceState
  <2> HIDE DEF u
  <2>3. LinedUp(u)
    BY <1>0, <2>1, <2>2 DEF LinedUp
  <2>4. RaceLawful(race_start(u))
    BY <2>3, StartType
  <2>5. QED BY <2>4 DEF u
<1>5. RaceLawful(RaceEndMatch(t))
  <2> HIDE DEF t
  <2> DEFINE u == [t EXCEPT !.game = 2]
  <2>0. 2 \in 0 .. 3
    OBVIOUS
  <2>1. u \in RaceState /\ Agree(t, u) /\ u.best = t.best
    <3>1. u \in RaceState
      BY <1>2, <2>0 DEF RaceState
    <3>2. Agree(t, u) /\ u.best = t.best
      BY <1>2 DEF RaceState, Agree
    <3>3. QED BY <3>1, <3>2
  <2>2. RaceEndMatch(t) = u \/ RaceEndMatch(t) = t
    BY DEF RaceEndMatch
  <2> HIDE DEF u
  <2>3. Ranked(u.best)
    BY <1>3, <2>1 DEF RaceLawful, Sound, LinedUp
  <2>4. RaceLawful(u)
    BY <1>3, <2>1, <2>3, AgreeLawful
  <2>5. QED BY <1>3, <2>2, <2>4
<1>6. race_match_round_end(s) = RaceEndMatch(t)
      \/ \E R \in SUBSET (s.ready \cup s.part) :
             race_match_round_end(s) = race_start([t EXCEPT !.ready = R])
  BY <1>1
<1> HIDE DEF t
<1>7. QED BY <1>4, <1>5, <1>6

LEMMA OverLawful ==
  ASSUME NEW s, RaceLawful(s) PROVE RaceLawful(race_over(s))
<1> DEFINE t == TopScores(s)
<1>0. s \in RaceState /\ Ranked(s.best)
  BY DEF RaceLawful, Sound, LinedUp
<1>1. PICK b \in Seq(Record) : Ranked(b) /\ t = [s EXCEPT !.best = b]
  BY <1>0, TopScoresRank
<1> HIDE DEF t
<1>2. t \in RaceState /\ Agree(s, t) /\ t.best = b
  BY <1>0, <1>1 DEF RaceState, Agree
<1>3. RaceLawful(t)
  BY <1>1, <1>2, AgreeLawful
<1>4. LinedUp(t)
  BY <1>3 DEF RaceLawful, Sound
<1>5. race_over(s) = race_match_round_end(t) \/ race_over(s) = race_start(t)
  BY DEF race_over, t
<1>6. QED BY <1>3, <1>4, <1>5, RoundEndLawful, StartType

\* The runs of S end: those who have finished and the others who still race must not be too many.
LEMMA EndLawful ==
  ASSUME NEW s, Sound(s), NEW S, s.complete + Cardinality(s.racer \ S) <= s.competing
  PROVE  RaceLawful(race_end(s, S))
<1> DEFINE u == [s EXCEPT !.racer = @ \ S]
           v == [s EXCEPT !.racer = {}]
<1>0. s \in RaceState /\ s.racer \in SUBSET Racers /\ s.racer \ S \in SUBSET Racers
  BY DEF Sound, LinedUp, RaceState
<1>1. u \in RaceState /\ u.racer = s.racer \ S
  BY <1>0 DEF RaceState
<1>2. RaceLawful(u)
  <2>1. u.here = s.here /\ u.ready = s.ready /\ u.part = s.part /\ u.best = s.best
        /\ u.clock = s.clock /\ u.competing = s.competing /\ u.complete = s.complete
        /\ u.time = s.time /\ u.place = s.place
    BY <1>0 DEF RaceState
  <2> HIDE DEF u
  <2>2. Placed(u) = Placed(s) /\ (Places(s) => Places(u))
    BY <2>1 DEF Placed, Places
  <2>3. QED BY <1>1, <2>1, <2>2 DEF RaceLawful, Sound, LinedUp, RaceCounted
<1>3. CASE S # {} /\ s.racer \subseteq S
  <2>1. s.racer \ S = {}
    BY <1>3
  <2>2. u = v
    BY <2>1
  <2> HIDE DEF u, v
  <2>3. RaceLawful(race_over(v))
    BY <1>2, <2>2, OverLawful
  <2>4. race_end(s, S) = race_over(v)
    BY <1>3 DEF race_end, v
  <2>5. QED BY <2>3, <2>4
<1>4. CASE ~(S # {} /\ s.racer \subseteq S)
  <2>1. race_end(s, S) = u
    BY <1>4 DEF race_end
  <2> HIDE DEF u
  <2>2. QED BY <1>2, <2>1
<1>5. QED BY <1>3, <1>4

LEMMA EndCounted ==
  ASSUME NEW s, RaceLawful(s), NEW S
  PROVE  RaceLawful(race_end(s, S))
<1>1. s.racer \in SUBSET Racers /\ s.complete \in Int /\ s.competing \in Int
  BY RaceConstants DEF RaceLawful, Sound, LinedUp, RaceState
<1>2. Cardinality(s.racer \ S) <= Cardinality(s.racer)
      /\ Cardinality(s.racer \ S) \in Nat /\ Cardinality(s.racer) \in Nat
  <2>1. IsFiniteSet(s.racer) /\ s.racer \ S \subseteq s.racer
    BY <1>1, RaceFinite
  <2>2. QED BY <2>1, FS_Subset, FS_CardinalityType
<1>3. s.complete + Cardinality(s.racer \ S) <= s.competing
  BY <1>1, <1>2 DEF RaceLawful, RaceCounted
<1>4. QED BY <1>3, EndLawful DEF RaceLawful

LEMMA LawfulTypes ==
  ASSUME NEW s, RaceLawful(s)
  PROVE  /\ s \in RaceState /\ Ranked(s.best) /\ Sound(s) /\ LinedUp(s)
         /\ s.here \in SUBSET Racers /\ s.ready \in SUBSET s.here
         /\ s.part \in SUBSET s.here /\ s.racer \in SUBSET s.part
         /\ s.time \in [Racers -> 0 .. RaceLimit] /\ s.place \in [Racers -> 0 .. RaceSlots]
         /\ s.clock \in Nat /\ s.complete \in Nat /\ s.competing \in Nat
         /\ s.competing <= RaceSlots /\ s.clock <= RaceLimit
         /\ Cardinality(s.racer) \in Nat /\ s.complete + Cardinality(s.racer) <= s.competing
<1>1. s \in RaceState /\ Ranked(s.best) /\ Sound(s) /\ LinedUp(s)
  BY DEF RaceLawful, Sound, LinedUp
<1>2. /\ s.here \in SUBSET Racers /\ s.ready \in SUBSET s.here
      /\ s.part \in SUBSET s.here /\ s.racer \in SUBSET s.part
      /\ s.time \in [Racers -> 0 .. RaceLimit] /\ s.place \in [Racers -> 0 .. RaceSlots]
  BY <1>1 DEF RaceState, Sound, LinedUp
<1>3. /\ s.clock \in Nat /\ s.complete \in Nat /\ s.competing \in Nat
      /\ s.competing <= RaceSlots /\ s.clock <= RaceLimit
  BY <1>1, RaceConstants DEF RaceState
<1>4. Cardinality(s.racer) \in Nat
  <2>1. s.racer \in SUBSET Racers
    BY <1>2
  <2>2. QED BY <2>1, RaceFinite
<1>5. QED BY <1>1, <1>2, <1>3, <1>4 DEF RaceLawful, RaceCounted

\* A change of the line-up and of who is there.
LEMMA JoinLawful ==
  ASSUME NEW s, RaceLawful(s), NEW H \in SUBSET Racers, NEW R \in SUBSET H, s.part \subseteq H, NEW k \in BOOLEAN
  PROVE  RaceLawful([s EXCEPT !.here = H, !.ready = R, !.nochange = k])
<1> DEFINE u == [s EXCEPT !.here = H, !.ready = R, !.nochange = k]
<1>1. u \in RaceState
  <2>1. s \in RaceState /\ R \in SUBSET Racers
    BY LawfulTypes
  <2>2. QED BY <2>1 DEF RaceState
<1>2. /\ u.here = H /\ u.ready = R /\ u.racer = s.racer /\ u.part = s.part /\ u.best = s.best
      /\ u.clock = s.clock /\ u.competing = s.competing /\ u.complete = s.complete
      /\ u.time = s.time /\ u.place = s.place
  BY LawfulTypes DEF RaceState
<1> HIDE DEF u
<1>3. Placed(u) = Placed(s)
  BY <1>2 DEF Placed
<1>4. Places(u)
  BY <1>2, <1>3, LawfulTypes DEF Sound, Places
<1>5. RaceLawful(u)
  BY <1>1, <1>2, <1>4, LawfulTypes DEF RaceLawful, Sound, LinedUp, RaceCounted
<1>6. QED BY <1>5 DEF u

\* A change of what the places do not depend on.
LEMMA IdleLawful ==
  ASSUME NEW s, RaceLawful(s), NEW t \in RaceState, Agree(s, t), t.best = s.best
  PROVE  RaceLawful(t)
BY AgreeLawful, LawfulTypes

LEMMA OverHere ==
  ASSUME NEW s \in RaceState, LinedUp(s)
  PROVE  /\ race_over(s).here = s.here /\ race_over(s).mode = s.mode
         /\ race_over(s) \in RaceState
<1> DEFINE t == TopScores(s)
<1>0. Ranked(s.best)
  BY DEF LinedUp
<1>1. PICK b \in Seq(Record) : Ranked(b) /\ t = [s EXCEPT !.best = b]
  BY <1>0, TopScoresRank
<1> HIDE DEF t
<1>2. /\ t \in RaceState /\ t.here = s.here /\ t.mode = s.mode /\ t.best = b
      /\ t.ready = s.ready /\ t.part = s.part
  BY <1>1 DEF RaceState
<1>3. LinedUp(t)
  BY <1>1, <1>2 DEF LinedUp
<1>4. CASE race_over(s) = race_start(t)
  <2>1. RaceLawful(race_start(t)) /\ Keeps(t, race_start(t))
    BY <1>3, StartType
  <2>2. QED BY <1>2, <1>4, <2>1, LawfulTypes DEF Keeps
<1>5. CASE race_over(s) = race_match_round_end(t)
  <2>1. PICK f \in [Racers -> Int], e \in (0 .. RaceSlots) \X (0 .. RaceSlots), r \in 0 .. RaceRounds :
        LET u == [t EXCEPT !.frags = f, !.nochange = FALSE, !.ed = e, !.round = r]
        IN /\ KnowsPair(t) => PairOf(e, t.here)
           /\ \/ \E R \in SUBSET (t.ready \cup t.part) :
                   race_match_round_end(t) = race_start([u EXCEPT !.ready = R])
              \/ race_match_round_end(t) = RaceEndMatch(u) /\ Ahead2(f, e, r)
    BY <1>2, RoundEndForm
  <2> DEFINE u == [t EXCEPT !.frags = f, !.nochange = FALSE, !.ed = e, !.round = r]
  <2>2. /\ u \in RaceState /\ u.here = t.here /\ u.mode = t.mode /\ u.best = t.best
        /\ u.part = t.part
    BY <1>2 DEF RaceState
  <2>3. race_match_round_end(t) = RaceEndMatch(u)
        \/ \E R \in SUBSET (t.ready \cup t.part) :
               race_match_round_end(t) = race_start([u EXCEPT !.ready = R])
    BY <2>1
  <2> HIDE DEF u
  <2>4. CASE race_match_round_end(t) = RaceEndMatch(u)
    <3>0. 2 \in 0 .. 3
      OBVIOUS
    <3>1. RaceEndMatch(u) = [u EXCEPT !.game = 2] \/ RaceEndMatch(u) = u
      BY DEF RaceEndMatch
    <3>2. RaceEndMatch(u) \in RaceState /\ RaceEndMatch(u).here = u.here /\ RaceEndMatch(u).mode = u.mode
      BY <2>2, <3>0, <3>1 DEF RaceState
    <3>3. QED BY <1>2, <1>5, <2>2, <2>4, <3>2
  <2>5. ASSUME NEW R \in SUBSET (t.ready \cup t.part),
               race_match_round_end(t) = race_start([u EXCEPT !.ready = R])
        PROVE  /\ race_over(s).here = s.here /\ race_over(s).mode = s.mode
               /\ race_over(s) \in RaceState
    <3> DEFINE v == [u EXCEPT !.ready = R]
    <3>1. R \in SUBSET Racers /\ R \subseteq t.here
      BY <1>2, <1>3 DEF RaceState, LinedUp
    <3>2. v \in RaceState /\ v.here = t.here /\ v.mode = t.mode /\ v.best = t.best /\ v.part = t.part /\ v.ready = R
      BY <2>2, <3>1 DEF RaceState
    <3>3. race_match_round_end(t) = race_start(v)
      BY <2>5
    <3> HIDE DEF v
    <3>4. LinedUp(v)
      BY <1>3, <3>1, <3>2 DEF LinedUp
    <3>5. RaceLawful(race_start(v)) /\ Keeps(v, race_start(v))
      BY <3>4, StartType
    <3>6. QED BY <1>2, <1>5, <3>2, <3>3, <3>5, LawfulTypes DEF Keeps
  <2>6. QED BY <2>3, <2>4, <2>5
<1>6. race_over(s) = race_match_round_end(t) \/ race_over(s) = race_start(t)
  BY DEF race_over, t
<1>7. QED BY <1>4, <1>5, <1>6

LEMMA EndHere ==
  ASSUME NEW s \in RaceState, LinedUp(s), NEW S
  PROVE  race_end(s, S).here = s.here /\ race_end(s, S).mode = s.mode
<1> DEFINE u == [s EXCEPT !.racer = @ \ S]
           v == [s EXCEPT !.racer = {}]
<1>1. /\ u.here = s.here /\ u.mode = s.mode
      /\ v \in RaceState /\ v.here = s.here /\ v.mode = s.mode
      /\ v.best = s.best /\ v.ready = s.ready /\ v.part = s.part
  BY DEF RaceState
<1>2. race_end(s, S) = race_over(v) \/ race_end(s, S) = u
  BY DEF race_end
<1> HIDE DEF u, v
<1>3. LinedUp(v)
  BY <1>1 DEF LinedUp
<1>4. QED BY <1>1, <1>2, <1>3, OverHere

-----------------------------------------------------------------------------
(***************************************************************************)
(* Clients.                                                                *)
(***************************************************************************)
LEMMA EmptyLawful ==
  ASSUME NEW mode \in DOMAIN RaceSeats
  PROVE  RaceLawful(RaceEmpty(mode))
<1> DEFINE u == RaceEmpty(mode)
           Zero == [p \in Racers |-> 0]
<1>1. RaceAll(0) = Zero
  BY DEF RaceAll
<1>2. 0 \in 0 .. RaceCountdown /\ 0 \in 0 .. RaceLimit /\ 1 \in Racers /\ 0 \in 0 .. RaceSlots
      /\ 0 \in 0 .. RaceRounds /\ 0 \in 0 .. 3 /\ 0 \in 0 .. 2
  BY RaceConstants DEF Racers
<1>3. Zero \in [Racers -> 0 .. RaceLimit] /\ Zero \in [Racers -> 0 .. RaceSlots]
      /\ Zero \in [Racers -> Int]
  BY <1>2
<1>4. <<>> \in Seq(Record) /\ <<0, 0>> \in (0 .. RaceSlots) \X (0 .. RaceSlots) /\ Len(<<>>) = 0
  BY <1>2
<1> HIDE DEF Zero
<1>5. u \in RaceState
  BY <1>1, <1>2, <1>3, <1>4 DEF RaceEmpty, RaceState
<1>6. /\ u.racer = {} /\ u.part = {} /\ u.ready = {} /\ u.here = {} /\ u.best = <<>>
      /\ u.complete = 0 /\ u.competing = 0
  BY DEF RaceEmpty
<1> HIDE DEF u
<1>7. Ranked(u.best) /\ Placed(u) = {} /\ Cardinality(u.racer) = 0
  BY <1>4, <1>6, FS_EmptySet DEF Ranked, Placed
<1>8. RaceLawful(u)
  BY <1>5, <1>6, <1>7 DEF RaceLawful, Sound, LinedUp, RaceCounted, Places
<1>9. QED BY <1>8 DEF u

LEMMA ConnectLawful ==
  ASSUME RaceInv, NEW p \in Racers, RaceConnect(p) PROVE RaceInv'
<1> DEFINE H == race.here \cup {p}
           R == race.ready
<1>1. race' = [race EXCEPT !.here = H, !.ready = R, !.nochange = FALSE]
  BY LawfulTypes DEF RaceConnect, RaceInv, RaceState
<1>2. H \in SUBSET Racers /\ R \in SUBSET H /\ race.part \subseteq H
  BY LawfulTypes DEF RaceInv
<1> HIDE DEF H, R
<1>3. RaceLawful([race EXCEPT !.here = H, !.ready = R, !.nochange = FALSE])
  BY <1>2, JoinLawful DEF RaceInv
<1>4. QED BY <1>1, <1>3 DEF RaceInv

LEMMA DisconnectLawful ==
  ASSUME RaceInv, NEW p \in Racers, RaceDisconnect(p) PROVE RaceInv'
<1> DEFINE H == race.here \ {p}
           R == race.ready \ {p}
           C == race.racer \ {p}
           P == race.part \ {p}
           T == [race.time EXCEPT ![p] = 0]
           L == [race.place EXCEPT ![p] = 0]
           f == [race.frags EXCEPT ![p] = 0]
           u == [race EXCEPT !.here = H, !.ready = R, !.racer = C, !.part = P,
                             !.nochange = FALSE, !.time = T, !.place = L, !.frags = f]
<1>0. RaceLawful(race)
  BY DEF RaceInv
<1>1. CASE race.here = {p}
  <2>1. race' = RaceEmpty(race.mode) /\ race.mode \in DOMAIN RaceSeats
    BY <1>0, <1>1, LawfulTypes DEF RaceDisconnect, RaceState
  <2>2. QED BY <2>1, EmptyLawful DEF RaceInv
<1>2. CASE race.here # {p}
  <2>1. race' = u
    BY <1>0, <1>2, LawfulTypes DEF RaceDisconnect, RaceState
  <2>2. /\ H \in SUBSET Racers /\ R \in SUBSET H /\ P \in SUBSET H /\ C \in SUBSET P
        /\ T \in [Racers -> 0 .. RaceLimit] /\ L \in [Racers -> 0 .. RaceSlots]
        /\ f \in [Racers -> Int]
    <3>1. 0 \in 0 .. RaceLimit /\ 0 \in 0 .. RaceSlots
      BY RaceConstants
    <3>2. race \in RaceState
      BY <1>0, LawfulTypes
    <3>3. race.frags \in [Racers -> Int]
      BY <3>2 DEF RaceState
    <3>4. /\ race.here \in SUBSET Racers /\ race.ready \in SUBSET race.here
          /\ race.part \in SUBSET race.here /\ race.racer \in SUBSET race.part
          /\ race.time \in [Racers -> 0 .. RaceLimit] /\ race.place \in [Racers -> 0 .. RaceSlots]
      BY <1>0, LawfulTypes
    <3>5. f \in [Racers -> Int] /\ T \in [Racers -> 0 .. RaceLimit] /\ L \in [Racers -> 0 .. RaceSlots]
      BY <3>1, <3>3, <3>4
    <3>6. QED BY <3>4, <3>5
  <2>3. \A q \in P : T[q] = race.time[q] /\ L[q] = race.place[q] /\ q \in race.part
    BY <1>0, LawfulTypes
  <2>4. Cardinality(C) <= Cardinality(race.racer) /\ Cardinality(C) \in Nat
    <3>1. race.racer \in SUBSET Racers /\ C \subseteq race.racer
      BY <1>0, LawfulTypes
    <3>2. IsFiniteSet(race.racer)
      BY <3>1, RaceFinite
    <3> HIDE DEF C
    <3>3. QED BY <3>1, <3>2, FS_Subset, FS_CardinalityType
  <2> HIDE DEF H, R, C, P, T, L, f
  <2>5. u \in RaceState
    <3>1. race \in RaceState /\ R \in SUBSET Racers /\ P \in SUBSET Racers /\ C \in SUBSET Racers
      BY <1>0, <2>2, LawfulTypes
    <3>2. QED BY <2>2, <3>1 DEF RaceState
  <2>6. /\ u.here = H /\ u.ready = R /\ u.racer = C /\ u.part = P /\ u.time = T /\ u.place = L
        /\ u.best = race.best /\ u.clock = race.clock /\ u.complete = race.complete
        /\ u.competing = race.competing
    BY <1>0, LawfulTypes DEF RaceState
  <2> HIDE DEF u
  <2>7. Places(u)
    <3>1. \A q \in Placed(u) : /\ q \in Placed(race) /\ u.place[q] = race.place[q]
                               /\ u.time[q] = race.time[q]
      BY <2>3, <2>6 DEF Placed
    <3>2. Places(race)
      BY <1>0, LawfulTypes DEF Sound
    <3>3. QED BY <2>6, <3>1, <3>2 DEF Places
  <2>8. RaceCounted(u)
    <3>1. /\ race.complete \in Nat /\ race.competing \in Nat /\ Cardinality(race.racer) \in Nat
          /\ race.complete + Cardinality(race.racer) <= race.competing
      BY <1>0, LawfulTypes
    <3>2. QED BY <2>4, <2>6, <3>1 DEF RaceCounted
  <2>9. RaceLawful(u)
    BY <1>0, <2>2, <2>5, <2>6, <2>7, <2>8, LawfulTypes DEF RaceLawful, Sound, LinedUp
  <2>10. QED BY <2>1, <2>9 DEF RaceInv
<1>3. QED BY <1>1, <1>2

LEMMA LineLawful ==
  ASSUME NEW s, RaceLawful(s), NEW R \in SUBSET s.here
  PROVE  RaceLawful([s EXCEPT !.ready = R])
<1> DEFINE H == s.here
           k == s.nochange
<1>1. [s EXCEPT !.ready = R] = [s EXCEPT !.here = H, !.ready = R, !.nochange = k]
  BY LawfulTypes DEF RaceState
<1>2. H \in SUBSET Racers /\ s.part \subseteq H /\ k \in BOOLEAN
  BY LawfulTypes DEF RaceState
<1>3. R \in SUBSET H
  OBVIOUS
<1> HIDE DEF H, k
<1>4. RaceLawful([s EXCEPT !.here = H, !.ready = R, !.nochange = k])
  BY <1>2, <1>3, JoinLawful
<1>5. QED BY <1>1, <1>4

LEMMA QuitLawful ==
  ASSUME RaceInv, NEW p PROVE RaceLawful(Quit(p)) /\ Quit(p).here = race.here /\ Quit(p).mode = race.mode
<1>1. RaceLawful(race)
  BY DEF RaceInv
<1>2. RaceLawful(race_end(race, {p}))
  BY <1>1, EndCounted
<1>3. race_end(race, {p}).here = race.here /\ race_end(race, {p}).mode = race.mode
  BY <1>1, LawfulTypes, EndHere
<1>4. QED BY <1>1, <1>2, <1>3 DEF Quit

LEMMA LineUpLawful ==
  ASSUME RaceInv, NEW p \in Racers, RaceReady(p) \/ RaceBreak(p) \/ RaceToggle(p) PROVE RaceInv'
<1>0. RaceLawful(race) /\ RaceLawful(Quit(p)) /\ Quit(p).here = race.here
  BY QuitLawful DEF RaceInv
<1>1. CASE RaceReady(p)
  <2> DEFINE R == race.ready \cup {p}
  <2>1. race' = [race EXCEPT !.ready = R] /\ R \in SUBSET race.here
    BY <1>0, <1>1, LawfulTypes DEF RaceReady
  <2> HIDE DEF R
  <2>2. QED BY <1>0, <2>1, LineLawful DEF RaceInv
<1>2. CASE RaceBreak(p)
  <2> DEFINE q == Quit(p)
             R == q.ready \ {p}
  <2>1. race' = [q EXCEPT !.ready = R]
    BY <1>2 DEF RaceBreak
  <2>2. R \in SUBSET q.here
    BY <1>0, LawfulTypes
  <2> HIDE DEF R, q
  <2>3. RaceLawful(q)
    BY <1>0 DEF q
  <2>4. QED BY <2>1, <2>2, <2>3, LineLawful DEF RaceInv
<1>3. CASE RaceToggle(p)
  <2> DEFINE q == Quit(p)
             R == IF p \in q.ready THEN q.ready \ {p} ELSE q.ready \cup {p}
  <2>1. race' = [q EXCEPT !.ready = R] /\ p \in race.here
    BY <1>3 DEF RaceToggle
  <2>2. R \in SUBSET q.here
    BY <1>0, <2>1, LawfulTypes
  <2> HIDE DEF R, q
  <2>3. RaceLawful(q)
    BY <1>0 DEF q
  <2>4. QED BY <2>1, <2>2, <2>3, LineLawful DEF RaceInv
<1>4. QED BY <1>1, <1>2, <1>3

LEMMA FailLawful ==
  ASSUME RaceInv, NEW p \in Racers, RaceFail(p) PROVE RaceInv'
<1>1. race' = race_end(race, {p}) /\ RaceLawful(race)
  BY DEF RaceFail, RaceInv
<1>2. QED BY <1>1, EndCounted DEF RaceInv

LEMMA FinishType ==
  ASSUME RaceInv, NEW p \in race.racer
  PROVE  LET n == race.complete + IF race.competing > 1 THEN 1 ELSE 0
             T == [race.time EXCEPT ![p] = race.clock]
             L == [race.place EXCEPT ![p] = n]
         IN [race EXCEPT !.complete = n, !.time = T, !.place = L] \in RaceState
<1> DEFINE n == race.complete + IF race.competing > 1 THEN 1 ELSE 0
           T == [race.time EXCEPT ![p] = race.clock]
           L == [race.place EXCEPT ![p] = n]
           u == [race EXCEPT !.complete = n, !.time = T, !.place = L]
<1>0. RaceLawful(race)
  BY DEF RaceInv
<1>1. Cardinality(race.racer) > 0
  <2>1. race.racer \in SUBSET Racers
    BY <1>0, LawfulTypes
  <2>2. IsFiniteSet(race.racer)
    BY <2>1, RaceFinite
  <2>3. QED BY <2>2, FS_EmptySet, FS_CardinalityType
<1>2. n \in 0 .. RaceSlots
  <2>1. /\ race.complete \in Nat /\ race.competing \in Nat /\ race.competing <= RaceSlots
        /\ race.complete + Cardinality(race.racer) <= race.competing
        /\ Cardinality(race.racer) \in Nat
    BY <1>0, LawfulTypes
  <2>2. QED BY <1>1, <2>1, RaceConstants
<1> HIDE DEF n
<1>3. T \in [Racers -> 0 .. RaceLimit] /\ L \in [Racers -> 0 .. RaceSlots]
  <2>1. race.clock \in Nat /\ race.clock <= RaceLimit
        /\ race.time \in [Racers -> 0 .. RaceLimit] /\ race.place \in [Racers -> 0 .. RaceSlots]
    BY <1>0, LawfulTypes
  <2>2. race.clock \in 0 .. RaceLimit
    BY <2>1, RaceConstants
  <2>3. QED BY <1>2, <2>1, <2>2
<1> HIDE DEF T, L
<1>4. u \in RaceState
  <2>1. race \in RaceState
    BY <1>0, LawfulTypes
  <2>2. QED BY <1>2, <1>3, <2>1 DEF RaceState
<1>5. QED BY <1>4 DEF n, T, L

\* The next place goes to one who still races.
LEMMA FinishLawful ==
  ASSUME RaceInv, NEW p \in Racers, RaceFinish(p) PROVE RaceInv'
<1> DEFINE n == race.complete + IF race.competing > 1 THEN 1 ELSE 0
           T == [race.time EXCEPT ![p] = race.clock]
           L == [race.place EXCEPT ![p] = n]
           u == [race EXCEPT !.complete = n, !.time = T, !.place = L]
<1>0. RaceLawful(race) /\ p \in race.racer
  BY DEF RaceInv, RaceFinish
<1>1. race' = race_end(u, {p})
  BY DEF RaceFinish
<1>2. /\ Cardinality(race.racer \ {p}) = Cardinality(race.racer) - 1
      /\ Cardinality(race.racer \ {p}) \in Nat
  <2>1. race.racer \in SUBSET Racers
    BY <1>0, LawfulTypes
  <2>2. IsFiniteSet(race.racer)
    BY <2>1, RaceFinite
  <2>3. IsFiniteSet(race.racer \ {p})
    BY <2>2, FS_RemoveElement
  <2>4. QED BY <1>0, <2>2, <2>3, FS_RemoveElement, FS_CardinalityType
<1>3. /\ n \in 0 .. RaceSlots /\ n + Cardinality(race.racer \ {p}) <= race.competing
      /\ n # 0 => n = race.complete + 1
  <2>1. /\ race.complete \in Nat /\ race.competing \in Nat /\ race.competing <= RaceSlots
        /\ race.complete + Cardinality(race.racer) <= race.competing
        /\ Cardinality(race.racer) \in Nat
    BY <1>0, LawfulTypes
  <2>2. QED BY <1>2, <2>1, RaceConstants
<1> HIDE DEF n
<1>4. /\ T \in [Racers -> 0 .. RaceLimit] /\ L \in [Racers -> 0 .. RaceSlots]
      /\ T[p] = race.clock /\ L[p] = n
      /\ \A q \in Racers \ {p} : T[q] = race.time[q] /\ L[q] = race.place[q]
  <2>1. race.clock \in 0 .. RaceLimit
    <3>1. race.clock \in Nat /\ race.clock <= RaceLimit
      BY <1>0, LawfulTypes
    <3>2. QED BY <3>1, RaceConstants
  <2>2. QED BY <1>0, <1>3, <2>1, LawfulTypes
<1> HIDE DEF T, L
<1>5. u \in RaceState
  <2>1. race \in RaceState
    BY <1>0, LawfulTypes
  <2>2. QED BY <1>3, <1>4, <2>1 DEF RaceState
<1>6. /\ u.here = race.here /\ u.ready = race.ready /\ u.racer = race.racer /\ u.part = race.part
      /\ u.best = race.best /\ u.clock = race.clock /\ u.competing = race.competing
      /\ u.complete = n /\ u.time = T /\ u.place = L
  BY <1>0, LawfulTypes DEF RaceState
<1> HIDE DEF u
<1>7. Places(u)
  <2>0. /\ race.clock \in Nat /\ race.complete \in Nat
        /\ \A q \in Racers : race.time[q] \in Nat /\ race.place[q] \in Nat
    <3>1. /\ race.clock \in Nat /\ race.complete \in Nat
          /\ race.time \in [Racers -> 0 .. RaceLimit] /\ race.place \in [Racers -> 0 .. RaceSlots]
      BY <1>0, LawfulTypes
    <3>2. QED BY <3>1, RaceConstants
  <2>1. \A q \in Placed(u) : q # p => /\ q \in Placed(race) /\ q \in Racers
                                      /\ u.place[q] = race.place[q] /\ u.time[q] = race.time[q]
    BY <1>0, <1>4, <1>6, LawfulTypes DEF Placed
  <2>2. Places(race)
    BY <1>0, LawfulTypes DEF Sound
  <2>3. p \in Placed(u) => u.place[p] = n /\ n = race.complete + 1 /\ u.time[p] = race.clock
    BY <1>3, <1>4, <1>6 DEF Placed
  <2>4. n \in Nat /\ race.complete <= n
    BY <1>3, <2>0, RaceConstants DEF n
  <2>5. \A q \in Placed(u) : u.place[q] <= u.complete /\ u.time[q] <= u.clock
    <3> TAKE q \in Placed(u)
    <3>1. CASE q = p
      BY <1>6, <2>0, <2>3, <2>4, <3>1
    <3>2. CASE q # p
      BY <1>6, <2>0, <2>1, <2>2, <2>4, <3>2 DEF Places
    <3>3. QED BY <3>1, <3>2
  <2>6. \A q, r \in Placed(u) :
          q # r => /\ u.place[q] # u.place[r]
                   /\ u.time[q] < u.time[r] => u.place[q] < u.place[r]
    <3> SUFFICES ASSUME NEW q \in Placed(u), NEW r \in Placed(u), q # r
                 PROVE  /\ u.place[q] # u.place[r]
                        /\ u.time[q] < u.time[r] => u.place[q] < u.place[r]
      OBVIOUS
    <3>1. CASE q = p
      <4>1. r # p /\ race.place[r] <= race.complete /\ race.time[r] <= race.clock
        BY <2>1, <2>2, <3>1 DEF Places
      <4>2. QED BY <2>0, <2>1, <2>3, <3>1, <4>1
    <3>2. CASE r = p
      <4>1. q # p /\ race.place[q] <= race.complete /\ race.time[q] <= race.clock
        BY <2>1, <2>2, <3>2 DEF Places
      <4>2. QED BY <2>0, <2>1, <2>3, <3>2, <4>1
    <3>3. CASE q # p /\ r # p
      BY <2>1, <2>2, <3>3 DEF Places
    <3>4. QED BY <3>1, <3>2, <3>3
  <2>7. QED BY <2>5, <2>6 DEF Places
<1>8. Sound(u)
  BY <1>0, <1>5, <1>6, <1>7, LawfulTypes DEF Sound, LinedUp
<1>9. RaceLawful(race_end(u, {p}))
  BY <1>3, <1>6, <1>8, EndLawful
<1>10. QED BY <1>1, <1>9 DEF RaceInv

-----------------------------------------------------------------------------
(***************************************************************************)
(* Frames, the clock and the match.                                        *)
(***************************************************************************)
LEMMA CancelLawful ==
  ASSUME NEW s, RaceLawful(s) PROVE RaceLawful(race_cancel(s))
<1> DEFINE u == race_cancel(s)
<1>1. LinedUp(s) /\ Sound(u) /\ u = [s EXCEPT !.racer = {}, !.part = {}, !.status = 0]
  BY LawfulTypes, CancelType
<1>2. u.racer = {} /\ u.complete = s.complete /\ u.competing = s.competing
  BY <1>1, LawfulTypes DEF RaceState
<1>3. /\ s.complete \in Nat /\ s.competing \in Nat /\ Cardinality(s.racer) \in Nat
      /\ s.complete + Cardinality(s.racer) <= s.competing
  BY LawfulTypes
<1> HIDE DEF u
<1>4. RaceCounted(u)
  BY <1>2, <1>3, FS_EmptySet DEF RaceCounted
<1>5. QED BY <1>1, <1>4 DEF RaceLawful, u

LEMMA CanGoLawful ==
  ASSUME NEW s, RaceLawful(s), NEW D PROVE RaceLawful(race_can_go(s, D))
<1>1. RaceLawful(race_cancel(s)) /\ RaceLawful(race_start(s))
  BY LawfulTypes, CancelLawful, StartType
<1>2. RaceLawful(race_end(s, (D \cap s.racer) \cup Late(s)))
  BY EndCounted
<1>3. race_can_go(s, D) \in {race_cancel(s), race_start(s), race_end(s, (D \cap s.racer) \cup Late(s)), s}
  BY DEF race_can_go
<1>4. QED BY <1>1, <1>2, <1>3

LEMMA GoLawful ==
  ASSUME NEW s, RaceLawful(s), NEW F PROVE RaceLawful(Go(s, F))
<1> DEFINE Zero == [p \in Racers |-> 0]
           u == [s EXCEPT !.status = 2, !.clock = 0, !.time = Zero, !.place = Zero]
<1>1. Zero \in [Racers -> 0 .. RaceLimit] /\ Zero \in [Racers -> 0 .. RaceSlots]
      /\ 2 \in 0 .. 2 /\ 0 \in 0 .. RaceLimit /\ \A p \in Racers : Zero[p] = 0
  BY RaceConstants
<1>2. Go(s, F) = race_end(u, F)
  BY DEF Go, RaceAll
<1> HIDE DEF Zero
<1>3. u \in RaceState
  <2>1. s \in RaceState
    BY LawfulTypes
  <2>2. QED BY <1>1, <2>1 DEF RaceState
<1>4. /\ u.here = s.here /\ u.ready = s.ready /\ u.racer = s.racer /\ u.part = s.part
      /\ u.best = s.best /\ u.competing = s.competing /\ u.complete = s.complete /\ u.place = Zero
  BY LawfulTypes DEF RaceState
<1> HIDE DEF u
<1>5. Placed(u) = {}
  BY <1>1, <1>4, LawfulTypes DEF Placed
<1>6. RaceLawful(u)
  BY <1>3, <1>4, <1>5, LawfulTypes DEF RaceLawful, Sound, LinedUp, RaceCounted, Places
<1>7. QED BY <1>2, <1>6, EndCounted

LEMMA IdlersLawful ==
  ASSUME NEW s, RaceLawful(s), NEW I, NEW K PROVE RaceLawful(Idle(s, I, K))
<1> DEFINE R == IF MatchMode(s) THEN s.ready ELSE s.ready \ K
           u == [s EXCEPT !.ready = R]
<1>1. Idle(s, I, K) = race_end(u, I)
  BY DEF Idle
<1>2. R \in SUBSET s.here
  BY LawfulTypes
<1> HIDE DEF R
<1>3. RaceLawful(u)
  BY <1>2, LineLawful
<1> HIDE DEF u
<1>4. QED BY <1>1, <1>3, EndCounted

LEMMA FieldsLawful ==
  ASSUME NEW s, RaceLawful(s)
  PROVE  /\ RaceLawful([s EXCEPT !.status = 0])
         /\ \A k \in BOOLEAN : RaceLawful([s EXCEPT !.nochange = k])
         /\ \A n \in 0 .. RaceCountdown : RaceLawful([s EXCEPT !.cd = n])
         /\ \A g \in 0 .. 3 : RaceLawful([s EXCEPT !.game = g])
         /\ \A k \in BOOLEAN, e \in (0 .. RaceSlots) \X (0 .. RaceSlots) :
               RaceLawful([s EXCEPT !.nochange = k, !.ed = e])
<1>0. s \in RaceState
  BY LawfulTypes
<1>1. RaceLawful([s EXCEPT !.status = 0])
  <2> DEFINE u == [s EXCEPT !.status = 0]
  <2>0. 0 \in 0 .. 2
    OBVIOUS
  <2>1. u \in RaceState
    BY <1>0, <2>0 DEF RaceState
  <2>2. Agree(s, u) /\ u.best = s.best
    BY <1>0 DEF RaceState, Agree
  <2> HIDE DEF u
  <2>3. RaceLawful(u)
    BY <2>1, <2>2, IdleLawful
  <2>4. QED BY <2>3 DEF u
<1>2. ASSUME NEW k \in BOOLEAN PROVE RaceLawful([s EXCEPT !.nochange = k])
  <2> DEFINE u == [s EXCEPT !.nochange = k]
  <2>1. u \in RaceState
    BY <1>0 DEF RaceState
  <2>2. Agree(s, u) /\ u.best = s.best
    BY <1>0 DEF RaceState, Agree
  <2> HIDE DEF u
  <2>3. RaceLawful(u)
    BY <2>1, <2>2, IdleLawful
  <2>4. QED BY <2>3 DEF u
<1>3. ASSUME NEW n \in 0 .. RaceCountdown PROVE RaceLawful([s EXCEPT !.cd = n])
  <2> DEFINE u == [s EXCEPT !.cd = n]
  <2>1. u \in RaceState
    BY <1>0 DEF RaceState
  <2>2. Agree(s, u) /\ u.best = s.best
    BY <1>0 DEF RaceState, Agree
  <2> HIDE DEF u
  <2>3. RaceLawful(u)
    BY <2>1, <2>2, IdleLawful
  <2>4. QED BY <2>3 DEF u
<1>4. ASSUME NEW g \in 0 .. 3 PROVE RaceLawful([s EXCEPT !.game = g])
  <2> DEFINE u == [s EXCEPT !.game = g]
  <2>1. u \in RaceState
    BY <1>0 DEF RaceState
  <2>2. Agree(s, u) /\ u.best = s.best
    BY <1>0 DEF RaceState, Agree
  <2> HIDE DEF u
  <2>3. RaceLawful(u)
    BY <2>1, <2>2, IdleLawful
  <2>4. QED BY <2>3 DEF u
<1>5. ASSUME NEW k \in BOOLEAN, NEW e \in (0 .. RaceSlots) \X (0 .. RaceSlots)
      PROVE  RaceLawful([s EXCEPT !.nochange = k, !.ed = e])
  <2> DEFINE u == [s EXCEPT !.nochange = k, !.ed = e]
  <2>1. u \in RaceState
    BY <1>0 DEF RaceState
  <2>2. Agree(s, u) /\ u.best = s.best
    BY <1>0 DEF RaceState, Agree
  <2> HIDE DEF u
  <2>3. RaceLawful(u)
    BY <2>1, <2>2, IdleLawful
  <2>4. QED BY <2>3 DEF u
<1>6. QED BY <1>1, <1>2, <1>3, <1>4, <1>5

\* Who is shown as next is one of the line-up, and nothing else changes.
LEMMA ShowNextLawful ==
  ASSUME NEW s, RaceLawful(s) PROVE RaceLawful(ShowNext(s)) /\ Keeps(s, ShowNext(s))
<1>0. s \in RaceState /\ s.ready \subseteq Racers /\ s.next \in Racers
  <2>1. s \in RaceState
    BY LawfulTypes
  <2>2. QED BY <2>1 DEF RaceState
<1>1. CASE ShowNext(s) = s
  BY <1>1 DEF Keeps
<1>2. CASE ShowNext(s) # s
  <2> DEFINE n == CHOOSE p \in Line(s, s.next) : TRUE
             u == [s EXCEPT !.next = n]
  <2>1. ShowNext(s) = u /\ s.ready # {}
    BY <1>2 DEF ShowNext
  <2>2. Line(s, s.next) # {} /\ Line(s, s.next) \subseteq s.ready
    BY <1>0, <2>1, LineIsThere, RaceConstants DEF Racers
  <2>3. n \in Racers
    BY <1>0, <2>2
  <2> HIDE DEF n
  <2>4. u \in RaceState /\ Agree(s, u) /\ u.best = s.best /\ Keeps(s, u)
    BY <1>0, <2>3 DEF RaceState, Agree, Keeps
  <2> HIDE DEF u
  <2>5. RaceLawful(u)
    BY <2>4, IdleLawful
  <2>6. QED BY <2>1, <2>4, <2>5
<1>3. QED BY <1>1, <1>2

LEMMA FrameOfLawful ==
  ASSUME NEW s, RaceLawful(s), NEW F, NEW I, NEW K, NEW show
  PROVE  RaceLawful(RaceFrameOf(s, F, I, K, show))
<1> DEFINE k == s.nochange /\ F = {}
           a == [s EXCEPT !.nochange = k]
           b == [s EXCEPT !.nochange = @ /\ F = {}]
           c == IF s.clock = 1 THEN Idle(s, I, K) ELSE b
           v == race_can_go(c, F)
<1>1. RaceLawful([s EXCEPT !.status = 0]) /\ RaceLawful(race_cancel(s)) /\ RaceLawful(race_start(s))
  BY LawfulTypes, FieldsLawful, CancelLawful, StartType
<1>2. RaceLawful(race_can_go(s, {})) /\ RaceLawful(Go(s, F))
  BY CanGoLawful, GoLawful
<1>3. RaceLawful(b)
  <2>1. k \in BOOLEAN
    OBVIOUS
  <2>2. b = a
    OBVIOUS
  <2> HIDE DEF k, b
  <2>3. RaceLawful(a)
    BY <2>1, FieldsLawful
  <2>4. QED BY <2>2, <2>3
<1>4. RaceLawful(c)
  <2> HIDE DEF b
  <2>1. QED BY <1>3, IdlersLawful
<1>5. RaceFrameOf(s, F, I, K, show) =
        CASE s.game > 1                   -> [s EXCEPT !.status = 0]
          [] s.game < 2 /\ s.status = 0   -> IF s.ready = {} THEN race_cancel(s) ELSE race_start(s)
          [] s.game < 2 /\ s.status = 1   ->
               IF s.ready = {} \/ s.racer = {} \/ s.cd > 0 THEN race_can_go(s, {}) ELSE Go(s, F)
          [] OTHER -> IF show /\ v.status = c.status THEN ShowNext(v) ELSE v
  BY DEF RaceFrameOf
<1> HIDE DEF c
<1>6. RaceLawful(v) /\ RaceLawful(ShowNext(v))
  <2>1. RaceLawful(v)
    BY <1>4, CanGoLawful
  <2> HIDE DEF v
  <2>2. QED BY <2>1, ShowNextLawful
<1> HIDE DEF v
<1> DEFINE w == [s EXCEPT !.status = 0]
<1> HIDE DEF w
<1>7. RaceFrameOf(s, F, I, K, show)
        \in {w, race_cancel(s), race_start(s), race_can_go(s, {}), Go(s, F), v, ShowNext(v)}
  BY <1>5 DEF w
<1>8. QED BY <1>1, <1>2, <1>6, <1>7 DEF w

LEMMA FrameLawful ==
  ASSUME RaceInv, RaceFrame PROVE RaceInv'
<1>1. PICK F, I, K, show : race' = RaceFrameOf(race, F, I, K, show)
  BY DEF RaceFrame
<1>2. QED BY <1>1, FrameOfLawful DEF RaceInv

\* A place was had at a time that has passed.
LEMMA TimeLawful ==
  ASSUME RaceInv, RaceTime PROVE RaceInv'
<1>0. RaceLawful(race)
  BY DEF RaceInv
<1>1. CASE race.cd > 0 /\ race' = [race EXCEPT !.cd = @ - 1]
  <2>1. race \in RaceState
    BY <1>0, LawfulTypes
  <2>2. race.cd \in 0 .. RaceCountdown
    BY <2>1 DEF RaceState
  <2>3. race.cd - 1 \in 0 .. RaceCountdown
    BY <1>1, <2>2, RaceConstants
  <2> DEFINE n == race.cd - 1
  <2>4. race' = [race EXCEPT !.cd = n]
    BY <1>1
  <2> HIDE DEF n
  <2>5. QED BY <1>0, <2>3, <2>4, FieldsLawful DEF RaceInv, n
<1>2. CASE race.clock < Timeout(race) /\ race' = [race EXCEPT !.clock = @ + 1]
  <2> DEFINE n == race.clock + 1
             u == [race EXCEPT !.clock = n]
  <2>1. race.clock \in Nat /\ n \in 0 .. RaceLimit
    <3>1. race.clock \in Nat
      BY <1>0, LawfulTypes
    <3>2. Timeout(race) \in 1 .. RaceLimit
      BY RaceNumberAssumption DEF Timeout
    <3>3. QED BY <1>2, <3>1, <3>2, RaceConstants
  <2>2. race.clock <= n
    BY <2>1
  <2>3. race' = u
    BY <1>2
  <2> HIDE DEF n
  <2>4. race \in RaceState
    BY <1>0, LawfulTypes
  <2>5. u \in RaceState
    BY <2>1, <2>4 DEF RaceState
  <2>6. /\ u.here = race.here /\ u.ready = race.ready /\ u.racer = race.racer /\ u.part = race.part
        /\ u.best = race.best /\ u.competing = race.competing /\ u.complete = race.complete
        /\ u.time = race.time /\ u.place = race.place /\ u.clock = n
    BY <2>4 DEF RaceState
  <2> HIDE DEF u
  <2>7. Placed(u) = Placed(race) /\ Places(race) /\ Placed(race) \subseteq Racers
    BY <1>0, <2>6, LawfulTypes DEF Placed, Sound
  <2>8. \A p \in Placed(race) : race.time[p] \in Nat
    <3>1. race.time \in [Racers -> 0 .. RaceLimit]
      BY <2>4 DEF RaceState
    <3>2. QED BY <2>7, <3>1, RaceConstants
  <2>9. \A p \in Placed(race) : race.time[p] <= n
    <3>1. \A p \in Placed(race) : race.time[p] <= race.clock
      BY <2>7 DEF Places
    <3>2. QED BY <2>1, <2>2, <2>8, <3>1
  <2>10. Places(u)
    BY <2>6, <2>7, <2>9 DEF Places
  <2>11. RaceLawful(u)
    BY <1>0, <2>5, <2>6, <2>10, LawfulTypes DEF RaceLawful, Sound, LinedUp, RaceCounted
  <2>12. QED BY <2>3, <2>11 DEF RaceInv
<1>3. QED BY <1>1, <1>2 DEF RaceTime

LEMMA ScoresLawful ==
  ASSUME RaceInv, RaceScores PROVE RaceInv'
<1>0. RaceLawful(race) /\ race \in RaceState
  BY LawfulTypes DEF RaceInv
<1>1. PICK e \in (0 .. RaceSlots) \X (0 .. RaceSlots) :
        ReScores(race) = [race EXCEPT !.nochange = TRUE, !.ed = e]
  BY <1>0, ReScoresType
<1>2. race' = [race EXCEPT !.nochange = TRUE, !.ed = e]
  BY <1>1 DEF RaceScores
<1>3. QED BY <1>0, <1>2, FieldsLawful DEF RaceInv

LEMMA MatchLawful ==
  ASSUME RaceInv, race_match_start \/ RaceMatchStops \/ RaceNewLevel PROVE RaceInv'
<1>0. RaceLawful(race) /\ race \in RaceState
  BY LawfulTypes DEF RaceInv
<1>1. CASE race_match_start
  <2> DEFINE Zero == RaceAll(0)
             u == [race EXCEPT !.game = 1, !.ready = race.here, !.round = 0,
                               !.frags = Zero, !.nochange = FALSE]
  <2>1. race' = race_start(u)
    BY <1>1 DEF race_match_start
  <2>2. Zero \in [Racers -> Int] /\ 1 \in 0 .. 3 /\ 0 \in 0 .. RaceRounds
    BY RaceConstants DEF RaceAll
  <2>3. race.here \in SUBSET Racers
    BY <1>0, LawfulTypes
  <2> HIDE DEF Zero
  <2>4. u \in RaceState
    BY <1>0, <2>2, <2>3 DEF RaceState
  <2>5. u.here = race.here /\ u.ready = race.here /\ u.part = race.part /\ u.best = race.best
    BY <1>0 DEF RaceState
  <2> HIDE DEF u
  <2>6. LinedUp(u)
    BY <1>0, <2>4, <2>5, LawfulTypes DEF LinedUp
  <2>7. QED BY <2>1, <2>6, StartType DEF RaceInv
<1>2. CASE RaceMatchStops
  <2>1. race' = [race EXCEPT !.game = 3] /\ 3 \in 0 .. 3
    BY <1>2 DEF RaceMatchStops
  <2>2. QED BY <1>0, <2>1, FieldsLawful DEF RaceInv
<1>3. CASE RaceNewLevel
  <2>1. race' = RaceEmpty(race.mode) /\ race.mode \in DOMAIN RaceSeats
    BY <1>0, <1>3 DEF RaceNewLevel, RaceState
  <2>2. QED BY <2>1, EmptyLawful DEF RaceInv
<1>4. QED BY <1>1, <1>2, <1>3

-----------------------------------------------------------------------------
LEMMA RaceInvariance == RaceSafety => []RaceInv
<1>1. RaceInit => RaceInv
  BY EmptyLawful DEF RaceInit, RaceInv
<1>2. RaceInv /\ [RaceNext]_race => RaceInv'
  <2> SUFFICES ASSUME RaceInv, [RaceNext]_race PROVE RaceInv'
    OBVIOUS
  <2>1. CASE RaceClients
    <3>1. PICK p \in Racers :
            RaceConnect(p) \/ RaceDisconnect(p) \/ RaceReady(p) \/ RaceBreak(p) \/ RaceToggle(p)
              \/ RaceFail(p) \/ RaceFinish(p)
      BY <2>1 DEF RaceClients
    <3>2. QED
      BY <3>1, ConnectLawful, DisconnectLawful, LineUpLawful, FailLawful, FinishLawful
  <2>2. CASE UNCHANGED race
    BY <2>2 DEF RaceInv
  <2>3. QED
    BY <2>1, <2>2, FrameLawful, TimeLawful, ScoresLawful, MatchLawful DEF RaceNext
<1>3. QED BY <1>1, <1>2, PTL DEF RaceSafety

(***************************************************************************)
(* The line-up, the runs, the clock and the places stay in their ranges    *)
(* (race_think(), race_start(), race_end(): race.c).                       *)
(***************************************************************************)
THEOREM RaceTypes == RaceSafety => []RaceTypeOK
<1>1. RaceInv => RaceTypeOK
  <2> SUFFICES ASSUME RaceInv PROVE RaceTypeOK
    OBVIOUS
  <2>1. RaceLawful(race) /\ race \in RaceState
    BY LawfulTypes DEF RaceInv
  <2>2. DOMAIN race = DOMAIN RaceEmpty("turns")
    BY <2>1 DEF RaceState, RaceEmpty
  <2>3. /\ race.here \subseteq Racers /\ race.ready \subseteq race.here
        /\ race.racer \subseteq race.part /\ race.part \subseteq race.here
    BY <2>1, LawfulTypes
  <2>4. /\ race.status \in 0 .. 2 /\ race.cd \in 0 .. RaceCountdown /\ race.clock \in 0 .. RaceLimit
        /\ race.next \in Racers /\ race.competing \in 0 .. RaceSlots
        /\ race.time \in [Racers -> 0 .. RaceLimit] /\ race.place \in [Racers -> 0 .. RaceSlots]
        /\ race.ed \in (0 .. RaceSlots) \X (0 .. RaceSlots)
        /\ race.round \in 0 .. RaceRounds /\ race.game \in 0 .. 3
    BY <2>1 DEF RaceState
  <2>5. QED BY <2>2, <2>3, <2>4 DEF RaceTypeOK, RaceFields
<1>2. QED BY <1>1, RaceInvariance, PTL

(***************************************************************************)
(* Whoever touches the end, fails, dies, idles, leaves or joins, and in    *)
(* whatever order: the places follow the times, nobody shares one and none *)
(* is worse than the number of racers; the top scores are in order and     *)
(* nobody has two of them (race_end(), race_over(): race.c:1332-1600).     *)
(***************************************************************************)
THEOREM PlacesAndRecordsRank == RaceSafety => []TimesRank
<1>1. RaceInv => TimesRank
  <2> SUFFICES ASSUME RaceInv PROVE TimesRank
    OBVIOUS
  <2>1. RaceLawful(race)
    BY DEF RaceInv
  <2>2. RecordsRank
    BY <2>1, LawfulTypes DEF Ranked, RecordsRank
  <2>3. Places(race)
    BY <2>1, LawfulTypes DEF Sound
  <2>4. \A p \in Placed(race) : race.place[p] <= race.competing
    <3> TAKE p \in Placed(race)
    <3>1. race.place[p] <= race.complete
      BY <2>3 DEF Places
    <3>2. /\ race.complete \in Nat /\ race.competing \in Nat /\ Cardinality(race.racer) \in Nat
          /\ race.complete + Cardinality(race.racer) <= race.competing
          /\ race.place \in [Racers -> 0 .. RaceSlots] /\ p \in Racers
      BY <2>1, LawfulTypes DEF Placed
    <3>3. race.place[p] \in Int
      BY <3>2, RaceConstants
    <3>4. QED BY <3>1, <3>2, <3>3
  <2>5. PlacesFollowTimes
    BY <2>3, <2>4 DEF PlacesFollowTimes, Places, Placed
  <2>6. QED BY <2>2, <2>5 DEF TimesRank
<1>2. QED BY <1>1, RaceInvariance, PTL

-----------------------------------------------------------------------------
(***************************************************************************)
(* Matches of two.                                                         *)
(***************************************************************************)
RaceDuels == \A mode \in DOMAIN RaceSeats : mode \in {"duel", "ffa"} => RaceSeats[mode] <= 2

Won(s) ==
  \E p \in s.here : \A q \in s.here \ {p} :
     s.frags[p] - s.frags[q] > (RaceRounds - s.round) * Points(1, Cardinality(s.here))

\* Only matches of two are decided, by the two who are there.
RaceDecided(s) ==
  /\ s.game # 0 => MatchMode(s)
  /\ MatchMode(s) => s.here \subseteq 1 .. 2
  /\ KnowsPair(s)
  /\ s.game = 2 => Won(s)

LEMMA KeepsDecided ==
  ASSUME NEW s, NEW t, Keeps(s, t), RaceDecided(s) PROVE RaceDecided(t)
BY DEF Keeps, RaceDecided, MatchMode, KnowsPair, Won

LEMMA FirstOfTwo ==
  ASSUME NEW f \in [Racers -> Int], NEW e \in (0 .. RaceSlots) \X (0 .. RaceSlots),
         NEW r \in 0 .. RaceRounds, NEW H \in SUBSET Racers, H \subseteq 1 .. 2,
         PairOf(e, H), Ahead2(f, e, r)
  PROVE  \E p \in H : \A q \in H \ {p} :
            f[p] - f[q] > (RaceRounds - r) * Points(1, Cardinality(H))
<1>1. e[1] \in H /\ e[2] \in H /\ e[1] # e[2] /\ H = {e[1], e[2]}
  <2>1. e[1] \in H /\ e[2] \in H /\ e[1] # e[2]
    BY DEF PairOf, Ahead2
  <2>2. \A x \in H : x = 1 \/ x = 2
    OBVIOUS
  <2>3. QED BY <2>1, <2>2
<1>2. Cardinality(H) = 2
  <2>1. IsFiniteSet({e[1]}) /\ Cardinality({e[1]}) = 1
    BY FS_Singleton
  <2>2. {e[1]} \cup {e[2]} = H /\ e[2] \notin {e[1]}
    BY <1>1
  <2>3. QED BY <2>1, <2>2, FS_AddElement
<1>3. Points(1, Cardinality(H)) = RoundMaxDiff
  <2>1. Positions[1] = IF RaceScoring = "Formula1" THEN 25 ELSE 1
    BY DEF Positions
  <2>2. RaceScoring \in {"Win Only", "Scaled", "Formula1"}
    BY RaceScoringAssumption
  <2>3. 1 \in 1 .. 10
    OBVIOUS
  <2>4. Points(1, 2) = Positions[1] + IF RaceScoring = "Scaled" THEN 2 ELSE 0
    BY <2>1, <2>3 DEF Points
  <2>5. Points(1, 2) = RoundMaxDiff
    <3>1. CASE RaceScoring = "Win Only"
      <4>1. RaceScoring # "Scaled" /\ RaceScoring # "Formula1"
        BY <3>1
      <4>2. Positions[1] = 1
        BY <2>1, <4>1
      <4>3. Points(1, 2) = 1
        BY <2>4, <4>1, <4>2
      <4>4. RoundMaxDiff = 1
        BY <3>1 DEF RoundMaxDiff
      <4>5. QED BY <4>3, <4>4
    <3>2. CASE RaceScoring = "Scaled"
      BY <2>1, <2>4, <3>2 DEF RoundMaxDiff
    <3>3. CASE RaceScoring = "Formula1"
      BY <2>1, <2>4, <3>3 DEF RoundMaxDiff
    <3>4. QED BY <2>2, <3>1, <3>2, <3>3
  <2>6. QED BY <1>2, <2>5
<1>4. f[e[1]] \in Int /\ f[e[2]] \in Int /\ RoundMaxDiff \in {1, 3, 25}
  BY <1>1, PointsType
<1> DEFINE a == f[e[1]]
           b == f[e[2]]
<1>5. (a - b > (RaceRounds - r) * RoundMaxDiff) \/ (b - a > (RaceRounds - r) * RoundMaxDiff)
  <2> HIDE DEF a, b
  <2>1. a \in Int /\ b \in Int
    BY <1>4 DEF a, b
  <2>2. CASE r = RaceRounds /\ a - b # 0
    <3>1. (RaceRounds - r) * RoundMaxDiff = 0
      BY <1>4, <2>2, RaceConstants
    <3>2. a - b > 0 \/ b - a > 0
      BY <2>1, <2>2
    <3>3. QED BY <3>1, <3>2
  <2>3. CASE (RaceRounds - r) * RoundMaxDiff < a - b
    <3> DEFINE c == (RaceRounds - r) * RoundMaxDiff
    <3>1. c \in Int
      BY <1>4, RaceConstants
    <3>2. c < a - b
      BY <2>3
    <3> HIDE DEF c
    <3>3. a - b > c
      BY <2>1, <3>1, <3>2
    <3>4. QED BY <3>3 DEF c
  <2>4. QED BY <2>2, <2>3 DEF Ahead2, a, b
<1>6. CASE a - b > (RaceRounds - r) * RoundMaxDiff
  <2>1. \A q \in H \ {e[1]} : q = e[2]
    BY <1>1
  <2>2. QED BY <1>1, <1>3, <1>6, <2>1
<1>7. CASE b - a > (RaceRounds - r) * RoundMaxDiff
  <2>1. \A q \in H \ {e[2]} : q = e[1]
    BY <1>1
  <2>2. QED BY <1>1, <1>3, <1>7, <2>1
<1>8. QED BY <1>5, <1>6, <1>7

\* Who ended a match races no more in it.
Ended(s) == s.game < 2 \/ s.racer = {}

LEMMA RoundEndDecided ==
  ASSUME NEW s \in RaceState, LinedUp(s), RaceDecided(s), s.game < 2, s.racer = {}
  PROVE  RaceDecided(race_match_round_end(s)) /\ Ended(race_match_round_end(s))
<1>1. PICK f \in [Racers -> Int], e \in (0 .. RaceSlots) \X (0 .. RaceSlots), r \in 0 .. RaceRounds :
        LET t == [s EXCEPT !.frags = f, !.nochange = FALSE, !.ed = e, !.round = r]
        IN /\ KnowsPair(s) => PairOf(e, s.here)
           /\ \/ \E R \in SUBSET (s.ready \cup s.part) :
                   race_match_round_end(s) = race_start([t EXCEPT !.ready = R])
              \/ race_match_round_end(s) = RaceEndMatch(t) /\ Ahead2(f, e, r)
  BY RoundEndForm
<1> DEFINE t == [s EXCEPT !.frags = f, !.nochange = FALSE, !.ed = e, !.round = r]
<1>2. \/ \E R \in SUBSET (s.ready \cup s.part) :
             race_match_round_end(s) = race_start([t EXCEPT !.ready = R])
      \/ race_match_round_end(s) = RaceEndMatch(t) /\ Ahead2(f, e, r)
  BY <1>1
<1>3. PairOf(e, s.here)
  BY <1>1 DEF RaceDecided
<1>4. t \in RaceState
  BY DEF RaceState
<1>5. /\ t.mode = s.mode /\ t.here = s.here /\ t.frags = f /\ t.nochange = FALSE /\ t.round = r
      /\ t.game = s.game /\ t.racer = {} /\ t.part = s.part /\ t.best = s.best
  BY DEF RaceState
<1> HIDE DEF t
<1>6. s.game \in Int /\ s.game # 2
  BY DEF RaceState
<1>7. RaceDecided(t)
  BY <1>5, <1>6 DEF RaceDecided, MatchMode, KnowsPair
<1>8. ASSUME NEW R \in SUBSET (s.ready \cup s.part)
      PROVE  RaceDecided(race_start([t EXCEPT !.ready = R])) /\ Ended(race_start([t EXCEPT !.ready = R]))
  <2> DEFINE u == [t EXCEPT !.ready = R]
  <2>1. R \in SUBSET Racers /\ R \subseteq s.here
    BY DEF LinedUp, RaceState
  <2>2. u \in RaceState
    BY <1>4, <2>1 DEF RaceState
  <2>3. Keeps(t, u) /\ u.ready = R /\ u.here = s.here /\ u.part = s.part /\ u.best = s.best
    BY <1>4, <1>5 DEF RaceState, Keeps
  <2> HIDE DEF u
  <2>4. LinedUp(u)
    BY <2>1, <2>2, <2>3 DEF LinedUp
  <2>5. Keeps(u, race_start(u))
    BY <2>4, StartType
  <2>6. RaceDecided(race_start(u))
    BY <1>7, <2>3, <2>5, KeepsDecided
  <2>7. race_start(u).game = s.game
    BY <1>5, <2>3, <2>5 DEF Keeps
  <2>8. QED BY <2>6, <2>7 DEF Ended, u
<1>9. ASSUME Ahead2(f, e, r) PROVE RaceDecided(RaceEndMatch(t)) /\ Ended(RaceEndMatch(t))
  <2>1. CASE s.game = 1
    <3> DEFINE u == [t EXCEPT !.game = 2]
    <3>1. RaceEndMatch(t) = u
      BY <1>5, <2>1 DEF RaceEndMatch
    <3>2. /\ u.mode = s.mode /\ u.here = s.here /\ u.frags = f /\ u.nochange = FALSE /\ u.round = r
          /\ u.racer = {}
      BY <1>4, <1>5 DEF RaceState
    <3> HIDE DEF u
    <3>3. MatchMode(s) /\ s.here \subseteq 1 .. 2 /\ s.here \in SUBSET Racers
      BY <2>1 DEF RaceDecided, RaceState
    <3>4. Won(u)
      BY <1>3, <1>9, <3>2, <3>3, FirstOfTwo DEF Won
    <3>5. RaceDecided(u)
      BY <3>2, <3>3, <3>4 DEF RaceDecided, MatchMode, KnowsPair
    <3>6. QED BY <3>1, <3>2, <3>5 DEF Ended
  <2>2. CASE s.game # 1
    <3>1. RaceEndMatch(t) = t
      BY <1>5, <2>2 DEF RaceEndMatch
    <3>2. QED BY <1>5, <1>7, <3>1 DEF Ended
  <2>3. QED BY <2>1, <2>2
<1>10. QED BY <1>2, <1>8, <1>9

LEMMA EndDecided ==
  ASSUME NEW s \in RaceState, LinedUp(s), RaceDecided(s), s.game < 2, NEW S
  PROVE  RaceDecided(race_end(s, S)) /\ Ended(race_end(s, S))
<1> DEFINE u == [s EXCEPT !.racer = @ \ S]
           v == [s EXCEPT !.racer = {}]
           t == TopScores(v)
<1>1. Keeps(s, u) /\ RaceDecided(u)
  <2>1. Keeps(s, u)
    BY DEF RaceState, Keeps
  <2> HIDE DEF u
  <2>2. QED BY <2>1, KeepsDecided
<1>2. /\ v \in RaceState /\ Keeps(s, v) /\ v.racer = {} /\ v.here = s.here /\ v.ready = s.ready
      /\ v.part = s.part /\ v.best = s.best
  <2>1. v \in RaceState
    BY DEF RaceState
  <2>2. Keeps(s, v)
    BY DEF RaceState, Keeps
  <2>3. /\ v.racer = {} /\ v.here = s.here /\ v.ready = s.ready
        /\ v.part = s.part /\ v.best = s.best
    BY DEF RaceState
  <2>4. QED BY <2>1, <2>2, <2>3
<1>3. race_end(s, S) = race_over(v) \/ race_end(s, S) = u
  BY DEF race_end
<1>4. race_over(v) = race_match_round_end(t) \/ race_over(v) = race_start(t)
  BY DEF race_over
<1>5. u.game = s.game
  BY <1>1 DEF Keeps
<1> HIDE DEF u, v
<1>6. Ranked(v.best)
  BY <1>2 DEF LinedUp
<1>7. PICK b \in Seq(Record) : Ranked(b) /\ t = [v EXCEPT !.best = b]
  BY <1>2, <1>6, TopScoresRank
<1> HIDE DEF t
<1>8. t \in RaceState
  BY <1>2, <1>7 DEF RaceState
<1>9. Keeps(v, t)
  BY <1>2, <1>7 DEF RaceState, Keeps
<1>10. /\ t.racer = {} /\ t.here = s.here /\ t.ready = s.ready /\ t.part = s.part /\ t.best = b
  BY <1>2, <1>7 DEF RaceState
<1>11. LinedUp(t)
  BY <1>7, <1>8, <1>10 DEF LinedUp
<1>12. RaceDecided(t)
  BY <1>2, <1>9, KeepsDecided
<1>13. t.game < 2
  BY <1>2, <1>9 DEF Keeps
<1>14. RaceDecided(race_match_round_end(t)) /\ Ended(race_match_round_end(t))
  BY <1>8, <1>10, <1>11, <1>12, <1>13, RoundEndDecided
<1>15. RaceDecided(race_start(t)) /\ Ended(race_start(t))
  <2>1. Keeps(t, race_start(t))
    BY <1>11, StartType
  <2>2. race_start(t).game < 2
    BY <1>13, <2>1 DEF Keeps
  <2>3. QED BY <1>12, <2>1, <2>2, KeepsDecided DEF Ended
<1>16. Ended(u)
  BY <1>5 DEF Ended
<1>17. QED BY <1>1, <1>3, <1>4, <1>14, <1>15, <1>16

LEMMA CanGoDecided ==
  ASSUME NEW s, RaceLawful(s), RaceDecided(s), Ended(s), NEW D
  PROVE  RaceDecided(race_can_go(s, D))
<1>0. LinedUp(s) /\ s \in RaceState
  BY LawfulTypes
<1>1. RaceDecided(race_cancel(s)) /\ RaceDecided(race_start(s))
  BY <1>0, CancelType, StartType, KeepsDecided
<1>2. CASE s.racer # {}
  <2>1. RaceDecided(race_end(s, (D \cap s.racer) \cup Late(s)))
    BY <1>0, <1>2, EndDecided DEF Ended
  <2>2. race_can_go(s, D) \in {race_cancel(s), race_start(s), race_end(s, (D \cap s.racer) \cup Late(s)), s}
    BY DEF race_can_go
  <2>3. QED BY <1>1, <2>1, <2>2
<1>3. CASE s.racer = {}
  <2>1. race_can_go(s, D) \in {race_cancel(s), race_start(s), s}
    BY <1>3 DEF race_can_go
  <2>2. QED BY <1>1, <2>1
<1>4. QED BY <1>2, <1>3

LEMMA FrameOfDecided ==
  ASSUME NEW s, RaceLawful(s), RaceDecided(s), NEW F, NEW I, NEW K, NEW show
  PROVE  RaceDecided(RaceFrameOf(s, F, I, K, show))
<1> DEFINE w == [s EXCEPT !.status = 0]
           a == [s EXCEPT !.nochange = @ /\ F = {}]
           R == IF MatchMode(s) THEN s.ready ELSE s.ready \ K
           i == [s EXCEPT !.ready = R]
           g == [s EXCEPT !.status = 2, !.clock = 0, !.time = RaceAll(0), !.place = RaceAll(0)]
           c == IF s.clock = 1 THEN Idle(s, I, K) ELSE a
           v == race_can_go(c, F)
<1>0. LinedUp(s) /\ s \in RaceState /\ s.game \in 0 .. 3
  <2>1. LinedUp(s) /\ s \in RaceState
    BY LawfulTypes
  <2>2. QED BY <2>1 DEF RaceState
<1>1. RaceDecided(w)
  <2>1. Keeps(s, w)
    BY <1>0 DEF RaceState, Keeps
  <2> HIDE DEF w
  <2>2. QED BY <2>1, KeepsDecided
<1>2. RaceFrameOf(s, F, I, K, show) =
        CASE s.game > 1                   -> w
          [] s.game < 2 /\ s.status = 0   -> IF s.ready = {} THEN race_cancel(s) ELSE race_start(s)
          [] s.game < 2 /\ s.status = 1   ->
               IF s.ready = {} \/ s.racer = {} \/ s.cd > 0 THEN race_can_go(s, {}) ELSE race_end(g, F)
          [] OTHER -> IF show /\ v.status = c.status THEN ShowNext(v) ELSE v
  BY DEF RaceFrameOf, Go
<1>3. CASE s.game > 1
  <2> HIDE DEF w, g, c, v
  <2>1. ~(s.game < 2)
    BY <1>0, <1>3
  <2>2. RaceFrameOf(s, F, I, K, show) = w
    BY <1>2, <1>3, <2>1
  <2>3. QED BY <1>1, <2>2
<1>4. CASE s.game < 2
  <2>1. RaceDecided(race_cancel(s)) /\ RaceDecided(race_start(s)) /\ RaceDecided(race_can_go(s, {}))
    BY <1>0, <1>4, CancelType, StartType, KeepsDecided, CanGoDecided DEF Ended
  <2>2. RaceDecided(race_end(g, F))
    <3> DEFINE Zero == RaceAll(0)
               h == [s EXCEPT !.status = 2, !.clock = 0, !.time = Zero, !.place = Zero]
    <3>1. Zero \in [Racers -> 0 .. RaceLimit] /\ Zero \in [Racers -> 0 .. RaceSlots]
          /\ 2 \in 0 .. 2 /\ 0 \in 0 .. RaceLimit
      BY RaceConstants DEF RaceAll
    <3> HIDE DEF Zero
    <3>2. h \in RaceState
      BY <1>0, <3>1 DEF RaceState
    <3>3. Keeps(s, h) /\ h.ready = s.ready /\ h.part = s.part /\ h.best = s.best /\ h.here = s.here
      BY <1>0 DEF RaceState, Keeps
    <3>4. g = h
      BY DEF Zero
    <3> HIDE DEF g, h
    <3>5. LinedUp(h)
      BY <1>0, <3>2, <3>3 DEF LinedUp
    <3>6. RaceDecided(h) /\ h.game < 2
      BY <1>4, <3>3, KeepsDecided DEF Keeps
    <3>7. QED BY <3>2, <3>4, <3>5, <3>6, EndDecided
  <2>3. RaceLawful(c) /\ RaceDecided(c) /\ Ended(c)
    <3>1. CASE s.clock = 1
      <4>1. Idle(s, I, K) = race_end(i, I)
        BY DEF Idle
      <4>2. R \in SUBSET s.here
        BY LawfulTypes
      <4> HIDE DEF R
      <4>3. RaceLawful(i)
        BY <4>2, LineLawful
      <4>4. Keeps(s, i)
        BY <1>0 DEF RaceState, Keeps
      <4> HIDE DEF i
      <4>5. RaceDecided(i) /\ i.game < 2 /\ i \in RaceState /\ LinedUp(i)
        BY <1>4, <4>3, <4>4, KeepsDecided, LawfulTypes DEF Keeps
      <4>6. RaceDecided(race_end(i, I)) /\ Ended(race_end(i, I)) /\ RaceLawful(race_end(i, I))
        BY <4>3, <4>5, EndDecided, EndCounted
      <4>7. QED BY <3>1, <4>1, <4>6
    <3>2. CASE s.clock # 1
      <4> DEFINE k == s.nochange /\ F = {}
                 b == [s EXCEPT !.nochange = k]
      <4>1. k \in BOOLEAN /\ (k => s.nochange)
        OBVIOUS
      <4>2. a = b
        OBVIOUS
      <4> HIDE DEF k
      <4>3. RaceLawful(b)
        BY <4>1, FieldsLawful
      <4>4. /\ b.mode = s.mode /\ b.here = s.here /\ b.frags = s.frags /\ b.ed = s.ed
            /\ b.nochange = k /\ b.round = s.round /\ b.game = s.game
        BY <1>0 DEF RaceState
      <4> HIDE DEF a, b
      <4>5. RaceDecided(b)
        BY <4>1, <4>4 DEF RaceDecided, MatchMode, KnowsPair, Won
      <4>6. QED BY <1>4, <3>2, <4>2, <4>3, <4>4, <4>5 DEF Ended
    <3>3. QED BY <3>1, <3>2
  <2> HIDE DEF w, a, i, g, c
  <2>4. RaceDecided(v) /\ RaceDecided(ShowNext(v))
    <3>1. RaceDecided(v) /\ RaceLawful(v)
      BY <2>3, CanGoDecided, CanGoLawful
    <3> HIDE DEF v
    <3>2. QED BY <3>1, ShowNextLawful, KeepsDecided
  <2> HIDE DEF v
  <2>5. ~(s.game > 1)
    BY <1>0, <1>4
  <2>6. RaceFrameOf(s, F, I, K, show)
          \in {race_cancel(s), race_start(s), race_can_go(s, {}), race_end(g, F), v, ShowNext(v)}
    BY <1>2, <1>4, <2>5
  <2>7. QED BY <2>1, <2>2, <2>4, <2>6
<1>5. QED BY <1>0, <1>3, <1>4

LEMMA EmptyDecided ==
  ASSUME NEW mode PROVE RaceDecided(RaceEmpty(mode))
BY DEF RaceEmpty, RaceDecided, KnowsPair, PairOf

LEMMA ClientsDecided ==
  ASSUME RaceDuels, RaceInv, RaceDecided(race), race.game < 2, RaceClients PROVE RaceDecided(race')
<1>0. /\ RaceLawful(race) /\ race \in RaceState /\ LinedUp(race) /\ race.game # 2
      /\ race.mode \in DOMAIN RaceSeats
  <2>1. RaceLawful(race) /\ race \in RaceState /\ LinedUp(race)
    BY LawfulTypes DEF RaceInv
  <2>2. race.game \in 0 .. 3 /\ race.mode \in DOMAIN RaceSeats
    BY <2>1 DEF RaceState
  <2>3. QED BY <2>1, <2>2
<1>1. PICK p \in Racers :
        RaceConnect(p) \/ RaceDisconnect(p) \/ RaceReady(p) \/ RaceBreak(p) \/ RaceToggle(p)
          \/ RaceFail(p) \/ RaceFinish(p)
  BY DEF RaceClients
<1>2. CASE RaceConnect(p)
  <2>1. /\ race'.mode = race.mode /\ race'.here = race.here \cup {p} /\ race'.nochange = FALSE
        /\ race'.game = race.game /\ p <= RaceSeats[race.mode]
    BY <1>0, <1>2 DEF RaceConnect, RaceState
  <2>2. MatchMode(race) => p \in 1 .. 2
    <3>1. p \in 1 .. RaceSlots /\ RaceSeats[race.mode] \in Int
      BY <1>0, RaceModeAssumption, RaceConstants DEF Racers
    <3>2. MatchMode(race) => RaceSeats[race.mode] <= 2
      BY <1>0 DEF RaceDuels, MatchMode
    <3>3. QED BY <2>1, <3>1, <3>2, RaceConstants
  <2>3. QED BY <1>0, <2>1, <2>2 DEF RaceDecided, MatchMode, KnowsPair
<1>3. CASE RaceDisconnect(p)
  <2>1. CASE race.here = {p}
    <3>1. race' = RaceEmpty(race.mode)
      BY <1>3, <2>1 DEF RaceDisconnect
    <3>2. QED BY <3>1, EmptyDecided
  <2>2. CASE race.here # {p}
    <3>1. /\ race'.mode = race.mode /\ race'.here = race.here \ {p} /\ race'.nochange = FALSE
          /\ race'.game = race.game
      BY <1>0, <1>3, <2>2 DEF RaceDisconnect, RaceState
    <3>2. QED BY <1>0, <3>1 DEF RaceDecided, MatchMode, KnowsPair
  <2>3. QED BY <2>1, <2>2
<1>4. CASE RaceReady(p)
  <2>1. Keeps(race, race')
    BY <1>0, <1>4 DEF RaceReady, RaceState, Keeps
  <2>2. QED BY <2>1, KeepsDecided
<1>5. RaceDecided(Quit(p)) /\ Quit(p) \in RaceState
  <2>1. RaceDecided(race_end(race, {p}))
    BY <1>0, EndDecided
  <2>2. RaceLawful(Quit(p))
    BY QuitLawful
  <2>3. QED BY <2>1, <2>2, LawfulTypes DEF Quit
<1>6. CASE RaceBreak(p) \/ RaceToggle(p)
  <2> DEFINE q == Quit(p)
  <2>1. PICK R : race' = [q EXCEPT !.ready = R]
    <3>1. CASE RaceBreak(p)
      BY <3>1 DEF RaceBreak
    <3>2. CASE RaceToggle(p)
      BY <3>2 DEF RaceToggle
    <3>3. QED BY <1>6, <3>1, <3>2
  <2> HIDE DEF q
  <2>2. q \in RaceState /\ RaceDecided(q)
    BY <1>5 DEF q
  <2>3. Keeps(q, race')
    BY <2>1, <2>2 DEF RaceState, Keeps
  <2>4. QED BY <2>2, <2>3, KeepsDecided
<1>7. CASE RaceFail(p)
  BY <1>0, <1>7, EndDecided DEF RaceFail
<1>8. CASE RaceFinish(p)
  <2> DEFINE n == race.complete + IF race.competing > 1 THEN 1 ELSE 0
             T == [race.time EXCEPT ![p] = race.clock]
             L == [race.place EXCEPT ![p] = n]
             u == [race EXCEPT !.complete = n, !.time = T, !.place = L]
  <2>1. race' = race_end(u, {p})
    BY <1>8 DEF RaceFinish
  <2>2. u \in RaceState
    BY <1>8, FinishType DEF RaceFinish
  <2>3. /\ Keeps(race, u) /\ u.here = race.here /\ u.ready = race.ready /\ u.part = race.part
        /\ u.best = race.best /\ u.game = race.game
    BY <1>0 DEF RaceState, Keeps
  <2> HIDE DEF u
  <2>4. LinedUp(u) /\ RaceDecided(u)
    BY <1>0, <2>2, <2>3, KeepsDecided DEF LinedUp
  <2>5. QED BY <2>1, <2>2, <2>3, <2>4, EndDecided
<1>9. QED BY <1>1, <1>2, <1>3, <1>4, <1>6, <1>7, <1>8

LEMMA DecidedInvariance == RaceDuels => (RaceSafety => []RaceDecided(race))
<1> SUFFICES ASSUME RaceDuels PROVE RaceSafety => []RaceDecided(race)
  OBVIOUS
<1> DEFINE J == RaceInv /\ RaceDecided(race)
<1>1. RaceInit => J
  BY EmptyLawful, EmptyDecided DEF RaceInit, RaceInv
<1>2. J /\ RaceInv' /\ [RaceNext]_race => J'
  <2> SUFFICES ASSUME J, RaceInv', [RaceNext]_race PROVE RaceDecided(race')
    OBVIOUS
  <2>0. RaceLawful(race) /\ race \in RaceState /\ RaceDecided(race)
    BY LawfulTypes DEF RaceInv
  <2>1. CASE race.game < 2 /\ RaceClients
    BY <2>1, ClientsDecided
  <2>2. CASE RaceFrame
    <3>1. PICK F, I, K, show : race' = RaceFrameOf(race, F, I, K, show)
      BY <2>2 DEF RaceFrame
    <3>2. QED BY <2>0, <3>1, FrameOfDecided
  <2>3. CASE RaceTime
    <3>1. Keeps(race, race')
      BY <2>0, <2>3 DEF RaceTime, RaceState, Keeps
    <3>2. QED BY <2>0, <3>1, KeepsDecided
  <2>4. CASE RaceScores
    <3>1. PICK e \in (0 .. RaceSlots) \X (0 .. RaceSlots) :
            /\ ReScores(race) = [race EXCEPT !.nochange = TRUE, !.ed = e]
            /\ KnowsPair(race) => PairOf(e, race.here)
      BY <2>0, ReScoresType
    <3>2. race' = [race EXCEPT !.nochange = TRUE, !.ed = e] /\ PairOf(e, race.here)
      BY <2>0, <2>4, <3>1 DEF RaceScores, RaceDecided
    <3>3. /\ race'.mode = race.mode /\ race'.here = race.here /\ race'.frags = race.frags
          /\ race'.round = race.round /\ race'.game = race.game /\ race'.ed = e
      BY <2>0, <3>2 DEF RaceState
    <3>4. QED BY <2>0, <3>2, <3>3 DEF RaceDecided, MatchMode, KnowsPair, Won
  <2>5. CASE race_match_start
    <3> DEFINE Zero == RaceAll(0)
               u == [race EXCEPT !.game = 1, !.ready = race.here, !.round = 0,
                                 !.frags = Zero, !.nochange = FALSE]
    <3>1. race' = race_start(u) /\ MatchMode(race)
      BY <2>5 DEF race_match_start
    <3>2. Zero \in [Racers -> Int] /\ 1 \in 0 .. 3 /\ 0 \in 0 .. RaceRounds
      BY RaceConstants DEF RaceAll
    <3>3. race.here \in SUBSET Racers
      BY <2>0, LawfulTypes
    <3> HIDE DEF Zero
    <3>4. u \in RaceState
      BY <2>0, <3>2, <3>3 DEF RaceState
    <3>5. /\ u.here = race.here /\ u.ready = race.here /\ u.part = race.part /\ u.best = race.best
          /\ u.mode = race.mode /\ u.game = 1 /\ u.nochange = FALSE
      BY <2>0 DEF RaceState
    <3> HIDE DEF u
    <3>6. LinedUp(u)
      BY <2>0, <3>4, <3>5, LawfulTypes DEF LinedUp
    <3>7. RaceDecided(u)
      BY <2>0, <3>1, <3>5 DEF RaceDecided, MatchMode, KnowsPair
    <3>8. QED BY <3>1, <3>6, <3>7, StartType, KeepsDecided
  <2>6. CASE RaceMatchStops
    <3>1. /\ race'.mode = race.mode /\ race'.here = race.here /\ race'.frags = race.frags
          /\ race'.ed = race.ed /\ race'.nochange = race.nochange /\ race'.game = 3 /\ race.game = 1
      BY <2>0, <2>6 DEF RaceMatchStops, RaceState
    <3>2. QED BY <2>0, <3>1 DEF RaceDecided, MatchMode, KnowsPair
  <2>7. CASE RaceNewLevel
    BY <2>7, EmptyDecided DEF RaceNewLevel
  <2>8. CASE UNCHANGED race
    BY <2>0, <2>8
  <2>9. QED BY <2>1, <2>2, <2>3, <2>4, <2>5, <2>6, <2>7, <2>8 DEF RaceNext
<1>3. J => RaceDecided(race)
  OBVIOUS
<1> HIDE DEF J
<1>4. QED BY <1>1, <1>2, <1>3, RaceInvariance, PTL DEF RaceSafety

(***************************************************************************)
(* When a match of two is decided, the leader is ahead by more than the    *)
(* rounds that are left are worth, although the two whose points are       *)
(* compared may have been found before the last points were given          *)
(* (race_match_round_end(), ReScores()).  With three it need not be so.    *)
(***************************************************************************)
THEOREM LeadsAreUnassailable == RaceDuels => (RaceSafety => []Unassailable)
<1> SUFFICES ASSUME RaceDuels PROVE RaceSafety => []Unassailable
  OBVIOUS
<1>1. RaceDecided(race) => Unassailable
  BY DEF RaceDecided, Won, Unassailable
<1>2. QED BY <1>1, DecidedInvariance, PTL

=============================================================================
