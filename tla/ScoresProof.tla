----------------------------- MODULE ScoresProof -----------------------------
(***************************************************************************)
(* Proof that every frag counts once and for the one who has made it, for  *)
(* any number of players and any settings.                                 *)
(***************************************************************************)
EXTENDS Scores, FoldProof

Known == [fresh : BOOLEAN, teams : Int \X Int, best : {<<>>} \cup ScPlayer \X ScPlayer]
Ghost == [cnt2 : Nat, frags : Int, team : {1, 2}]
Most == Cardinality(ScPlayer) + 1      \* one number more than players
Number == 1 .. Most
Lock == 0 .. 2
Side == {1, 2}
Ending == {"none", "normal", "tiebreak", "golden"}
Ghosts == SUBSET Ghost
Present == SUBSET ScPlayer
ScPoints == [ScPlayer -> Int]
Names == [Number -> ScPlayer \cup {0}]

ScState ==
  [mode : ScModes, overtime : ScOvertimes, lock : Lock, here : SUBSET ScPlayer,
   frags : [ScPlayer -> Int], team : [ScPlayer -> Side], ghosts : SUBSET Ghost,
   localinfo : [Number -> ScPlayer \cup {0}], userid : Number, known : Known, sd : Ending,
   snapshot : Nat, over : BOOLEAN, earned : [ScPlayer -> Int], lone : BOOLEAN]

\* What the server remembers of the scores is about players who are there.
KnowsPresent(s) == s.known.best \in {<<>>} \cup s.here \X s.here

Owns(s, p, g) == g \in s.ghosts /\ s.localinfo[g.cnt2] = p

\* A name in use belongs to one ghost and to nobody who is there.
Numbered(s) ==
  /\ IsFiniteSet(s.ghosts)
  /\ \A g \in s.ghosts : g.cnt2 \in Number /\ s.localinfo[g.cnt2] \in ScPlayer \ s.here
  /\ \A g, h \in s.ghosts : g.cnt2 = h.cnt2 => g = h
  /\ \A n \in Number : s.localinfo[n] # 0 => n < s.userid /\ \E g \in s.ghosts : g.cnt2 = n
  /\ \A m, n \in Number : s.localinfo[m] = s.localinfo[n] /\ s.localinfo[m] # 0 => m = n

\* What p has made is in his frags or in those of his ghost.
KeptFor(s, p) ==
  /\ p \in s.here => s.earned[p] = s.frags[p]
  /\ p \notin s.here => s.frags[p] = 0
  /\ p \notin s.here /\ (\A g \in s.ghosts : ~Owns(s, p, g)) => s.earned[p] = 0
  /\ \A g \in s.ghosts : Owns(s, p, g) => s.earned[p] = g.frags /\ g.team = s.team[p]

Kept(s) == Numbered(s) /\ \A p \in ScPlayer : KeptFor(s, p)

Counted(s) ==
  /\ s \in ScState /\ KnowsPresent(s)
  /\ IF s.over THEN s.ghosts = {} ELSE Kept(s)

ScInv == Counted(sc)

LEMMA Constants ==
  /\ 0 \notin ScPlayer /\ ScPlayer \subseteq Nat /\ IsFiniteSet(ScPlayer)
  /\ Cardinality(ScPlayer) \in Nat /\ Most \in Nat \ {0} /\ 1 \in Number /\ Most \in Number
  /\ \A n \in Number : n \in Nat /\ n >= 1 /\ n <= Most
  /\ \A n \in Nat : n >= 1 /\ n <= Most => n \in Number
BY ScPlayerAssumption, FS_CardinalityType DEF Most, Number

-----------------------------------------------------------------------------
(***************************************************************************)
(* Asking for the scores.                                                  *)
(***************************************************************************)
\* Only what is known has changed, and the snapshot.
SameCount(s, t) ==
  /\ t.mode = s.mode /\ t.overtime = s.overtime /\ t.lock = s.lock /\ t.here = s.here
  /\ t.frags = s.frags /\ t.team = s.team /\ t.ghosts = s.ghosts /\ t.localinfo = s.localinfo
  /\ t.userid = s.userid /\ t.over = s.over /\ t.earned = s.earned /\ t.lone = s.lone

LEMMA SameCountKeeps ==
  ASSUME NEW s, NEW t, Kept(s), SameCount(s, t) PROVE Kept(t)
BY DEF Kept, Numbered, KeptFor, Owns, SameCount

Know(s, k) == [s EXCEPT !.known = k]
LEMMA KnowStep ==
  ASSUME NEW s \in ScState, NEW k \in Known
  PROVE  Know(s, k) \in ScState /\ SameCount(s, Know(s, k)) /\ Know(s, k).known = k
BY DEF Know, ScState, SameCount

\* Of a finite set of players with two or more there are a best and a second.
LEMMA BestExists ==
  ASSUME NEW s, s.frags \in [ScPlayer -> Int], NEW S \in SUBSET ScPlayer, S # {}
  PROVE  \E b \in S : \A p \in S \ {b} : Before(s, b, p)
<1> DEFINE G == {T \in SUBSET S : T # {} => \E b \in T : \A p \in T \ {b} : Before(s, b, p)}
<1>1. {} \in G
  OBVIOUS
<1>2. ASSUME NEW T \in SUBSET S, NEW x \in S \ T, T \in G
      PROVE  T \cup {x} \in G
  <2>1. CASE T = {}
    <3>1. x \in {x} /\ T \cup {x} = {x} /\ \A p \in {x} \ {x} : Before(s, x, p)
      BY <2>1
    <3>2. QED BY <3>1
  <2>2. CASE T # {}
    <3>1. PICK b \in T : \A p \in T \ {b} : Before(s, b, p)
      BY <1>2, <2>2
    <3>2. /\ b \in Nat /\ x \in Nat /\ b # x
          /\ \A p \in S : p \in Nat /\ s.frags[p] \in Int
      BY Constants
    <3>3. CASE Before(s, b, x)
      <4>1. \A p \in (T \cup {x}) \ {b} : Before(s, b, p)
        BY <3>1, <3>3
      <4>2. QED BY <4>1
    <3>4. CASE ~Before(s, b, x)
      <4>1. Before(s, x, b)
        BY <3>2, <3>4 DEF Before
      <4>2. \A p \in (T \cup {x}) \ {x} : Before(s, x, p)
        BY <3>1, <3>2, <4>1 DEF Before
      <4>3. QED BY <4>2
    <3>5. QED BY <3>3, <3>4
  <2>3. QED BY <2>1, <2>2
<1> HIDE DEF G
<1>3. IsFiniteSet(S)
  BY Constants, FS_Subset
<1>4. S \in G
  BY <1>1, <1>2, <1>3, SetInduction
<1>5. QED BY <1>4 DEF G

LEMMA PairIsNotEmpty == \A S : \A z \in S \X S : z # <<>>
<1>1. ASSUME NEW S, NEW z \in S \X S PROVE z # <<>>
  <2>1. PICK a \in S, b \in S : z = <<a, b>>
    OBVIOUS
  <2>2. QED BY <2>1
<1>2. QED BY <1>1

LEMMA BestTwoPresent ==
  ASSUME NEW s \in ScState
  PROVE  /\ BestTwo(s) \in {<<>>} \cup s.here \X s.here
         /\ s.mode = "team" \/ Cardinality(s.here) < 2 => BestTwo(s) = <<>>
         /\ ~(s.mode = "team" \/ Cardinality(s.here) < 2) =>
              BestTwo(s) \in s.here \X s.here /\ BestTwo(s)[1] # BestTwo(s)[2]
<1>1. CASE s.mode = "team" \/ Cardinality(s.here) < 2
  BY <1>1 DEF BestTwo
<1>2. CASE ~(s.mode = "team" \/ Cardinality(s.here) < 2)
  <2> DEFINE Good(b) == /\ b[1] # b[2] /\ Before(s, b[1], b[2])
                        /\ \A p \in s.here \ {b[1], b[2]} : Before(s, b[2], p)
  <2>1. s.here \in SUBSET ScPlayer /\ s.frags \in [ScPlayer -> Int]
    BY DEF ScState
  <2>2. IsFiniteSet(s.here) /\ Cardinality(s.here) \in Nat
    BY <2>1, Constants, FS_Subset, FS_CardinalityType
  <2>3. s.here # {}
    BY <1>2, <2>2, FS_EmptySet
  <2>4. PICK a \in s.here : \A p \in s.here \ {a} : Before(s, a, p)
    BY <2>1, <2>3, BestExists
  <2>5. s.here \ {a} # {}
    <3>1. Cardinality(s.here \ {a}) = Cardinality(s.here) - 1 /\ IsFiniteSet(s.here \ {a})
      BY <2>2, FS_RemoveElement
    <3>2. QED BY <1>2, <2>2, <3>1, FS_EmptySet
  <2>6. s.here \ {a} \in SUBSET ScPlayer
    BY <2>1
  <2>7. PICK b \in s.here \ {a} : \A p \in (s.here \ {a}) \ {b} : Before(s, b, p)
    BY <2>1, <2>5, <2>6, BestExists
  <2>8. <<a, b>> \in s.here \X s.here /\ Good(<<a, b>>)
    BY <2>4, <2>7
  <2>9. BestTwo(s) = CHOOSE x \in s.here \X s.here : Good(x)
    BY <1>2 DEF BestTwo
  <2>10. \A x : Good(x) => x[1] # x[2]
    OBVIOUS
  <2> HIDE DEF Good
  <2>11. BestTwo(s) \in s.here \X s.here /\ Good(BestTwo(s))
    BY <2>8, <2>9
  <2>12. QED BY <1>2, <2>10, <2>11
<1>3. QED BY <1>1, <1>2

LEMMA TeamScoreIsSums ==
  ASSUME NEW s, NEW t
  PROVE  TeamScore(s, t) = SumOf(s.frags, {p \in s.here : s.team[p] = t})
                             + FieldSum({g \in s.ghosts : g.team = t})
BY DEF TeamScore, SumOf, FieldSum, MapThenSumSet, MapThenFoldSet

LEMMA TeamScoreType ==
  ASSUME NEW s \in ScState, IsFiniteSet(s.ghosts), NEW t PROVE TeamScore(s, t) \in Int
<1> DEFINE P == {p \in s.here : s.team[p] = t}
           Q == {g \in s.ghosts : g.team = t}
<1>1. Adds(s.frags, P)
  <2>1. P \in SUBSET ScPlayer /\ s.frags \in [ScPlayer -> Int]
    BY DEF ScState
  <2>2. IsFiniteSet(P)
    BY <2>1, Constants, FS_Subset
  <2>3. QED BY <2>1, <2>2 DEF Adds
<1>2. Adds([g \in Q |-> g.frags], Q)
  <2>1. Q \in SUBSET s.ghosts /\ \A g \in Q : g.frags \in Int
    BY DEF ScState, Ghost
  <2>2. IsFiniteSet(Q)
    BY <2>1, FS_Subset
  <2>3. QED BY <2>1, <2>2 DEF Adds
<1> HIDE DEF P, Q
<1>3. SumOf(s.frags, P) \in Int /\ FieldSum(Q) \in Int
  BY <1>1, <1>2, SumChoose, FieldSumIsSum
<1>4. TeamScore(s, t) = SumOf(s.frags, P) + FieldSum(Q)
  BY TeamScoreIsSums DEF P, Q
<1>5. QED BY <1>3, <1>4

LEMMA ReScoresStep ==
  ASSUME NEW s \in ScState, IsFiniteSet(s.ghosts), KnowsPresent(s)
  PROVE  LET r == ReScoresOf(s) IN r \in ScState /\ SameCount(s, r) /\ KnowsPresent(r)
                                   /\ r.sd = s.sd /\ r.snapshot = s.snapshot
<1> DEFINE r == ReScoresOf(s)
           k == [fresh |-> TRUE,
                 teams |-> IF s.mode = "team" THEN <<TeamScore(s, 1), TeamScore(s, 2)>> ELSE <<0, 0>>,
                 best |-> BestTwo(s)]
<1>1. CASE s.known.fresh
  BY <1>1 DEF ReScoresOf, SameCount
<1>2. CASE ~s.known.fresh
  <2>1. k \in Known /\ k.best \in {<<>>} \cup s.here \X s.here
    <3>1. BestTwo(s) \in {<<>>} \cup s.here \X s.here /\ s.here \subseteq ScPlayer
      BY BestTwoPresent DEF ScState
    <3>2. TeamScore(s, 1) \in Int /\ TeamScore(s, 2) \in Int
      BY TeamScoreType
    <3>3. QED BY <3>1, <3>2 DEF Known
  <2>2. r = Know(s, k)
    BY <1>2 DEF ReScoresOf, Know
  <2> HIDE DEF k, r
  <2>3. r \in ScState /\ SameCount(s, r) /\ r.known = k
    BY <2>1, <2>2, KnowStep
  <2>4. r.sd = s.sd /\ r.snapshot = s.snapshot
    BY <2>2 DEF Know, ScState
  <2>5. QED BY <2>1, <2>3, <2>4 DEF r, KnowsPresent, SameCount
<1>3. QED BY <1>1, <1>2

LEMMA DifferenceType ==
  ASSUME NEW s \in ScState, KnowsPresent(s) PROVE GetCurrentFragDifference(s) \in Nat
<1>1. \A m, n \in Int : Distance(m, n) \in Nat
  BY DEF Distance
<1>2. s.known.teams[1] \in Int /\ s.known.teams[2] \in Int
  BY DEF ScState, Known
<1>3. ASSUME s.known.best # <<>>
      PROVE  s.frags[s.known.best[1]] \in Int /\ s.frags[s.known.best[2]] \in Int
  <2>1. s.known.best \in s.here \X s.here /\ s.here \in SUBSET ScPlayer /\ s.frags \in [ScPlayer -> Int]
    BY <1>3 DEF KnowsPresent, ScState
  <2>2. QED BY <2>1
<1>4. QED BY <1>1, <1>2, <1>3 DEF GetCurrentFragDifference

-----------------------------------------------------------------------------
(***************************************************************************)
(* The end of the match.                                                   *)
(***************************************************************************)
LEMMA EndStep ==
  ASSUME NEW s \in ScState, KnowsPresent(s)
  PROVE  LET e == ScEndMatch(s) IN
         /\ Counted(e) /\ e.over /\ e.here = s.here /\ e.frags = s.frags /\ e.team = s.team
         /\ e.earned = s.earned /\ e.mode = s.mode /\ e.lock = s.lock
<1> DEFINE e == ScEndMatch(s)
           none == [n \in Number |-> 0]
<1>1. none \in [Number -> ScPlayer \cup {0}] /\ {} \in SUBSET Ghost /\ "none" \in Ending /\ TRUE \in BOOLEAN
  BY DEF Ending
<1>2. e = [s EXCEPT !.over = TRUE, !.sd = "none", !.ghosts = {}, !.localinfo = none]
  <2>1. DOMAIN s.localinfo = Number
    BY DEF ScState
  <2>2. QED BY <2>1 DEF ScEndMatch
<1> HIDE DEF e, none
<1>3. /\ e \in ScState /\ e.over /\ e.ghosts = {} /\ e.known = s.known /\ e.here = s.here
      /\ e.frags = s.frags /\ e.team = s.team /\ e.earned = s.earned /\ e.mode = s.mode /\ e.lock = s.lock
  BY <1>1, <1>2 DEF ScState
<1>4. QED BY <1>3 DEF e, Counted, KnowsPresent

LEMMA SnapshotStep ==
  ASSUME NEW s \in ScState, KnowsPresent(s)
  PROVE  LET u == updateGoldenFragSnapshot(s) IN
         u \in ScState /\ SameCount(s, u) /\ KnowsPresent(u) /\ u.sd = s.sd /\ u.known = s.known
<1> DEFINE d == GetCurrentFragDifference(s)
           u == [s EXCEPT !.snapshot = d]
<1>1. d \in Nat
  BY DifferenceType
<1> HIDE DEF d
<1>2. u \in ScState /\ SameCount(s, u) /\ u.sd = s.sd /\ u.known = s.known
  BY <1>1 DEF ScState, SameCount
<1> HIDE DEF u
<1>3. KnowsPresent(u)
  BY <1>2 DEF KnowsPresent, SameCount
<1>4. SameCount(s, s)
  BY DEF SameCount
<1>5. updateGoldenFragSnapshot(s) \in {s, u}
  BY DEF updateGoldenFragSnapshot, u, d
<1>6. QED BY <1>2, <1>3, <1>4, <1>5

\* A death: the match goes on with the same count, or ends.
LEMMA Check_SDStep ==
  ASSUME NEW s \in ScState, KnowsPresent(s), Kept(s), ~s.over
  PROVE  LET c == Check_SD(s) IN
         /\ Counted(c) /\ c.here = s.here /\ c.frags = s.frags /\ c.team = s.team
         /\ c.earned = s.earned /\ c.mode = s.mode /\ c.lock = s.lock
<1> DEFINE r == ReScoresOf(s)
<1>1. /\ r \in ScState /\ SameCount(s, r) /\ KnowsPresent(r)
  BY ReScoresStep DEF Kept, Numbered
<1>2. Check_SD(s) \in {ScEndMatch(r), updateGoldenFragSnapshot(r), r, s}
  BY DEF Check_SD
<1> HIDE DEF r
<1>3. ASSUME NEW u \in ScState, SameCount(s, u), KnowsPresent(u)
      PROVE  /\ Counted(u) /\ u.here = s.here /\ u.frags = s.frags /\ u.team = s.team
             /\ u.earned = s.earned /\ u.mode = s.mode /\ u.lock = s.lock
  BY <1>3, SameCountKeeps DEF SameCount, Counted
<1>4. SameCount(s, s)
  BY DEF SameCount
<1>5. SameCount(s, updateGoldenFragSnapshot(r)) /\ updateGoldenFragSnapshot(r) \in ScState
      /\ KnowsPresent(updateGoldenFragSnapshot(r))
  BY <1>1, SnapshotStep DEF SameCount
<1>6. CASE Check_SD(s) = ScEndMatch(r)
  BY <1>1, <1>6, EndStep DEF SameCount
<1>7. CASE Check_SD(s) # ScEndMatch(r)
  BY <1>1, <1>2, <1>3, <1>4, <1>5, <1>7
<1>8. QED BY <1>6, <1>7

LEMMA CheckOvertimeStep ==
  ASSUME ScInv, CheckOvertime PROVE ScInv'
<1> DEFINE r == ReScoresOf(sc)
<1>1. sc \in ScState /\ KnowsPresent(sc) /\ Kept(sc) /\ ~sc.over
  BY DEF ScInv, Counted, CheckOvertime
<1>2. r \in ScState /\ SameCount(sc, r) /\ KnowsPresent(r)
  BY <1>1, ReScoresStep DEF Kept, Numbered
<1>3. \/ sc' = ScEndMatch(r)
      \/ sc' = r
      \/ sc' = [r EXCEPT !.sd = r.overtime] /\ r.overtime \in Ending
  <2>1. r.overtime \in ScOvertimes
    BY <1>2 DEF ScState
  <2>2. QED BY <2>1 DEF CheckOvertime, GoesOn, ScOvertimes, Ending
<1> HIDE DEF r
<1>4. CASE sc' = ScEndMatch(r)
  BY <1>2, <1>4, EndStep DEF ScInv
<1>5. ASSUME NEW u \in ScState, SameCount(sc, u), KnowsPresent(u), sc' = u PROVE ScInv'
  BY <1>1, <1>5, SameCountKeeps DEF ScInv, Counted, SameCount
<1>6. CASE sc' = [r EXCEPT !.sd = r.overtime] /\ r.overtime \in Ending
  <2> DEFINE u == [r EXCEPT !.sd = r.overtime]
  <2>1. u \in ScState /\ SameCount(r, u) /\ u.known = r.known
    BY <1>2, <1>6 DEF ScState, SameCount
  <2>2. sc' = u
    BY <1>6
  <2> HIDE DEF u
  <2>3. SameCount(sc, u) /\ KnowsPresent(u)
    BY <1>2, <2>1 DEF SameCount, KnowsPresent
  <2>4. QED BY <1>5, <2>1, <2>2, <2>3
<1>7. QED BY <1>2, <1>3, <1>4, <1>5, <1>6

LEMMA AskScoresStep ==
  ASSUME ScInv, AskScores PROVE ScInv'
<1>1. sc \in ScState /\ KnowsPresent(sc) /\ Kept(sc) /\ ~sc.over
  BY DEF ScInv, Counted, AskScores
<1>2. sc' \in ScState /\ SameCount(sc, sc') /\ KnowsPresent(sc')
  BY <1>1, ReScoresStep DEF Kept, Numbered, AskScores
<1>3. QED BY <1>1, <1>2, SameCountKeeps DEF ScInv, Counted, SameCount

-----------------------------------------------------------------------------
(***************************************************************************)
(* Deaths.                                                                 *)
(***************************************************************************)
\* p has n frags more, before anybody has looked at the scores.
Died(s, p, n) ==
  [s EXCEPT !.known = NotKnown, !.frags[p] = @ + n, !.earned[p] = @ + n,
            !.lone = s.mode # "team" /\ Cardinality(s.here) < 2]

LEMMA DiedStep ==
  ASSUME ScInv, ~sc.over, NEW p \in sc.here, NEW n \in Int, NEW u, u = Died(sc, p, n)
  PROVE  /\ u \in ScState /\ KnowsPresent(u) /\ Kept(u) /\ ~u.over /\ u.known = NotKnown
         /\ u.here = sc.here /\ u.team = sc.team /\ u.ghosts = sc.ghosts /\ u.localinfo = sc.localinfo
         /\ u.mode = sc.mode /\ u.overtime = sc.overtime /\ u.lock = sc.lock /\ u.sd = sc.sd
         /\ u.snapshot = sc.snapshot /\ u.earned[p] = sc.earned[p] + n
         /\ \A q \in ScPlayer : q # p => u.earned[q] = sc.earned[q]
         /\ u.lone <=> sc.mode # "team" /\ Cardinality(sc.here) < 2
<1> DEFINE lone == sc.mode # "team" /\ Cardinality(sc.here) < 2
           f == [sc.frags EXCEPT ![p] = @ + n]
           e == [sc.earned EXCEPT ![p] = @ + n]
<1>1. sc \in ScState /\ Kept(sc) /\ p \in ScPlayer /\ sc.frags[p] \in Int /\ sc.earned[p] \in Int
  BY DEF ScInv, Counted, ScState
<1>2. f \in [ScPlayer -> Int] /\ e \in [ScPlayer -> Int] /\ lone \in BOOLEAN /\ NotKnown \in Known
      /\ NotKnown.best = <<>>
  BY <1>1 DEF ScState, NotKnown, Known
<1>3. u = [sc EXCEPT !.known = NotKnown, !.frags = f, !.earned = e, !.lone = lone]
  BY <1>1 DEF Died, ScState
<1>4. \A q \in ScPlayer : /\ q # p => f[q] = sc.frags[q] /\ e[q] = sc.earned[q]
                          /\ f[p] = sc.frags[p] + n /\ e[p] = sc.earned[p] + n
  BY <1>1 DEF ScState
<1>5. lone <=> sc.mode # "team" /\ Cardinality(sc.here) < 2
  OBVIOUS
<1> HIDE DEF lone, f, e
<1>6. /\ u \in ScState /\ u.known = NotKnown /\ u.frags = f /\ u.earned = e /\ u.here = sc.here
      /\ u.ghosts = sc.ghosts /\ u.localinfo = sc.localinfo /\ u.userid = sc.userid
      /\ u.team = sc.team /\ u.over = sc.over /\ u.mode = sc.mode /\ u.overtime = sc.overtime
      /\ u.lock = sc.lock /\ u.sd = sc.sd /\ u.snapshot = sc.snapshot /\ u.lone = lone
  BY <1>1, <1>2, <1>3 DEF ScState
<1>7. Numbered(u)
  BY <1>1, <1>6 DEF Kept, Numbered
<1>8. ASSUME NEW q \in ScPlayer PROVE KeptFor(u, q)
  <2>1. KeptFor(sc, q)
    BY <1>1 DEF Kept
  <2>2. CASE q = p
    <3>1. \A g \in sc.ghosts : ~Owns(sc, p, g)
      BY <1>1 DEF Kept, Numbered, Owns
    <3>2. sc.earned[p] = sc.frags[p]
      BY <2>1, <2>2 DEF KeptFor
    <3>3. QED BY <1>4, <1>6, <2>2, <3>1, <3>2 DEF KeptFor, Owns
  <2>3. CASE q # p
    BY <1>4, <1>6, <2>1, <2>3 DEF KeptFor, Owns
  <2>4. QED BY <2>2, <2>3
<1>9. KnowsPresent(u) /\ ~u.over
  BY <1>2, <1>6 DEF KnowsPresent
<1>10. u.earned[p] = sc.earned[p] + n /\ \A q \in ScPlayer : q # p => u.earned[q] = sc.earned[q]
  BY <1>1, <1>4, <1>6
<1>11. u.lone <=> sc.mode # "team" /\ Cardinality(sc.here) < 2
  BY <1>5, <1>6
<1>12. Kept(u)
  BY <1>7, <1>8 DEF Kept
<1>13. QED BY <1>6, <1>9, <1>10, <1>11, <1>12

LEMMA ObituaryStep ==
  ASSUME ScInv, ~sc.over, NEW p \in sc.here, NEW n \in Int, sc' = Obituary(sc, p, n)
  PROVE  ScInv'
<1> DEFINE u == Died(sc, p, n)
<1>1. sc' = Check_SD(u)
  BY DEF Obituary, Died
<1>2. u \in ScState /\ KnowsPresent(u) /\ Kept(u) /\ ~u.over
  BY DiedStep
<1> HIDE DEF u
<1>3. QED BY <1>1, <1>2, Check_SDStep DEF ScInv

-----------------------------------------------------------------------------
(***************************************************************************)
(* Who leaves, and who comes back.                                         *)
(***************************************************************************)
\* There is a number for the name of who leaves, because the names in use are of others.
LEMMA NumberForGhost ==
  ASSUME NEW s \in ScState, Kept(s), NEW p \in s.here
  PROVE  LET n == FreeNumber(s) IN
         /\ n \in Number /\ n <= s.userid /\ s.localinfo[n] = 0
         /\ n = s.userid => s.userid + 1 \in Number
<1> DEFINE n == FreeNumber(s)
           Free(m) == /\ m = s.userid \/ s.localinfo[m] = 0
                      /\ \A l \in 1 .. m - 1 : s.localinfo[l] # 0
           T == {m \in 1 .. s.userid : m = s.userid \/ s.localinfo[m] = 0}
<1>1. s.userid \in Nat /\ s.userid >= 1 /\ s.userid <= Most
  BY Constants DEF ScState
<1>2. T \subseteq Nat /\ s.userid \in T
  BY <1>1
<1>3. PICK m \in T : \A l \in T : m <= l
  <2> HIDE DEF T
  <2>1. QED BY <1>2, LeastNumber
<1>4. m \in 1 .. s.userid /\ Free(m)
  <2>1. \A l \in 1 .. m - 1 : l \notin T /\ l \in 1 .. s.userid
    BY <1>1, <1>3
  <2>2. QED BY <1>3, <2>1
<1>5. n \in 1 .. s.userid /\ Free(n)
  <2>1. n = CHOOSE x \in 1 .. s.userid : Free(x)
    BY DEF FreeNumber
  <2> HIDE DEF Free, n
  <2>2. QED BY <1>4, <2>1
<1> HIDE DEF n
<1>6. n \in Nat /\ n >= 1 /\ n <= s.userid /\ n \in Number
  BY <1>1, <1>5, Constants
<1>7. s.localinfo[n] = 0
  BY <1>1, <1>5, <1>6 DEF Kept, Numbered
<1>8. ASSUME n = s.userid PROVE s.userid + 1 \in Number
  <2> DEFINE D == 1 .. s.userid - 1
             f == [l \in D |-> s.localinfo[l]]
             R == ScPlayer \ {p}
  <2>1. \A l \in D : l \in Number /\ s.localinfo[l] # 0
    BY <1>1, <1>5, <1>8, Constants
  <2>2. \A l \in D : s.localinfo[l] \in R
    <3> TAKE l \in D
    <3>1. PICK g \in s.ghosts : g.cnt2 = l
      BY <2>1 DEF Kept, Numbered
    <3>2. s.localinfo[l] \in ScPlayer \ s.here
      BY <3>1 DEF Kept, Numbered
    <3>3. QED BY <3>2
  <2>3. f \in Injection(D, R)
    <3>1. \A k, l \in D : f[k] = f[l] => k = l
      BY <2>1 DEF Kept, Numbered
    <3> HIDE DEF R
    <3>2. f \in [D -> R]
      BY <2>2
    <3>3. QED BY <3>1, <3>2 DEF Injection, IsInjective
  <2>4. p \in ScPlayer
    BY DEF ScState
  <2>5. IsFiniteSet(R) /\ Cardinality(R) = Cardinality(ScPlayer) - 1
    BY <2>4, Constants, FS_RemoveElement
  <2>6. Cardinality(D) = s.userid - 1
    <3>1. 1 \in Int /\ s.userid - 1 \in Int /\ ~(1 > s.userid - 1) => s.userid - 1 - 1 + 1 = s.userid - 1
      BY <1>1
    <3>2. Cardinality(D) = IF 1 > s.userid - 1 THEN 0 ELSE s.userid - 1 - 1 + 1
      BY <1>1, FS_Interval
    <3>3. QED BY <1>1, <3>2
  <2> HIDE DEF D, f, R
  <2>7. Cardinality(D) <= Cardinality(R)
    BY <2>3, <2>5, FS_Injection
  <2>8. s.userid <= Cardinality(ScPlayer)
    BY <1>1, <2>5, <2>6, <2>7, Constants
  <2>9. QED BY <1>1, <2>8, Constants DEF Most
<1>9. QED BY <1>6, <1>7, <1>8 DEF n

\* A player has left, with a ghost or without.
Gone(s, h, gs, li, u, f, e) ==
  [s EXCEPT !.known = NotKnown, !.here = h, !.ghosts = gs, !.localinfo = li, !.userid = u,
            !.frags = f, !.earned = e]

LEMMA GoneType ==
  ASSUME NEW s \in ScState, NEW h \in Present, NEW gs \in Ghosts, NEW li \in Names,
         NEW u \in Number, NEW f \in ScPoints, NEW e \in ScPoints,
         NEW t, t = Gone(s, h, gs, li, u, f, e)
  PROVE  /\ t \in ScState /\ KnowsPresent(t) /\ t.here = h /\ t.ghosts = gs
         /\ t.localinfo = li /\ t.userid = u /\ t.frags = f /\ t.earned = e
         /\ t.team = s.team /\ t.over = s.over
<1>1. NotKnown \in Known /\ NotKnown.best = <<>>
  BY DEF NotKnown, Known
<1>2. /\ t \in ScState /\ t.known = NotKnown /\ t.here = h /\ t.ghosts = gs
      /\ t.localinfo = li /\ t.userid = u /\ t.frags = f /\ t.earned = e
      /\ t.team = s.team /\ t.over = s.over
  BY <1>1 DEF Gone, ScState, Present, Ghosts, ScPoints, Names
<1>3. QED BY <1>1, <1>2 DEF KnowsPresent

\* Without a ghost he loses his frags.
LeavesNothing(s, p, t) ==
  t = Gone(s, s.here \ {p}, s.ghosts, s.localinfo, s.userid,
           [s.frags EXCEPT ![p] = 0], [s.earned EXCEPT ![p] = 0])

LEMMA GoneWithoutGhost ==
  ASSUME NEW s \in ScState, Kept(s), NEW p \in s.here, NEW t, LeavesNothing(s, p, t)
  PROVE  t \in ScState /\ KnowsPresent(t) /\ Kept(t) /\ t.over = s.over
<1> DEFINE f == [s.frags EXCEPT ![p] = 0]
           e == [s.earned EXCEPT ![p] = 0]
           h == s.here \ {p}
<1>1. /\ p \in ScPlayer /\ f \in [ScPlayer -> Int] /\ e \in [ScPlayer -> Int]
      /\ \A q \in ScPlayer : q # p => f[q] = s.frags[q] /\ e[q] = s.earned[q]
      /\ f[p] = 0 /\ e[p] = 0
      /\ s.ghosts \in SUBSET Ghost /\ s.localinfo \in [Number -> ScPlayer \cup {0}] /\ s.userid \in Number
  BY DEF ScState
<1>20. /\ t = Gone(s, h, s.ghosts, s.localinfo, s.userid, f, e) /\ h \in Present
      /\ s.ghosts \in Ghosts /\ s.localinfo \in Names /\ f \in ScPoints /\ e \in ScPoints
  BY <1>1 DEF LeavesNothing, Ghosts, Names, ScPoints, Present, ScState
<1> HIDE DEF f, e, h
<1>21. /\ t \in ScState /\ KnowsPresent(t) /\ t.here = h /\ t.ghosts = s.ghosts
      /\ t.localinfo = s.localinfo /\ t.userid = s.userid /\ t.frags = f /\ t.earned = e
      /\ t.team = s.team /\ t.over = s.over
  BY <1>1, <1>20, GoneType
<1>2. /\ t \in ScState /\ KnowsPresent(t) /\ t.here = s.here \ {p} /\ t.ghosts = s.ghosts
      /\ t.localinfo = s.localinfo /\ t.userid = s.userid /\ t.frags = f /\ t.earned = e
      /\ t.team = s.team /\ t.over = s.over
  BY <1>21 DEF h
<1>3. Numbered(t)
  <2>1. \A g \in s.ghosts : g.cnt2 \in Number /\ s.localinfo[g.cnt2] \in ScPlayer \ s.here
    BY DEF Kept, Numbered
  <2>2. QED BY <1>2, <2>1 DEF Kept, Numbered
<1>4. ASSUME NEW q \in ScPlayer PROVE KeptFor(t, q)
  <2>1. KeptFor(s, q)
    BY DEF Kept
  <2>2. \A g \in s.ghosts : ~Owns(s, p, g)
    BY DEF Kept, Numbered, Owns
  <2>3. \A g : Owns(t, q, g) <=> Owns(s, q, g)
    BY <1>2 DEF Owns
  <2>4. CASE q = p
    BY <1>1, <1>2, <2>2, <2>3, <2>4 DEF KeptFor, Owns
  <2>5. CASE q # p
    BY <1>1, <1>2, <2>1, <2>3, <2>5 DEF KeptFor
  <2>6. QED BY <2>4, <2>5
<1>5. QED BY <1>2, <1>3, <1>4 DEF Kept

LeavesGhost(s, p, n, g, u, t) ==
  /\ g = [cnt2 |-> n, frags |-> s.frags[p], team |-> s.team[p]]
  /\ t = Gone(s, s.here \ {p}, s.ghosts \cup {g}, [s.localinfo EXCEPT ![n] = p], u,
              [s.frags EXCEPT ![p] = 0], s.earned)

LEMMA GoneWithGhost ==
  ASSUME NEW s \in ScState, Kept(s), NEW p \in s.here, NEW n \in Number, s.localinfo[n] = 0,
         NEW g, NEW u \in Number, n < u, s.userid <= u, NEW t, LeavesGhost(s, p, n, g, u, t)
  PROVE  t \in ScState /\ KnowsPresent(t) /\ Kept(t) /\ t.over = s.over
<1> DEFINE f == [s.frags EXCEPT ![p] = 0]
           gs == s.ghosts \cup {g}
           li == [s.localinfo EXCEPT ![n] = p]
           hs == s.here \ {p}
<1>1. /\ p \in ScPlayer /\ f \in [ScPlayer -> Int] /\ s.earned \in [ScPlayer -> Int]
      /\ \A q \in ScPlayer : q # p => f[q] = s.frags[q]
      /\ f[p] = 0
  BY DEF ScState
<1>2. g \in Ghost /\ gs \in SUBSET Ghost /\ s.ghosts \in SUBSET Ghost
  <2>1. n \in Nat /\ s.frags[p] \in Int /\ s.team[p] \in Side /\ s.ghosts \in SUBSET Ghost
    BY <1>1, Constants DEF ScState
  <2>2. QED BY <2>1 DEF LeavesGhost, Ghost, Side
<1>3. /\ li \in [Number -> ScPlayer \cup {0}] /\ li[n] = p
      /\ \A m \in Number : m # n => li[m] = s.localinfo[m]
  BY <1>1 DEF ScState
<1>4. g.cnt2 = n /\ g.frags = s.frags[p] /\ g.team = s.team[p]
  BY DEF LeavesGhost
<1>20. /\ t = Gone(s, hs, gs, li, u, f, s.earned) /\ hs \in Present
      /\ gs \in Ghosts /\ li \in Names /\ f \in ScPoints /\ s.earned \in ScPoints
  BY <1>1, <1>2, <1>3 DEF LeavesGhost, Ghosts, Names, ScPoints, Present, ScState
<1> HIDE DEF f, gs, li, hs
<1>21. /\ t \in ScState /\ KnowsPresent(t) /\ t.here = hs /\ t.ghosts = gs
      /\ t.localinfo = li /\ t.userid = u /\ t.frags = f /\ t.earned = s.earned
      /\ t.team = s.team /\ t.over = s.over
  BY <1>20, GoneType
<1>5. /\ t \in ScState /\ KnowsPresent(t) /\ t.here = s.here \ {p} /\ t.ghosts = gs
      /\ t.localinfo = li /\ t.userid = u /\ t.frags = f /\ t.earned = s.earned
      /\ t.team = s.team /\ t.over = s.over
  BY <1>21 DEF hs
<1>6. /\ \A h \in s.ghosts : h.cnt2 \in Number /\ h.cnt2 # n /\ li[h.cnt2] = s.localinfo[h.cnt2]
                             /\ s.localinfo[h.cnt2] \in ScPlayer \ s.here
  <2>1. \A h \in s.ghosts : h.cnt2 \in Number /\ s.localinfo[h.cnt2] \in ScPlayer \ s.here
    BY DEF Kept, Numbered
  <2>2. QED BY <1>3, <2>1, Constants
<1>7. IsFiniteSet(gs)
  BY FS_AddElement DEF gs, Kept, Numbered
<1>8. \A h \in gs : h.cnt2 \in Number /\ li[h.cnt2] \in ScPlayer \ t.here
  <2>1. n \in Number /\ p \in ScPlayer \ t.here
    BY <1>1, <1>5
  <2>2. g.cnt2 \in Number /\ li[g.cnt2] \in ScPlayer \ t.here
    BY <1>3, <1>4, <2>1
  <2>3. \A h \in s.ghosts : h.cnt2 \in Number /\ li[h.cnt2] \in ScPlayer \ t.here
    BY <1>5, <1>6
  <2>4. \A h \in gs : h = g \/ h \in s.ghosts
    BY DEF gs
  <2>5. QED BY <2>2, <2>3, <2>4
<1>9. \A h, k \in gs : h.cnt2 = k.cnt2 => h = k
  BY <1>4, <1>6 DEF gs, Kept, Numbered
<1>10. \A m \in Number : li[m] # 0 => m < u /\ \E h \in gs : h.cnt2 = m
  <2> SUFFICES ASSUME NEW m \in Number, li[m] # 0 PROVE m < u /\ \E h \in gs : h.cnt2 = m
    OBVIOUS
  <2>1. CASE m = n
    BY <1>4, <2>1 DEF gs
  <2>2. CASE m # n
    <3>1. s.localinfo[m] # 0
      BY <1>3, <2>2
    <3>2. m < s.userid /\ \E h \in s.ghosts : h.cnt2 = m
      BY <3>1 DEF Kept, Numbered
    <3>3. m \in Nat /\ s.userid \in Nat /\ u \in Nat
      BY Constants DEF ScState
    <3>4. QED BY <3>2, <3>3 DEF gs
  <2>3. QED BY <2>1, <2>2
<1>11. \A k, m \in Number : li[k] = li[m] /\ li[k] # 0 => k = m
  <2> SUFFICES ASSUME NEW k \in Number, NEW m \in Number, li[k] = li[m], li[k] # 0, k # m PROVE FALSE
    OBVIOUS
  <2>1. \A l \in Number : s.localinfo[l] # p
    <3> SUFFICES ASSUME NEW l \in Number, s.localinfo[l] = p PROVE FALSE
      OBVIOUS
    <3>1. s.localinfo[l] # 0
      BY <1>1, Constants
    <3>2. PICK h \in s.ghosts : h.cnt2 = l
      BY <3>1 DEF Kept, Numbered
    <3>3. QED BY <1>6, <3>2
  <2>2. QED BY <1>3, <2>1 DEF Kept, Numbered
<1>12. Numbered(t)
  <2>1. \A h \in t.ghosts : h.cnt2 \in Number /\ t.localinfo[h.cnt2] \in ScPlayer \ t.here
    BY <1>5, <1>8
  <2>2. \A m \in Number : t.localinfo[m] # 0 => m < t.userid /\ \E h \in t.ghosts : h.cnt2 = m
    BY <1>5, <1>10
  <2>3. \A h, k \in t.ghosts : h.cnt2 = k.cnt2 => h = k
    BY <1>5, <1>9
  <2>4. \A k, m \in Number : t.localinfo[k] = t.localinfo[m] /\ t.localinfo[k] # 0 => k = m
    BY <1>5, <1>11
  <2>5. IsFiniteSet(t.ghosts)
    BY <1>5, <1>7
  <2>6. QED BY <2>1, <2>2, <2>3, <2>4, <2>5 DEF Numbered
<1>13. ASSUME NEW q \in ScPlayer PROVE KeptFor(t, q)
  <2>1. KeptFor(s, q)
    BY DEF Kept
  <2>2. \A h \in s.ghosts : Owns(t, q, h) <=> Owns(s, q, h)
    BY <1>5, <1>6 DEF Owns, gs
  <2>3. \A h : Owns(t, q, h) => h \in s.ghosts \/ h = g
    BY <1>5 DEF Owns, gs
  <2>4. Owns(t, q, g) <=> q = p
    BY <1>3, <1>4, <1>5 DEF Owns, gs
  <2>5. CASE q = p
    <3>1. \A h \in s.ghosts : ~Owns(s, p, h)
      BY <1>6 DEF Owns
    <3>2. \A h : Owns(t, p, h) => h = g
      BY <2>2, <2>3, <2>5, <3>1
    <3>3. s.earned[p] = s.frags[p]
      BY <2>1, <2>5 DEF KeptFor
    <3>4. \E h \in t.ghosts : Owns(t, q, h)
      BY <2>4, <2>5 DEF Owns
    <3>5. QED BY <1>1, <1>4, <1>5, <2>5, <3>2, <3>3, <3>4 DEF KeptFor
  <2>6. CASE q # p
    <3>1. \A h : Owns(t, q, h) <=> Owns(s, q, h)
      <4>1. \A h : Owns(s, q, h) => h \in s.ghosts
        BY DEF Owns
      <4>2. QED BY <2>2, <2>3, <2>4, <2>6, <4>1
    <3>2. \A h : Owns(s, q, h) => h \in s.ghosts /\ h \in t.ghosts
      BY <1>5 DEF Owns, gs
    <3>3. (\A h \in t.ghosts : ~Owns(t, q, h)) => (\A h \in s.ghosts : ~Owns(s, q, h))
      BY <3>1, <3>2
    <3>4. q \in t.here <=> q \in s.here
      BY <1>5, <2>6
    <3>5. t.frags[q] = s.frags[q] /\ t.earned[q] = s.earned[q] /\ t.team[q] = s.team[q]
      BY <1>1, <1>5, <2>6
    <3>6. QED BY <2>1, <3>1, <3>2, <3>3, <3>4, <3>5 DEF KeptFor
  <2>7. QED BY <2>5, <2>6
<1>14. QED BY <1>5, <1>12, <1>13 DEF Kept

\* The state after p has left, before the end of a match without players.
Left(s, p) ==
  [MakeGhost([s EXCEPT !.known = NotKnown], p) EXCEPT !.here = @ \ {p}, !.frags[p] = 0]

LeavesNumbered(s, p, n, g, u, t) ==
  /\ LeavesGhost(s, p, n, g, u, t)
  /\ n \in Number /\ u \in Number /\ s.localinfo[n] = 0 /\ n < u /\ s.userid <= u

LEMMA LeftIs ==
  ASSUME NEW s \in ScState, Kept(s), NEW p \in s.here, NEW t, t = Left(s, p)
  PROVE  IF s.lock = 0 THEN LeavesNothing(s, p, t)
         ELSE \E n, g, u : LeavesNumbered(s, p, n, g, u, t)
<1> DEFINE s0 == [s EXCEPT !.known = NotKnown]
           m == MakeGhost(s0, p)
<1>1. t = [m EXCEPT !.here = @ \ {p}, !.frags[p] = 0] /\ p \in ScPlayer
  BY DEF Left, ScState
<1>2. CASE s.lock = 0
  <2>1. s0.lock = 0
    BY <1>2 DEF ScState
  <2>2. m = [s0 EXCEPT !.earned[p] = 0]
    BY <2>1 DEF MakeGhost
  <2> HIDE DEF m
  <2>3. m = [s EXCEPT !.known = NotKnown, !.earned = [s.earned EXCEPT ![p] = 0]]
    BY <2>2 DEF ScState
  <2>4. QED BY <1>1, <1>2, <2>3 DEF LeavesNothing, Gone, ScState
<1>3. CASE s.lock # 0
  <2> DEFINE n == FreeNumber(s)
             g == [cnt2 |-> n, frags |-> s.frags[p], team |-> s.team[p]]
             u == IF n = s.userid THEN s.userid + 1 ELSE s.userid
  <2>1. /\ n \in Number /\ n <= s.userid /\ s.localinfo[n] = 0
        /\ n = s.userid => s.userid + 1 \in Number
    BY NumberForGhost
  <2>2. FreeNumber(s0) = n
    BY DEF FreeNumber, ScState
  <2> HIDE DEF n
  <2>3. t = Gone(s, s.here \ {p}, s.ghosts \cup {g}, [s.localinfo EXCEPT ![n] = p], u,
                 [s.frags EXCEPT ![p] = 0], s.earned)
    <3>1. /\ s0.lock = s.lock /\ s0.frags = s.frags /\ s0.team = s.team /\ s0.userid = s.userid
          /\ s0.localinfo = s.localinfo /\ s0.ghosts = s.ghosts
      BY DEF ScState
    <3>2. m = [s0 EXCEPT !.ghosts = @ \cup {g}, !.localinfo[n] = p,
                         !.userid = IF n = @ THEN @ + 1 ELSE @]
      BY <1>3, <2>2, <3>1 DEF MakeGhost
    <3> HIDE DEF g
    <3>3. m = [s EXCEPT !.known = NotKnown, !.ghosts = s.ghosts \cup {g},
                        !.localinfo = [s.localinfo EXCEPT ![n] = p], !.userid = u]
      BY <3>1, <3>2 DEF ScState
    <3> HIDE DEF m
    <3>4. QED BY <1>1, <3>3 DEF Gone, ScState
  <2>4. u \in Number /\ n < u /\ s.userid <= u
    <3>1. n \in Nat /\ s.userid \in Number /\ s.userid \in Nat
      BY <2>1, Constants DEF ScState
    <3>2. CASE n = s.userid
      BY <2>1, <3>1, <3>2
    <3>3. CASE n # s.userid
      BY <2>1, <3>1, <3>3
    <3>4. QED BY <3>2, <3>3
  <2> HIDE DEF u
  <2>5. LeavesGhost(s, p, n, g, u, t)
    BY <2>3 DEF LeavesGhost
  <2> HIDE DEF g
  <2>6. LeavesNumbered(s, p, n, g, u, t)
    BY <2>1, <2>4, <2>5 DEF LeavesNumbered
  <2>7. QED BY <1>3, <2>6
<1>4. QED BY <1>2, <1>3

LEMMA LeftKeeps ==
  ASSUME NEW s \in ScState, Kept(s), NEW p \in s.here, NEW t, t = Left(s, p)
  PROVE  t \in ScState /\ KnowsPresent(t) /\ Kept(t) /\ t.over = s.over
<1>1. CASE s.lock = 0
  BY <1>1, LeftIs, GoneWithoutGhost
<1>2. CASE s.lock # 0
  <2>1. PICK n, g, u : LeavesNumbered(s, p, n, g, u, t)
    BY <1>2, LeftIs
  <2>2. QED BY <2>1, GoneWithGhost DEF LeavesNumbered
<1>3. QED BY <1>1, <1>2

LEMMA ScDisconnectStep ==
  ASSUME ScInv, NEW p \in ScPlayer, ScDisconnect(p) PROVE ScInv'
<1> DEFINE t == Left(sc, p)
<1>1. sc \in ScState /\ Kept(sc) /\ ~sc.over /\ p \in sc.here
  BY DEF ScInv, Counted, ScDisconnect
<1>2. t \in ScState /\ KnowsPresent(t) /\ Kept(t) /\ ~t.over
  <2>1. t = Left(sc, p) OBVIOUS
  <2> HIDE DEF t
  <2>2. QED BY <1>1, <2>1, LeftKeeps
<1>3. sc' = IF t.here = {} THEN ScEndMatch(t) ELSE t
  BY DEF ScDisconnect, Left
<1> HIDE DEF t
<1>4. QED BY <1>2, <1>3, EndStep DEF ScInv, Counted

-----------------------------------------------------------------------------
\* A player has come, and may have taken the frags of a ghost.
Come(s, h, tm, gs, li, f) ==
  [s EXCEPT !.known = NotKnown, !.here = h, !.team = tm, !.ghosts = gs, !.localinfo = li, !.frags = f]

Teams == [ScPlayer -> Side]

LEMMA ComeType ==
  ASSUME NEW s \in ScState, NEW h \in Present, NEW tm \in Teams, NEW gs \in Ghosts,
         NEW li \in Names, NEW f \in ScPoints, NEW t, t = Come(s, h, tm, gs, li, f)
  PROVE  /\ t \in ScState /\ KnowsPresent(t) /\ t.here = h /\ t.team = tm /\ t.ghosts = gs
         /\ t.localinfo = li /\ t.frags = f
         /\ t.userid = s.userid /\ t.earned = s.earned /\ t.over = s.over
<1>1. NotKnown \in Known /\ NotKnown.best = <<>>
  BY DEF NotKnown, Known
<1>2. /\ t \in ScState /\ t.known = NotKnown /\ t.here = h /\ t.ghosts = gs
      /\ t.localinfo = li /\ t.userid = s.userid /\ t.frags = f /\ t.earned = s.earned
      /\ t.team = tm /\ t.over = s.over
  BY <1>1 DEF Come, ScState, Present, Ghosts, ScPoints, Names, Teams
<1>3. QED BY <1>1, <1>2 DEF KnowsPresent

\* p comes with the team side; his number is n, or he has none and n is 0.
Comes(s, p, side, n, t) ==
  t = Come(s, s.here \cup {p}, [s.team EXCEPT ![p] = side],
           {g \in s.ghosts : g.cnt2 # n},
           IF n = 0 THEN s.localinfo ELSE [s.localinfo EXCEPT ![n] = 0],
           IF n = 0 THEN s.frags
           ELSE [s.frags EXCEPT ![p] = (CHOOSE g \in {h \in s.ghosts : h.cnt2 = n} : TRUE).frags])

\* Nobody has left under the name p.
Unnamed(s, p) == \A m \in Number : s.localinfo[m] # p

LEMMA NumberIsHis ==
  ASSUME NEW s \in ScState, Kept(s), NEW p \in ScPlayer, NEW n, n = NumberOf(s, p)
  PROVE  \/ n = 0 /\ Unnamed(s, p)
         \/ n \in Number /\ n # 0 /\ s.localinfo[n] = p
<1> DEFINE found == {m \in 1 .. s.userid - 1 : s.localinfo[m] = p}
<1>0. s.userid \in Nat /\ s.userid <= Most /\ p # 0
  BY Constants DEF ScState
<1>1. CASE found = {}
  <2>1. n = 0
    BY <1>1 DEF NumberOf
  <2>2. ASSUME NEW m \in Number, s.localinfo[m] = p PROVE FALSE
    <3>1. m < s.userid
      BY <1>0, <2>2 DEF Kept, Numbered
    <3>2. m \in 1 .. s.userid - 1
      BY <1>0, <3>1, Constants
    <3>3. QED BY <1>1, <2>2, <3>2
  <2>3. QED BY <2>1, <2>2 DEF Unnamed
<1>2. CASE found # {}
  <2>1. found \subseteq Nat
    BY <1>0
  <2>2. n = Min(found)
    BY <1>2 DEF NumberOf
  <2>3. \A m \in found : m \in Number /\ m # 0 /\ s.localinfo[m] = p
    BY <1>0, Constants
  <2> HIDE DEF found
  <2>4. n \in found
    BY <1>2, <2>1, <2>2, LeastNumber DEF Min
  <2>5. QED BY <2>3, <2>4
<1>3. QED BY <1>1, <1>2

LEMMA ComesWithoutGhost ==
  ASSUME NEW s \in ScState, Kept(s), NEW p \in ScPlayer \ s.here, NEW side \in Side,
         Unnamed(s, p), NEW t, Comes(s, p, side, 0, t)
  PROVE  t \in ScState /\ KnowsPresent(t) /\ Kept(t) /\ t.over = s.over
<1> DEFINE h == s.here \cup {p}
           tm == [s.team EXCEPT ![p] = side]
<1>1. /\ h \in Present /\ tm \in Teams /\ s.ghosts \in Ghosts /\ s.localinfo \in Names
      /\ s.frags \in ScPoints /\ \A q \in ScPlayer : q # p => tm[q] = s.team[q]
  BY DEF ScState, Present, Teams, Ghosts, Names, ScPoints
<1>2. {g \in s.ghosts : g.cnt2 # 0} = s.ghosts
  BY Constants DEF Kept, Numbered
<1>3. t = Come(s, h, tm, s.ghosts, s.localinfo, s.frags)
  BY <1>2 DEF Comes
<1> HIDE DEF h, tm
<1>4. /\ t \in ScState /\ KnowsPresent(t) /\ t.here = h /\ t.team = tm /\ t.ghosts = s.ghosts
      /\ t.localinfo = s.localinfo /\ t.frags = s.frags
      /\ t.userid = s.userid /\ t.earned = s.earned /\ t.over = s.over
  BY <1>1, <1>3, ComeType
<1>5. \A g \in s.ghosts : g.cnt2 \in Number /\ s.localinfo[g.cnt2] \in ScPlayer \ h
  BY DEF Kept, Numbered, Unnamed, h
<1>6. Numbered(t)
  <2>1. \A g \in t.ghosts : g.cnt2 \in Number /\ t.localinfo[g.cnt2] \in ScPlayer \ t.here
    BY <1>4, <1>5
  <2>2. QED BY <1>4, <2>1 DEF Kept, Numbered
<1>7. ASSUME NEW q \in ScPlayer PROVE KeptFor(t, q)
  <2>1. KeptFor(s, q)
    BY DEF Kept
  <2>2. \A g : Owns(t, q, g) <=> Owns(s, q, g)
    BY <1>4 DEF Owns
  <2>3. \A g : ~Owns(s, p, g)
    BY DEF Owns, Kept, Numbered, Unnamed
  <2>4. CASE q = p
    BY <1>4, <2>1, <2>2, <2>3, <2>4 DEF KeptFor, h
  <2>5. CASE q # p
    BY <1>1, <1>4, <2>1, <2>2, <2>5 DEF KeptFor, h
  <2>6. QED BY <2>4, <2>5
<1>8. QED BY <1>4, <1>6, <1>7 DEF Kept

LEMMA ComesWithGhost ==
  ASSUME NEW s \in ScState, Kept(s), NEW p \in ScPlayer \ s.here, NEW side \in Side,
         NEW n \in Number, n # 0, s.localinfo[n] = p, NEW t, Comes(s, p, side, n, t)
  PROVE  t \in ScState /\ KnowsPresent(t) /\ Kept(t) /\ t.over = s.over
<1> DEFINE h == s.here \cup {p}
           tm == [s.team EXCEPT ![p] = side]
           gs == {k \in s.ghosts : k.cnt2 # n}
           li == [s.localinfo EXCEPT ![n] = 0]
           mine == {k \in s.ghosts : k.cnt2 = n}
           g == CHOOSE k \in mine : TRUE
           f == [s.frags EXCEPT ![p] = g.frags]
<1>0. p # 0 /\ p \in ScPlayer /\ p \notin s.here
  BY Constants
<1>1. g \in s.ghosts /\ g.cnt2 = n
  <2>1. mine # {}
    BY <1>0 DEF Kept, Numbered
  <2>2. g \in mine
    BY <2>1
  <2>3. QED BY <2>2
<1> HIDE DEF g
<1>2. Owns(s, p, g) /\ s.earned[p] = g.frags /\ g.frags \in Int
  <2>1. Owns(s, p, g)
    BY <1>1 DEF Owns
  <2>2. QED BY <1>0, <1>1, <2>1 DEF Kept, KeptFor, ScState, Ghost
<1>3. /\ h \in Present /\ tm \in Teams /\ gs \in Ghosts /\ li \in Names /\ f \in ScPoints
      /\ \A q \in ScPlayer : q # p => tm[q] = s.team[q] /\ f[q] = s.frags[q]
      /\ f[p] = g.frags /\ li[n] = 0 /\ \A m \in Number : m # n => li[m] = s.localinfo[m]
  BY <1>0, <1>2 DEF ScState, Present, Teams, Ghosts, Names, ScPoints
<1>4. t = Come(s, h, tm, gs, li, f)
  BY DEF Comes, g
<1>5. \A k \in gs : k \in s.ghosts /\ k.cnt2 # n
  OBVIOUS
<1>6. \A k \in s.ghosts : k # g => k \in gs
  BY <1>1 DEF Kept, Numbered
<1>7. IsFiniteSet(gs)
  BY FS_Subset DEF Kept, Numbered
<1> HIDE DEF gs, li, f, tm, h
<1>8. /\ t \in ScState /\ KnowsPresent(t) /\ t.here = h /\ t.team = tm /\ t.ghosts = gs
      /\ t.localinfo = li /\ t.frags = f
      /\ t.userid = s.userid /\ t.earned = s.earned /\ t.over = s.over
  BY <1>3, <1>4, ComeType
<1>9. \A k \in gs : k.cnt2 \in Number /\ li[k.cnt2] = s.localinfo[k.cnt2] /\ li[k.cnt2] \in ScPlayer \ h
  <2>1. \A k \in gs : k.cnt2 \in Number /\ s.localinfo[k.cnt2] \in ScPlayer \ s.here /\ k.cnt2 # n
    BY <1>5 DEF Kept, Numbered
  <2>2. \A k \in gs : s.localinfo[k.cnt2] # p
    BY <1>0, <2>1 DEF Kept, Numbered
  <2>3. QED BY <1>3, <2>1, <2>2 DEF h
<1>10. Numbered(t)
  <2>1. \A m \in Number : li[m] # 0 => m < s.userid /\ \E k \in gs : k.cnt2 = m
    <3> SUFFICES ASSUME NEW m \in Number, li[m] # 0 PROVE m < s.userid /\ \E k \in gs : k.cnt2 = m
      OBVIOUS
    <3>1. m # n /\ s.localinfo[m] # 0
      BY <1>3
    <3>2. m < s.userid /\ \E k \in s.ghosts : k.cnt2 = m
      BY <3>1 DEF Kept, Numbered
    <3>3. QED BY <1>1, <1>6, <3>1, <3>2
  <2>2. \A l, m \in Number : li[l] = li[m] /\ li[l] # 0 => l = m
    <3> SUFFICES ASSUME NEW l \in Number, NEW m \in Number, li[l] = li[m], li[l] # 0 PROVE l = m
      OBVIOUS
    <3>1. l # n /\ m # n
      BY <1>3
    <3>2. s.localinfo[l] = s.localinfo[m] /\ s.localinfo[l] # 0
      BY <1>3, <3>1
    <3>3. QED BY <3>2 DEF Kept, Numbered
  <2>3. \A j, k \in gs : j.cnt2 = k.cnt2 => j = k
    BY <1>5 DEF Kept, Numbered
  <2>4. \A k \in gs : k.cnt2 \in Number /\ li[k.cnt2] \in ScPlayer \ h
    BY <1>9
  <2>5. QED BY <1>7, <1>8, <2>1, <2>2, <2>3, <2>4 DEF Numbered
<1>11. ASSUME NEW q \in ScPlayer PROVE KeptFor(t, q)
  <2>1. KeptFor(s, q)
    BY DEF Kept
  <2>2. \A k \in gs : Owns(t, q, k) <=> Owns(s, q, k)
    BY <1>5, <1>8, <1>9 DEF Owns
  <2>3. \A k : Owns(t, q, k) => k \in gs
    BY <1>8 DEF Owns
  <2>4. CASE q = p
    <3>1. \A k \in gs : ~Owns(t, q, k)
      BY <1>8, <1>9, <2>4 DEF Owns, h
    <3>2. QED BY <1>2, <1>3, <1>8, <2>3, <2>4, <3>1 DEF KeptFor, h
  <2>5. CASE q # p
    <3>1. ~Owns(s, q, g)
      BY <1>1, <2>5 DEF Owns
    <3>2. \A k : Owns(t, q, k) <=> Owns(s, q, k)
      <4>1. \A k : Owns(s, q, k) => k \in gs
        BY <1>6, <3>1 DEF Owns
      <4>2. QED BY <2>2, <2>3, <4>1
    <3>3. \A k : Owns(s, q, k) => k \in s.ghosts /\ k \in t.ghosts
      BY <1>6, <1>8, <3>1 DEF Owns
    <3>4. (\A k \in t.ghosts : ~Owns(t, q, k)) => (\A k \in s.ghosts : ~Owns(s, q, k))
      BY <3>2, <3>3
    <3>5. q \in t.here <=> q \in s.here
      BY <1>8, <2>5 DEF h
    <3>6. t.frags[q] = s.frags[q] /\ t.earned[q] = s.earned[q] /\ t.team[q] = s.team[q]
      BY <1>3, <1>8, <2>5
    <3>7. QED BY <2>1, <3>2, <3>3, <3>4, <3>5, <3>6 DEF KeptFor
  <2>6. QED BY <2>4, <2>5
<1>12. QED BY <1>8, <1>10, <1>11 DEF Kept

LEMMA ConnectIs ==
  ASSUME ScInv, NEW p \in ScPlayer, NEW side \in Side, ScConnect(p, side),
         NEW n, n = NumberOf(sc, p)
  PROVE  /\ (n = 0 /\ Unnamed(sc, p)) \/ (n \in Number /\ n # 0 /\ sc.localinfo[n] = p)
         /\ Comes(sc, p, side, n, sc')
<1> DEFINE s0 == [sc EXCEPT !.known = NotKnown, !.here = @ \cup {p}, !.team[p] = side]
           g == {k \in sc.ghosts : k.cnt2 = n}
<1>1. sc \in ScState /\ Kept(sc) /\ ~sc.over /\ p \in ScPlayer \ sc.here
  BY DEF ScInv, Counted, ScConnect
<1>2. /\ s0.localinfo = sc.localinfo /\ s0.userid = sc.userid /\ s0.ghosts = sc.ghosts
      /\ s0.frags = sc.frags
      /\ s0 = Come(sc, sc.here \cup {p}, [sc.team EXCEPT ![p] = side], sc.ghosts, sc.localinfo, sc.frags)
  BY <1>1 DEF ScState, Come
<1>3. NumberOf(s0, p) = n
  BY <1>2 DEF NumberOf
<1>4. sc' = Rejoin(s0, p)
  BY DEF ScConnect
<1>5. \/ n = 0 /\ Unnamed(sc, p)
      \/ n \in Number /\ n # 0 /\ sc.localinfo[n] = p
  BY <1>1, NumberIsHis
<1>6. Comes(sc, p, side, n, sc')
  <2>1. CASE n = 0
    <3>1. {k \in sc.ghosts : k.cnt2 # 0} = sc.ghosts
      BY <1>1, Constants DEF Kept, Numbered
    <3>2. sc' = s0
      BY <1>3, <1>4, <2>1 DEF Rejoin
    <3> HIDE DEF s0
    <3>3. QED BY <1>2, <2>1, <3>1, <3>2 DEF Comes
  <2>2. CASE n # 0
    <3>1. g # {}
      <4>1. sc.localinfo[n] # 0 /\ n \in Number
        BY <1>1, <1>5, <2>2, Constants
      <4>2. QED BY <1>1, <4>1 DEF Kept, Numbered
    <3>2. sc' = [s0 EXCEPT !.localinfo[n] = 0, !.ghosts = @ \ {k \in s0.ghosts : k.cnt2 = n},
                           !.frags[p] = IF {k \in s0.ghosts : k.cnt2 = n} = {} THEN @
                                        ELSE (CHOOSE k \in {h \in s0.ghosts : h.cnt2 = n} : TRUE).frags]
      <4> HIDE DEF s0
      <4>1. QED BY <1>3, <1>4, <2>2 DEF Rejoin
    <3>3. sc.ghosts \ g = {k \in sc.ghosts : k.cnt2 # n}
      OBVIOUS
    <3> DEFINE x == CHOOSE k \in g : TRUE
    <3>4. sc' = [s0 EXCEPT !.localinfo[n] = 0, !.ghosts = @ \ g, !.frags[p] = x.frags]
      <4> HIDE DEF s0
      <4>1. {k \in s0.ghosts : k.cnt2 = n} = g
        BY <1>2
      <4> HIDE DEF g
      <4>2. QED BY <3>1, <3>2, <4>1
    <3>5. sc' = Come(sc, sc.here \cup {p}, [sc.team EXCEPT ![p] = side],
                     {k \in sc.ghosts : k.cnt2 # n}, [sc.localinfo EXCEPT ![n] = 0],
                     [sc.frags EXCEPT ![p] = x.frags])
      <4> HIDE DEF x, g
      <4>1. sc' = [s0 EXCEPT !.localinfo = [sc.localinfo EXCEPT ![n] = 0],
                             !.ghosts = {k \in sc.ghosts : k.cnt2 # n},
                             !.frags = [sc.frags EXCEPT ![p] = x.frags]]
        BY <1>1, <1>2, <3>3, <3>4
      <4>2. QED BY <1>1, <4>1 DEF ScState, Come
    <3>6. QED BY <2>2, <3>5 DEF Comes
  <2>3. QED BY <2>1, <2>2
<1>7. QED BY <1>5, <1>6

LEMMA ScConnectStep ==
  ASSUME ScInv, NEW p \in ScPlayer, NEW side \in Side, ScConnect(p, side) PROVE ScInv'
<1>1. sc \in ScState /\ Kept(sc) /\ ~sc.over /\ p \in ScPlayer \ sc.here
  BY DEF ScInv, Counted, ScConnect
<1>2. PICK n : /\ (n = 0 /\ Unnamed(sc, p)) \/ (n \in Number /\ n # 0 /\ sc.localinfo[n] = p)
               /\ Comes(sc, p, side, n, sc')
  BY ConnectIs
<1>3. sc' \in ScState /\ KnowsPresent(sc') /\ Kept(sc') /\ sc'.over = sc.over
  BY <1>1, <1>2, ComesWithoutGhost, ComesWithGhost
<1>4. QED BY <1>1, <1>3 DEF ScInv, Counted

-----------------------------------------------------------------------------
(***************************************************************************)
(* The invariant and what follows from it.                                 *)
(***************************************************************************)
LEMMA StartsCounted ==
  ASSUME NEW setting \in ScSetting, NEW players \in SUBSET ScPlayer, NEW snapshot \in Nat,
         NEW s, s = ScStart(setting, players, snapshot)
  PROVE  Counted(s)
<1> DEFINE zero == [p \in ScPlayer |-> 0]
           none == [n \in 1 .. Cardinality(ScPlayer) + 1 |-> 0]
           tm == [p \in ScPlayer |-> ScTeamOf(p)]
<1>1. setting.mode \in ScModes /\ setting.overtime \in ScOvertimes /\ setting.lock \in Lock
  BY ScSettingAssumption DEF Lock
<1>2. /\ zero \in [ScPlayer -> Int] /\ none \in [Number -> ScPlayer \cup {0}]
      /\ tm \in [ScPlayer -> Side] /\ 1 \in Number
      /\ NotKnown \in Known /\ NotKnown.best = <<>> /\ "none" \in Ending
      /\ \A p \in ScPlayer : zero[p] = 0
      /\ \A n \in Number : none[n] = 0
  BY Constants DEF Number, Most, Side, ScTeamOf, NotKnown, Known, Ending
<1> HIDE DEF zero, none, tm
<1>3. s = [mode |-> setting.mode, overtime |-> setting.overtime, lock |-> setting.lock,
           here |-> players, frags |-> zero, team |-> tm, ghosts |-> {}, localinfo |-> none,
           userid |-> 1, known |-> NotKnown, sd |-> "none", snapshot |-> snapshot, over |-> FALSE,
           earned |-> zero, lone |-> FALSE]
  BY DEF ScStart, zero, none, tm
<1>4. s \in ScState
  BY <1>1, <1>2, <1>3 DEF ScState
<1>5. KnowsPresent(s)
  BY <1>2, <1>3 DEF KnowsPresent
<1>6. s.ghosts = {} /\ s.localinfo = none /\ s.frags = zero /\ s.earned = zero
  BY <1>3
<1>7. Numbered(s)
  BY <1>2, <1>6, FS_EmptySet DEF Numbered
<1>8. \A p \in ScPlayer : KeptFor(s, p)
  BY <1>2, <1>6 DEF KeptFor
<1>9. QED BY <1>4, <1>5, <1>6, <1>7, <1>8 DEF Counted, Kept

LEMMA ScStartsCounted == \A s \in ScStarts : Counted(s)
<1> DEFINE players(m) == IF m = "duel" THEN {p \in ScPlayer : p <= 2} ELSE ScPlayer
<1>1. ASSUME NEW setting \in ScSetting, NEW snapshot \in {0, LargeSnapshot}
      PROVE  Counted(ScStart(setting, players(setting.mode), snapshot))
  <2>1. snapshot \in Nat /\ players(setting.mode) \in SUBSET ScPlayer
    BY DEF LargeSnapshot
  <2> HIDE DEF players
  <2>2. QED BY <2>1, StartsCounted
<1>2. ScStarts = {ScStart(setting, players(setting.mode), snapshot) :
                    setting \in ScSetting, snapshot \in {0, LargeSnapshot}}
  BY DEF ScStarts
<1> HIDE DEF players
<1>3. QED BY <1>1, <1>2

LEMMA ScNextInv ==
  ASSUME ScInv, [ScNext]_sc PROVE ScInv'
<1>1. CASE CheckOvertime
  BY <1>1, CheckOvertimeStep
<1>2. CASE AskScores
  BY <1>2, AskScoresStep
<1>3. CASE ScNewLevel
  BY <1>3, ScStartsCounted DEF ScNewLevel, ScInv
<1>4. ASSUME NEW p \in ScPlayer, NEW n \in {-2, -1}, Dies(p, n) PROVE ScInv'
  <2>1. n \in Int /\ p \in sc.here /\ ~sc.over /\ sc' = Obituary(sc, p, n)
    BY <1>4 DEF Dies
  <2>2. QED BY <2>1, ObituaryStep
<1>5. ASSUME NEW p \in ScPlayer, NEW q \in ScPlayer, Kills(p, q) PROVE ScInv'
  <2>1. PICK n \in {-1, 0, 1} : sc' = Obituary(sc, p, n)
    BY <1>5 DEF Kills
  <2>2. n \in Int /\ p \in sc.here /\ ~sc.over
    BY <1>5 DEF Kills
  <2>3. QED BY <2>1, <2>2, ObituaryStep
<1>6. ASSUME NEW p \in ScPlayer, ScDisconnect(p) PROVE ScInv'
  BY <1>6, ScDisconnectStep
<1>7. ASSUME NEW p \in ScPlayer, NEW t, t \in IF sc.mode = "team" THEN {1, 2} ELSE {ScTeamOf(p)},
             ScConnect(p, t)
      PROVE  ScInv'
  <2>1. t \in Side
    BY <1>7 DEF Side, ScTeamOf
  <2>2. QED BY <1>7, <2>1, ScConnectStep
<1>8. CASE sc' = sc
  BY <1>8 DEF ScInv
<1>9. QED BY <1>1, <1>2, <1>3, <1>4, <1>5, <1>6, <1>7, <1>8 DEF ScNext

LEMMA ScInvariance == ScSpec => []ScInv
<1>1. ScInit => ScInv
  BY ScStartsCounted DEF ScInit, ScInv
<1>2. ScInv /\ [ScNext]_sc => ScInv'
  BY ScNextInv
<1>3. QED BY <1>1, <1>2, PTL DEF ScSpec

LEMMA ScInvType == ScInv => ScTypeOK
<1> SUFFICES ASSUME ScInv PROVE ScTypeOK
  OBVIOUS
<1>1. sc \in ScState /\ KnowsPresent(sc)
  BY DEF ScInv, Counted
<1>2. /\ sc.here \subseteq ScPlayer /\ sc.frags \in [ScPlayer -> Int]
      /\ sc.ghosts \subseteq Ghost /\ sc.userid \in Number /\ sc.userid \in Nat
      /\ sc.sd \in Ending /\ sc.snapshot \in Nat /\ sc.known \in Known
  BY <1>1, Constants DEF ScState
<1>3. \A g \in sc.ghosts : g.cnt2 \in 1 .. sc.userid - 1
  <2> SUFFICES ASSUME NEW g \in sc.ghosts PROVE g.cnt2 \in 1 .. sc.userid - 1
    OBVIOUS
  <2>1. Numbered(sc)
    BY DEF ScInv, Counted, Kept
  <2>2. g.cnt2 \in Number /\ sc.localinfo[g.cnt2] # 0
    BY <2>1, Constants DEF Numbered
  <2>3. g.cnt2 < sc.userid
    BY <2>1, <2>2 DEF Numbered
  <2>4. g.cnt2 \in Nat /\ g.cnt2 >= 1
    BY <2>2, Constants
  <2>5. QED BY <1>2, <2>3, <2>4
<1>4. sc.ghosts \subseteq [cnt2 : 1 .. sc.userid - 1, frags : Int, team : {1, 2}]
  BY <1>2, <1>3 DEF Ghost
<1>5. sc.known \in [fresh : BOOLEAN, teams : Int \X Int, best : {<<>>} \cup sc.here \X sc.here]
  BY <1>1, <1>2 DEF Known, KnowsPresent
<1>6. QED BY <1>2, <1>4, <1>5 DEF ScTypeOK, Number, Most, Ending, ScOvertimes

LEMMA HeldIsSum ==
  ASSUME NEW s, NEW p
  PROVE  Held(s, p) = (IF p \in s.here THEN s.frags[p] ELSE 0)
                        + FieldSum({g \in s.ghosts : s.localinfo[g.cnt2] = p})
BY DEF Held, FieldSum, MapThenSumSet, MapThenFoldSet

LEMMA FieldSumOfOne ==
  ASSUME NEW g, g.frags \in Int PROVE FieldSum({g}) = g.frags
<1>1. FieldSum({} \cup {g}) = g.frags + FieldSum({})
  BY FieldSumWith, FS_EmptySet
<1>2. {} \cup {g} = {g}
  OBVIOUS
<1>3. QED BY <1>1, <1>2, FieldSumOfNothing

LEMMA HeldIsEarned ==
  ASSUME NEW s \in ScState, Kept(s), NEW p \in ScPlayer PROVE Held(s, p) = s.earned[p]
<1> DEFINE gs == {g \in s.ghosts : s.localinfo[g.cnt2] = p}
<1>1. KeptFor(s, p) /\ s.frags[p] \in Int /\ s.earned[p] \in Int
  BY DEF Kept, ScState
<1>2. Held(s, p) = (IF p \in s.here THEN s.frags[p] ELSE 0) + FieldSum(gs)
  BY HeldIsSum
<1>3. CASE gs = {}
  <2>1. \A g \in s.ghosts : ~Owns(s, p, g)
    BY <1>3 DEF Owns
  <2> HIDE DEF gs
  <2>2. FieldSum(gs) = 0
    BY <1>3, FieldSumOfNothing
  <2>3. QED BY <1>1, <1>2, <2>1, <2>2 DEF KeptFor
<1>4. CASE gs # {}
  <2>1. PICK g \in gs : TRUE
    BY <1>4
  <2>2. Owns(s, p, g) /\ p \notin s.here
    BY <2>1 DEF Owns, Kept, Numbered
  <2>3. gs = {g}
    <3>1. ASSUME NEW h \in gs PROVE h.cnt2 = g.cnt2
      <4>1. /\ h.cnt2 \in Number /\ g.cnt2 \in Number /\ p # 0
            /\ s.localinfo[h.cnt2] = p /\ s.localinfo[g.cnt2] = p
        BY <2>1, Constants DEF Kept, Numbered
      <4>2. QED BY <4>1 DEF Kept, Numbered
    <3>2. QED BY <2>1, <3>1 DEF Kept, Numbered
  <2>4. s.earned[p] = g.frags
    BY <1>1, <2>2 DEF KeptFor, Owns
  <2> HIDE DEF gs
  <2>5. FieldSum(gs) = g.frags
    BY <1>1, <2>3, <2>4, FieldSumOfOne
  <2>6. QED BY <1>1, <1>2, <2>2, <2>4, <2>5
<1>5. QED BY <1>3, <1>4

(***************************************************************************)
(* The frags, the ghosts with their numbers, the names under the numbers   *)
(* and what is known of the scores always have their types: the two best   *)
(* players the server remembers are there, and no ghost has a number that  *)
(* has not been given out (client.c:3131, g_utils.c:1553).                 *)
(***************************************************************************)
THEOREM ScTypes == ScSpec => []ScTypeOK
BY ScInvariance, ScInvType, PTL

(***************************************************************************)
(* Whoever leaves with a ghost and comes back, in any order and any number *)
(* of times: the frags a player has and those of his ghosts are what he    *)
(* has made, and every ghost has the name of a player who has left         *)
(* (ClientDisconnect(), ClientConnect(): client.c).                        *)
(***************************************************************************)
THEOREM FragsAreKept == ScSpec => []ScoresAreKept
<1>1. ScInv => ScoresAreKept
  <2> SUFFICES ASSUME ScInv, ~sc.over
               PROVE  /\ \A p \in ScPlayer : Held(sc, p) = sc.earned[p]
                      /\ \A g \in sc.ghosts : sc.localinfo[g.cnt2] \in ScPlayer \ sc.here
    BY DEF ScoresAreKept
  <2>1. sc \in ScState /\ Kept(sc)
    BY DEF ScInv, Counted
  <2>2. QED BY <2>1, HeldIsEarned DEF Kept, Numbered
<1>2. QED BY <1>1, ScInvariance, PTL

-----------------------------------------------------------------------------
(***************************************************************************)
(* The lead.  What the server works out from players and ghosts is what    *)
(* the two sides have earned.                                              *)
(***************************************************************************)
OnSide(s, t) == {p \in ScPlayer : s.team[p] = t}
SideScore(s, t) == SumOf(s.earned, OnSide(s, t))

LEMMA LeadIsSides ==
  \A s : LeadEarned(s) = IF s.mode = "duel" THEN Distance(s.earned[1], s.earned[2])
                         ELSE Distance(SideScore(s, 1), SideScore(s, 2))
BY DEF LeadEarned, SideScore, OnSide, SumOf, MapThenSumSet, MapThenFoldSet

LEMMA SidesAdd ==
  ASSUME NEW s \in ScState, NEW t
  PROVE  Adds(s.earned, OnSide(s, t)) /\ SideScore(s, t) \in Int
<1>1. Adds(s.earned, OnSide(s, t))
  <2>1. OnSide(s, t) \in SUBSET ScPlayer /\ s.earned \in [ScPlayer -> Int]
    BY DEF ScState, OnSide
  <2>2. IsFiniteSet(OnSide(s, t))
    BY <2>1, Constants, FS_Subset
  <2>3. QED BY <2>1, <2>2 DEF Adds
<1>2. SideScore(s, t) \in Int
  BY <1>1, SumChoose DEF SideScore
<1>3. QED BY <1>1, <1>2

LEMMA DistanceType ==
  /\ \A m, n \in Int : Distance(m, n) \in Nat /\ Distance(m, n) = Distance(n, m)
  /\ \A m, n \in Int : Distance(m, n) = 0 <=> m = n
  /\ \A m \in Int : Distance(m, m) = 0
BY DEF Distance

\* The frags of those of T who are there and of the ghosts of the others.
GhostsOf(s, T) == {g \in s.ghosts : s.localinfo[g.cnt2] \in T}
HeldBy(s, T) == SumOf(s.frags, T \cap s.here) + FieldSum(GhostsOf(s, T))

LEMMA HeldByAll ==
  ASSUME NEW s \in ScState, Kept(s), NEW A \in SUBSET ScPlayer
  PROVE  HeldBy(s, A) = SumOf(s.earned, A)
<1> DEFINE G == {T \in SUBSET A : HeldBy(s, T) = SumOf(s.earned, T)}
<1>1. {} \in G
  <2>1. {} \cap s.here = {} /\ GhostsOf(s, {}) = {}
    BY DEF GhostsOf
  <2>2. HeldBy(s, {}) = 0 + 0
    BY <2>1, SumOfNothing, FieldSumOfNothing DEF HeldBy
  <2>3. SumOf(s.earned, {}) = 0
    BY SumOfNothing
  <2>4. QED BY <2>2, <2>3
<1>2. ASSUME NEW T \in SUBSET A, NEW x \in A \ T, T \in G PROVE T \cup {x} \in G
  <2> DEFINE U == T \cup {x}
             P == T \cap s.here
             Q == GhostsOf(s, T)
  <2>1. /\ Adds(s.frags, P) /\ Adds(s.earned, T) /\ IsFiniteSet(Q)
        /\ \A g \in Q : g.frags \in Int
        /\ x \notin T /\ x \in ScPlayer /\ s.earned[x] \in Int /\ s.frags[x] \in Int
    <3>1. P \in SUBSET ScPlayer /\ T \in SUBSET ScPlayer /\ x \in ScPlayer
      OBVIOUS
    <3>2. IsFiniteSet(P) /\ IsFiniteSet(T)
      BY <3>1, Constants, FS_Subset
    <3>3. Q \in SUBSET s.ghosts
      BY DEF GhostsOf
    <3>4. IsFiniteSet(Q)
      BY <3>3, FS_Subset DEF Kept, Numbered
    <3>5. QED BY <3>1, <3>2, <3>3, <3>4 DEF Adds, ScState, Ghost
  <2>2. SumOf(s.earned, U) = s.earned[x] + SumOf(s.earned, T)
    BY <2>1, SumWith
  <2>3. SumOf(s.frags, P) \in Int /\ FieldSum(Q) \in Int /\ SumOf(s.earned, T) \in Int
    <3>1. SumOf(s.frags, P) \in Int
      BY <2>1, SumChoose
    <3>2. SumOf(s.earned, T) \in Int
      BY <2>1, SumChoose
    <3>3. FieldSum(Q) \in Int
      <4> HIDE DEF Q
      <4>1. QED BY <2>1, FieldSumType
    <3>4. QED BY <3>1, <3>2, <3>3
  <2>4. SumOf(s.frags, P) + FieldSum(Q) = SumOf(s.earned, T)
    BY <1>2 DEF HeldBy
  <2>5. KeptFor(s, x)
    BY <2>1 DEF Kept
  <2>6. CASE x \in s.here
    <3>1. U \cap s.here = P \cup {x} /\ x \notin P
      BY <2>1, <2>6
    <3>2. GhostsOf(s, U) = Q
      BY <2>6 DEF GhostsOf, Kept, Numbered
    <3> HIDE DEF P, Q
    <3>3. SumOf(s.frags, P \cup {x}) = s.frags[x] + SumOf(s.frags, P)
      BY <2>1, <3>1, SumWith
    <3>4. HeldBy(s, U) = SumOf(s.frags, P \cup {x}) + FieldSum(Q)
      BY <3>1, <3>2 DEF HeldBy
    <3>5. s.earned[x] = s.frags[x]
      BY <2>5, <2>6 DEF KeptFor
    <3>6. HeldBy(s, U) = SumOf(s.earned, U)
      BY <2>1, <2>2, <2>3, <2>4, <3>3, <3>4, <3>5
    <3>7. QED BY <3>6
  <2>7. CASE x \notin s.here
    <3>1. U \cap s.here = P
      BY <2>7
    <3>2. CASE \A g \in s.ghosts : ~Owns(s, x, g)
      <4>1. GhostsOf(s, U) = Q
        BY <3>2 DEF GhostsOf, Owns
      <4>2. s.earned[x] = 0
        BY <2>5, <2>7, <3>2 DEF KeptFor
      <4> HIDE DEF P, Q
      <4>3. HeldBy(s, U) = SumOf(s.frags, P) + FieldSum(Q)
        BY <3>1, <4>1 DEF HeldBy
      <4>4. HeldBy(s, U) = SumOf(s.earned, U)
        BY <2>2, <2>3, <2>4, <4>2, <4>3
      <4>5. QED BY <4>4
    <3>3. CASE \E g \in s.ghosts : Owns(s, x, g)
      <4>1. PICK g \in s.ghosts : Owns(s, x, g)
        BY <3>3
      <4>2. GhostsOf(s, U) = Q \cup {g} /\ g \notin Q
        <5>1. \A h \in s.ghosts : s.localinfo[h.cnt2] = x => h = g
          <6> TAKE h \in s.ghosts
          <6> HAVE s.localinfo[h.cnt2] = x
          <6>1. /\ h.cnt2 \in Number /\ g.cnt2 \in Number /\ x # 0
                /\ s.localinfo[h.cnt2] = x /\ s.localinfo[g.cnt2] = x
            BY <2>1, <4>1, Constants DEF Kept, Numbered, Owns
          <6>2. h.cnt2 = g.cnt2
            BY <6>1 DEF Kept, Numbered
          <6>3. QED BY <6>2 DEF Kept, Numbered
        <5>2. s.localinfo[g.cnt2] = x /\ x \notin T
          BY <2>1, <4>1 DEF Owns
        <5>3. QED BY <5>1, <5>2 DEF GhostsOf
      <4>3. s.earned[x] = g.frags
        BY <2>5, <4>1 DEF KeptFor
      <4> HIDE DEF P, Q
      <4>4. FieldSum(Q \cup {g}) = g.frags + FieldSum(Q)
        BY <2>1, <4>2, <4>3, FieldSumWith
      <4>5. HeldBy(s, U) = SumOf(s.frags, P) + FieldSum(Q \cup {g})
        BY <3>1, <4>2 DEF HeldBy
      <4>6. HeldBy(s, U) = SumOf(s.earned, U)
        BY <2>1, <2>2, <2>3, <2>4, <4>3, <4>4, <4>5
      <4>7. QED BY <4>6
    <3>4. QED BY <3>2, <3>3
  <2>8. QED BY <2>6, <2>7
<1> HIDE DEF G
<1>3. IsFiniteSet(A)
  BY Constants, FS_Subset
<1>4. A \in G
  BY <1>1, <1>2, <1>3, SetInduction
<1>5. QED BY <1>4 DEF G

LEMMA TeamScoreIsEarned ==
  ASSUME NEW s \in ScState, Kept(s), NEW t PROVE TeamScore(s, t) = SideScore(s, t)
<1> DEFINE A == OnSide(s, t)
<1>1. A \in SUBSET ScPlayer
  BY DEF OnSide
<1>2. {p \in s.here : s.team[p] = t} = A \cap s.here
  BY DEF OnSide, ScState
<1>3. {g \in s.ghosts : g.team = t} = GhostsOf(s, A)
  <2>1. ASSUME NEW g \in s.ghosts PROVE s.localinfo[g.cnt2] \in ScPlayer /\ g.team = s.team[s.localinfo[g.cnt2]]
    <3>1. s.localinfo[g.cnt2] \in ScPlayer
      BY DEF Kept, Numbered
    <3>2. KeptFor(s, s.localinfo[g.cnt2]) /\ Owns(s, s.localinfo[g.cnt2], g)
      BY <3>1 DEF Kept, Owns
    <3>3. QED BY <3>1, <3>2 DEF KeptFor
  <2>2. QED BY <2>1 DEF GhostsOf, OnSide
<1> HIDE DEF A
<1>4. TeamScore(s, t) = HeldBy(s, A)
  BY <1>2, <1>3, TeamScoreIsSums DEF HeldBy
<1>5. QED BY <1>1, <1>4, HeldByAll DEF SideScore, A

-----------------------------------------------------------------------------
(***************************************************************************)
(* What the server knows of the scores is the lead.                        *)
(***************************************************************************)
KnownFrom(mode, here, frags, team, ghosts) ==
  LET sum(t) == MapThenSumSet(LAMBDA p : frags[p], {p \in here : team[p] = t})
                  + MapThenSumSet(LAMBDA g : g.frags, {g \in ghosts : g.team = t})
      first(p, q) == frags[p] > frags[q] \/ (frags[p] = frags[q] /\ p < q)
  IN [fresh |-> TRUE,
      teams |-> IF mode = "team" THEN <<sum(1), sum(2)>> ELSE <<0, 0>>,
      best |-> IF mode = "team" \/ Cardinality(here) < 2 THEN <<>>
               ELSE CHOOSE b \in here \X here :
                      /\ b[1] # b[2] /\ first(b[1], b[2])
                      /\ \A p \in here \ {b[1], b[2]} : first(b[2], p)]

KnownOf(s) ==
  [fresh |-> TRUE,
   teams |-> IF s.mode = "team" THEN <<TeamScore(s, 1), TeamScore(s, 2)>> ELSE <<0, 0>>,
   best |-> BestTwo(s)]

LEMMA KnownOfIs == \A s : KnownOf(s) = KnownFrom(s.mode, s.here, s.frags, s.team, s.ghosts)
BY DEF KnownOf, KnownFrom, TeamScore, BestTwo, Before

LEMMA SameCountKnown ==
  ASSUME NEW s, NEW t, SameCount(s, t)
  PROVE  KnownOf(t) = KnownOf(s) /\ LeadEarned(t) = LeadEarned(s)
<1>1. KnownOf(t) = KnownOf(s)
  BY KnownOfIs DEF SameCount
<1>2. SideScore(t, 1) = SideScore(s, 1) /\ SideScore(t, 2) = SideScore(s, 2)
  BY DEF SameCount, SideScore, OnSide
<1>3. QED BY <1>1, <1>2, LeadIsSides DEF SameCount

\* Nothing has changed since the scores were computed, if they are taken as known.
Accurate(s) == s.known.fresh => s.known = KnownOf(s)

LEMMA ReScoresKnows ==
  ASSUME NEW s \in ScState, Kept(s), KnowsPresent(s), Accurate(s), NEW r, r = ReScoresOf(s)
  PROVE  /\ r \in ScState /\ SameCount(s, r) /\ KnowsPresent(r) /\ Kept(r)
         /\ r.sd = s.sd /\ r.snapshot = s.snapshot
         /\ r.known = KnownOf(r) /\ Accurate(r)
<1>1. /\ r \in ScState /\ SameCount(s, r) /\ KnowsPresent(r) /\ r.sd = s.sd /\ r.snapshot = s.snapshot
  BY ReScoresStep DEF Kept, Numbered
<1>2. r.known = KnownOf(s)
  <2>1. CASE s.known.fresh
    BY <2>1 DEF ReScoresOf, Accurate
  <2>2. CASE ~s.known.fresh
    <3>1. r = [s EXCEPT !.known = KnownOf(s)]
      BY <2>2 DEF ReScoresOf, KnownOf
    <3>2. QED BY <3>1 DEF ScState
  <2>3. QED BY <2>1, <2>2
<1>3. QED BY <1>1, <1>2, SameCountKnown, SameCountKeeps DEF Accurate

\* A match whose two sides are known, and in which nobody loses what he has made.
Matched(s) == s.lock > 0 /\ (s.mode = "team" \/ (s.mode = "duel" /\ {1, 2} \subseteq ScPlayer))

\* In a duel on a locked server only the two with whom it began play, or have ghosts.
Duelists(s) ==
  s.mode = "duel" /\ s.lock > 0 =>
    \A p \in ScPlayer : (p \in s.here \/ \E g : Owns(s, p, g)) => p <= 2

LEMMA TwoAreThere ==
  ASSUME NEW s \in ScState, Duelists(s), TwoSides(s)
  PROVE  Matched(s) /\ (s.mode = "duel" => s.here = {1, 2})
<1>1. CASE s.mode = "team"
  BY <1>1 DEF Matched, TwoSides
<1>2. CASE s.mode # "team"
  <2>1. s.mode = "duel" /\ s.lock > 0 /\ Cardinality(s.here) = 2 /\ s.here \subseteq ScPlayer
    BY <1>2 DEF TwoSides, ScState
  <2>2. s.here \subseteq {1, 2}
    <3>1. \A p \in s.here : p \in Nat /\ p # 0 /\ p <= 2
      BY <2>1, Constants DEF Duelists
    <3>2. QED BY <3>1
  <2>3. \A x \in Nat : Cardinality({x}) = 1
    BY FS_Singleton
  <2>4. Cardinality({}) = 0
    BY FS_EmptySet
  <2>5. s.here # {} /\ s.here # {1} /\ s.here # {2}
    BY <2>1, <2>3, <2>4
  <2>6. s.here = {1, 2}
    BY <2>2, <2>5
  <2>7. QED BY <2>1, <2>6 DEF Matched
<1>3. QED BY <1>1, <1>2

LEMMA KnownIsLead ==
  ASSUME NEW s \in ScState, Kept(s), Duelists(s), Matched(s), s.known = KnownOf(s),
         s.mode = "team" \/ s.known.best # <<>>
  PROVE  GetCurrentFragDifference(s) = LeadEarned(s)
<1>1. CASE s.mode = "team"
  <2>1. s.known.best = <<>> /\ s.known.teams = <<TeamScore(s, 1), TeamScore(s, 2)>>
    BY <1>1, BestTwoPresent DEF KnownOf
  <2>2. TeamScore(s, 1) = SideScore(s, 1) /\ TeamScore(s, 2) = SideScore(s, 2)
    BY TeamScoreIsEarned
  <2>3. QED BY <1>1, <2>1, <2>2, LeadIsSides DEF GetCurrentFragDifference
<1>2. CASE s.mode # "team"
  <2> DEFINE b == s.known.best
  <2>1. s.mode = "duel" /\ b = BestTwo(s) /\ b # <<>> /\ s.lock > 0
    BY <1>2 DEF KnownOf, Matched
  <2>2. b \in s.here \X s.here /\ b[1] # b[2]
    BY <2>1, BestTwoPresent
  <2> HIDE DEF b
  <2>3. /\ b[1] \in ScPlayer /\ b[2] \in ScPlayer /\ b[1] \in s.here /\ b[2] \in s.here
    BY <2>2 DEF ScState
  <2>4. b[1] \in {1, 2} /\ b[2] \in {1, 2}
    <3>1. \A p \in ScPlayer : p \in s.here => p \in {1, 2}
      BY <2>1, Constants DEF Duelists
    <3>2. QED BY <2>3, <3>1
  <2>5. s.frags[b[1]] = s.earned[b[1]] /\ s.frags[b[2]] = s.earned[b[2]]
    BY <2>3 DEF Kept, KeptFor
  <2>6. s.earned[1] \in Int /\ s.earned[2] \in Int
    BY <2>1 DEF Matched, ScState
  <2>7. GetCurrentFragDifference(s) = Distance(s.earned[b[1]], s.earned[b[2]])
    BY <2>1, <2>5 DEF GetCurrentFragDifference, b
  <2>8. LeadEarned(s) = Distance(s.earned[1], s.earned[2])
    BY <2>1, LeadIsSides
  <2>9. (b[1] = 1 /\ b[2] = 2) \/ (b[1] = 2 /\ b[2] = 1)
    <3>1. b[1] # b[2]
      BY <2>2
    <3>2. QED BY <2>4, <3>1
  <2>10. Distance(s.earned[1], s.earned[2]) = Distance(s.earned[2], s.earned[1])
    BY <2>6, DistanceType
  <2>11. QED BY <2>7, <2>8, <2>9, <2>10
<1>3. QED BY <1>1, <1>2

\* A normal overtime begins level and ends at the first death; the snapshot is the lead.
LevelInNormal(s) == Matched(s) /\ s.sd = "normal" => LeadEarned(s) = 0
SnapshotIsLead(s) ==
  Matched(s) /\ s.overtime = "golden" /\ ~s.lone /\ s.snapshot # LargeSnapshot
    => s.snapshot = LeadEarned(s)

Overtimes(s) ==
  IF s.over THEN s.sd = "none"
  ELSE /\ Accurate(s) /\ Duelists(s) /\ LevelInNormal(s) /\ SnapshotIsLead(s)
       /\ s.sd \in {"none", s.overtime}

LEMMA SameCountSides ==
  ASSUME NEW s, NEW t, SameCount(s, t)
  PROVE  /\ Matched(t) <=> Matched(s)
         /\ Duelists(s) => Duelists(t)
BY DEF SameCount, Matched, Duelists, Owns

LEMMA EndOvertimes ==
  ASSUME NEW s \in ScState PROVE Overtimes(ScEndMatch(s))
BY DEF ScEndMatch, ScState, Overtimes

LEMMA SameCountOvertimes ==
  ASSUME NEW s, NEW t, SameCount(s, t), Overtimes(s), ~s.over, Accurate(t),
         t.snapshot = s.snapshot, t.sd \in {"none", s.overtime}, LevelInNormal(t)
  PROVE  Overtimes(t)
<1>1. (Matched(t) <=> Matched(s)) /\ Duelists(t)
  BY SameCountSides DEF Overtimes
<1>2. LeadEarned(t) = LeadEarned(s)
  BY SameCountKnown
<1>3. SnapshotIsLead(t)
  BY <1>1, <1>2 DEF SnapshotIsLead, Overtimes, SameCount
<1>4. QED BY <1>1, <1>3 DEF Overtimes, SameCount

LEMMA AskScoresOvertimes ==
  ASSUME ScInv, Overtimes(sc), AskScores PROVE Overtimes(sc')
<1>1. sc \in ScState /\ KnowsPresent(sc) /\ Kept(sc) /\ ~sc.over /\ Accurate(sc)
  BY DEF ScInv, Counted, AskScores, Overtimes
<1>2. sc' = ReScoresOf(sc)
  BY DEF AskScores
<1>3. SameCount(sc, sc') /\ sc'.sd = sc.sd /\ sc'.snapshot = sc.snapshot /\ Accurate(sc')
  BY <1>1, <1>2, ReScoresKnows
<1>4. LevelInNormal(sc')
  BY <1>1, <1>3, SameCountKnown, SameCountSides DEF LevelInNormal, Overtimes
<1>5. QED BY <1>1, <1>3, <1>4, SameCountOvertimes DEF Overtimes

LEMMA CheckOvertimeOvertimes ==
  ASSUME ScInv, Overtimes(sc), CheckOvertime PROVE Overtimes(sc')
<1> DEFINE r == ReScoresOf(sc)
<1>1. sc \in ScState /\ KnowsPresent(sc) /\ Kept(sc) /\ ~sc.over /\ Accurate(sc) /\ sc.sd = "none"
  BY DEF ScInv, Counted, CheckOvertime, Overtimes
<1>2. /\ r \in ScState /\ SameCount(sc, r) /\ r.sd = sc.sd /\ r.snapshot = sc.snapshot /\ Accurate(r)
      /\ Kept(r) /\ r.known = KnownOf(r) /\ Duelists(r) /\ r.overtime = sc.overtime /\ ~r.over
  <2>1. /\ r \in ScState /\ SameCount(sc, r) /\ r.sd = sc.sd /\ r.snapshot = sc.snapshot /\ Accurate(r)
        /\ Kept(r) /\ r.known = KnownOf(r)
    BY <1>1, ReScoresKnows
  <2> HIDE DEF r
  <2>2. QED BY <1>1, <2>1, SameCountSides DEF Overtimes, SameCount
<1>3. sc' = IF ~GoesOn(r) THEN ScEndMatch(r)
            ELSE IF r.overtime = "added" THEN r
            ELSE [r EXCEPT !.sd = r.overtime]
  BY DEF CheckOvertime
<1> HIDE DEF r
<1>4. Overtimes(r)
  <2>1. LevelInNormal(r)
    BY <1>1, <1>2 DEF LevelInNormal
  <2>2. QED BY <1>1, <1>2, <2>1, SameCountOvertimes
<1>5. ASSUME GoesOn(r) PROVE Overtimes([r EXCEPT !.sd = r.overtime])
  <2> DEFINE u == [r EXCEPT !.sd = r.overtime]
  <2>1. SameCount(r, u) /\ u.known = r.known /\ u.sd = r.overtime /\ u.snapshot = r.snapshot
    BY <1>2 DEF ScState, SameCount
  <2> HIDE DEF u
  <2>2. Accurate(u)
    BY <1>2, <2>1, SameCountKnown DEF Accurate
  <2>3. LevelInNormal(u)
    <3> SUFFICES ASSUME Matched(u), r.overtime = "normal" PROVE LeadEarned(u) = 0
      BY <2>1 DEF LevelInNormal
    <3>1. Matched(r)
      BY <2>1, SameCountSides
    <3>2. (r.mode = "team" \/ r.known.best # <<>>) /\ GetCurrentFragDifference(r) = 0
      BY <1>5 DEF GoesOn
    <3>3. GetCurrentFragDifference(r) = LeadEarned(r)
      BY <1>2, <3>1, <3>2, KnownIsLead
    <3>4. QED BY <2>1, <3>2, <3>3, SameCountKnown
  <2>4. Overtimes(u)
    BY <1>2, <1>4, <2>1, <2>2, <2>3, SameCountOvertimes
  <2>5. QED BY <2>4 DEF u
<1>6. QED BY <1>2, <1>3, <1>4, <1>5, EndOvertimes

\* A death that costs or earns frags ends a level score.
LEMMA LevelDeath ==
  ASSUME NEW s \in ScState, NEW u \in ScState, NEW p \in s.here, NEW n \in Int, n # 0,
         Matched(s), s.mode = "duel" => s.here = {1, 2}, LeadEarned(s) = 0,
         u.mode = s.mode, u.team = s.team, u.earned[p] = s.earned[p] + n,
         \A q \in ScPlayer : q # p => u.earned[q] = s.earned[q]
  PROVE  LeadEarned(u) # 0
<1>0. p \in ScPlayer /\ s.earned \in [ScPlayer -> Int]
  BY DEF ScState
<1>1. CASE s.mode = "duel"
  <2>1. p \in {1, 2} /\ 1 \in ScPlayer /\ 2 \in ScPlayer
    BY <1>1 DEF Matched
  <2>2. s.earned[1] \in Int /\ s.earned[2] \in Int /\ s.earned[1] = s.earned[2]
    <3>1. s.earned[1] \in Int /\ s.earned[2] \in Int
      BY <1>0, <2>1
    <3>2. Distance(s.earned[1], s.earned[2]) = 0
      BY <1>1, LeadIsSides
    <3>3. QED BY <3>1, <3>2, DistanceType
  <2>3. u.earned[1] \in Int /\ u.earned[2] \in Int /\ u.earned[1] # u.earned[2]
    BY <2>1, <2>2
  <2>4. LeadEarned(u) = Distance(u.earned[1], u.earned[2])
    BY <1>1, LeadIsSides
  <2> DEFINE a == u.earned[1]
             b == u.earned[2]
  <2>5. a \in Int /\ b \in Int /\ a # b /\ LeadEarned(u) = Distance(a, b)
    BY <2>3, <2>4
  <2> HIDE DEF a, b
  <2>6. QED BY <2>5, DistanceType
<1>2. CASE s.mode # "duel"
  <2> DEFINE t == s.team[p]
  <2>1. t \in {1, 2} /\ SideScore(s, 1) = SideScore(s, 2)
    <3>1. SideScore(s, 1) \in Int /\ SideScore(s, 2) \in Int
      BY SidesAdd
    <3>2. QED BY <1>0, <1>2, <3>1, LeadIsSides, DistanceType DEF ScState, Side
  <2>2. SideScore(u, t) = SideScore(s, t) + n
    <3> DEFINE T == OnSide(s, t)
    <3>1. Adds(s.earned, T) /\ p \in T /\ OnSide(u, t) = T
      BY <1>0, SidesAdd DEF OnSide
    <3>2. \A q \in T \ {p} : u.earned[q] = s.earned[q]
      BY DEF OnSide
    <3> HIDE DEF T
    <3>3. SumOf(u.earned, T) = SumOf(s.earned, T) + n
      BY <3>1, <3>2, SumChanged
    <3>4. QED BY <3>1, <3>3 DEF SideScore, T
  <2>3. ASSUME NEW o \in {1, 2}, o # t PROVE SideScore(u, o) = SideScore(s, o)
    <3> DEFINE T == OnSide(s, o)
    <3>1. Adds(s.earned, T) /\ OnSide(u, o) = T
      BY SidesAdd DEF OnSide
    <3>2. \A q \in T : u.earned[q] = s.earned[q]
      BY <2>3 DEF OnSide
    <3> HIDE DEF T
    <3>3. SumOf(u.earned, T) = SumOf(s.earned, T)
      BY <3>1, <3>2, SumSame
    <3>4. QED BY <3>1, <3>3 DEF SideScore, T
  <2> HIDE DEF t
  <2>4. SideScore(s, 1) \in Int /\ SideScore(s, 2) \in Int
    BY SidesAdd
  <2>5. SideScore(u, 1) # SideScore(u, 2) /\ SideScore(u, 1) \in Int /\ SideScore(u, 2) \in Int
    BY <2>1, <2>2, <2>3, <2>4
  <2>6. LeadEarned(u) = Distance(SideScore(u, 1), SideScore(u, 2))
    BY <1>2, LeadIsSides
  <2>7. QED BY <2>5, <2>6, DistanceType
<1>3. QED BY <1>1, <1>2

\* What is decided at a death after which the state is t.
Decided(s, n, t) ==
  /\ s.sd # "none" /\ t.over /\ n # 0 => LeadEarned(t) > 0
  /\ s.sd = "golden" /\ s.snapshot # LargeSnapshot /\ ~s.lone
       => (t.over <=> LeadEarned(t) > LeadEarned(s))

LEMMA ObituaryOvertimes ==
  ASSUME ScInv, Overtimes(sc), ~sc.over, NEW p \in sc.here, NEW n \in Int, sc' = Obituary(sc, p, n)
  PROVE  Overtimes(sc') /\ (TwoSides(sc) => Decided(sc, n, sc'))
<1> DEFINE u == Died(sc, p, n)
           r == ReScoresOf(u)
           d == GetCurrentFragDifference(r)
<1>1. /\ u \in ScState /\ KnowsPresent(u) /\ Kept(u) /\ ~u.over /\ u.known = NotKnown
      /\ u.here = sc.here /\ u.team = sc.team /\ u.ghosts = sc.ghosts /\ u.localinfo = sc.localinfo
      /\ u.mode = sc.mode /\ u.overtime = sc.overtime /\ u.lock = sc.lock /\ u.sd = sc.sd
      /\ u.snapshot = sc.snapshot /\ u.earned[p] = sc.earned[p] + n
      /\ \A q \in ScPlayer : q # p => u.earned[q] = sc.earned[q]
      /\ u.lone <=> sc.mode # "team" /\ Cardinality(sc.here) < 2
  <2> HIDE DEF u
  <2>1. u = Died(sc, p, n) BY DEF u
  <2>2. QED BY <2>1, DiedStep
<1>2. sc' = Check_SD(u)
  BY DEF Obituary, Died
<1> HIDE DEF u
<1>3. Accurate(u) /\ Duelists(u) /\ (Matched(u) <=> Matched(sc))
  BY <1>1 DEF Accurate, NotKnown, Duelists, Matched, Owns, Overtimes
<1>4. /\ r \in ScState /\ SameCount(u, r) /\ KnowsPresent(r) /\ Kept(r)
      /\ r.sd = u.sd /\ r.snapshot = u.snapshot /\ r.known = KnownOf(r) /\ Accurate(r)
  BY <1>1, <1>3, ReScoresKnows
<1>5. sc' = IF SuddenDeathOver(r) THEN ScEndMatch(r)
            ELSE IF r.overtime = "golden" THEN updateGoldenFragSnapshot(r)
            ELSE IF r.sd = "tiebreak" THEN r
            ELSE u
  BY <1>2 DEF Check_SD
<1> HIDE DEF r
<1>6. /\ Duelists(r) /\ (Matched(r) <=> Matched(sc)) /\ LeadEarned(r) = LeadEarned(u)
      /\ r.mode = sc.mode /\ r.here = sc.here /\ r.overtime = sc.overtime /\ ~r.over /\ r.lone = u.lone
  <2>1. Duelists(r) /\ (Matched(r) <=> Matched(u))
    BY <1>3, <1>4, SameCountSides
  <2>2. LeadEarned(r) = LeadEarned(u)
    BY <1>4, SameCountKnown
  <2>3. QED BY <1>1, <1>3, <1>4, <2>1, <2>2 DEF SameCount
<1>7. ASSUME Matched(sc), sc.mode = "team" \/ ~(Cardinality(sc.here) < 2)
      PROVE  d = LeadEarned(u) /\ (sc.mode = "team" \/ r.known.best # <<>>)
  <2>1. r.mode = "team" \/ r.known.best # <<>>
    <3>1. r.known.best = BestTwo(r)
      BY <1>4 DEF KnownOf
    <3>2. CASE r.mode # "team"
      <4>1. BestTwo(r) \in r.here \X r.here
        <5>1. r \in ScState /\ ~(r.mode = "team" \/ Cardinality(r.here) < 2)
          BY <1>4, <1>6, <1>7, <3>2
        <5>2. QED BY <5>1, BestTwoPresent
      <4>2. QED BY <3>1, <4>1, PairIsNotEmpty
    <3>3. QED BY <3>2
  <2>2. d = LeadEarned(r)
    BY <1>4, <1>6, <1>7, <2>1, KnownIsLead
  <2>3. QED BY <1>6, <2>1, <2>2
<1>8. d \in Nat
  BY <1>4, DifferenceType
<1>9. /\ ScEndMatch(r).over /\ LeadEarned(ScEndMatch(r)) = LeadEarned(u)
      /\ Overtimes(ScEndMatch(r))
  <2> DEFINE e == ScEndMatch(r)
  <2>1. e.over /\ e.earned = r.earned /\ e.mode = r.mode /\ e.team = r.team
    BY <1>4, EndStep
  <2>2. Overtimes(e)
    BY <1>4, EndOvertimes
  <2> HIDE DEF e
  <2>3. LeadEarned(e) = LeadEarned(r)
    BY <2>1, LeadIsSides DEF SideScore, OnSide
  <2>4. QED BY <1>6, <2>1, <2>2, <2>3 DEF e
<1>10. ASSUME ~SuddenDeathOver(r)
       PROVE  Overtimes(sc') /\ ~sc'.over /\ LeadEarned(sc') = LeadEarned(u)
  <2>1. r.sd # "normal" /\ r.sd \in {"none", r.overtime}
    BY <1>1, <1>4, <1>6, <1>10 DEF SuddenDeathOver, Overtimes
  <2>2. /\ SameCount(u, sc') /\ sc'.sd = r.sd /\ Accurate(sc')
    <3>1. CASE r.overtime = "golden"
      <4> DEFINE v == updateGoldenFragSnapshot(r)
      <4>1. SameCount(r, v) /\ v.sd = r.sd /\ v.known = r.known
        BY <1>4, SnapshotStep
      <4>2. sc' = v
        BY <1>5, <1>10, <3>1
      <4> HIDE DEF v
      <4>3. Accurate(v)
        BY <1>4, <4>1, SameCountKnown DEF Accurate
      <4>4. QED BY <1>4, <4>1, <4>2, <4>3 DEF SameCount
    <3>2. CASE r.overtime # "golden"
      BY <1>3, <1>4, <1>5, <1>10, <3>2 DEF SameCount
    <3>3. QED BY <3>1, <3>2
  <2>3. SnapshotIsLead(sc')
    <3> SUFFICES ASSUME Matched(sc'), sc'.overtime = "golden", ~sc'.lone
                 PROVE  sc'.snapshot = LeadEarned(sc')
      BY DEF SnapshotIsLead
    <3>1. Matched(sc) /\ r.overtime = "golden" /\ ~u.lone
      BY <1>1, <1>3, <1>6, <2>2, SameCountSides DEF SameCount
    <3>2. sc.mode = "team" \/ ~(Cardinality(sc.here) < 2)
      BY <1>1, <3>1
    <3>3. d = LeadEarned(u) /\ (sc.mode = "team" \/ r.known.best # <<>>)
      BY <1>7, <3>1, <3>2
    <3>4. sc' = [r EXCEPT !.snapshot = d]
      BY <1>5, <1>6, <1>10, <3>1, <3>3 DEF updateGoldenFragSnapshot
    <3> HIDE DEF d
    <3>5. sc'.snapshot = d
      BY <1>4, <3>4 DEF ScState
    <3>6. QED BY <2>2, <3>3, <3>5, SameCountKnown
  <2>4. Duelists(sc') /\ ~sc'.over /\ sc'.overtime = r.overtime
    BY <1>1, <1>3, <1>6, <2>2, SameCountSides DEF SameCount
  <2>5. LevelInNormal(sc')
    BY <2>1, <2>2 DEF LevelInNormal
  <2>6. QED BY <2>1, <2>2, <2>3, <2>4, <2>5, SameCountKnown DEF Overtimes
<1>11. CASE ~TwoSides(sc)
  <2>1. CASE SuddenDeathOver(r)
    BY <1>5, <1>9, <1>11, <2>1
  <2>2. QED BY <1>10, <1>11, <2>1
<1>12. CASE TwoSides(sc)
  <2>1. sc \in ScState /\ Duelists(sc) /\ sc.sd \in {"none", sc.overtime}
    BY DEF ScInv, Counted, Overtimes
  <2>2. Matched(sc) /\ (sc.mode = "duel" => sc.here = {1, 2})
    BY <1>12, <2>1, TwoAreThere
  <2>3. sc.mode = "team" \/ ~(Cardinality(sc.here) < 2)
    BY <1>12 DEF TwoSides
  <2>4. d = LeadEarned(u) /\ (sc.mode = "team" \/ r.known.best # <<>>)
    BY <1>7, <2>2, <2>3
  <2>5. LeadEarned(u) \in Nat
    BY <1>8, <2>4
  <2>6. sc'.over <=> SuddenDeathOver(r)
    BY <1>5, <1>9, <1>10
  <2>7. LeadEarned(sc') = LeadEarned(u) /\ Overtimes(sc')
    BY <1>5, <1>9, <1>10
  <2>8. ASSUME SuddenDeathOver(r), n # 0 PROVE LeadEarned(u) > 0
    <3>1. CASE r.sd = "normal"
      <4>1. LeadEarned(sc) = 0
        BY <1>1, <1>4, <2>2, <3>1 DEF Overtimes, LevelInNormal
      <4>2. LeadEarned(u) # 0
        BY <1>1, <2>1, <2>2, <2>8, <4>1, LevelDeath
      <4>3. QED BY <2>5, <4>2
    <3>2. CASE r.sd # "normal"
      <4>1. d >= ScTieCount \/ d > r.snapshot
        BY <1>6, <2>4, <2>8, <3>2 DEF SuddenDeathOver
      <4>2. ScTieCount \in {2, 3} /\ r.snapshot \in Nat
        BY <1>4, ScNumberAssumption DEF ScState
      <4>3. QED BY <1>8, <2>4, <4>1, <4>2
    <3>3. QED BY <3>1, <3>2
  <2>9. ASSUME sc.sd = "golden", sc.snapshot # LargeSnapshot, ~sc.lone
        PROVE  SuddenDeathOver(r) <=> LeadEarned(u) > LeadEarned(sc)
    <3>1. sc.overtime = "golden"
      BY <2>1, <2>9
    <3>2. sc.snapshot = LeadEarned(sc)
      BY <2>2, <2>9, <3>1 DEF Overtimes, SnapshotIsLead
    <3>3. SuddenDeathOver(r) <=> d > r.snapshot
      BY <1>1, <1>4, <2>9 DEF SuddenDeathOver
    <3>4. QED BY <1>1, <1>4, <2>4, <3>2, <3>3
  <2>10. QED BY <2>6, <2>7, <2>8, <2>9 DEF Decided
<1>13. QED BY <1>11, <1>12

\* Who has made what, and for which side, is the same.
SameLead(s, t) ==
  /\ t.mode = s.mode /\ t.overtime = s.overtime /\ t.lock = s.lock /\ t.sd = s.sd
  /\ t.snapshot = s.snapshot /\ t.lone = s.lone /\ t.over = s.over /\ t.earned = s.earned
  /\ t.known = NotKnown
  /\ LeadEarned(t) = LeadEarned(s)

LEMMA SameLeadOvertimes ==
  ASSUME NEW s, NEW t, Overtimes(s), ~s.over, SameLead(s, t), Duelists(t)
  PROVE  Overtimes(t)
BY DEF Overtimes, SameLead, Accurate, NotKnown, LevelInNormal, SnapshotIsLead, Matched

LEMMA GoneOthers ==
  ASSUME NEW s \in ScState, NEW h, NEW gs, NEW li, NEW u, NEW f, NEW e,
         NEW t, t = Gone(s, h, gs, li, u, f, e)
  PROVE  /\ t.mode = s.mode /\ t.overtime = s.overtime /\ t.lock = s.lock /\ t.sd = s.sd
         /\ t.snapshot = s.snapshot /\ t.lone = s.lone /\ t.over = s.over /\ t.team = s.team
         /\ t.known = NotKnown /\ t.earned = e /\ t.here = h /\ t.ghosts = gs /\ t.localinfo = li
BY DEF Gone, ScState

LEMMA LeavesNothingOvertimes ==
  ASSUME NEW s \in ScState, Overtimes(s), ~s.over, s.lock = 0, NEW p, NEW t, LeavesNothing(s, p, t)
  PROVE  Overtimes(t)
<1> DEFINE h == s.here \ {p}
           f == [s.frags EXCEPT ![p] = 0]
           e == [s.earned EXCEPT ![p] = 0]
<1>1. t = Gone(s, h, s.ghosts, s.localinfo, s.userid, f, e)
  BY DEF LeavesNothing
<1> HIDE DEF h, f, e
<1>2. t.lock = 0 /\ t.known = NotKnown /\ ~t.over /\ t.sd = s.sd /\ t.overtime = s.overtime
  BY <1>1, GoneOthers
<1>3. QED BY <1>2 DEF Overtimes, Accurate, NotKnown, Duelists, LevelInNormal, SnapshotIsLead, Matched

LEMMA LeavesGhostOvertimes ==
  ASSUME NEW s \in ScState, Overtimes(s), ~s.over, NEW p \in s.here, NEW n \in Number, NEW g, NEW u,
         NEW t, LeavesGhost(s, p, n, g, u, t)
  PROVE  Overtimes(t) /\ t.earned = s.earned
<1> DEFINE h == s.here \ {p}
           gs == s.ghosts \cup {g}
           li == [s.localinfo EXCEPT ![n] = p]
           f == [s.frags EXCEPT ![p] = 0]
<1>1. t = Gone(s, h, gs, li, u, f, s.earned) /\ g.cnt2 = n
  BY DEF LeavesGhost
<1>2. li[n] = p /\ \A k \in s.ghosts : k.cnt2 # n => li[k.cnt2] = s.localinfo[k.cnt2]
                                                        \/ k.cnt2 \notin Number
  BY DEF ScState
<1>3. \A k \in s.ghosts : k.cnt2 \in Nat
  BY DEF ScState, Ghost
<1> HIDE DEF h, gs, li, f
<1>4. /\ t.mode = s.mode /\ t.overtime = s.overtime /\ t.lock = s.lock /\ t.sd = s.sd
      /\ t.snapshot = s.snapshot /\ t.lone = s.lone /\ t.over = s.over /\ t.team = s.team
      /\ t.known = NotKnown /\ t.earned = s.earned /\ t.here = h /\ t.ghosts = gs /\ t.localinfo = li
  BY <1>1, GoneOthers
<1>5. LeadEarned(t) = LeadEarned(s)
  BY <1>4, LeadIsSides DEF SideScore, OnSide
<1>6. SameLead(s, t)
  BY <1>4, <1>5 DEF SameLead
<1>7. \A q, k : Owns(t, q, k) => Owns(s, q, k) \/ q = p
  <2> SUFFICES ASSUME NEW q, NEW k, Owns(t, q, k), q # p PROVE Owns(s, q, k)
    OBVIOUS
  <2>1. k \in gs /\ li[k.cnt2] = q
    BY <1>4 DEF Owns
  <2>2. k.cnt2 # n
    BY <1>2, <2>1
  <2>3. k \in s.ghosts
    BY <1>1, <2>1, <2>2 DEF gs
  <2>4. li[k.cnt2] = s.localinfo[k.cnt2]
    BY <2>2 DEF li, ScState
  <2>5. QED BY <2>1, <2>3, <2>4 DEF Owns
<1>8. Duelists(t)
  <2> SUFFICES ASSUME s.mode = "duel", s.lock > 0, NEW q \in ScPlayer, q \in t.here \/ \E k : Owns(t, q, k)
               PROVE  q <= 2
    BY <1>4 DEF Duelists
  <2>1. q \in s.here \/ \E k : Owns(s, q, k)
    BY <1>4, <1>7 DEF h
  <2>2. QED BY <2>1 DEF Overtimes, Duelists
<1>9. QED BY <1>4, <1>6, <1>8, SameLeadOvertimes

LEMMA ScDisconnectOvertimes ==
  ASSUME ScInv, Overtimes(sc), NEW p \in ScPlayer, ScDisconnect(p)
  PROVE  /\ Overtimes(sc') /\ (sc'.over => sc'.here = {})
         /\ sc.lock > 0 => sc'.earned = sc.earned
<1> DEFINE t == Left(sc, p)
<1>1. sc \in ScState /\ Kept(sc) /\ ~sc.over /\ p \in sc.here
  BY DEF ScInv, Counted, ScDisconnect
<1>2. /\ t \in ScState /\ KnowsPresent(t) /\ ~t.over /\ Overtimes(t)
      /\ sc.lock > 0 => t.earned = sc.earned
  <2>1. t = Left(sc, p) OBVIOUS
  <2> HIDE DEF t
  <2>2. t \in ScState /\ KnowsPresent(t) /\ ~t.over
    BY <1>1, <2>1, LeftKeeps
  <2>3. CASE sc.lock = 0
    BY <1>1, <2>1, <2>2, <2>3, LeftIs, LeavesNothingOvertimes
  <2>4. CASE sc.lock # 0
    <3>1. PICK n, g, u : LeavesNumbered(sc, p, n, g, u, t)
      BY <1>1, <2>1, <2>4, LeftIs
    <3>2. Overtimes(t) /\ t.earned = sc.earned
      BY <1>1, <3>1, LeavesGhostOvertimes DEF LeavesNumbered
    <3>3. QED BY <2>2, <3>2
  <2>5. QED BY <2>3, <2>4
<1>3. sc' = IF t.here = {} THEN ScEndMatch(t) ELSE t
  BY DEF ScDisconnect, Left
<1> HIDE DEF t
<1>4. CASE t.here = {}
  <2>1. sc' = ScEndMatch(t)
    BY <1>3, <1>4
  <2>2. sc'.here = {} /\ sc'.earned = t.earned /\ Overtimes(sc')
    BY <1>2, <1>4, <2>1, EndStep, EndOvertimes
  <2>3. QED BY <1>2, <2>2
<1>5. CASE t.here # {}
  BY <1>2, <1>3, <1>5
<1>6. QED BY <1>4, <1>5

LEMMA ComesOvertimes ==
  ASSUME NEW s \in ScState, Kept(s), Overtimes(s), ~s.over, NEW p \in ScPlayer \ s.here,
         NEW side \in Side, NEW n, NEW t \in ScState, Comes(s, p, side, n, t),
         (n = 0 /\ Unnamed(s, p)) \/ (n \in Number /\ n # 0 /\ s.localinfo[n] = p),
         s.mode = "team" => \A g \in s.ghosts : g.cnt2 = n => g.team = side,
         LetIn(s, p, side)
  PROVE  Overtimes(t) /\ t.earned = s.earned
<1> DEFINE h == s.here \cup {p}
           tm == [s.team EXCEPT ![p] = side]
           gs == {k \in s.ghosts : k.cnt2 # n}
           li == IF n = 0 THEN s.localinfo ELSE [s.localinfo EXCEPT ![n] = 0]
           f == IF n = 0 THEN s.frags
                ELSE [s.frags EXCEPT ![p] = (CHOOSE g \in {k \in s.ghosts : k.cnt2 = n} : TRUE).frags]
<1>1. t = Come(s, h, tm, gs, li, f)
  BY DEF Comes
<1>2. tm[p] = side /\ \A q \in ScPlayer : q # p => tm[q] = s.team[q]
  BY DEF ScState
<1>3. \A k \in gs : k \in s.ghosts /\ li[k.cnt2] = s.localinfo[k.cnt2]
  <2>1. \A k \in gs : k \in s.ghosts /\ k.cnt2 # n
    OBVIOUS
  <2>2. QED BY <2>1 DEF ScState
<1> HIDE DEF h, tm, gs, li, f
<1>4. /\ t.mode = s.mode /\ t.overtime = s.overtime /\ t.lock = s.lock /\ t.sd = s.sd
      /\ t.snapshot = s.snapshot /\ t.lone = s.lone /\ t.over = s.over /\ t.team = tm
      /\ t.known = NotKnown /\ t.earned = s.earned /\ t.here = h /\ t.ghosts = gs /\ t.localinfo = li
  BY <1>1 DEF Come, ScState
<1>5. s.mode = "team" => s.earned[p] = 0 \/ s.team[p] = side
  <2> SUFFICES ASSUME s.mode = "team", s.earned[p] # 0 PROVE s.team[p] = side
    OBVIOUS
  <2>1. PICK g \in s.ghosts : Owns(s, p, g)
    BY DEF Kept, KeptFor
  <2>2. n # 0
    BY <2>1 DEF Owns, Unnamed, Kept, Numbered
  <2>3. g.cnt2 = n
    <3>1. g.cnt2 \in Number /\ s.localinfo[g.cnt2] = s.localinfo[n] /\ s.localinfo[n] # 0
      BY <2>1, <2>2, Constants DEF Owns, Kept, Numbered
    <3>2. QED BY <2>2, <3>1 DEF Kept, Numbered
  <2>4. g.team = s.team[p]
    BY <2>1 DEF Kept, KeptFor
  <2>5. QED BY <2>3, <2>4
<1>6. ASSUME s.mode = "team", NEW o PROVE SideScore(t, o) = SideScore(s, o)
  <2>1. CASE s.team[p] = side
    <3>1. OnSide(t, o) = OnSide(s, o)
      BY <1>2, <1>4, <2>1 DEF OnSide
    <3>2. QED BY <1>4, <3>1 DEF SideScore
  <2>2. CASE s.earned[p] = 0
    <3> DEFINE S == OnSide(s, o)
               T == OnSide(t, o)
    <3>1. Adds(s.earned, S) /\ Adds(s.earned, T)
      BY <1>4, SidesAdd
    <3>2. S \ {p} = T \ {p}
      BY <1>2, <1>4 DEF OnSide
    <3> HIDE DEF S, T
    <3>3. SumOf(s.earned, S \ {p}) = SumOf(s.earned, S) /\ SumOf(s.earned, T \ {p}) = SumOf(s.earned, T)
      BY <2>2, <3>1, SumZero
    <3>4. SumOf(s.earned, S) = SumOf(s.earned, T)
      BY <3>2, <3>3
    <3>5. QED BY <1>4, <3>4 DEF SideScore, S, T
  <2>3. QED BY <1>5, <1>6, <2>1, <2>2
<1>7. s.mode # "ffa" => LeadEarned(t) = LeadEarned(s)
  <2>1. s.mode \in {"duel", "ffa", "team"}
    BY DEF ScState, ScModes
  <2>2. QED BY <1>4, <1>6, <2>1, LeadIsSides
<1>8. \A q, k : Owns(t, q, k) => Owns(s, q, k)
  BY <1>3, <1>4 DEF Owns
<1>9. Duelists(t)
  <2> SUFFICES ASSUME s.mode = "duel", s.lock > 0, NEW q \in ScPlayer, q \in t.here \/ \E k : Owns(t, q, k)
               PROVE  q <= 2
    BY <1>4 DEF Duelists
  <2>1. q \in s.here \/ (\E k : Owns(s, q, k)) \/ q = p
    BY <1>4, <1>8 DEF h
  <2>2. \E g : Owns(s, p, g)
    <3>1. s.lock # 0
      BY DEF ScState, Lock
    <3>2. QED BY <3>1 DEF LetIn, Owns
  <2>3. QED BY <2>1, <2>2 DEF Overtimes, Duelists
<1>10. CASE s.mode # "ffa"
  <2>1. SameLead(s, t)
    BY <1>4, <1>7, <1>10 DEF SameLead
  <2>2. QED BY <1>4, <1>9, <2>1, SameLeadOvertimes
<1>11. CASE s.mode = "ffa"
  BY <1>4, <1>9, <1>11 DEF Overtimes, Accurate, NotKnown, LevelInNormal, SnapshotIsLead, Matched
<1>12. QED BY <1>4, <1>10, <1>11

LEMMA ScConnectOvertimes ==
  ASSUME ScInv, Overtimes(sc), NEW p \in ScPlayer, NEW side \in Side, ScConnect(p, side)
  PROVE  Overtimes(sc') /\ sc'.earned = sc.earned /\ ~sc'.over
<1>1. sc \in ScState /\ Kept(sc) /\ ~sc.over /\ p \in ScPlayer \ sc.here /\ LetIn(sc, p, side)
      /\ (sc.mode = "team" => \A g \in sc.ghosts : g.cnt2 = NumberOf(sc, p) => g.team = side)
  BY DEF ScInv, Counted, ScConnect
<1>2. PICK n : /\ n = NumberOf(sc, p)
               /\ (n = 0 /\ Unnamed(sc, p)) \/ (n \in Number /\ n # 0 /\ sc.localinfo[n] = p)
               /\ Comes(sc, p, side, n, sc')
  BY ConnectIs
<1>3. sc' \in ScState /\ sc'.over = sc.over
  BY <1>1, <1>2, ComesWithoutGhost, ComesWithGhost
<1>4. Overtimes(sc') /\ sc'.earned = sc.earned
  BY <1>1, <1>2, <1>3, ComesOvertimes
<1>5. QED BY <1>1, <1>3, <1>4

LEMMA StartOvertimes ==
  ASSUME NEW setting \in ScSetting, NEW snapshot \in {0, LargeSnapshot}, NEW players,
         setting.mode = "duel" => \A p \in players : p <= 2,
         NEW s, s = ScStart(setting, players, snapshot)
  PROVE  Overtimes(s) /\ ~s.over
<1> DEFINE zero == [p \in ScPlayer |-> 0]
<1>1. /\ s.mode = setting.mode /\ s.lock = setting.lock /\ s.overtime = setting.overtime /\ s.here = players
      /\ s.ghosts = {} /\ s.known.fresh = FALSE /\ s.sd = "none" /\ s.snapshot = snapshot /\ s.over = FALSE
      /\ s.earned = zero
  BY DEF ScStart, NotKnown
<1>2. Accurate(s) /\ Duelists(s) /\ LevelInNormal(s)
  BY <1>1 DEF Accurate, Duelists, LevelInNormal, Owns
<1>3. Matched(s) => LeadEarned(s) = 0
  <2>1. ASSUME NEW t PROVE SideScore(s, t) = 0
    <3> DEFINE T == OnSide(s, t)
               e == [p \in {} |-> 0]
    <3>1. T \in SUBSET ScPlayer
      BY DEF OnSide
    <3>2. \A U \in SUBSET ScPlayer : SumOf(zero, U) = 0
      <4> DEFINE G == {U \in SUBSET ScPlayer : SumOf(zero, U) = 0}
      <4>1. {} \in G
        BY SumOfNothing
      <4>2. ASSUME NEW U \in SUBSET ScPlayer, NEW x \in ScPlayer \ U, U \in G PROVE U \cup {x} \in G
        <5>1. IsFiniteSet(U)
          BY Constants, FS_Subset
        <5>2. Adds(zero, U) /\ zero[x] = 0 /\ x \notin U
          BY <5>1 DEF Adds
        <5> HIDE DEF zero
        <5>3. SumOf(zero, U \cup {x}) = zero[x] + SumOf(zero, U)
          BY <5>2, SumWith
        <5>4. QED BY <4>2, <5>2, <5>3
      <4> HIDE DEF G
      <4>3. \A U \in SUBSET ScPlayer : U \in G
        BY <4>1, <4>2, Constants, SetInduction
      <4>4. QED BY <4>3 DEF G
    <3>3. QED BY <1>1, <3>1, <3>2 DEF SideScore
  <2>2. Matched(s) /\ s.mode = "duel" => s.earned[1] = 0 /\ s.earned[2] = 0
    BY <1>1 DEF Matched
  <2>3. QED BY <2>1, <2>2, LeadIsSides, DistanceType
<1>4. SnapshotIsLead(s)
  BY <1>1, <1>3 DEF SnapshotIsLead
<1>5. QED BY <1>1, <1>2, <1>4 DEF Overtimes

LEMMA ScStartsOvertimes == \A s \in ScStarts : Overtimes(s)
<1> DEFINE players(m) == IF m = "duel" THEN {p \in ScPlayer : p <= 2} ELSE ScPlayer
<1>1. ASSUME NEW setting \in ScSetting, NEW snapshot \in {0, LargeSnapshot}
      PROVE  Overtimes(ScStart(setting, players(setting.mode), snapshot))
  <2>1. setting.mode = "duel" => \A p \in players(setting.mode) : p <= 2
    OBVIOUS
  <2> HIDE DEF players
  <2>2. QED BY <2>1, StartOvertimes
<1>2. ScStarts = {ScStart(setting, players(setting.mode), snapshot) :
                    setting \in ScSetting, snapshot \in {0, LargeSnapshot}}
  BY DEF ScStarts
<1> HIDE DEF players
<1>3. QED BY <1>1, <1>2

\* One step decides what it should, and leaves what the next one needs.
Deciding ==
  TwoSides(sc) =>
    /\ sc.sd # "none" /\ sc'.over /\ sc'.here # {} => LeadEarned(sc') > 0
    /\ sc.sd = "golden" /\ sc'.earned # sc.earned /\ sc.snapshot # LargeSnapshot /\ ~sc.lone
         => (sc'.over <=> LeadEarned(sc') > LeadEarned(sc))

LEMMA ObituaryDecides ==
  ASSUME ScInv, Overtimes(sc), ~sc.over, NEW p \in sc.here, NEW n \in Int, sc' = Obituary(sc, p, n),
         n # 0
  PROVE  Overtimes(sc') /\ Deciding
<1>1. Overtimes(sc') /\ (TwoSides(sc) => Decided(sc, n, sc'))
  BY ObituaryOvertimes
<1>2. QED BY <1>1 DEF Decided, Deciding

LEMMA ScNextDecides ==
  ASSUME ScTeleDeath, ScInv, Overtimes(sc), [ScNext]_sc
  PROVE  Overtimes(sc') /\ (sc' # sc => Deciding)
<1>1. CASE CheckOvertime
  <2>1. sc.sd = "none"
    BY <1>1 DEF CheckOvertime
  <2>2. QED BY <1>1, <2>1, CheckOvertimeOvertimes DEF Deciding
<1>2. CASE AskScores
  <2>1. sc \in ScState /\ Kept(sc) /\ KnowsPresent(sc) /\ ~sc.over
    BY <1>2 DEF ScInv, Counted, AskScores
  <2>2. SameCount(sc, sc')
    BY <1>2, <2>1, ReScoresStep DEF AskScores, Kept, Numbered
  <2>3. QED BY <1>2, <2>1, <2>2, AskScoresOvertimes DEF Deciding, SameCount
<1>3. CASE ScNewLevel
  <2>1. sc.sd = "none" /\ Overtimes(sc')
    BY <1>3, ScStartsOvertimes DEF ScNewLevel, Overtimes
  <2>2. QED BY <2>1 DEF Deciding
<1>4. ASSUME NEW p \in ScPlayer, NEW n \in {-2, -1}, Dies(p, n)
      PROVE  Overtimes(sc') /\ Deciding
  <2>1. n \in Int /\ n # 0 /\ p \in sc.here /\ ~sc.over /\ sc' = Obituary(sc, p, n)
    BY <1>4 DEF Dies
  <2>2. QED BY <2>1, ObituaryDecides
<1>5. ASSUME NEW p \in ScPlayer, NEW q \in ScPlayer, Kills(p, q)
      PROVE  Overtimes(sc') /\ Deciding
  <2>1. PICK n \in {-1, 1} : sc' = Obituary(sc, p, n)
    BY <1>5 DEF Kills
  <2>2. n \in Int /\ n # 0 /\ p \in sc.here /\ ~sc.over
    BY <1>5 DEF Kills
  <2>3. QED BY <2>1, <2>2, ObituaryDecides
<1>6. ASSUME NEW p \in ScPlayer, ScDisconnect(p)
      PROVE  Overtimes(sc') /\ Deciding
  BY <1>6, ScDisconnectOvertimes DEF Deciding, TwoSides
<1>7. ASSUME NEW p \in ScPlayer, NEW t, t \in IF sc.mode = "team" THEN {1, 2} ELSE {ScTeamOf(p)},
             ScConnect(p, t)
      PROVE  Overtimes(sc') /\ Deciding
  <2>1. t \in Side
    BY <1>7 DEF Side, ScTeamOf
  <2>2. QED BY <1>7, <2>1, ScConnectOvertimes DEF Deciding
<1>8. CASE sc' = sc
  BY <1>8
<1>9. QED BY <1>1, <1>2, <1>3, <1>4, <1>5, <1>6, <1>7, <1>8 DEF ScNext

(***************************************************************************)
(* With k_tp_tele_death as it is set (commands.c:4199), for any number of  *)
(* players: an overtime that a death ends has a winner, whoever has left   *)
(* or come back since it began, and golden frag ends at the death that     *)
(* makes the lead greater than it was (Check_SD(): client.c).  The lead is *)
(* that of what the sides have made, so it is also shown that what the     *)
(* server knows of the scores when it decides is never out of date.        *)
(***************************************************************************)
THEOREM OvertimeIsDecided == ScTeleDeath => (ScSpec => OvertimeDecides)
<1> SUFFICES ASSUME ScTeleDeath PROVE ScSpec => OvertimeDecides
  OBVIOUS
<1> DEFINE Inv == ScInv /\ Overtimes(sc)
<1>1. ScInit => Inv
  BY ScStartsCounted, ScStartsOvertimes DEF ScInit, ScInv
<1>2. Inv /\ [ScNext]_sc => Inv' /\ [Deciding]_sc
  BY ScNextInv, ScNextDecides
<1> HIDE DEF Inv
<1>3. ScSpec => [][Deciding]_sc
  BY <1>1, <1>2, PTL DEF ScSpec
<1>4. QED BY <1>3 DEF OvertimeDecides, Deciding
=============================================================================
