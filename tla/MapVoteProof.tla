---------------------------- MODULE MapVoteProof ----------------------------
(***************************************************************************)
(* Proof that the level changes to a map with a majority, and that no      *)
(* majority is left waiting, for any number of slots, maps and votes.  The *)
(* walk of vote_get_maps() along the slots is a fold; its values after     *)
(* every slot are shown to count the votes so far.                         *)
(***************************************************************************)
EXTENDS MapVote, FoldProof

Vote == [MvClient -> MvMap \cup {0}]
Tally == [votes : [MvMap -> Nat], admins : [MvMap -> Nat], best : MvMap \cup {0}]

MvState ==
  [here : SUBSET MvClient, adm : SUBSET MvClient, vote : Vote, match : BOOLEAN,
   elected : MvMap \cup {0}, poll : Vote, checked : BOOLEAN]

LEMMA MvConstants ==
  /\ MvSlots \in Nat /\ IsFiniteSet(MvClient) /\ 0 \notin MvMap /\ MvMap \subseteq Nat
  /\ \A S \in SUBSET MvClient : IsFiniteSet(S) /\ Cardinality(S) \in Nat
<1>1. IsFiniteSet(MvClient)
  BY MvAssumption, FS_Interval DEF MvClient
<1>2. QED BY <1>1, MvAssumption, FS_Subset, FS_CardinalityType

-----------------------------------------------------------------------------
(***************************************************************************)
(* The walk.                                                               *)
(***************************************************************************)
NoneYet == [votes |-> [m \in MvMap |-> 0], admins |-> [m \in MvMap |-> 0], best |-> 0]

CountIter(s, it) ==
  it = [S \in SUBSET DOMAIN [p \in MvClient |-> p] |->
          IF S = {} THEN NoneYet
          ELSE CountVote(s, it[S \ {Max(S)}], [p \in MvClient |-> p][Max(S)])]

LEMMA MapsAreIter ==
  \A s : vote_get_maps(s) = (CHOOSE it : CountIter(s, it))[DOMAIN [p \in MvClient |-> p]]
BY DEF vote_get_maps, FoldLeft, MapThenFoldSet, CountIter, NoneYet

LEMMA CountVoteType ==
  ASSUME NEW s, s.vote \in Vote, NEW c \in Tally, NEW p \in MvClient
  PROVE  CountVote(s, c, p) \in Tally
<1> DEFINE m == s.vote[p]
           k == IF p \in s.adm THEN 1 ELSE 0
           v == [c.votes EXCEPT ![m] = @ + 1]
           a == [c.admins EXCEPT ![m] = @ + k]
           d == [c EXCEPT !.votes = v, !.admins = a]
           most == IF d.best = 0 \/ d.votes[m] > d.votes[d.best] THEN m ELSE d.best
           b == IF d.admins[m] > d.admins[most] THEN m ELSE most
<1>1. CASE m = 0
  BY <1>1 DEF CountVote
<1>2. CASE m # 0
  <2>1. m \in MvMap /\ k \in Nat
    BY <1>2 DEF Vote
  <2> HIDE DEF m, k
  <2>2. v \in [MvMap -> Nat] /\ a \in [MvMap -> Nat]
    BY <2>1 DEF Tally
  <2> HIDE DEF v, a
  <2>3. d \in Tally
    BY <2>2 DEF Tally
  <2> HIDE DEF d
  <2>4. b \in MvMap \cup {0}
    BY <2>1, <2>3 DEF Tally
  <2> HIDE DEF b, most
  <2>5. [d EXCEPT !.best = b] \in Tally
    BY <2>3, <2>4 DEF Tally
  <2>6. d = [c EXCEPT !.votes[m] = @ + 1, !.admins[m] = @ + k]
    BY DEF d, v, a, Tally
  <2>7. CountVote(s, c, p) = [d EXCEPT !.best = b]
    BY <1>2, <2>6 DEF CountVote, b, most, m, k
  <2>8. QED BY <2>5, <2>7
<1>3. QED BY <1>1, <1>2

\* The tallies after each slot.
Tallies(s, t) ==
  /\ t \in [0 .. MvSlots -> Tally] /\ t[0] = NoneYet
  /\ \A n \in 1 .. MvSlots : t[n] = CountVote(s, t[n - 1], n)
  /\ t[MvSlots] = vote_get_maps(s)

LEMMA TalliesExist ==
  ASSUME NEW s, s.vote \in Vote PROVE \E t : Tallies(s, t)
<1> DEFINE F == [z \in MvClient \X Tally |-> CountVote(s, z[2], z[1])]
           seq == [p \in MvClient |-> p]
           it == CHOOSE i : CountIter(s, i)
<1>0. DOMAIN seq = MvClient /\ \A p \in MvClient : seq[p] = p
  OBVIOUS
<1>1. F \in [MvClient \X Tally -> Tally] /\ \A p \in MvClient, c \in Tally : F[<<p, c>>] = CountVote(s, c, p)
  BY CountVoteType
<1>2. NoneYet \in Tally
  BY DEF NoneYet, Tally
<1>3. PICK w \in [SUBSET MvClient -> Tally] : WalkIter(w, MvSlots, NoneYet, F)
  <2> HIDE DEF F
  <2>1. QED BY <1>1, <1>2, MvConstants, WalkExists DEF MvClient
<1> HIDE DEF F, seq
<1>4. CountIter(s, w)
  <2>1. ASSUME NEW S \in SUBSET MvClient
        PROVE  w[S] = IF S = {} THEN NoneYet ELSE CountVote(s, w[S \ {Max(S)}], seq[Max(S)])
    <3>1. CASE S = {}
      BY <1>3, <3>1 DEF WalkIter, MvClient
    <3>2. CASE S # {}
      <4>1. Max(S) \in MvClient
        BY <3>2, MvConstants, MaxIsIn DEF MvClient
      <4>2. w[S \ {Max(S)}] \in Tally
        OBVIOUS
      <4>3. w[S] = F[<<Max(S), w[S \ {Max(S)}]>>]
        BY <1>3, <3>2 DEF WalkIter, MvClient
      <4>4. QED BY <1>0, <1>1, <3>2, <4>1, <4>2, <4>3
    <3>3. QED BY <3>1, <3>2
  <2>2. w = [S \in SUBSET MvClient |->
               IF S = {} THEN NoneYet ELSE CountVote(s, w[S \ {Max(S)}], seq[Max(S)])]
    BY <2>1
  <2>3. QED BY <1>0, <2>2 DEF CountIter, seq
<1>5. CountIter(s, it)
  BY <1>4
<1> HIDE DEF it
<1>6. \A S \in SUBSET MvClient :
        it[S] = IF S = {} THEN NoneYet ELSE CountVote(s, it[S \ {Max(S)}], seq[Max(S)])
  BY <1>0, <1>5 DEF CountIter, seq
<1> DEFINE t == [n \in 0 .. MvSlots |-> it[1 .. n]]
<1>7. t[0] = NoneYet
  <2>1. 1 .. 0 = {}
    OBVIOUS
  <2>2. it[{}] = NoneYet
    BY <1>6
  <2>3. QED BY <2>1, <2>2, MvConstants
<1>8. \A n \in 1 .. MvSlots : t[n] = CountVote(s, t[n - 1], n)
  <2> TAKE n \in 1 .. MvSlots
  <2>1. Max(1 .. n) = n /\ (1 .. n) \ {n} = 1 .. n - 1 /\ 1 .. n # {}
    BY MaxOfInterval
  <2>2. 1 .. n \in SUBSET MvClient /\ n \in MvClient /\ n - 1 \in 0 .. MvSlots /\ n \in 0 .. MvSlots
    BY MvConstants DEF MvClient
  <2>3. it[1 .. n] = CountVote(s, it[1 .. n - 1], n)
    <3> DEFINE R == 1 .. n
               Q == 1 .. n - 1
    <3>1. R \in SUBSET MvClient /\ R # {} /\ Max(R) = n /\ R \ {n} = Q /\ seq[n] = n
      BY <1>0, <2>1, <2>2
    <3> HIDE DEF R, Q
    <3>2. it[R] = CountVote(s, it[R \ {Max(R)}], seq[Max(R)])
      BY <1>6, <3>1
    <3>3. it[R] = CountVote(s, it[Q], n)
      BY <3>1, <3>2
    <3>4. QED BY <3>3 DEF R, Q
  <2>4. QED BY <2>2, <2>3
<1>9. t[MvSlots] = vote_get_maps(s)
  <2>1. vote_get_maps(s) = it[MvClient]
    BY <1>0, MapsAreIter DEF it, seq
  <2>2. MvSlots \in 0 .. MvSlots
    BY MvConstants
  <2>3. QED BY <2>1, <2>2 DEF MvClient
<1> HIDE DEF t
<1>10. t \in [0 .. MvSlots -> Tally]
  <2>1. t = [n \in 0 .. MvSlots |-> t[n]]
    BY DEF t
  <2> DEFINE G == {n \in Nat : n <= MvSlots => t[n] \in Tally}
  <2>2. 0 \in G
    BY <1>2, <1>7
  <2>3. ASSUME NEW n \in Nat, n \in G PROVE n + 1 \in G
    <3> SUFFICES ASSUME n + 1 <= MvSlots PROVE t[n + 1] \in Tally
      OBVIOUS
    <3>1. n + 1 \in 1 .. MvSlots /\ n + 1 - 1 = n /\ t[n] \in Tally /\ n + 1 \in MvClient
      BY <2>3, MvConstants DEF MvClient
    <3>2. QED BY <1>8, <3>1, CountVoteType
  <2> HIDE DEF G
  <2>4. \A n \in Nat : n \in G
    BY <2>2, <2>3, NumberInduction
  <2>5. \A n \in 0 .. MvSlots : t[n] \in Tally
    BY <2>4, MvConstants DEF G
  <2>6. QED BY <2>1, <2>5
<1>11. QED BY <1>7, <1>8, <1>9, <1>10 DEF Tallies

-----------------------------------------------------------------------------
(***************************************************************************)
(* What the walk has counted.                                              *)
(***************************************************************************)
VotedUpTo(s, n, m) == {p \in 1 .. n : s.vote[p] = m}

\* The votes so far are counted, and some map is best as soon as there is a vote.
CountsVotes(s, n, c) ==
  \A m \in MvMap : /\ c.votes[m] = Cardinality(VotedUpTo(s, n, m))
                   /\ c.best = 0 => c.votes[m] = 0

\* Without votes of admins the best is one with most votes.
Plain(s) == \A p \in MvClient : p \in s.adm => s.vote[p] = 0
BestHasMost(c) ==
  \A m \in MvMap : c.admins[m] = 0 /\ (c.best # 0 => c.votes[m] <= c.votes[c.best])

\* The tally after the vote of p for m, when the best is b.
Add(c, m, k, b) ==
  [c EXCEPT !.votes = [c.votes EXCEPT ![m] = @ + 1], !.admins = [c.admins EXCEPT ![m] = @ + k],
            !.best = b]

LEMMA CountVoteIs ==
  ASSUME NEW s, s.vote \in Vote, NEW c \in Tally, NEW p \in MvClient, NEW m, m = s.vote[p], m # 0
  PROVE  \E k \in {0, 1}, b \in {m, c.best} :
           /\ CountVote(s, c, p) = Add(c, m, k, b) /\ b # 0
           /\ p \notin s.adm => k = 0
           /\ (\A l \in MvMap : c.admins[l] = 0) /\ k = 0 =>
                b = IF c.best = 0 \/ (c.best # m /\ c.votes[m] + 1 > c.votes[c.best]) THEN m ELSE c.best
<1> DEFINE k == IF p \in s.adm THEN 1 ELSE 0
           v == [c.votes EXCEPT ![m] = @ + 1]
           a == [c.admins EXCEPT ![m] = @ + k]
           d == [c EXCEPT !.votes = v, !.admins = a]
           most == IF d.best = 0 \/ d.votes[m] > d.votes[d.best] THEN m ELSE d.best
           b == IF d.admins[m] > d.admins[most] THEN m ELSE most
<1>1. m \in MvMap /\ k \in {0, 1} /\ (p \notin s.adm => k = 0)
  BY DEF Vote
<1>2. /\ v[m] = c.votes[m] + 1 /\ a[m] = c.admins[m] + k
      /\ \A l \in MvMap : l # m => v[l] = c.votes[l] /\ a[l] = c.admins[l]
      /\ c.votes[m] \in Nat /\ c.best \in MvMap \cup {0}
  BY <1>1 DEF Tally
<1>3. CountVote(s, c, p) = [d EXCEPT !.best = b]
  <2> HIDE DEF k
  <2>1. d = [c EXCEPT !.votes[m] = @ + 1, !.admins[m] = @ + k]
    BY DEF Tally
  <2> HIDE DEF d
  <2>2. QED BY <2>1 DEF CountVote, k
<1> HIDE DEF k, v, a
<1>4. d.votes = v /\ d.admins = a /\ d.best = c.best
  BY DEF Tally
<1>5. [d EXCEPT !.best = b] = Add(c, m, k, b)
  <2> HIDE DEF b
  <2>1. QED BY DEF Add, Tally, v, a
<1> HIDE DEF d
<1>6. most \in {m, c.best} /\ most # 0 /\ b \in {m, c.best} /\ b # 0
  BY <1>4
<1>7. ASSUME \A l \in MvMap : c.admins[l] = 0, k = 0
      PROVE  b = IF c.best = 0 \/ (c.best # m /\ c.votes[m] + 1 > c.votes[c.best]) THEN m ELSE c.best
  <2>1. a[m] = 0 /\ a[most] = 0
    BY <1>1, <1>2, <1>4, <1>6, <1>7
  <2>2. b = most
    BY <1>4, <2>1
  <2>3. CASE c.best = 0 \/ c.best = m
    BY <1>2, <1>4, <2>2, <2>3
  <2>4. CASE c.best # 0 /\ c.best # m
    BY <1>2, <1>4, <2>2, <2>4
  <2>5. QED BY <2>3, <2>4
<1> HIDE DEF b, most
<1>8. QED BY <1>1, <1>3, <1>5, <1>6, <1>7

LEMMA CountVoteCounts ==
  ASSUME NEW s, s.vote \in Vote, NEW n \in MvClient, NEW c \in Tally, CountsVotes(s, n - 1, c)
  PROVE  LET d == CountVote(s, c, n) IN
         /\ CountsVotes(s, n, d)
         /\ Plain(s) /\ BestHasMost(c) => BestHasMost(d)
<1> DEFINE m == s.vote[n]
           d == CountVote(s, c, n)
<1>0. n \in Nat /\ n # 0 /\ 1 .. n - 1 \in SUBSET MvClient /\ m \in MvMap \cup {0}
  BY MvConstants DEF MvClient, Vote
<1>1. \A l \in MvMap : l # m => VotedUpTo(s, n, l) = VotedUpTo(s, n - 1, l)
  BY <1>0 DEF VotedUpTo
<1>2. VotedUpTo(s, n, m) = VotedUpTo(s, n - 1, m) \cup {n} /\ n \notin VotedUpTo(s, n - 1, m)
  BY <1>0 DEF VotedUpTo
<1>3. CASE m = 0
  <2>1. d = c
    BY <1>3 DEF CountVote
  <2>2. \A l \in MvMap : l # m
    BY <1>3, MvConstants
  <2> HIDE DEF d, m
  <2>3. QED BY <1>1, <2>1, <2>2 DEF CountsVotes, d
<1>4. CASE m # 0
  <2>1. PICK k \in {0, 1}, b \in {m, c.best} :
           /\ d = Add(c, m, k, b) /\ b # 0
           /\ n \notin s.adm => k = 0
           /\ (\A l \in MvMap : c.admins[l] = 0) /\ k = 0 =>
                b = IF c.best = 0 \/ (c.best # m /\ c.votes[m] + 1 > c.votes[c.best]) THEN m ELSE c.best
    <3> HIDE DEF d
    <3>1. m = s.vote[n] OBVIOUS
    <3> HIDE DEF m
    <3>2. QED BY <1>4, <3>1, CountVoteIs DEF d
  <2>2. m \in MvMap
    BY <1>0, <1>4
  <2>3. Plain(s) => k = 0
    BY <1>4, <2>1 DEF Plain
  <2> HIDE DEF d, m
  <2>4. /\ d.votes[m] = c.votes[m] + 1 /\ d.admins[m] = c.admins[m] + k /\ d.best = b
        /\ \A l \in MvMap : l # m => d.votes[l] = c.votes[l] /\ d.admins[l] = c.admins[l]
        /\ \A l \in MvMap : c.votes[l] \in Nat /\ c.admins[l] \in Nat
    BY <2>1, <2>2 DEF Add, Tally
  <2>5. Cardinality(VotedUpTo(s, n, m)) = Cardinality(VotedUpTo(s, n - 1, m)) + 1
    <3> DEFINE S == VotedUpTo(s, n - 1, m)
    <3>1. S \in SUBSET MvClient
      BY <1>0 DEF VotedUpTo
    <3>2. IsFiniteSet(S)
      BY <3>1, MvConstants
    <3> HIDE DEF S
    <3>3. Cardinality(S \cup {n}) = Cardinality(S) + 1
      BY <1>2, <3>2, FS_AddElement DEF S
    <3>4. QED BY <1>2, <3>3 DEF S
  <2>6. CountsVotes(s, n, d)
    BY <1>1, <2>1, <2>4, <2>5 DEF CountsVotes
  <2>7. ASSUME Plain(s), BestHasMost(c) PROVE BestHasMost(d)
    <3>1. k = 0 /\ \A l \in MvMap : c.admins[l] = 0
      BY <2>3, <2>7 DEF BestHasMost
    <3>2. b = IF c.best = 0 \/ (c.best # m /\ c.votes[m] + 1 > c.votes[c.best]) THEN m ELSE c.best
      BY <2>1, <3>1
    <3>3. \A l \in MvMap : d.admins[l] = 0
      BY <2>4, <3>1
    <3>4. c.best = 0 => \A l \in MvMap : c.votes[l] = 0
      BY DEF CountsVotes
    <3>5. \A l \in MvMap : d.votes[l] <= d.votes[b]
      <4>1. CASE c.best = 0
        BY <2>2, <2>4, <3>2, <3>4, <4>1
      <4>2. CASE c.best # 0
        <5>1. c.best \in MvMap /\ \A l \in MvMap : c.votes[l] <= c.votes[c.best]
          BY <2>7, <4>2 DEF BestHasMost, Tally
        <5>2. CASE c.best = m
          BY <2>2, <2>4, <3>2, <5>1, <5>2
        <5>3. CASE c.best # m /\ c.votes[m] + 1 > c.votes[c.best]
          BY <2>2, <2>4, <3>2, <5>1, <5>3
        <5>4. CASE c.best # m /\ ~(c.votes[m] + 1 > c.votes[c.best])
          BY <2>2, <2>4, <3>2, <4>2, <5>1, <5>4
        <5>5. QED BY <5>2, <5>3, <5>4
      <4>3. QED BY <4>1, <4>2
    <3>6. QED BY <2>4, <3>3, <3>5 DEF BestHasMost
  <2>8. QED BY <2>6, <2>7 DEF d
<1>5. QED BY <1>3, <1>4

LEMMA MapsCounted ==
  ASSUME NEW s, s.vote \in Vote, NEW c, c = vote_get_maps(s)
  PROVE  /\ c \in Tally
         /\ \A m \in MvMap : c.votes[m] = VotesFor(s.vote, m) /\ (c.best = 0 => c.votes[m] = 0)
         /\ Plain(s) => BestHasMost(c)
<1>1. PICK t : Tallies(s, t)
  BY TalliesExist
<1> DEFINE G == {n \in Nat : n <= MvSlots =>
                    /\ CountsVotes(s, n, t[n])
                    /\ Plain(s) => BestHasMost(t[n])}
<1>2. 0 \in G
  <2>1. t[0] = NoneYet
    BY <1>1 DEF Tallies
  <2>2. \A m \in MvMap : VotedUpTo(s, 0, m) = {}
    BY DEF VotedUpTo
  <2>3. \A m \in MvMap : Cardinality(VotedUpTo(s, 0, m)) = 0
    BY <2>2, FS_EmptySet
  <2>4. CountsVotes(s, 0, NoneYet) /\ BestHasMost(NoneYet)
    BY <2>3 DEF CountsVotes, BestHasMost, NoneYet
  <2>5. QED BY <2>1, <2>4
<1>3. ASSUME NEW n \in Nat, n \in G PROVE n + 1 \in G
  <2> SUFFICES ASSUME n + 1 <= MvSlots
               PROVE  CountsVotes(s, n + 1, t[n + 1]) /\ (Plain(s) => BestHasMost(t[n + 1]))
    OBVIOUS
  <2>1. /\ n + 1 \in 1 .. MvSlots /\ n \in 0 .. MvSlots /\ n + 1 \in MvClient /\ n + 1 - 1 = n
        /\ CountsVotes(s, n, t[n]) /\ (Plain(s) => BestHasMost(t[n]))
    BY <1>3, MvConstants DEF MvClient
  <2>2. t[n] \in Tally /\ t[n + 1] = CountVote(s, t[n], n + 1)
    BY <1>1, <2>1 DEF Tallies
  <2>3. QED BY <2>1, <2>2, CountVoteCounts
<1> HIDE DEF G
<1>4. MvSlots \in G /\ MvSlots <= MvSlots
  BY <1>2, <1>3, NumberInduction, MvConstants
<1>5. c = t[MvSlots] /\ c \in Tally
  BY <1>1, MvConstants DEF Tallies
<1>6. CountsVotes(s, MvSlots, c) /\ (Plain(s) => BestHasMost(c))
  BY <1>4, <1>5 DEF G
<1>7. \A m : VotedUpTo(s, MvSlots, m) = {p \in MvClient : s.vote[p] = m}
  BY DEF VotedUpTo, MvClient
<1>8. QED BY <1>5, <1>6, <1>7 DEF CountsVotes, VotesFor

-----------------------------------------------------------------------------
(***************************************************************************)
(* The invariant.                                                          *)
(***************************************************************************)
Wins(s, vote, m) ==
  /\ MvEnough(VotesFor(vote, m), Cardinality(MvPlayers(s)))
  /\ \/ \E p \in s.adm : vote[p] # 0
     \/ \A l \in MvMap : VotesFor(vote, l) <= VotesFor(vote, m)

Waits(s, m) ==
  VotesFor(s.vote, m) > 0 /\ MvEnough(VotesFor(s.vote, m), Cardinality(MvPlayers(s)))

Elected(s) == s.elected # 0 => Wins(s, s.poll, s.elected)
NoneWaits(s) ==
  s.checked /\ ~s.match /\ (\A p \in s.adm : s.vote[p] = 0) => \A m \in MvMap : ~Waits(s, m)

\* Only clients who are there are admins or vote.
Voters(s) == s \in MvState /\ s.adm \subseteq s.here /\ \A p \in MvClient \ s.here : s.vote[p] = 0

Lawful(s) == Voters(s) /\ Elected(s) /\ NoneWaits(s)
MvInv == Lawful(mv)

LEMMA NoVoteType ==
  /\ MvNoVote \in Vote /\ \A p \in MvClient : MvNoVote[p] = 0
  /\ \A m \in MvMap : VotesFor(MvNoVote, m) = 0
<1>1. MvNoVote \in Vote /\ \A p \in MvClient : MvNoVote[p] = 0
  BY DEF MvNoVote, Vote
<1>2. \A m \in MvMap : {p \in MvClient : MvNoVote[p] = m} = {}
  BY <1>1, MvConstants
<1>3. \A m \in MvMap : VotesFor(MvNoVote, m) = 0
  BY <1>2, FS_EmptySet DEF VotesFor
<1>4. QED BY <1>1, <1>3

LEMMA CheckMap ==
  ASSUME NEW s, Voters(s) PROVE Lawful(vote_check_map(s))
<1> DEFINE c == vote_get_maps(s)
           no == c.best = 0 \/ s.match \/ ~MvEnough(c.votes[c.best], Cardinality(MvPlayers(s)))
           stay == [s EXCEPT !.elected = 0, !.poll = MvNoVote, !.checked = TRUE]
           go == [s EXCEPT !.elected = c.best, !.poll = s.vote, !.vote = MvNoVote, !.checked = TRUE]
<1>0. s \in MvState /\ s.vote \in Vote /\ s.adm \subseteq s.here /\ s.adm \subseteq MvClient
  BY DEF Voters, MvState
<1>1. /\ c \in Tally
      /\ \A m \in MvMap : c.votes[m] = VotesFor(s.vote, m) /\ (c.best = 0 => c.votes[m] = 0)
      /\ Plain(s) => BestHasMost(c)
  <2> HIDE DEF c
  <2>1. c = vote_get_maps(s) BY DEF c
  <2>2. QED BY <1>0, <2>1, MapsCounted
<1>2. vote_check_map(s) = IF no THEN stay ELSE go
  BY DEF vote_check_map
<1>3. Plain(s) <=> \A p \in s.adm : s.vote[p] = 0
  BY <1>0 DEF Plain
<1> HIDE DEF c
<1>4. CASE no
  <2>1. /\ stay \in MvState /\ stay.here = s.here /\ stay.adm = s.adm /\ stay.vote = s.vote
        /\ stay.match = s.match /\ stay.elected = 0
    BY <1>0, NoVoteType DEF MvState
  <2> HIDE DEF stay
  <2>2. Voters(stay) /\ Elected(stay)
    BY <2>1 DEF Voters, Elected
  <2>3. NoneWaits(stay)
    <3> SUFFICES ASSUME ~s.match, \A p \in s.adm : s.vote[p] = 0, NEW m \in MvMap,
                        Waits(s, m)
                 PROVE  FALSE
      BY <2>1 DEF NoneWaits, Waits, MvPlayers
    <3>1. BestHasMost(c)
      BY <1>1, <1>3
    <3>2. /\ VotesFor(s.vote, m) = c.votes[m] /\ c.votes[m] > 0 /\ c.votes[m] \in Nat
          /\ MvEnough(c.votes[m], Cardinality(MvPlayers(s)))
      BY <1>1 DEF Waits, Tally
    <3>3. c.best \in MvMap /\ c.best # 0 /\ c.votes[c.best] \in Nat
      BY <1>1, <3>2 DEF Tally
    <3>4. c.votes[m] <= c.votes[c.best]
      BY <3>1, <3>3 DEF BestHasMost
    <3>5. MvPlayers(s) \in SUBSET MvClient
      BY <1>0 DEF MvPlayers, MvState
    <3>6. Cardinality(MvPlayers(s)) \in Nat /\ MvPercent \in Int
      BY <3>5, MvConstants, MvAssumption
    <3>7. MvPercent * Cardinality(MvPlayers(s)) \in Int
      BY <3>6
    <3>8. MvEnough(c.votes[c.best], Cardinality(MvPlayers(s)))
      BY <3>2, <3>3, <3>4, <3>7 DEF MvEnough
    <3>9. QED BY <1>4, <3>3, <3>8
  <2>4. QED BY <1>2, <1>4, <2>2, <2>3 DEF Lawful
<1>5. CASE ~no
  <2>1. c.best \in MvMap /\ c.best # 0
    BY <1>1, <1>5 DEF Tally
  <2>2. /\ go \in MvState /\ go.here = s.here /\ go.adm = s.adm /\ go.vote = MvNoVote
        /\ go.match = s.match /\ go.elected = c.best /\ go.poll = s.vote
    BY <1>0, <2>1, NoVoteType DEF MvState
  <2> HIDE DEF go
  <2>3. Voters(go)
    BY <1>0, <2>2, NoVoteType DEF Voters
  <2>4. Elected(go)
    <3>1. MvEnough(VotesFor(s.vote, c.best), Cardinality(MvPlayers(s)))
      BY <1>1, <1>5, <2>1
    <3>2. (\E p \in s.adm : s.vote[p] # 0) \/ \A l \in MvMap : VotesFor(s.vote, l) <= VotesFor(s.vote, c.best)
      BY <1>1, <1>3, <2>1 DEF BestHasMost
    <3>3. QED BY <2>2, <3>1, <3>2 DEF Elected, Wins, MvPlayers
  <2>5. NoneWaits(go)
    BY <2>2, NoVoteType DEF NoneWaits, Waits
  <2>6. QED BY <1>2, <1>5, <2>3, <2>4, <2>5 DEF Lawful
<1>6. QED BY <1>4, <1>5

LEMMA Uncounted ==
  ASSUME NEW s, Voters(s), MvUncounted(s) PROVE MvInv'
<1> DEFINE t == [s EXCEPT !.elected = 0, !.poll = MvNoVote, !.checked = FALSE]
<1>1. /\ t \in MvState /\ t.here = s.here /\ t.adm = s.adm /\ t.vote = s.vote
      /\ t.elected = 0 /\ t.checked = FALSE
  BY NoVoteType DEF Voters, MvState
<1>2. mv' = t
  BY DEF MvUncounted
<1> HIDE DEF t
<1>3. Lawful(t)
  BY <1>1 DEF Lawful, Voters, Elected, NoneWaits
<1>4. QED BY <1>2, <1>3 DEF MvInv

\* Changes of who is there, has admin rights and votes for what.
With(s, h, a, v) == [s EXCEPT !.here = h, !.adm = a, !.vote = v]
LEMMA WithVoters ==
  ASSUME NEW s, s \in MvState, NEW h, h \in SUBSET MvClient, NEW a, a \subseteq h, NEW v, v \in Vote,
         \A p \in MvClient \ h : v[p] = 0, NEW t, t = With(s, h, a, v)
  PROVE  Voters(t)
<1>1. t \in MvState /\ t.here = h /\ t.adm = a /\ t.vote = v
  BY DEF With, MvState
<1>2. QED BY <1>1 DEF Voters

LEMMA MvNextInv ==
  ASSUME MvInv, [MvNext]_mv PROVE MvInv'
<1>0. Voters(mv) /\ mv \in MvState /\ mv.vote \in Vote /\ mv.here \subseteq MvClient
      /\ mv.adm \subseteq mv.here /\ \A p \in MvClient \ mv.here : mv.vote[p] = 0
  BY DEF MvInv, Lawful, Voters, MvState
<1>1. ASSUME NEW p \in MvClient, NEW m \in MvMap, DoSelectMap(p, m) PROVE MvInv'
  <2> DEFINE v == [mv.vote EXCEPT ![p] = m]
             t == [mv EXCEPT !.vote[p] = m]
  <2>1. v \in Vote /\ \A q \in MvClient \ mv.here : v[q] = 0
    BY <1>0, <1>1 DEF Vote, DoSelectMap
  <2>2. t = With(mv, mv.here, mv.adm, v)
    BY <1>0 DEF With, MvState
  <2>3. mv' = vote_check_map(t)
    BY <1>1 DEF DoSelectMap
  <2> HIDE DEF v, t
  <2>4. Voters(t)
    BY <1>0, <2>1, <2>2, WithVoters
  <2>5. QED BY <2>3, <2>4, CheckMap DEF MvInv
<1>2. ASSUME NEW p \in MvClient, MvConnect(p) PROVE MvInv'
  <2> DEFINE t == [mv EXCEPT !.here = @ \cup {p}]
             h == mv.here \cup {p}
  <2>1. h \in SUBSET MvClient /\ mv.adm \subseteq h /\ \A q \in MvClient \ h : mv.vote[q] = 0
    BY <1>0
  <2>2. t = With(mv, h, mv.adm, mv.vote)
    BY <1>0 DEF With, MvState
  <2>3. MvUncounted(t)
    BY <1>2 DEF MvConnect
  <2> HIDE DEF t, h
  <2>4. Voters(t)
    BY <1>0, <2>1, <2>2, WithVoters
  <2>5. QED BY <2>3, <2>4, Uncounted
<1>3. ASSUME NEW p \in MvClient, MvDisconnect(p) PROVE MvInv'
  <2> DEFINE t == [mv EXCEPT !.here = @ \ {p}, !.adm = @ \ {p}, !.vote[p] = 0]
             h == mv.here \ {p}
             a == mv.adm \ {p}
             v == [mv.vote EXCEPT ![p] = 0]
  <2>1. h \in SUBSET MvClient /\ a \subseteq h /\ v \in Vote /\ \A q \in MvClient \ h : v[q] = 0
    BY <1>0 DEF Vote
  <2>2. t = With(mv, h, a, v)
    BY <1>0 DEF With, MvState
  <2>3. MvUncounted(t)
    BY <1>3 DEF MvDisconnect
  <2> HIDE DEF t, h, a, v
  <2>4. Voters(t)
    BY <1>0, <2>1, <2>2, WithVoters
  <2>5. QED BY <2>3, <2>4, Uncounted
<1>4. ASSUME NEW p \in MvClient, MvAdmin(p) PROVE MvInv'
  <2> DEFINE t == IF p \in mv.adm THEN [mv EXCEPT !.adm = @ \ {p}]
                  ELSE [mv EXCEPT !.adm = @ \cup {p}, !.vote[p] = 0]
             a == IF p \in mv.adm THEN mv.adm \ {p} ELSE mv.adm \cup {p}
             v == IF p \in mv.adm THEN mv.vote ELSE [mv.vote EXCEPT ![p] = 0]
  <2>1. a \subseteq mv.here /\ v \in Vote /\ \A q \in MvClient \ mv.here : v[q] = 0
    BY <1>0, <1>4 DEF Vote, MvAdmin
  <2>2. t = With(mv, mv.here, a, v)
    BY <1>0 DEF With, MvState
  <2>3. MvUncounted(t)
    BY <1>4 DEF MvAdmin
  <2> HIDE DEF t, a, v
  <2>4. Voters(t)
    BY <1>0, <2>1, <2>2, WithVoters
  <2>5. QED BY <2>3, <2>4, Uncounted
<1>5. CASE MvFrame
  BY <1>0, <1>5, CheckMap DEF MvFrame, MvInv
<1>6. ASSUME NEW b \in BOOLEAN, MvUncounted([mv EXCEPT !.match = b]) PROVE MvInv'
  <2>1. Voters([mv EXCEPT !.match = b])
    BY <1>0 DEF Voters, MvState
  <2>2. QED BY <1>6, <2>1, Uncounted
<1>7. CASE MvMatchBegins \/ MvMatchEnds
  BY <1>6, <1>7 DEF MvMatchBegins, MvMatchEnds
<1>8. CASE mv' = mv
  BY <1>8 DEF MvInv
<1>9. QED BY <1>1, <1>2, <1>3, <1>4, <1>5, <1>7, <1>8 DEF MvNext

LEMMA MvInitInv == MvInit => MvInv
<1> SUFFICES ASSUME MvInit PROVE MvInv
  OBVIOUS
<1>1. /\ mv.here = {} /\ mv.adm = {} /\ mv.vote = MvNoVote /\ mv.elected = 0 /\ mv.poll = MvNoVote
      /\ mv = [here |-> {}, adm |-> {}, vote |-> MvNoVote, match |-> FALSE, elected |-> 0,
               poll |-> MvNoVote, checked |-> TRUE]
  BY DEF MvInit, MvEmpty
<1>2. mv \in MvState
  BY <1>1, NoVoteType DEF MvState
<1>3. QED BY <1>1, <1>2, NoVoteType DEF MvInv, Lawful, Voters, Elected, NoneWaits, Waits

LEMMA MvInvariance == MvSpecification => []MvInv
<1>1. MvInv /\ [MvNext]_mv => MvInv'
  BY MvNextInv
<1>2. QED BY <1>1, MvInitInv, PTL DEF MvSpecification

LEMMA MvInvType == MvInv => MvTypeOK
BY DEF MvInv, Lawful, Voters, MvState, Vote, MvTypeOK

(***************************************************************************)
(* Only clients who are there vote for a map or have admin rights, when    *)
(* clients leave, lose their rights or are given them, in any order        *)
(* (BecomeAdmin(): vote.c, ClientDisconnect(): client.c).                  *)
(***************************************************************************)
THEOREM MvTypes == MvSpecification => []MvTypeOK
BY MvInvariance, MvInvType, PTL

(***************************************************************************)
(* The walk of vote_get_maps() (vote.c), which gives up the best map for   *)
(* one with more votes as it goes along the slots, finds one with most     *)
(* votes: the level changes to a map with enough of them, and to the most  *)
(* voted one if no admin has voted; after a count no map is left waiting   *)
(* with enough votes, whoever has come and gone since they were cast.      *)
(***************************************************************************)
THEOREM MapIsByMajority == MvSpecification => []MapByMajority
<1>1. MvInv => MapByMajority
  BY DEF MvInv, Lawful, Elected, NoneWaits, Wins, Waits, MapByMajority
<1>2. QED BY <1>1, MvInvariance, PTL
=============================================================================
