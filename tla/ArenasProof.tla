---------------------------- MODULE ArenasProof -----------------------------
(***************************************************************************)
(* Proofs about the game types with rounds and a referee.  In Rocket Arena *)
(* everybody has one place, only the two who fight can be hurt, and nobody *)
(* overtakes in the line; in Clan Arena and Wipeout nobody is alive in a   *)
(* round who is out of it, and the survivors get the point; for any number *)
(* of clients, respawns and rounds.                                        *)
(***************************************************************************)
EXTENDS ArenaQueue, ClanArena, SequenceTheorems, FiniteSetTheorems, TLAPS

-----------------------------------------------------------------------------
(***************************************************************************)
(* Rocket Arena.                                                           *)
(***************************************************************************)
RaFightNo == 0 .. 2
MatchNo == 0 .. 3
ClockNo == 0 .. ReadyTime

ArenaState ==
  [here : SUBSET RaClient, que : Seq(RaClient), pt : [RaClient -> RaRole],
   hurt : SUBSET RaClient, dead : SUBSET RaClient, idle : SUBSET RaClient,
   fight : RaFightNo, left : ClockNo, match : MatchNo]

FightRole == {"raWinner", "raLoser"}

Once(q) == \A i, j \in 1 .. Len(q) : q[i] = q[j] => i = j

Among(q, c) == \E k \in 1 .. Len(q) : q[k] = c

\* In line r nobody is behind anybody whom he was ahead of in line q: who is behind
\* another one was behind him before, or is new.
NoneOvertakes(q, r) ==
  \A k, l \in 1 .. Len(r) : k < l =>
    \/ ~Among(q, r[l])
    \/ \E m, n \in 1 .. Len(q) : m < n /\ q[m] = r[k] /\ q[n] = r[l]

\* OnePlaceEach, client by client.
RaPlaces(s) ==
  /\ \A p \in RaClient : s.pt[p] = "raQue" <=> Among(s.que, p)
  /\ Once(s.que)
  /\ \A p \in RaClient : s.pt[p] # "raNone" => p \in s.here
  /\ \A p, q \in RaClient : s.pt[p] \in FightRole /\ s.pt[p] = s.pt[q] => p = q

\* OnlyFightersBleed with what makes it inductive: there is no fight outside of a
\* match, and who has a part is not dead, whether they fight or not.
Peace(s) ==
  s.match # 3 =>
    /\ s.dead \cap Fighters(s) = {}
    /\ s.fight # 0 => s.match = 2
    /\ s.hurt # {} => s.fight = 2
    /\ s.fight = 2 => HasBoth(s) /\ s.hurt = Fighters(s)

Orderly(s) == s \in ArenaState /\ RaPlaces(s) /\ Peace(s)

ArenaInv == Orderly(ra)

-----------------------------------------------------------------------------
(***************************************************************************)
(* The line as a sequence.                                                 *)
(***************************************************************************)
Cut(q, i) == SubSeq(q, 1, i - 1) \o SubSeq(q, i + 1, Len(q))

\* Without its i-th element a sequence is one shorter, and who was behind moves up.
LEMMA CutElements ==
  ASSUME NEW S, NEW q \in Seq(S), NEW i \in 1 .. Len(q)
  PROVE  /\ Cut(q, i) \in Seq(S) /\ Len(Cut(q, i)) = Len(q) - 1
         /\ \A k \in 1 .. Len(q) - 1 : Cut(q, i)[k] = q[IF k < i THEN k ELSE k + 1]
<1> DEFINE a == SubSeq(q, 1, i - 1)
           b == SubSeq(q, i + 1, Len(q))
<1>1. Len(q) \in Nat /\ i \in Nat /\ i >= 1 /\ i <= Len(q)
  OBVIOUS
<1>2. /\ a \in Seq(S) /\ Len(a) = i - 1 /\ \A k \in 1 .. i - 1 : a[k] = q[k]
      /\ b \in Seq(S) /\ Len(b) = Len(q) - i /\ \A k \in 1 .. Len(q) - i : b[k] = q[k + i]
  <2>1. a \in Seq(S) /\ Len(a) = i - 1 /\ \A k \in 1 .. i - 1 : a[k] = q[k]
    BY <1>1
  <2>2. b \in Seq(S) /\ Len(b) = Len(q) - i /\ \A k \in 1 .. Len(q) - i : b[k] = q[k + i]
    BY <1>1
  <2>3. QED BY <2>1, <2>2
<1> HIDE DEF a, b
<1>3. /\ a \o b \in Seq(S) /\ Len(a \o b) = Len(q) - 1
      /\ \A k \in 1 .. Len(q) - 1 : (a \o b)[k] = IF k <= i - 1 THEN a[k] ELSE b[k - (i - 1)]
  <2>1. a \o b \in Seq(S) /\ Len(a \o b) = Len(a) + Len(b)
    BY <1>2, ConcatProperties
  <2>2. Len(a) + Len(b) = Len(q) - 1
    BY <1>1, <1>2
  <2>3. \A k \in 1 .. Len(a) + Len(b) : (a \o b)[k] = IF k <= Len(a) THEN a[k] ELSE b[k - Len(a)]
    BY <1>2, ConcatProperties
  <2>4. QED BY <1>2, <2>1, <2>2, <2>3
<1>4. ASSUME NEW k \in 1 .. Len(q) - 1
      PROVE  (a \o b)[k] = q[IF k < i THEN k ELSE k + 1]
  <2>1. CASE k < i
    BY <1>1, <1>2, <1>3, <2>1
  <2>2. CASE ~(k < i)
    <3>1. k - (i - 1) \in 1 .. Len(q) - i /\ k - (i - 1) + i = k + 1
      BY <1>1, <2>2
    <3>2. QED BY <1>1, <1>2, <1>3, <2>2, <3>1
  <2>3. QED BY <2>1, <2>2
<1>5. QED
  BY <1>3, <1>4 DEF Cut, a, b

\* The elements of the shorter sequence, and their order.
LEMMA CutLine ==
  ASSUME NEW q \in Seq(RaClient), Once(q), NEW i \in 1 .. Len(q), NEW p, p = q[i]
  PROVE  /\ Cut(q, i) \in Seq(RaClient) /\ Once(Cut(q, i))
         /\ \A c : Among(Cut(q, i), c) <=> c # p /\ Among(q, c)
         /\ NoneOvertakes(q, Cut(q, i))
<1> DEFINE r == Cut(q, i)
           up(k) == IF k < i THEN k ELSE k + 1
<1>1. /\ r \in Seq(RaClient) /\ Len(r) = Len(q) - 1 /\ Len(q) \in Nat /\ i \in Nat /\ 1 <= i /\ i <= Len(q)
      /\ \A k \in 1 .. Len(q) - 1 : r[k] = q[up(k)]
  BY CutElements
<1> HIDE DEF r
<1>2. \A k \in 1 .. Len(q) - 1 : up(k) \in 1 .. Len(q) /\ up(k) # i
  BY <1>1
<1>3. \A k, l \in 1 .. Len(q) - 1 : (k < l => up(k) < up(l)) /\ (up(k) = up(l) => k = l)
  BY <1>1
<1>4. \A n \in 1 .. Len(q) : n # i => \E k \in 1 .. Len(q) - 1 : up(k) = n
  <2> SUFFICES ASSUME NEW n \in 1 .. Len(q), n # i PROVE \E k \in 1 .. Len(q) - 1 : up(k) = n
    OBVIOUS
  <2>1. CASE n < i
    BY <1>1, <2>1
  <2>2. CASE n > i
    <3>1. n - 1 \in 1 .. Len(q) - 1 /\ up(n - 1) = n
      BY <1>1, <2>2
    <3>2. QED BY <3>1
  <2>3. QED BY <1>1, <2>1, <2>2
<1> HIDE DEF up
<1>5. Once(r)
  BY <1>1, <1>2, <1>3 DEF Once
<1>6. ASSUME NEW c
      PROVE  Among(r, c) <=> c # p /\ Among(q, c)
  <2>1. ASSUME NEW k \in 1 .. Len(r), r[k] = c
        PROVE  c # p /\ \E n \in 1 .. Len(q) : q[n] = c
    BY <1>1, <1>2, <2>1 DEF Once
  <2>2. ASSUME c # p, NEW n \in 1 .. Len(q), q[n] = c
        PROVE  \E k \in 1 .. Len(r) : r[k] = c
    <3>1. PICK k \in 1 .. Len(q) - 1 : up(k) = n
      BY <1>4, <2>2
    <3>2. k \in 1 .. Len(r) /\ r[k] = c
      BY <1>1, <2>2, <3>1
    <3>3. QED BY <3>2
  <2>3. QED BY <2>1, <2>2 DEF Among
<1>7. ASSUME NEW k \in 1 .. Len(r), NEW l \in 1 .. Len(r), k < l
      PROVE  \E m, n \in 1 .. Len(q) : m < n /\ q[m] = r[k] /\ q[n] = r[l]
  <2>1. up(k) < up(l) /\ q[up(k)] = r[k] /\ q[up(l)] = r[l]
    BY <1>1, <1>3, <1>7
  <2>2. up(k) \in 1 .. Len(q) /\ up(l) \in 1 .. Len(q)
    BY <1>1, <1>2, <1>7
  <2>3. QED BY <2>1, <2>2
<1>8. QED
  BY <1>1, <1>5, <1>6, <1>7 DEF r, NoneOvertakes

\* Who comes to the end of the line is behind everybody.
LEMMA AppendLine ==
  ASSUME NEW q \in Seq(RaClient), Once(q), NEW p \in RaClient,
         ~Among(q, p)
  PROVE  /\ Append(q, p) \in Seq(RaClient) /\ Once(Append(q, p))
         /\ \A c : Among(Append(q, p), c) <=> c = p \/ Among(q, c)
         /\ NoneOvertakes(q, Append(q, p))
<1> DEFINE r == Append(q, p)
<1>1. /\ r \in Seq(RaClient) /\ Len(r) = Len(q) + 1 /\ Len(q) \in Nat
      /\ r[Len(q) + 1] = p /\ \A k \in 1 .. Len(q) : r[k] = q[k]
  OBVIOUS
<1> HIDE DEF r
<1>2. \A k \in 1 .. Len(r) : k = Len(q) + 1 \/ k \in 1 .. Len(q)
  BY <1>1
<1>3. \A k \in 1 .. Len(q) : k \in 1 .. Len(r)
  BY <1>1
<1>4. Once(r)
  BY <1>1, <1>2 DEF Once, Among
<1>5. ASSUME NEW c
      PROVE  Among(r, c) <=> c = p \/ Among(q, c)
  <2>1. ASSUME NEW k \in 1 .. Len(r), r[k] = c
        PROVE  c = p \/ \E n \in 1 .. Len(q) : q[n] = c
    BY <1>1, <1>2, <2>1
  <2>2. CASE c = p
    <3>1. Len(q) + 1 \in 1 .. Len(r)
      BY <1>1
    <3>2. QED BY <1>1, <2>2, <3>1 DEF Among
  <2>3. ASSUME NEW k \in 1 .. Len(q), q[k] = c
        PROVE  \E n \in 1 .. Len(r) : r[n] = c
    BY <1>1, <1>3, <2>3
  <2>4. QED BY <2>1, <2>2, <2>3 DEF Among
<1>6. ASSUME NEW k \in 1 .. Len(r), NEW l \in 1 .. Len(r), k < l
      PROVE  \/ ~Among(q, r[l])
             \/ \E m, n \in 1 .. Len(q) : m < n /\ q[m] = r[k] /\ q[n] = r[l]
  <2>1. CASE l = Len(q) + 1
    BY <1>1, <2>1
  <2>2. CASE l \in 1 .. Len(q)
    <3>1. k \in 1 .. Len(q) /\ r[k] = q[k] /\ r[l] = q[l]
      BY <1>1, <1>6, <2>2
    <3>2. QED BY <1>6, <2>2, <3>1
  <2>3. QED BY <1>2, <2>1, <2>2
<1>7. QED
  BY <1>1, <1>4, <1>5, <1>6 DEF r, NoneOvertakes

-----------------------------------------------------------------------------
(***************************************************************************)
(* The functions of arena.c.                                               *)
(***************************************************************************)
\* What no step of the line touches.
SameFight(s, u) ==
  /\ u.here = s.here /\ u.hurt = s.hurt /\ u.dead = s.dead /\ u.idle = s.idle
  /\ u.fight = s.fight /\ u.left = s.left /\ u.match = s.match

\* ra_out_que finds its client, takes him out, and leaves the others as they are.
LEMMA OutOfLine ==
  ASSUME NEW s \in ArenaState, RaPlaces(s), NEW p \in RaClient, s.pt[p] = "raQue"
  PROVE  LET u == ra_out_que(s, p) IN
         /\ u \in ArenaState /\ RaPlaces(u) /\ SameFight(s, u)
         /\ u.pt = [s.pt EXCEPT ![p] = "raNone"] /\ NoneOvertakes(s.que, u.que)
         /\ \A i \in 1 .. Len(s.que) : s.que[i] = p => u.que = Cut(s.que, i)
<1> DEFINE i == CHOOSE j \in 1 .. Len(s.que) : s.que[j] = p
           r == Cut(s.que, i)
           f == [s.pt EXCEPT ![p] = "raNone"]
           u == ra_out_que(s, p)
<1>1. s.que \in Seq(RaClient) /\ s.pt \in [RaClient -> RaRole] /\ Once(s.que)
  BY DEF ArenaState, RaPlaces
<1>2. i \in 1 .. Len(s.que) /\ s.que[i] = p
  <2>1. \E j \in 1 .. Len(s.que) : s.que[j] = p
    BY DEF RaPlaces, Among
  <2>2. QED BY <2>1
<1>3. u = [s EXCEPT !.que = r, !.pt = f]
  BY DEF ra_out_que, Cut, ArenaState
<1> HIDE DEF i
<1>4. /\ r \in Seq(RaClient) /\ Once(r)
      /\ \A c : Among(r, c) <=> c # p /\ Among(s.que, c)
      /\ NoneOvertakes(s.que, r)
  BY <1>1, <1>2, CutLine
<1>5. f \in [RaClient -> RaRole] /\ f[p] = "raNone" /\ \A c \in RaClient : c # p => f[c] = s.pt[c]
  BY <1>1 DEF RaRole
<1>6. \A j \in 1 .. Len(s.que) : s.que[j] = p => r = Cut(s.que, j)
  BY <1>1, <1>2 DEF Once
<1>7. f = [s.pt EXCEPT ![p] = "raNone"]
  OBVIOUS
<1> HIDE DEF r, f
<1>8. u \in ArenaState /\ SameFight(s, u) /\ u.que = r /\ u.pt = f
  BY <1>3, <1>4, <1>5 DEF ArenaState, SameFight
<1> HIDE DEF u
<1>9. RaPlaces(u)
  <2>1. \A c \in RaClient : u.pt[c] = "raQue" <=> Among(u.que, c)
    BY <1>4, <1>5, <1>8 DEF RaPlaces
  <2>2. \A c \in RaClient : u.pt[c] # "raNone" => c \in u.here
    BY <1>5, <1>8 DEF RaPlaces, SameFight
  <2>3. \A c, d \in RaClient : u.pt[c] \in FightRole /\ u.pt[c] = u.pt[d] => c = d
    BY <1>5, <1>8 DEF RaPlaces, FightRole
  <2>4. QED BY <1>4, <1>8, <2>1, <2>2, <2>3 DEF RaPlaces
<1>10. QED
  BY <1>4, <1>6, <1>7, <1>8, <1>9 DEF u

\* ra_in_que puts a client who is not in line behind everybody.
LEMMA IntoLine ==
  ASSUME NEW s \in ArenaState, RaPlaces(s), NEW p \in s.here, s.pt[p] # "raQue"
  PROVE  LET u == ra_in_que(s, p) IN
         /\ u \in ArenaState /\ RaPlaces(u) /\ SameFight(s, u)
         /\ u.pt = [s.pt EXCEPT ![p] = "raQue"] /\ NoneOvertakes(s.que, u.que)
<1> DEFINE r == Append(s.que, p)
           f == [s.pt EXCEPT ![p] = "raQue"]
           u == ra_in_que(s, p)
<1>1. /\ s.que \in Seq(RaClient) /\ s.pt \in [RaClient -> RaRole] /\ Once(s.que)
      /\ p \in RaClient /\ ~Among(s.que, p)
  BY DEF ArenaState, RaPlaces
<1>2. /\ r \in Seq(RaClient) /\ Once(r)
      /\ \A c : Among(r, c) <=> c = p \/ Among(s.que, c)
      /\ NoneOvertakes(s.que, r)
  BY <1>1, AppendLine
<1>3. f \in [RaClient -> RaRole] /\ f[p] = "raQue" /\ \A c \in RaClient : c # p => f[c] = s.pt[c]
  BY <1>1 DEF RaRole
<1>4. u = [s EXCEPT !.que = r, !.pt = f] /\ f = [s.pt EXCEPT ![p] = "raQue"]
  BY DEF ra_in_que, ArenaState
<1> HIDE DEF r, f
<1>5. u \in ArenaState /\ SameFight(s, u) /\ u.que = r /\ u.pt = f
  BY <1>2, <1>3, <1>4 DEF ArenaState, SameFight
<1> HIDE DEF u
<1>6. RaPlaces(u)
  <2>1. \A c \in RaClient : u.pt[c] = "raQue" <=> Among(u.que, c)
    BY <1>2, <1>3, <1>5 DEF RaPlaces
  <2>2. \A c \in RaClient : u.pt[c] # "raNone" => c \in u.here
    BY <1>3, <1>5 DEF RaPlaces, SameFight
  <2>3. \A c, d \in RaClient : u.pt[c] \in FightRole /\ u.pt[c] = u.pt[d] => c = d
    BY <1>3, <1>5 DEF RaPlaces, FightRole
  <2>4. QED BY <1>2, <1>5, <2>1, <2>2, <2>3 DEF RaPlaces
<1>7. QED
  BY <1>2, <1>4, <1>5, <1>6 DEF u

\* Who has a part is there: the two walks of arena.c find him.
LEMMA WhoFights ==
  ASSUME NEW s \in ArenaState, RaPlaces(s)
  PROVE  /\ \A p : p \in Fighters(s) <=> p \in RaClient /\ s.pt[p] \in FightRole
         /\ \A role \in FightRole : Having(s, role) = {p \in RaClient : s.pt[p] = role}
         /\ \A p \in Fighters(s) : ~Among(s.que, p)
<1>1. \A p \in RaClient : s.pt[p] \in FightRole => p \in s.here /\ s.pt[p] # "raQue"
  BY DEF RaPlaces, FightRole
<1>2. s.here \subseteq RaClient
  BY DEF ArenaState
<1>3. QED
  BY <1>1, <1>2 DEF Fighters, Having, FightRole, RaPlaces

\* RaPlaces and parts do not depend on the fight.
LEMMA SamePlaces ==
  ASSUME NEW s, NEW u, RaPlaces(s), u.here = s.here, u.que = s.que, u.pt = s.pt
  PROVE  RaPlaces(u) /\ Fighters(u) = Fighters(s) /\ (HasBoth(u) <=> HasBoth(s))
BY DEF RaPlaces, Fighters, HasBoth, Having

\* Nobody fights.
Quiet(s) ==
  /\ s.match # 3 /\ s.fight # 2 /\ s.hurt = {} /\ s.dead \cap Fighters(s) = {}
  /\ s.fight # 0 => s.match = 2

LEMMA QuietIsPeace ==
  ASSUME NEW s \in ArenaState, RaPlaces(s), Quiet(s)
  PROVE  Orderly(s)
BY DEF Quiet, Peace, Orderly

\* Who leaves the line for a part was ahead of all who stay in it.
Advances(s, u) ==
  /\ \A c : Among(u.que, c) => Among(s.que, c)
  /\ NoneOvertakes(s.que, u.que)
  /\ \A c \in Fighters(u) : c \in Fighters(s) \/ Among(s.que, c)
  /\ \A p, q \in RaClient : Behind(s, p, q) /\ q \in Fighters(u) => ~Among(u.que, p)

\* The claim of LineKeepsOrder about one step.
FairLine(s, u) ==
  \A p, q \in RaClient :
     Behind(s, p, q) => /\ ~Behind(u, q, p)
                        /\ q \in Fighters(u) => p \notin u.here \/ u.pt[p] # "raQue"

\* Nobody is ahead of and behind another one.
LEMMA OneOrder ==
  ASSUME NEW s, Once(s.que), NEW p, NEW q, Behind(s, p, q)
  PROVE  ~Behind(s, q, p) /\ Among(s.que, p) /\ Among(s.que, q)
<1>1. PICK i, j \in 1 .. Len(s.que) : i < j /\ s.que[i] = p /\ s.que[j] = q
  BY DEF Behind
<1>2. ASSUME Behind(s, q, p) PROVE FALSE
  <2>1. PICK k, l \in 1 .. Len(s.que) : k < l /\ s.que[k] = q /\ s.que[l] = p
    BY <1>2 DEF Behind
  <2>2. k = j /\ l = i
    BY <1>1, <2>1 DEF Once
  <2>3. QED BY <1>1, <2>1, <2>2
<1>3. QED BY <1>1, <1>2 DEF Among

LEMMA BehindBefore ==
  ASSUME NEW s, NEW u, NoneOvertakes(s.que, u.que), NEW p, NEW q, Behind(u, q, p), Among(s.que, p)
  PROVE  Behind(s, q, p)
<1>1. PICK i, j \in 1 .. Len(u.que) : i < j /\ u.que[i] = q /\ u.que[j] = p
  BY DEF Behind
<1>2. \E m, n \in 1 .. Len(s.que) : m < n /\ s.que[m] = u.que[i] /\ s.que[n] = u.que[j]
  BY <1>1 DEF NoneOvertakes
<1>3. QED BY <1>1, <1>2 DEF Behind

\* A step in which nobody gets a part is fair if nobody overtakes.
LEMMA FairWithoutParts ==
  ASSUME NEW s \in ArenaState, NEW u \in ArenaState, RaPlaces(s), NoneOvertakes(s.que, u.que),
         \A q \in Fighters(u) : ~Among(s.que, q)
  PROVE  FairLine(s, u)
<1> SUFFICES ASSUME NEW p \in RaClient, NEW q \in RaClient, Behind(s, p, q)
             PROVE  ~Behind(u, q, p) /\ q \notin Fighters(u)
  BY DEF FairLine
<1>1. ~Behind(s, q, p) /\ Among(s.que, p) /\ Among(s.que, q)
  BY OneOrder DEF RaPlaces
<1>2. ~Behind(u, q, p)
  BY <1>1, BehindBefore
<1>3. QED BY <1>1, <1>2

\* Who advances in one line and then in the next one advances.
LEMMA AdvancesTwice ==
  ASSUME NEW s \in ArenaState, NEW u \in ArenaState, NEW w \in ArenaState,
         RaPlaces(s), RaPlaces(u), Advances(s, u), Advances(u, w)
  PROVE  Advances(s, w)
<1>1. \A c : Among(w.que, c) => Among(u.que, c) /\ Among(s.que, c)
  BY DEF Advances
<1>2. NoneOvertakes(s.que, w.que)
  <2> SUFFICES ASSUME NEW k \in 1 .. Len(w.que), NEW l \in 1 .. Len(w.que), k < l
               PROVE  \E m, n \in 1 .. Len(s.que) : m < n /\ s.que[m] = w.que[k] /\ s.que[n] = w.que[l]
    BY DEF NoneOvertakes
  <2>1. Among(w.que, w.que[l])
    BY DEF Among
  <2>2. Among(u.que, w.que[l]) /\ Among(s.que, w.que[l])
    BY <1>1, <2>1
  <2>3. PICK i, j \in 1 .. Len(u.que) : i < j /\ u.que[i] = w.que[k] /\ u.que[j] = w.que[l]
    BY <2>2 DEF Advances, NoneOvertakes
  <2>4. QED
    BY <2>2, <2>3 DEF Advances, NoneOvertakes
<1>3. \A c \in Fighters(w) : c \in Fighters(s) \/ Among(s.que, c)
  BY DEF Advances
<1>4. ASSUME NEW p \in RaClient, NEW q \in RaClient, Behind(s, p, q), q \in Fighters(w), Among(w.que, p)
      PROVE  FALSE
  <2>1. Among(u.que, p) /\ q \notin Fighters(u)
    BY <1>1, <1>4 DEF Advances
  <2>2. Among(u.que, q)
    BY <1>4, <2>1 DEF Advances
  <2>3. ~Behind(u, p, q)
    BY <1>4 DEF Advances
  <2>4. PICK i \in 1 .. Len(u.que), j \in 1 .. Len(u.que) : u.que[i] = p /\ u.que[j] = q
    BY <2>1, <2>2 DEF Among
  <2>5. i \in Nat /\ j \in Nat
    OBVIOUS
  <2>6. i # j
    BY <1>4, <2>4, OneOrder DEF RaPlaces
  <2>7. Behind(u, q, p)
    BY <2>3, <2>4, <2>5, <2>6 DEF Behind
  <2>8. Behind(s, q, p)
    <3>1. Among(s.que, p)
      BY <1>4, OneOrder DEF RaPlaces
    <3>2. NoneOvertakes(s.que, u.que)
      BY DEF Advances
    <3>3. QED BY <2>7, <3>1, <3>2, BehindBefore
  <2>9. QED
    BY <1>4, <2>8, OneOrder DEF RaPlaces
<1>5. QED
  BY <1>1, <1>2, <1>3, <1>4 DEF Advances

LEMMA AdvancingIsFair ==
  ASSUME NEW s \in ArenaState, NEW u \in ArenaState, RaPlaces(s), RaPlaces(u), Advances(s, u)
  PROVE  FairLine(s, u)
<1> SUFFICES ASSUME NEW p \in RaClient, NEW q \in RaClient, Behind(s, p, q)
             PROVE  ~Behind(u, q, p) /\ (q \in Fighters(u) => u.pt[p] # "raQue")
  BY DEF FairLine
<1>1. ~Behind(s, q, p) /\ Among(s.que, p)
  BY OneOrder DEF RaPlaces
<1>2. ~Behind(u, q, p)
  <2>1. NoneOvertakes(s.que, u.que)
    BY DEF Advances
  <2>2. QED BY <1>1, <2>1, BehindBefore
<1>3. q \in Fighters(u) => u.pt[p] # "raQue"
  BY DEF Advances, RaPlaces
<1>4. QED BY <1>2, <1>3

-----------------------------------------------------------------------------
(***************************************************************************)
(* ra_Frame.                                                               *)
(***************************************************************************)
LEMMA RaNumbers ==
  /\ {0, 1, 2} \subseteq RaFightNo /\ {0, 1, 2, 3} \subseteq MatchNo /\ {0, ReadyTime} \subseteq ClockNo
  /\ \A n \in ClockNo : n > 0 => n - 1 \in ClockNo
BY ReadyTimeAssumption DEF RaFightNo, MatchNo, ClockNo

\* What a change of some fields leaves as it was.
WithParts(s, f, h, d, e) == [s EXCEPT !.pt = f, !.hurt = h, !.dead = d, !.idle = e]
WithClock(s, n, l) == [s EXCEPT !.fight = n, !.left = l]

LEMMA NewParts ==
  ASSUME NEW s \in ArenaState, NEW f \in [RaClient -> RaRole],
         NEW h \in SUBSET RaClient, NEW d \in SUBSET RaClient, NEW e \in SUBSET RaClient
  PROVE  LET u == WithParts(s, f, h, d, e) IN
         /\ u \in ArenaState /\ u.here = s.here /\ u.que = s.que /\ u.pt = f /\ u.hurt = h /\ u.dead = d
         /\ u.fight = s.fight /\ u.left = s.left /\ u.match = s.match
BY DEF ArenaState, WithParts

LEMMA NewClock ==
  ASSUME NEW s \in ArenaState, NEW n \in RaFightNo, NEW l \in ClockNo
  PROVE  LET u == WithClock(s, n, l) IN
         /\ u \in ArenaState /\ u.here = s.here /\ u.que = s.que /\ u.pt = s.pt /\ u.hurt = s.hurt
         /\ u.dead = s.dead /\ u.fight = n /\ u.match = s.match
BY DEF ArenaState, WithClock

LEMMA RolesAreRoles == FightRole \subseteq RaRole /\ "raQue" \notin FightRole /\ "raNone" \notin FightRole
BY DEF FightRole, RaRole

LEMMA NothingAdvances ==
  ASSUME NEW s \in ArenaState, RaPlaces(s), NEW u, u.que = s.que, Fighters(u) = Fighters(s)
  PROVE  Advances(s, u)
<1>1. NoneOvertakes(s.que, u.que)
  BY DEF NoneOvertakes
<1>2. ASSUME NEW p \in RaClient, NEW q \in RaClient, Behind(s, p, q), q \in Fighters(u)
      PROVE  FALSE
  <2>1. Among(s.que, q)
    BY <1>2, OneOrder DEF RaPlaces
  <2>2. QED BY <1>2, <2>1, WhoFights
<1>3. QED BY <1>1, <1>2 DEF Advances

\* The first in line gets a part that nobody plays, and is safe and alive.
LEMMA FillStep ==
  ASSUME NEW s \in ArenaState, RaPlaces(s), Quiet(s), NEW role \in FightRole
  PROVE  LET u == Fill(s, role) IN
         u \in ArenaState /\ RaPlaces(u) /\ Quiet(u) /\ Advances(s, u)
<1> DEFINE u == Fill(s, role)
           p == Head(s.que)
           v == ra_out_que(s, p)
           f == [v.pt EXCEPT ![p] = role]
           h == v.hurt \ {p}
           d == v.dead \ {p}
           e == v.idle \ {p}
<1>1. CASE ~(Having(s, role) = {} /\ s.que # <<>>)
  <2>1. u = s
    BY <1>1 DEF Fill
  <2>2. QED BY <2>1, NothingAdvances
<1>2. CASE Having(s, role) = {} /\ s.que # <<>>
  <2>1. 1 \in 1 .. Len(s.que) /\ s.que[1] = p /\ p \in RaClient
    BY <1>2 DEF ArenaState
  <2>2. s.pt[p] = "raQue"
    BY <2>1 DEF RaPlaces, Among
  <2>3. /\ v \in ArenaState /\ RaPlaces(v) /\ SameFight(s, v)
        /\ v.pt = [s.pt EXCEPT ![p] = "raNone"] /\ NoneOvertakes(s.que, v.que)
    BY <2>1, <2>2, OutOfLine
  <2>4. u = RaPutClientInServer([v EXCEPT !.pt[p] = role], p)
    BY <1>2 DEF Fill
  <2> HIDE DEF v
  <2>5. u = WithParts(v, f, h, d, e)
    BY <2>3, <2>4 DEF RaPutClientInServer, ArenaState, WithParts
  <2>6. /\ f \in [RaClient -> RaRole] /\ f[p] = role
        /\ \A c \in RaClient : c # p => f[c] = s.pt[c]
    <3>1. s.pt \in [RaClient -> RaRole] /\ v.pt \in [RaClient -> RaRole] /\ role \in RaRole
      BY <2>3, RolesAreRoles DEF ArenaState
    <3>2. QED BY <2>1, <2>3, <3>1
  <2>15. /\ h = s.hurt \ {p} /\ d = s.dead \ {p}
         /\ h \in SUBSET RaClient /\ d \in SUBSET RaClient /\ e \in SUBSET RaClient
    BY <2>3 DEF ArenaState, SameFight
  <2> HIDE DEF f, p, h, d, e
  <2>7. /\ u \in ArenaState /\ u.here = s.here /\ u.que = v.que /\ u.pt = f
        /\ u.hurt = s.hurt \ {p} /\ u.dead = s.dead \ {p}
        /\ u.fight = s.fight /\ u.match = s.match
    <3>1. u.here = v.here /\ u.fight = v.fight /\ u.match = v.match
      BY <2>3, <2>5, <2>6, <2>15, NewParts
    <3>2. u \in ArenaState /\ u.que = v.que /\ u.pt = f /\ u.hurt = h /\ u.dead = d
      BY <2>3, <2>5, <2>6, <2>15, NewParts
    <3>3. v.here = s.here /\ v.fight = s.fight /\ v.match = s.match
      BY <2>3 DEF SameFight
    <3>4. QED BY <2>15, <3>1, <3>2, <3>3
  <2> HIDE DEF u
  <2>8. \A c \in RaClient : s.pt[c] # role
    BY <1>2, WhoFights
  <2>9. v.pt[p] = "raNone" /\ \A c \in RaClient : c # p => v.pt[c] = s.pt[c]
    BY <2>1, <2>3 DEF ArenaState
  <2>10. RaPlaces(u)
    <3>1. \A c \in RaClient : u.pt[c] = "raQue" <=> Among(u.que, c)
      BY <2>3, <2>6, <2>7, <2>9, RolesAreRoles DEF RaPlaces
    <3>2. \A c \in RaClient : u.pt[c] # "raNone" => c \in u.here
      BY <2>2, <2>6, <2>7 DEF RaPlaces
    <3>3. \A c, b \in RaClient : u.pt[c] \in FightRole /\ u.pt[c] = u.pt[b] => c = b
      BY <2>6, <2>7, <2>8 DEF RaPlaces
    <3>4. QED BY <2>3, <2>7, <3>1, <3>2, <3>3 DEF RaPlaces
  <2>11. \A c : c \in Fighters(u) <=> c = p \/ c \in Fighters(s)
    <3>1. \A c : c \in Fighters(u) <=> c \in RaClient /\ u.pt[c] \in FightRole
      BY <2>7, <2>10, WhoFights
    <3>2. \A c : c \in Fighters(s) <=> c \in RaClient /\ s.pt[c] \in FightRole
      BY WhoFights
    <3>3. QED BY <2>1, <2>2, <2>6, <2>7, <3>1, <3>2, RolesAreRoles
  <2>12. Quiet(u)
    BY <2>7, <2>11 DEF Quiet
  <2>13. Advances(s, u)
    <3>1. Among(s.que, p)
      BY <2>1 DEF Among
    <3>2. \A c : Among(u.que, c) => Among(s.que, c)
      <4> SUFFICES ASSUME NEW c, Among(v.que, c) PROVE Among(s.que, c)
        BY <2>7
      <4>1. c \in RaClient
        BY <2>3 DEF Among, ArenaState
      <4>2. v.pt[c] = "raQue"
        BY <2>3, <4>1 DEF RaPlaces
      <4>3. QED
        BY <2>9, <3>1, <4>1, <4>2 DEF RaPlaces
    <3>3. ASSUME NEW a \in RaClient, NEW b \in RaClient, Behind(s, a, b), b \in Fighters(u)
          PROVE  FALSE
      <4>1. PICK i, j \in 1 .. Len(s.que) : i < j /\ s.que[i] = a /\ s.que[j] = b
        BY <3>3 DEF Behind
      <4>2. b # p
        BY <2>1, <4>1 DEF RaPlaces, Once
      <4>3. b \in Fighters(s) /\ Among(s.que, b)
        BY <2>11, <3>3, <4>1, <4>2 DEF Among
      <4>4. QED BY <4>3, WhoFights
    <3>4. QED BY <2>3, <2>7, <2>11, <3>1, <3>2, <3>3 DEF Advances
  <2>14. QED BY <2>7, <2>10, <2>12, <2>13 DEF u
<1>3. QED BY <1>1, <1>2

\* A loser without a winner becomes the winner.
LEMMA PromoteStep ==
  ASSUME NEW s \in ArenaState, RaPlaces(s), Quiet(s)
  PROVE  LET u == Promote(s) IN
         u \in ArenaState /\ RaPlaces(u) /\ Quiet(u) /\ Advances(s, u)
<1> DEFINE u == Promote(s)
           f == [p \in RaClient |-> IF p \in Having(s, "raLoser") THEN "raWinner" ELSE s.pt[p]]
<1>1. CASE ~(Having(s, "raWinner") = {} /\ Having(s, "raLoser") # {})
  <2>1. u = s
    BY <1>1 DEF Promote
  <2>2. QED BY <2>1, NothingAdvances
<1>2. CASE Having(s, "raWinner") = {} /\ Having(s, "raLoser") # {}
  <2>1. u = [s EXCEPT !.pt = f]
    BY <1>2 DEF Promote, ArenaState
  <2>2. "raWinner" \in FightRole /\ "raLoser" \in FightRole /\ "raWinner" \in RaRole
    BY DEF FightRole, RaRole
  <2>3. \A p \in RaClient : f[p] = IF s.pt[p] = "raLoser" THEN "raWinner" ELSE s.pt[p]
    BY <2>2, WhoFights
  <2>4. f \in [RaClient -> RaRole]
    <3>1. \A p \in RaClient : s.pt[p] \in RaRole
      BY DEF ArenaState
    <3>2. QED BY <2>2, <3>1
  <2>5. \A p \in RaClient : s.pt[p] # "raWinner"
    BY <1>2, <2>2, WhoFights
  <2> HIDE DEF f
  <2>6. /\ u \in ArenaState /\ u.here = s.here /\ u.que = s.que /\ u.pt = f
        /\ u.hurt = s.hurt /\ u.dead = s.dead /\ u.fight = s.fight /\ u.match = s.match
    BY <2>1, <2>4 DEF ArenaState
  <2> HIDE DEF u
  <2>7. RaPlaces(u)
    <3>1. \A c \in RaClient : u.pt[c] = "raQue" <=> Among(u.que, c)
      BY <2>3, <2>6 DEF RaPlaces
    <3>2. \A c \in RaClient : u.pt[c] # "raNone" => c \in u.here
      BY <2>3, <2>6 DEF RaPlaces
    <3>3. \A c, d \in RaClient : u.pt[c] \in FightRole /\ u.pt[c] = u.pt[d] => c = d
      BY <2>2, <2>3, <2>5, <2>6 DEF RaPlaces
    <3>4. QED BY <2>6, <3>1, <3>2, <3>3 DEF RaPlaces
  <2>8. Fighters(u) = Fighters(s)
    <3>1. \A c : c \in Fighters(u) <=> c \in RaClient /\ u.pt[c] \in FightRole
      BY <2>6, <2>7, WhoFights
    <3>2. \A c : c \in Fighters(s) <=> c \in RaClient /\ s.pt[c] \in FightRole
      BY WhoFights
    <3>3. QED BY <2>2, <2>3, <2>6, <3>1, <3>2
  <2>9. Quiet(u)
    BY <2>6, <2>8 DEF Quiet
  <2>10. Advances(s, u)
    BY <2>6, <2>8, NothingAdvances
  <2>11. QED BY <2>6, <2>7, <2>9, <2>10 DEF u
<1>3. QED BY <1>1, <1>2

\* Who is there gets the two parts.
LEMMA CastStep ==
  ASSUME NEW s, Orderly(s), s.match # 3
  PROVE  LET u == Cast(s) IN
         /\ u \in ArenaState /\ RaPlaces(u) /\ Advances(s, u)
         /\ u = s \/ Quiet(u)
<1>1. s \in ArenaState /\ RaPlaces(s) /\ Peace(s)
  BY DEF Orderly
<1>2. CASE HasBoth(s)
  <2>1. Cast(s) = s
    BY <1>2 DEF Cast
  <2>2. QED BY <1>1, <2>1, NothingAdvances
<1>3. CASE ~HasBoth(s)
  <2> DEFINE a == [s EXCEPT !.fight = 0]
             b == Promote(a)
             c == Fill(b, "raWinner")
             d == Fill(c, "raLoser")
  <2>1. /\ a \in ArenaState /\ a.here = s.here /\ a.que = s.que /\ a.pt = s.pt
        /\ a.hurt = s.hurt /\ a.dead = s.dead /\ a.fight = 0 /\ a.match = s.match
    BY <1>1, RaNumbers DEF ArenaState
  <2>2. Cast(s) = d
    BY <1>3 DEF Cast
  <2>3. "raWinner" \in FightRole /\ "raLoser" \in FightRole
    BY DEF FightRole
  <2> HIDE DEF a
  <2>4. RaPlaces(a) /\ Fighters(a) = Fighters(s)
    BY <1>1, <2>1, SamePlaces
  <2>5. Quiet(a)
    BY <1>1, <1>3, <2>1, <2>4 DEF Quiet, Peace
  <2>6. Advances(s, a)
    BY <1>1, <2>1, <2>4, NothingAdvances
  <2>7. b \in ArenaState /\ RaPlaces(b) /\ Quiet(b) /\ Advances(a, b)
    BY <2>1, <2>4, <2>5, PromoteStep
  <2> HIDE DEF b
  <2>8. c \in ArenaState /\ RaPlaces(c) /\ Quiet(c) /\ Advances(b, c)
    BY <2>3, <2>7, FillStep
  <2> HIDE DEF c
  <2>9. d \in ArenaState /\ RaPlaces(d) /\ Quiet(d) /\ Advances(c, d)
    BY <2>3, <2>8, FillStep
  <2> HIDE DEF d
  <2>10. Advances(s, b)
    BY <1>1, <2>1, <2>4, <2>6, <2>7, AdvancesTwice
  <2>11. Advances(s, c)
    BY <1>1, <2>7, <2>8, <2>10, AdvancesTwice
  <2>12. Advances(s, d)
    BY <1>1, <2>8, <2>9, <2>11, AdvancesTwice
  <2>13. QED BY <2>2, <2>9, <2>12
<1>4. QED BY <1>2, <1>3

\* The clock runs when both parts are played, and lets them fight.
LEMMA FrameStep ==
  ASSUME ArenaInv, RaFrame
  PROVE  ArenaInv' /\ FairLine(ra, ra')
<1> DEFINE t == Cast(ra)
<1>1. ra.match # 3 /\ ra' = RaFrameOf(ra) /\ Orderly(ra)
  BY DEF RaFrame, ArenaInv
<1>2. t \in ArenaState /\ RaPlaces(t) /\ Advances(ra, t) /\ (t = ra \/ Quiet(t))
  BY <1>1, CastStep
<1>3. Orderly(t)
  BY <1>1, <1>2, QuietIsPeace
<1>4. ra' = IF ~HasBoth(t) \/ t.fight = 2 \/ t.match # 2 THEN t ELSE Fight(StartClock(t))
  BY <1>1 DEF RaFrameOf
<1> HIDE DEF t
<1>5. ra \in ArenaState /\ RaPlaces(ra)
  BY <1>1 DEF Orderly
<1>6. CASE ~HasBoth(t) \/ t.fight = 2 \/ t.match # 2
  BY <1>2, <1>3, <1>4, <1>5, <1>6, AdvancingIsFair DEF ArenaInv
<1>7. CASE HasBoth(t) /\ t.fight # 2 /\ t.match = 2
  <2> DEFINE a == StartClock(t)
             b == Fight(a)
             h == a.hurt \cup Fighters(a)
  <2>1. ra' = b
    BY <1>4, <1>7
  <2>2. /\ a \in ArenaState /\ a.here = t.here /\ a.que = t.que /\ a.pt = t.pt /\ a.hurt = t.hurt
        /\ a.dead = t.dead /\ a.match = 2 /\ a.fight # 2
    <3>1. 1 \in RaFightNo /\ ReadyTime \in ClockNo
      BY RaNumbers
    <3>2. CASE t.fight = 0
      <4>1. a = WithClock(t, 1, ReadyTime)
        BY <3>2 DEF StartClock, WithClock
      <4>2. QED BY <1>2, <1>7, <3>1, <4>1, NewClock
    <3>3. CASE t.fight # 0
      BY <1>2, <1>7, <3>3 DEF StartClock
    <3>4. QED BY <3>2, <3>3
  <2> HIDE DEF a
  <2>3. Fighters(a) = Fighters(t) /\ HasBoth(a) /\ RaPlaces(a)
    BY <1>2, <1>7, <2>2, SamePlaces
  <2>4. Fighters(a) \subseteq RaClient
    BY <2>2 DEF Fighters, Having, ArenaState
  <2>5. h \in SUBSET RaClient
    BY <2>2, <2>4 DEF ArenaState
  <2>6. b = IF a.left = 0 THEN [a EXCEPT !.fight = 2, !.hurt = h] ELSE a
    BY <2>2 DEF Fight, ArenaState
  <2>7. h = Fighters(a)
    BY <1>3, <1>7, <2>2 DEF Orderly, Peace
  <2> HIDE DEF h
  <2>8. /\ b \in ArenaState /\ b.here = a.here /\ b.que = a.que /\ b.pt = a.pt
        /\ b.dead = a.dead /\ b.match = 2
        /\ (b.fight = 2 /\ b.hurt = h) \/ (b.fight # 2 /\ b.hurt = a.hurt)
    <3>1. 2 \in RaFightNo
      BY RaNumbers
    <3>2. CASE a.left = 0
      BY <2>2, <2>5, <2>6, <3>1, <3>2 DEF ArenaState
    <3>3. CASE a.left # 0
      BY <2>2, <2>6, <3>3
    <3>4. QED BY <3>2, <3>3
  <2> HIDE DEF b
  <2>9. RaPlaces(b) /\ Fighters(b) = Fighters(t) /\ HasBoth(b)
    BY <2>3, <2>8, SamePlaces
  <2>10. Peace(b)
    BY <1>3, <1>7, <2>2, <2>3, <2>7, <2>8, <2>9 DEF Peace, Orderly
  <2>11. Advances(ra, b)
    BY <1>2, <2>2, <2>8, <2>9 DEF Advances
  <2>12. QED
    BY <1>5, <2>1, <2>8, <2>9, <2>10, <2>11, AdvancingIsFair DEF ArenaInv, Orderly
<1>8. QED BY <1>6, <1>7

-----------------------------------------------------------------------------
(***************************************************************************)
(* Clients come, go, take a break, die and respawn.                        *)
(***************************************************************************)
\* Who has a part keeps it, and nobody gets one.
LEMMA SameParts ==
  ASSUME NEW s \in ArenaState, NEW u \in ArenaState, RaPlaces(s), RaPlaces(u),
         \A c \in RaClient : s.pt[c] \in FightRole \/ u.pt[c] \in FightRole => u.pt[c] = s.pt[c]
  PROVE  Fighters(u) = Fighters(s) /\ (HasBoth(u) <=> HasBoth(s))
<1>1. /\ \A c : c \in Fighters(s) <=> c \in RaClient /\ s.pt[c] \in FightRole
      /\ \A role \in FightRole : Having(s, role) = {c \in RaClient : s.pt[c] = role}
  BY WhoFights
<1>2. /\ \A c : c \in Fighters(u) <=> c \in RaClient /\ u.pt[c] \in FightRole
      /\ \A role \in FightRole : Having(u, role) = {c \in RaClient : u.pt[c] = role}
  BY WhoFights
<1>3. Fighters(u) = Fighters(s)
  BY <1>1, <1>2
<1>4. \A role \in FightRole : Having(u, role) = Having(s, role)
  <2> SUFFICES ASSUME NEW role \in FightRole PROVE Having(u, role) = Having(s, role)
    OBVIOUS
  <2>1. \A c \in RaClient : u.pt[c] = role <=> s.pt[c] = role
    OBVIOUS
  <2>2. QED BY <1>1, <1>2, <2>1
<1>5. "raWinner" \in FightRole /\ "raLoser" \in FightRole
  BY DEF FightRole
<1>6. QED BY <1>3, <1>4, <1>5 DEF HasBoth

\* PutClientInServer disarms and revives the client, and does nothing else.
LEMMA PutClient ==
  ASSUME NEW s \in ArenaState, NEW p
  PROVE  LET u == RaPutClientInServer(s, p) IN
         /\ u \in ArenaState /\ u.here = s.here /\ u.que = s.que /\ u.pt = s.pt
         /\ u.hurt = s.hurt \ {p} /\ u.dead = s.dead \ {p}
         /\ u.fight = s.fight /\ u.match = s.match
<1> DEFINE h == s.hurt \ {p}
           d == s.dead \ {p}
           e == s.idle \ {p}
           u == RaPutClientInServer(s, p)
<1>1. h \in SUBSET RaClient /\ d \in SUBSET RaClient /\ e \in SUBSET RaClient
  BY DEF ArenaState
<1>2. u = [s EXCEPT !.hurt = h, !.dead = d, !.idle = e]
  BY DEF RaPutClientInServer, ArenaState
<1>3. h = s.hurt \ {p} /\ d = s.dead \ {p}
  OBVIOUS
<1> HIDE DEF h, d, e
<1>4. QED BY <1>1, <1>2, <1>3 DEF ArenaState

LEMMA WithHere ==
  ASSUME NEW s \in ArenaState, NEW a \in SUBSET RaClient
  PROVE  LET u == [s EXCEPT !.here = a] IN
         u \in ArenaState /\ u.here = a /\ u.que = s.que /\ u.pt = s.pt /\ u.hurt = s.hurt
         /\ u.dead = s.dead /\ u.fight = s.fight /\ u.match = s.match
BY DEF ArenaState

\* Whom the fight does not concern may come, go and change in line.
LEMMA FightGoesOn ==
  ASSUME NEW s, NEW u \in ArenaState, Orderly(s), RaPlaces(u),
         NoneOvertakes(s.que, u.que), u.match = s.match, u.fight = s.fight,
         \A c \in RaClient : s.pt[c] \in FightRole \/ u.pt[c] \in FightRole => u.pt[c] = s.pt[c],
         s.hurt \cap Fighters(s) \subseteq u.hurt, u.hurt \subseteq s.hurt, u.dead \subseteq s.dead
  PROVE  Orderly(u) /\ FairLine(s, u)
<1>1. s \in ArenaState /\ RaPlaces(s) /\ Peace(s)
  BY DEF Orderly
<1>2. Fighters(u) = Fighters(s) /\ (HasBoth(u) <=> HasBoth(s))
  BY <1>1, SameParts
<1>3. Peace(u)
  BY <1>1, <1>2 DEF Peace
<1>4. \A q \in Fighters(u) : ~Among(s.que, q)
  BY <1>1, <1>2, WhoFights
<1>5. QED
  BY <1>1, <1>3, <1>4, FairWithoutParts DEF Orderly

LEMMA ConnectStep ==
  ASSUME ArenaInv, NEW p \in RaClient, RaConnect(p)
  PROVE  ArenaInv' /\ FairLine(ra, ra')
<1> DEFINE a == ra.here \cup {p}
           s == [ra EXCEPT !.here = a]
           t == ra_in_que(s, p)
<1>1. ra \in ArenaState /\ RaPlaces(ra) /\ Orderly(ra)
  BY DEF ArenaInv, Orderly
<1>2. p \notin ra.here /\ ra' = RaPutClientInServer(t, p)
  BY <1>1 DEF RaConnect, ArenaState
<1>3. ra.pt[p] = "raNone"
  BY <1>1, <1>2 DEF RaPlaces
<1>4. a \in SUBSET RaClient /\ p \in a /\ ra.here \subseteq a
  BY <1>1 DEF ArenaState
<1> HIDE DEF a
<1>5. /\ s \in ArenaState /\ s.here = a /\ s.que = ra.que /\ s.pt = ra.pt /\ s.hurt = ra.hurt
      /\ s.dead = ra.dead /\ s.fight = ra.fight /\ s.match = ra.match
  BY <1>1, <1>4, WithHere
<1> HIDE DEF s
<1>6. RaPlaces(s)
  BY <1>1, <1>4, <1>5 DEF RaPlaces
<1>7. /\ t \in ArenaState /\ RaPlaces(t) /\ SameFight(s, t)
      /\ t.pt = [s.pt EXCEPT ![p] = "raQue"] /\ NoneOvertakes(s.que, t.que)
  BY <1>3, <1>4, <1>5, <1>6, IntoLine
<1> HIDE DEF t
<1>8. /\ ra' \in ArenaState /\ ra'.here = t.here /\ ra'.que = t.que /\ ra'.pt = t.pt
      /\ ra'.hurt = t.hurt \ {p} /\ ra'.dead = t.dead \ {p}
      /\ ra'.fight = t.fight /\ ra'.match = t.match
  BY <1>2, <1>7, PutClient
<1>9. RaPlaces(ra')
  BY <1>7, <1>8, SamePlaces
<1>10. \A c \in RaClient : ra.pt[c] \in FightRole \/ ra'.pt[c] \in FightRole => ra'.pt[c] = ra.pt[c]
  <2>1. \A c \in RaClient : ra'.pt[c] = IF c = p THEN "raQue" ELSE ra.pt[c]
    BY <1>5, <1>7, <1>8 DEF ArenaState
  <2>2. QED BY <1>3, <2>1, RolesAreRoles
<1>11. p \notin Fighters(ra)
  BY <1>1, <1>3, WhoFights, RolesAreRoles
<1>12. Orderly(ra') /\ FairLine(ra, ra')
  BY <1>1, <1>5, <1>7, <1>8, <1>9, <1>10, <1>11, FightGoesOn DEF SameFight
<1>13. QED BY <1>12 DEF ArenaInv

LEMMA WithIdle ==
  ASSUME NEW s \in ArenaState, NEW e \in SUBSET RaClient
  PROVE  LET u == [s EXCEPT !.idle = e] IN
         u \in ArenaState /\ u.here = s.here /\ u.que = s.que /\ u.pt = s.pt /\ u.hurt = s.hurt
         /\ u.dead = s.dead /\ u.fight = s.fight /\ u.match = s.match
BY DEF ArenaState

LEMMA SameLine == \A q : NoneOvertakes(q, q)
BY DEF NoneOvertakes

LEMMA BreakStep ==
  ASSUME ArenaInv, NEW p \in RaClient, RaBreak(p)
  PROVE  ArenaInv' /\ FairLine(ra, ra')
<1>1. ra \in ArenaState /\ RaPlaces(ra) /\ Orderly(ra)
  BY DEF ArenaInv, Orderly
<1>2. p \in ra.here /\ p \notin Fighters(ra)
  BY DEF RaBreak, RaMayBreak
<1>3. ra.pt[p] \notin FightRole
  BY <1>1, <1>2, WhoFights
<1>4. ASSUME NEW t \in ArenaState, RaPlaces(t), SameFight(ra, t), NoneOvertakes(ra.que, t.que),
             NEW x \in {"raNone", "raQue"}, t.pt = [ra.pt EXCEPT ![p] = x],
             NEW e \in SUBSET RaClient, ra' = [t EXCEPT !.idle = e]
      PROVE  ArenaInv' /\ FairLine(ra, ra')
  <2>1. /\ ra' \in ArenaState /\ ra'.here = t.here /\ ra'.que = t.que /\ ra'.pt = t.pt
        /\ ra'.hurt = t.hurt /\ ra'.dead = t.dead /\ ra'.fight = t.fight /\ ra'.match = t.match
    BY <1>4, WithIdle
  <2>2. RaPlaces(ra')
    BY <1>4, <2>1, SamePlaces
  <2>3. \A c \in RaClient : ra'.pt[c] = IF c = p THEN x ELSE ra.pt[c]
    BY <1>1, <1>4, <2>1 DEF ArenaState
  <2>4. \A c \in RaClient : ra.pt[c] \in FightRole \/ ra'.pt[c] \in FightRole => ra'.pt[c] = ra.pt[c]
    BY <1>3, <2>3, RolesAreRoles
  <2>5. Orderly(ra') /\ FairLine(ra, ra')
    BY <1>1, <1>4, <2>1, <2>2, <2>4, FightGoesOn DEF SameFight
  <2>6. QED BY <2>5 DEF ArenaInv
<1>5. InLine(ra, p) <=> ra.pt[p] = "raQue"
  BY <1>1 DEF InLine, RaPlaces, Among
<1>6. CASE ra.pt[p] = "raQue"
  <2> DEFINE t == ra_out_que(ra, p)
             e == t.idle \cup {p}
  <2>1. /\ t \in ArenaState /\ RaPlaces(t) /\ SameFight(ra, t)
        /\ t.pt = [ra.pt EXCEPT ![p] = "raNone"] /\ NoneOvertakes(ra.que, t.que)
    BY <1>1, <1>6, OutOfLine
  <2>2. ra' = [t EXCEPT !.idle = t.idle \cup {p}]
    BY <1>5, <1>6 DEF RaBreak
  <2> HIDE DEF t
  <2>3. e \in SUBSET RaClient /\ ra' = [t EXCEPT !.idle = e]
    BY <2>1, <2>2 DEF ArenaState
  <2> HIDE DEF e
  <2>4. QED BY <1>4, <2>1, <2>3
<1>7. CASE ra.pt[p] # "raQue"
  <2> DEFINE t == ra_in_que(ra, p)
             e == t.idle \ {p}
  <2>1. /\ t \in ArenaState /\ RaPlaces(t) /\ SameFight(ra, t)
        /\ t.pt = [ra.pt EXCEPT ![p] = "raQue"] /\ NoneOvertakes(ra.que, t.que)
    BY <1>1, <1>2, <1>7, IntoLine
  <2>2. ra' = [t EXCEPT !.idle = t.idle \ {p}]
    BY <1>5, <1>7 DEF RaBreak
  <2> HIDE DEF t
  <2>3. e \in SUBSET RaClient /\ ra' = [t EXCEPT !.idle = e]
    BY <2>1, <2>2 DEF ArenaState
  <2> HIDE DEF e
  <2>4. QED BY <1>4, <2>1, <2>3
<1>8. QED BY <1>6, <1>7

LEMMA BreakEndsStep ==
  ASSUME ArenaInv, NEW p \in RaClient, RaBreakEnds(p)
  PROVE  ArenaInv' /\ FairLine(ra, ra')
<1> DEFINE e == ra.idle \ {p}
<1>1. ra \in ArenaState /\ RaPlaces(ra) /\ Orderly(ra)
  BY DEF ArenaInv, Orderly
<1>2. e \in SUBSET RaClient /\ ra' = [ra EXCEPT !.idle = e]
  BY <1>1 DEF RaBreakEnds, ArenaState
<1> HIDE DEF e
<1>3. /\ ra' \in ArenaState /\ ra'.here = ra.here /\ ra'.que = ra.que /\ ra'.pt = ra.pt
      /\ ra'.hurt = ra.hurt /\ ra'.dead = ra.dead /\ ra'.fight = ra.fight /\ ra'.match = ra.match
  BY <1>1, <1>2, WithIdle
<1>4. RaPlaces(ra') /\ NoneOvertakes(ra.que, ra'.que)
  BY <1>1, <1>3, SamePlaces, SameLine
<1>5. Orderly(ra') /\ FairLine(ra, ra')
  BY <1>1, <1>3, <1>4, FightGoesOn
<1>6. QED BY <1>5 DEF ArenaInv

LEMMA RespawnStep ==
  ASSUME ArenaInv, NEW p \in RaClient, RaRespawn(p)
  PROVE  ArenaInv' /\ FairLine(ra, ra')
<1>1. ra \in ArenaState /\ RaPlaces(ra) /\ Peace(ra) /\ Orderly(ra)
  BY DEF ArenaInv, Orderly
<1>2. p \in ra.dead /\ ra' = RaPutClientInServer(ra, p)
  BY DEF RaRespawn
<1>3. /\ ra' \in ArenaState /\ ra'.here = ra.here /\ ra'.que = ra.que /\ ra'.pt = ra.pt
      /\ ra'.hurt = ra.hurt \ {p} /\ ra'.dead = ra.dead \ {p}
      /\ ra'.fight = ra.fight /\ ra'.match = ra.match
  BY <1>1, <1>2, PutClient
<1>4. RaPlaces(ra') /\ Fighters(ra') = Fighters(ra) /\ (HasBoth(ra') <=> HasBoth(ra))
  BY <1>1, <1>3, SamePlaces
<1>5. Peace(ra')
  BY <1>1, <1>2, <1>3, <1>4 DEF Peace
<1>6. FairLine(ra, ra')
  <2>1. NoneOvertakes(ra.que, ra'.que) /\ \A q \in Fighters(ra') : ~Among(ra.que, q)
    BY <1>1, <1>3, <1>4, SameLine, WhoFights
  <2>2. QED BY <1>1, <1>3, <2>1, FairWithoutParts
<1>7. QED BY <1>3, <1>4, <1>5, <1>6 DEF ArenaInv, Orderly

\* RaLeaves ends the fight of the winner and the loser, and disarms the other one.
LEMMA LeavesStep ==
  ASSUME NEW s \in ArenaState, NEW p
  PROVE  LET u == RaLeaves(s, p) IN
         /\ u \in ArenaState /\ u.here = s.here /\ u.que = s.que /\ u.pt = s.pt /\ u.dead = s.dead
         /\ u.match = s.match
         /\ IF p \in Fighters(s) THEN u.fight = 0 /\ u.hurt = s.hurt \ (Fighters(s) \ {p})
            ELSE u.fight = s.fight /\ u.hurt = s.hurt
<1> DEFINE h == s.hurt \ (Fighters(s) \ {p})
           u == RaLeaves(s, p)
<1>1. CASE p \notin Fighters(s)
  BY <1>1 DEF RaLeaves
<1>2. CASE p \in Fighters(s)
  <2>1. h \in SUBSET RaClient
    BY DEF ArenaState
  <2>2. u = [s EXCEPT !.fight = 0, !.hurt = h] /\ 0 \in RaFightNo
    BY <1>2, RaNumbers DEF RaLeaves, ArenaState
  <2>3. h = s.hurt \ (Fighters(s) \ {p})
    OBVIOUS
  <2> HIDE DEF h
  <2>4. /\ u \in ArenaState /\ u.here = s.here /\ u.que = s.que /\ u.pt = s.pt /\ u.dead = s.dead
        /\ u.match = s.match /\ u.fight = 0 /\ u.hurt = h
    BY <2>1, <2>2 DEF ArenaState
  <2>5. QED BY <1>2, <2>3, <2>4
<1>3. QED BY <1>1, <1>2

Without(s, f, a, h, d, e, m) ==
  [s EXCEPT !.pt = f, !.here = a, !.hurt = h, !.dead = d, !.idle = e, !.match = m]

LEMMA WithoutClient ==
  ASSUME NEW s \in ArenaState, NEW f \in [RaClient -> RaRole], NEW a \in SUBSET RaClient,
         NEW h \in SUBSET RaClient, NEW d \in SUBSET RaClient, NEW e \in SUBSET RaClient, NEW m \in MatchNo
  PROVE  LET u == Without(s, f, a, h, d, e, m) IN
         /\ u \in ArenaState /\ u.here = a /\ u.que = s.que /\ u.pt = f /\ u.hurt = h /\ u.dead = d
         /\ u.fight = s.fight /\ u.match = m
BY DEF ArenaState, Without

LEMMA DisconnectStep ==
  ASSUME ArenaInv, NEW p \in RaClient, RaDisconnect(p)
  PROVE  ArenaInv' /\ FairLine(ra, ra')
<1> DEFINE s == RaLeaves(ra, p)
           t == IF InLine(s, p) THEN ra_out_que(s, p) ELSE s
           f == [t.pt EXCEPT ![p] = "raNone"]
           a == t.here \ {p}
           h == t.hurt \ {p}
           d == t.dead \ {p}
           e == t.idle \ {p}
           m == IF t.here = {p} /\ t.match # 0 THEN 3 ELSE t.match
<1>1. ra \in ArenaState /\ RaPlaces(ra) /\ Peace(ra)
  BY DEF ArenaInv, Orderly
<1>2. /\ s \in ArenaState /\ s.here = ra.here /\ s.que = ra.que /\ s.pt = ra.pt /\ s.dead = ra.dead
      /\ s.match = ra.match
      /\ IF p \in Fighters(ra) THEN s.fight = 0 /\ s.hurt = ra.hurt \ (Fighters(ra) \ {p})
         ELSE s.fight = ra.fight /\ s.hurt = ra.hurt
  BY <1>1, LeavesStep
<1>3. ra' = Without(t, f, a, h, d, e, m)
  BY DEF RaDisconnect, Without
<1> HIDE DEF s
<1>4. RaPlaces(s) /\ (InLine(s, p) <=> s.pt[p] = "raQue")
  <2>1. RaPlaces(s)
    BY <1>1, <1>2, SamePlaces
  <2>2. QED BY <2>1 DEF RaPlaces, Among, InLine
<1>5. /\ t \in ArenaState /\ RaPlaces(t) /\ SameFight(s, t) /\ NoneOvertakes(s.que, t.que)
      /\ \A c \in RaClient : c # p => t.pt[c] = s.pt[c]
      /\ t.pt[p] # "raQue"
  <2>1. CASE InLine(s, p)
    <3>1. t = ra_out_que(s, p)
      BY <2>1
    <3>2. /\ t \in ArenaState /\ RaPlaces(t) /\ SameFight(s, t) /\ NoneOvertakes(s.que, t.que)
          /\ t.pt = [s.pt EXCEPT ![p] = "raNone"]
      BY <1>2, <1>4, <2>1, <3>1, OutOfLine
    <3>3. QED BY <1>2, <3>2 DEF ArenaState
  <2>2. CASE ~InLine(s, p)
    <3>1. t = s
      BY <2>2
    <3>2. QED BY <1>2, <1>4, <2>2, <3>1, SameLine DEF SameFight
  <2>3. QED BY <2>1, <2>2
<1> HIDE DEF t
<1>6. /\ f \in [RaClient -> RaRole] /\ f[p] = "raNone" /\ \A c \in RaClient : c # p => f[c] = ra.pt[c]
  <2>1. t.pt \in [RaClient -> RaRole] /\ "raNone" \in RaRole
    BY <1>5 DEF ArenaState, RaRole
  <2>2. QED BY <1>2, <1>5, <2>1
<1>7. /\ a \in SUBSET RaClient /\ h \in SUBSET RaClient /\ d \in SUBSET RaClient /\ e \in SUBSET RaClient
      /\ m \in MatchNo /\ (m # 3 => m = ra.match)
  <2>1. m \in MatchNo
    BY <1>5, RaNumbers DEF ArenaState
  <2>2. QED BY <1>2, <1>5, <2>1 DEF ArenaState, SameFight
<1>8. a = ra.here \ {p} /\ h = s.hurt \ {p} /\ d = ra.dead \ {p}
  BY <1>2, <1>5 DEF SameFight
<1> HIDE DEF f, a, h, d, e, m
<1>9. /\ ra' \in ArenaState /\ ra'.here = a /\ ra'.que = t.que /\ ra'.pt = f /\ ra'.hurt = h /\ ra'.dead = d
      /\ ra'.fight = s.fight /\ ra'.match = m
  <2>1. t.fight = s.fight
    BY <1>5 DEF SameFight
  <2>2. QED BY <1>3, <1>5, <1>6, <1>7, <2>1, WithoutClient
<1>10. RaPlaces(ra')
  <2>1. \A c \in RaClient : ra'.pt[c] = "raQue" <=> Among(ra'.que, c)
    BY <1>2, <1>5, <1>6, <1>9 DEF RaPlaces
  <2>2. \A c \in RaClient : ra'.pt[c] # "raNone" => c \in ra'.here
    BY <1>1, <1>6, <1>8, <1>9 DEF RaPlaces
  <2>3. \A b, c \in RaClient : ra'.pt[b] \in FightRole /\ ra'.pt[b] = ra'.pt[c] => b = c
    BY <1>1, <1>6, <1>9, RolesAreRoles DEF RaPlaces
  <2>4. QED BY <1>5, <1>9, <2>1, <2>2, <2>3 DEF RaPlaces
<1>11. \A c : c \in Fighters(ra') <=> c # p /\ c \in Fighters(ra)
  <2>1. \A c : c \in Fighters(ra') <=> c \in RaClient /\ ra'.pt[c] \in FightRole
    BY <1>9, <1>10, WhoFights
  <2>2. \A c : c \in Fighters(ra) <=> c \in RaClient /\ ra.pt[c] \in FightRole
    BY <1>1, WhoFights
  <2>3. QED BY <1>6, <1>9, <2>1, <2>2, RolesAreRoles
<1>12. Peace(ra')
  <2> SUFFICES ASSUME m # 3 PROVE Peace(ra')
    BY <1>9 DEF Peace
  <2>1. ra.match # 3 /\ ra'.match = ra.match
    BY <1>7, <1>9
  <2>2. ra'.dead \cap Fighters(ra') = {}
    BY <1>1, <1>8, <1>9, <1>11, <2>1 DEF Peace
  <2>3. CASE p \in Fighters(ra)
    <3>1. ra'.fight = 0
      BY <1>2, <1>9, <2>3
    <3>2. ra.hurt \subseteq Fighters(ra)
      BY <1>1, <2>1 DEF Peace
    <3>3. ra'.hurt = {}
      BY <1>2, <1>8, <1>9, <2>3, <3>2
    <3>4. QED BY <2>2, <3>1, <3>3 DEF Peace
  <2>4. CASE p \notin Fighters(ra)
    <3>1. Fighters(ra') = Fighters(ra)
      BY <1>11, <2>4
    <3>2. HasBoth(ra') <=> HasBoth(ra)
      <4>1. ra.pt[p] \notin FightRole
        BY <1>1, <2>4, WhoFights
      <4>2. \A c \in RaClient : ra.pt[c] \in FightRole \/ ra'.pt[c] \in FightRole => ra'.pt[c] = ra.pt[c]
        BY <1>6, <1>9, <4>1, RolesAreRoles
      <4>3. QED BY <1>1, <1>9, <1>10, <4>2, SameParts
    <3>3. ra'.fight = ra.fight /\ ra'.hurt = ra.hurt \ {p}
      BY <1>2, <1>8, <1>9, <2>4
    <3>4. QED BY <1>1, <2>1, <2>2, <2>4, <3>1, <3>2, <3>3 DEF Peace
  <2>5. QED BY <2>3, <2>4
<1>13. FairLine(ra, ra')
  <2>1. NoneOvertakes(ra.que, ra'.que)
    BY <1>2, <1>5, <1>9
  <2>2. \A q \in Fighters(ra') : ~Among(ra.que, q)
    BY <1>1, <1>11, WhoFights
  <2>3. QED BY <1>1, <1>9, <2>1, <2>2, FairWithoutParts
<1>14. QED BY <1>9, <1>10, <1>12, <1>13 DEF ArenaInv, Orderly

WithHurtOf(s, n, h) == [s EXCEPT !.fight = n, !.hurt = h]

WithDeadOf(s, h, d) == [s EXCEPT !.hurt = h, !.dead = d]

LEMMA WithHurt ==
  ASSUME NEW s \in ArenaState, NEW h \in SUBSET RaClient, NEW n \in RaFightNo
  PROVE  LET u == WithHurtOf(s, n, h) IN
         u \in ArenaState /\ u.here = s.here /\ u.que = s.que /\ u.pt = s.pt /\ u.hurt = h
         /\ u.dead = s.dead /\ u.fight = n /\ u.match = s.match
BY DEF ArenaState, WithHurtOf

LEMMA WithDead ==
  ASSUME NEW s \in ArenaState, NEW h \in SUBSET RaClient, NEW d \in SUBSET RaClient
  PROVE  LET u == WithDeadOf(s, h, d) IN
         u \in ArenaState /\ u.here = s.here /\ u.que = s.que /\ u.pt = s.pt /\ u.hurt = h
         /\ u.dead = d /\ u.fight = s.fight /\ u.match = s.match
BY DEF ArenaState, WithDeadOf

\* Who dies in a fight goes to the end of the line, and the other one is safe.
LEMMA KilledStep ==
  ASSUME ArenaInv, NEW p \in RaClient, RaKilled(p)
  PROVE  ArenaInv' /\ FairLine(ra, ra')
<1> DEFINE s == IF ra.match = 2 THEN ra_ClientObituary(ra, p) ELSE ra
           h == s.hurt \ {p}
           d == s.dead \cup {p}
<1>1. ra \in ArenaState /\ RaPlaces(ra) /\ Peace(ra)
  BY DEF ArenaInv, Orderly
<1>2. p \in ra.hurt /\ ra' = [s EXCEPT !.hurt = s.hurt \ {p}, !.dead = s.dead \cup {p}]
  BY DEF RaKilled
<1>3. ASSUME s \in ArenaState
      PROVE  /\ ra' \in ArenaState /\ ra'.here = s.here /\ ra'.que = s.que /\ ra'.pt = s.pt
             /\ ra'.hurt = s.hurt \ {p} /\ ra'.dead = s.dead \cup {p}
             /\ ra'.fight = s.fight /\ ra'.match = s.match
  <2> HIDE DEF s
  <2>1. h \in SUBSET RaClient /\ d \in SUBSET RaClient
    BY <1>3 DEF ArenaState
  <2>2. ra' = WithDeadOf(s, h, d) /\ h = s.hurt \ {p} /\ d = s.dead \cup {p}
    BY <1>2 DEF WithDeadOf
  <2> HIDE DEF h, d
  <2>3. QED BY <1>3, <2>1, <2>2, WithDead
<1>4. CASE ra.match = 3
  <2>1. s = ra
    BY <1>4
  <2>2. RaPlaces(ra') /\ Fighters(ra') = Fighters(ra) /\ NoneOvertakes(ra.que, ra'.que)
    BY <1>1, <1>3, <2>1, SamePlaces, SameLine
  <2>3. Peace(ra')
    BY <1>1, <1>3, <1>4, <2>1 DEF Peace
  <2>4. FairLine(ra, ra')
    BY <1>1, <1>3, <2>1, <2>2, WhoFights, FairWithoutParts
  <2>5. QED BY <1>1, <1>3, <2>1, <2>2, <2>3, <2>4 DEF ArenaInv, Orderly
<1>5. CASE ra.match # 3
  <2> DEFINE g == ra.hurt \ Fighters(ra)
             t == [ra EXCEPT !.fight = 0, !.hurt = g]
  <2>1. ra.match = 2 /\ ra.hurt = Fighters(ra) /\ HasBoth(ra) /\ p \in Fighters(ra)
    BY <1>1, <1>2, <1>5 DEF Peace
  <2>2. s = ra_in_que([ra EXCEPT !.fight = 0, !.hurt = ra.hurt \ Fighters(ra)], p)
    BY <2>1 DEF ra_ClientObituary
  <2>3. g = {} /\ g \in SUBSET RaClient /\ 0 \in RaFightNo
    BY <2>1, RaNumbers
  <2>4. s = ra_in_que(t, p)
    BY <2>2
  <2> HIDE DEF g, s
  <2> t = WithHurtOf(ra, 0, g)
    BY DEF WithHurtOf
  <2> HIDE DEF t
  <2>5. /\ t \in ArenaState /\ t.here = ra.here /\ t.que = ra.que /\ t.pt = ra.pt /\ t.hurt = g
        /\ t.dead = ra.dead /\ t.fight = 0 /\ t.match = ra.match
    BY <1>1, <2>3, WithHurt
  <2>6. RaPlaces(t)
    BY <1>1, <2>5, SamePlaces
  <2>7. p \in t.here /\ t.pt[p] # "raQue" /\ ra.pt[p] \in FightRole
    BY <1>1, <2>1, <2>5, WhoFights, RolesAreRoles DEF RaPlaces
  <2>8. /\ s \in ArenaState /\ RaPlaces(s) /\ SameFight(t, s)
        /\ s.pt = [t.pt EXCEPT ![p] = "raQue"] /\ NoneOvertakes(t.que, s.que)
    BY <2>4, <2>5, <2>6, <2>7, IntoLine
  <2>9. /\ ra' \in ArenaState /\ ra'.here = s.here /\ ra'.que = s.que /\ ra'.pt = s.pt
        /\ ra'.hurt = {} /\ ra'.dead = ra.dead \cup {p} /\ ra'.fight = 0 /\ ra'.match = 2
    BY <1>3, <2>1, <2>3, <2>5, <2>8 DEF SameFight
  <2>10. RaPlaces(ra')
    BY <2>8, <2>9, SamePlaces
  <2>11. \A c \in Fighters(ra') : c # p /\ c \in Fighters(ra)
    <3>1. \A c : c \in Fighters(ra') <=> c \in RaClient /\ ra'.pt[c] \in FightRole
      BY <2>9, <2>10, WhoFights
    <3>2. \A c : c \in Fighters(ra) <=> c \in RaClient /\ ra.pt[c] \in FightRole
      BY <1>1, WhoFights
    <3>3. \A c \in RaClient : ra'.pt[c] = IF c = p THEN "raQue" ELSE ra.pt[c]
      BY <1>1, <2>5, <2>8, <2>9 DEF ArenaState
    <3>4. QED BY <3>1, <3>2, <3>3, RolesAreRoles
  <2>12. Peace(ra')
    BY <1>1, <1>5, <2>9, <2>11 DEF Peace
  <2>13. FairLine(ra, ra')
    <3>1. NoneOvertakes(ra.que, ra'.que)
      BY <2>5, <2>8, <2>9
    <3>2. \A q \in Fighters(ra') : ~Among(ra.que, q)
      BY <1>1, <2>11, WhoFights
    <3>3. QED BY <1>1, <2>9, <3>1, <3>2, FairWithoutParts
  <2>14. QED BY <2>9, <2>10, <2>12, <2>13 DEF ArenaInv, Orderly
<1>6. QED BY <1>4, <1>5

-----------------------------------------------------------------------------
(***************************************************************************)
(* The clock and the match around the fights.                              *)
(***************************************************************************)
LEMMA WithLeft ==
  ASSUME NEW s \in ArenaState, NEW l \in ClockNo
  PROVE  LET u == [s EXCEPT !.left = l] IN
         u \in ArenaState /\ u.here = s.here /\ u.que = s.que /\ u.pt = s.pt /\ u.hurt = s.hurt
         /\ u.dead = s.dead /\ u.fight = s.fight /\ u.match = s.match
BY DEF ArenaState

LEMMA WithMatch ==
  ASSUME NEW s \in ArenaState, NEW m \in MatchNo
  PROVE  LET u == [s EXCEPT !.match = m] IN
         u \in ArenaState /\ u.here = s.here /\ u.que = s.que /\ u.pt = s.pt /\ u.hurt = s.hurt
         /\ u.dead = s.dead /\ u.fight = s.fight /\ u.match = m
BY DEF ArenaState

LEMMA TimeStep ==
  ASSUME ArenaInv, RaTime
  PROVE  ArenaInv' /\ FairLine(ra, ra')
<1> DEFINE l == ra.left - 1
<1>1. ra \in ArenaState /\ RaPlaces(ra) /\ Orderly(ra)
  BY DEF ArenaInv, Orderly
<1>2. l \in ClockNo /\ ra' = [ra EXCEPT !.left = l]
  BY <1>1, RaNumbers DEF RaTime, ArenaState
<1> HIDE DEF l
<1>3. /\ ra' \in ArenaState /\ ra'.here = ra.here /\ ra'.que = ra.que /\ ra'.pt = ra.pt
      /\ ra'.hurt = ra.hurt /\ ra'.dead = ra.dead /\ ra'.fight = ra.fight /\ ra'.match = ra.match
  BY <1>1, <1>2, WithLeft
<1>4. RaPlaces(ra') /\ NoneOvertakes(ra.que, ra'.que)
  BY <1>1, <1>3, SamePlaces, SameLine
<1>5. Orderly(ra') /\ FairLine(ra, ra')
  BY <1>1, <1>3, <1>4, FightGoesOn
<1>6. QED BY <1>5 DEF ArenaInv

LEMMA EmptyIsOrderly == Orderly(RaEmpty)
<1> DEFINE f == [p \in RaClient |-> "raNone"]
           s == RaEmpty
<1>1. f \in [RaClient -> RaRole] /\ \A p \in RaClient : f[p] = "raNone"
  BY DEF RaRole
<1>2. s = [here |-> {}, que |-> <<>>, pt |-> f, hurt |-> {}, dead |-> {}, idle |-> {},
           fight |-> 0, left |-> 0, match |-> 0]
  BY DEF RaEmpty
<1>3. <<>> \in Seq(RaClient) /\ 0 \in RaFightNo /\ 0 \in ClockNo /\ 0 \in MatchNo
  BY RaNumbers
<1> HIDE DEF f
<1>4. s \in ArenaState
  BY <1>1, <1>2, <1>3 DEF ArenaState
<1>5. s.here = {} /\ s.que = <<>> /\ s.pt = f /\ s.hurt = {} /\ s.dead = {} /\ s.fight = 0 /\ s.match = 0
  BY <1>2
<1> HIDE DEF s
<1>6. RaPlaces(s)
  BY <1>1, <1>5, RolesAreRoles DEF RaPlaces, Once, Among
<1>7. Peace(s)
  BY <1>5 DEF Peace
<1>8. QED BY <1>4, <1>6, <1>7 DEF Orderly, s

LEMMA MatchStepInv ==
  ASSUME ArenaInv, RaMatchStep
  PROVE  ArenaInv' /\ FairLine(ra, ra')
<1>1. ra \in ArenaState /\ RaPlaces(ra) /\ Peace(ra)
  BY DEF ArenaInv, Orderly
<1>2. ASSUME NEW m \in MatchNo, ra' = [ra EXCEPT !.match = m],
             m # 3 => ra.match \in {0, 1}
      PROVE  ArenaInv' /\ FairLine(ra, ra')
  <2>1. /\ ra' \in ArenaState /\ ra'.here = ra.here /\ ra'.que = ra.que /\ ra'.pt = ra.pt
        /\ ra'.hurt = ra.hurt /\ ra'.dead = ra.dead /\ ra'.fight = ra.fight /\ ra'.match = m
    BY <1>1, <1>2, WithMatch
  <2>2. RaPlaces(ra') /\ Fighters(ra') = Fighters(ra) /\ NoneOvertakes(ra.que, ra'.que)
    BY <1>1, <2>1, SamePlaces, SameLine
  <2>3. Peace(ra')
    BY <1>1, <1>2, <2>1, <2>2 DEF Peace
  <2>4. FairLine(ra, ra')
    BY <1>1, <2>1, <2>2, WhoFights, FairWithoutParts
  <2>5. QED BY <2>1, <2>2, <2>3, <2>4 DEF ArenaInv, Orderly
<1>3. CASE ra.match = 3 /\ ra' = RaEmpty
  <2>1. Orderly(ra')
    BY <1>3, EmptyIsOrderly
  <2>2. ra'.que = <<>> /\ \A c \in RaClient : ra'.pt[c] = "raNone"
    BY <1>3 DEF RaEmpty
  <2>3. NoneOvertakes(ra.que, ra'.que)
    BY <2>2 DEF NoneOvertakes
  <2>4. \A q \in Fighters(ra') : ~Among(ra.que, q)
    BY <2>1, <2>2, WhoFights, RolesAreRoles DEF Orderly
  <2>5. QED BY <1>1, <2>1, <2>3, <2>4, FairWithoutParts DEF ArenaInv, Orderly
<1>4. {0, 1, 2, 3} \subseteq MatchNo
  BY RaNumbers
<1>5. QED BY <1>2, <1>3, <1>4 DEF RaMatchStep

-----------------------------------------------------------------------------
(***************************************************************************)
(* The theorems.                                                           *)
(***************************************************************************)
LEMMA ArenaNextInv ==
  ASSUME ArenaInv, [ArenaNext]_ra
  PROVE  ArenaInv' /\ (FairLine(ra, ra') \/ ra' = ra)
<1>1. CASE ArenaClients
  BY <1>1, ConnectStep, DisconnectStep, BreakStep, BreakEndsStep DEF ArenaClients
<1>2. CASE \E p \in RaClient : RaKilled(p) \/ RaRespawn(p)
  BY <1>2, KilledStep, RespawnStep
<1>3. CASE RaFrame
  BY <1>3, FrameStep
<1>4. CASE RaTime
  BY <1>4, TimeStep
<1>5. CASE RaMatchStep
  BY <1>5, MatchStepInv
<1>6. CASE UNCHANGED ra
  BY <1>6 DEF ArenaInv
<1>7. QED
  BY <1>1, <1>2, <1>3, <1>4, <1>5, <1>6 DEF ArenaNext

\* The inductive invariant holds in every state of every behaviour.
THEOREM ArenaInvariance == ArenaSafety => []ArenaInv
<1>1. ArenaInit => ArenaInv
  BY EmptyIsOrderly DEF ArenaInit, ArenaInv
<1>2. QED
  BY <1>1, ArenaNextInv, PTL DEF ArenaSafety

\* The line of arena.c holds exactly those who stand in it, and a part has one player.
THEOREM EverybodyHasOnePlace == ArenaSafety => []OnePlaceEach
<1>1. ASSUME ArenaInv PROVE OnePlaceEach
  <2>1. ra \in ArenaState /\ RaPlaces(ra)
    BY <1>1 DEF ArenaInv, Orderly
  <2>2. {ra.que[i] : i \in 1 .. Len(ra.que)} = {p \in RaClient : ra.pt[p] = "raQue"}
    <3>1. \A p \in RaClient : ra.pt[p] = "raQue" <=> Among(ra.que, p)
      BY <2>1 DEF RaPlaces
    <3>2. \A i \in 1 .. Len(ra.que) : ra.que[i] \in RaClient
      BY <2>1 DEF ArenaState
    <3>3. QED BY <3>1, <3>2 DEF Among
  <2>3. ASSUME NEW role \in FightRole PROVE Cardinality(Having(ra, role)) <= 1
    <3>1. \A p, q \in Having(ra, role) : p = q
      BY <2>1, <2>3, WhoFights DEF RaPlaces
    <3>2. CASE Having(ra, role) = {}
      BY <3>2, FS_EmptySet
    <3>3. CASE Having(ra, role) # {}
      <4>1. PICK p : Having(ra, role) = {p}
        BY <3>1, <3>3
      <4>2. Cardinality(Having(ra, role)) = 1
        <5>1. Cardinality({p}) = 1
          BY FS_Singleton
        <5>2. QED BY <4>1, <5>1
      <4>3. QED BY <4>2
    <3>4. QED BY <3>2, <3>3
  <2>4. QED BY <2>1, <2>2, <2>3 DEF OnePlaceEach, RaPlaces, Once, FightRole
<1>2. QED BY <1>1, ArenaInvariance, PTL

\* Nobody but the two who fight can be hurt in the arena, and they are both alive.
THEOREM FightersOnly == ArenaSafety => []OnlyFightersBleed
<1>1. ArenaInv => OnlyFightersBleed
  BY DEF ArenaInv, Orderly, Peace, OnlyFightersBleed
<1>2. QED BY <1>1, ArenaInvariance, PTL

\* Nobody overtakes in the line of arena.c, by coming, going, a break, a death or a frame.
THEOREM NobodyOvertakes == ArenaSafety => LineKeepsOrder
<1>1. ASSUME ArenaInv, [ArenaNext]_ra
      PROVE  [ \A p, q \in {ra.que[i] : i \in 1 .. Len(ra.que)} :
                 Behind(ra, p, q) => /\ ~Behind(ra', q, p)
                                     /\ q \in Fighters(ra') => p \notin ra'.here \/ ra'.pt[p] # "raQue" ]_ra
  <2>1. \A i \in 1 .. Len(ra.que) : ra.que[i] \in RaClient
    BY <1>1 DEF ArenaInv, Orderly, ArenaState
  <2>2. FairLine(ra, ra') \/ ra' = ra
    BY <1>1, ArenaNextInv
  <2>3. QED BY <2>1, <2>2 DEF FairLine
<1>2. QED BY <1>1, ArenaInvariance, PTL DEF ArenaSafety, LineKeepsOrder

-----------------------------------------------------------------------------
(***************************************************************************)
(* Clan Arena and Wipeout.                                                 *)
(***************************************************************************)
CaTeamNo == 0 .. 2
FightNo == 0 .. 2

ClanState ==
  [mode : {1, 2}, here : SUBSET CaPlayer, team : [CaPlayer -> CaTeamNo], ready : SUBSET CaPlayer,
   live : SUBSET CaPlayer, dying : SUBSET CaPlayer, in_play : SUBSET CaPlayer,
   limbo : SUBSET CaPlayer, can : SUBSET CaPlayer, deaths : [CaPlayer -> Int],
   delay : [CaPlayer -> Int], solo : SUBSET CaPlayer, no_pain : SUBSET CaPlayer, fight : FightNo,
   left : Nat, pause : BOOLEAN, pause_left : Nat, loser : Int, score : [{1, 2} -> Nat],
   round : Nat, over : BOOLEAN]

Belongs(s) == s.live \cup s.limbo \cup s.dying \subseteq s.ready /\ s.ready \subseteq s.here

Spared(s, p) == s.deaths[p] <= Respawns(s)

CountsDown(s) == s.fight = 1 /\ ~s.pause

\* OutsidersStayOut with what makes it inductive: who is in limbo in a round may come back,
\* and when the next round is counted down nobody is in limbo, and all who are alive, or
\* have been telefragged and will be put into it again, have spawns left.  In the pause
\* between, anybody may be alive.
RoundIsFair(s) ==
  /\ Belongs(s)
  /\ s.fight = 2 => \A p \in s.live \cup s.limbo : Spared(s, p)
  /\ CountsDown(s) => s.limbo = {} /\ \A p \in s.live \cup s.dying : Spared(s, p)

ClanInv == ca \in ClanState /\ RoundIsFair(ca)

LEMMA CaNumbers == /\ 0 \in FightNo /\ 1 \in FightNo /\ 2 \in FightNo
                 /\ RoundTime \in Nat /\ PauseTime \in Nat /\ 0 \in Int
BY CaNumberAssumption DEF FightNo

-----------------------------------------------------------------------------
(***************************************************************************)
(* Spawning.                                                               *)
(***************************************************************************)
\* What the referee decides, and who takes part.
SameRound(s, t) ==
  /\ t.mode = s.mode /\ t.here = s.here /\ t.ready = s.ready /\ t.team = s.team
  /\ t.fight = s.fight /\ t.pause = s.pause /\ t.pause_left = s.pause_left
  /\ t.loser = s.loser /\ t.score = s.score /\ t.no_pain = s.no_pain

\* Nobody in limbo is alive or dying.
Apart(s) == s.live \cap s.limbo = {} /\ s.dying \cap s.limbo = {}

LEMMA RespawnsAreMany == ASSUME NEW s \in ClanState PROVE Respawns(s) \in Nat
BY CaNumberAssumption DEF Respawns

WithLife(s, l, i, d, b, n, w) ==
  [s EXCEPT !.live = l, !.in_play = i, !.dying = d, !.limbo = b, !.deaths = n, !.delay = w]

LEMMA LifeChanges ==
  ASSUME NEW s \in ClanState, NEW l \in SUBSET CaPlayer, NEW i \in SUBSET CaPlayer,
         NEW d \in SUBSET CaPlayer, NEW b \in SUBSET CaPlayer,
         NEW n \in [CaPlayer -> Int], NEW w \in [CaPlayer -> Int]
  PROVE  LET u == WithLife(s, l, i, d, b, n, w) IN
         /\ u \in ClanState /\ SameRound(s, u)
         /\ u.live = l /\ u.dying = d /\ u.limbo = b /\ u.deaths = n
BY DEF ClanState, WithLife, SameRound

\* Who is put into the server lives if the round permits it, and else waits in limbo only
\* with a spawn left.
LEMMA PutStep ==
  ASSUME NEW s \in ClanState, NEW p \in CaPlayer
  PROVE  LET u == CA_PutClientInServer(s, p) IN
         /\ u \in ClanState /\ SameRound(s, u) /\ u.dying = s.dying \ {p}
         /\ IF CA_CheckAlive(s, p)
            THEN u.live = s.live \cup {p} /\ u.limbo = s.limbo \ {p} /\ u.deaths = s.deaths
            ELSE /\ u.live = s.live \ {p}
                 /\ \A c \in CaPlayer : c # p => u.deaths[c] = s.deaths[c] /\ (c \in u.limbo <=> c \in s.limbo)
                 /\ p \in u.limbo => p \in s.ready /\ Spared(u, p)
<1> DEFINE u == CA_PutClientInServer(s, p)
<1>1. CASE CA_CheckAlive(s, p)
  <2> DEFINE l == s.live \cup {p}
             i == s.in_play \cup {p}
             d == s.dying \ {p}
             b == s.limbo \ {p}
  <2>1. u = WithLife(s, l, i, d, b, s.deaths, s.delay)
    BY <1>1 DEF CA_PutClientInServer, WithLife, ClanState
  <2>2. /\ l \in SUBSET CaPlayer /\ i \in SUBSET CaPlayer /\ d \in SUBSET CaPlayer /\ b \in SUBSET CaPlayer
        /\ s.deaths \in [CaPlayer -> Int] /\ s.delay \in [CaPlayer -> Int]
    BY DEF ClanState
  <2> HIDE DEF i, u
  <2>3. /\ u \in ClanState /\ SameRound(s, u)
        /\ u.live = l /\ u.dying = d /\ u.limbo = b /\ u.deaths = s.deaths
    BY <2>1, <2>2, LifeChanges
  <2>4. QED BY <1>1, <2>3 DEF u
<1>2. CASE ~CA_CheckAlive(s, p)
  <2> DEFINE k == s.deaths[p] + 1
             waits == p \in s.ready /\ k <= Respawns(s) /\ p \in s.can
             l == s.live \ {p}
             i == s.in_play \ {p}
             d == s.dying \ {p}
             b == IF waits THEN (s.limbo \ {p}) \cup {p} ELSE s.limbo \ {p}
             n == [s.deaths EXCEPT ![p] = k]
             w == [s.delay EXCEPT ![p] = NoDelay]
  <2>1. u = WithLife(s, l, i, d, b, n, w)
    BY <1>2 DEF CA_PutClientInServer, WithLife, ClanState
  <2>2. /\ l \in SUBSET CaPlayer /\ i \in SUBSET CaPlayer /\ d \in SUBSET CaPlayer /\ b \in SUBSET CaPlayer
        /\ n \in [CaPlayer -> Int] /\ w \in [CaPlayer -> Int] /\ n[p] = k
        /\ \A c \in CaPlayer : c # p => n[c] = s.deaths[c] /\ (c \in b <=> c \in s.limbo)
    BY DEF ClanState, NoDelay
  <2>3. p \in b => p \in s.ready /\ k <= Respawns(s)
    OBVIOUS
  <2> HIDE DEF i, u, n, w, b, k
  <2>4. /\ u \in ClanState /\ SameRound(s, u)
        /\ u.live = l /\ u.dying = d /\ u.limbo = b /\ u.deaths = n
    BY <2>1, <2>2, LifeChanges
  <2>5. Respawns(u) = Respawns(s)
    BY <2>4 DEF Respawns, SameRound
  <2>6. QED BY <1>2, <2>2, <2>3, <2>4, <2>5 DEF u, Spared
<1>3. QED BY <1>1, <1>2

-----------------------------------------------------------------------------
(***************************************************************************)
(* Clients come, go and die.                                               *)
(***************************************************************************)
\* Putting anybody who takes part, or a newcomer, into the server keeps the round fair.
LEMMA PutKeepsFair ==
  ASSUME NEW s \in ClanState, RoundIsFair(s), NEW p \in CaPlayer,
         CountsDown(s) => p \notin s.ready \/ p \in s.dying
  PROVE  LET u == CA_PutClientInServer(s, p) IN u \in ClanState /\ RoundIsFair(u)
<1> DEFINE u == CA_PutClientInServer(s, p)
<1>1. /\ u \in ClanState /\ SameRound(s, u) /\ u.dying = s.dying \ {p}
      /\ IF CA_CheckAlive(s, p)
         THEN u.live = s.live \cup {p} /\ u.limbo = s.limbo \ {p} /\ u.deaths = s.deaths
         ELSE /\ u.live = s.live \ {p}
              /\ \A c \in CaPlayer : c # p => u.deaths[c] = s.deaths[c] /\ (c \in u.limbo <=> c \in s.limbo)
              /\ p \in u.limbo => p \in s.ready /\ Spared(u, p)
  BY PutStep
<1> HIDE DEF u
<1>2. Respawns(u) = Respawns(s) /\ (CountsDown(u) <=> CountsDown(s))
  BY <1>1 DEF Respawns, SameRound, CountsDown
<1>3. s.live \subseteq CaPlayer /\ s.limbo \subseteq CaPlayer /\ u.limbo \subseteq CaPlayer
  BY <1>1 DEF ClanState
<1>4. CASE CA_CheckAlive(s, p)
  <2>1. p \in s.ready /\ (CountsDown(s) => p \in s.dying) /\ (s.fight = 2 => p \in s.limbo)
    BY <1>4 DEF CA_CheckAlive
  <2>2. Belongs(u)
    BY <1>1, <1>4, <2>1 DEF RoundIsFair, Belongs, SameRound
  <2>3. u.fight = 2 => \A c \in u.live \cup u.limbo : Spared(u, c)
    BY <1>1, <1>2, <1>4, <2>1 DEF RoundIsFair, Spared, SameRound
  <2>4. CountsDown(u) => u.limbo = {} /\ \A c \in u.live \cup u.dying : Spared(u, c)
    BY <1>1, <1>2, <1>4, <2>1 DEF RoundIsFair, Spared
  <2>5. QED BY <1>1, <2>2, <2>3, <2>4 DEF RoundIsFair, u
<1>5. CASE ~CA_CheckAlive(s, p)
  <2>1. \A c \in u.limbo : c = p \/ c \in s.limbo
    BY <1>1, <1>3, <1>5
  <2>2. Belongs(u)
    BY <1>1, <1>5, <2>1 DEF RoundIsFair, Belongs, SameRound
  <2>3. \A c \in u.live : c \in s.live /\ c # p
    BY <1>1, <1>5
  <2>4. u.fight = 2 => \A c \in u.live \cup u.limbo : Spared(u, c)
    <3> SUFFICES ASSUME u.fight = 2, NEW c \in u.live \cup u.limbo PROVE Spared(u, c)
      OBVIOUS
    <3>1. CASE c = p
      BY <1>1, <1>5, <2>3, <3>1
    <3>2. CASE c # p
      <4>1. c \in s.live \cup s.limbo /\ c \in CaPlayer /\ s.fight = 2
        BY <1>1, <1>3, <2>1, <2>3, <3>2 DEF SameRound
      <4>2. Spared(s, c) /\ u.deaths[c] = s.deaths[c]
        BY <1>1, <1>5, <3>2, <4>1 DEF RoundIsFair
      <4>3. QED BY <1>2, <4>2 DEF Spared
    <3>3. QED BY <3>1, <3>2
  <2>5. CountsDown(u) => u.limbo = {} /\ \A c \in u.live \cup u.dying : Spared(u, c)
    <3> SUFFICES ASSUME CountsDown(u) PROVE u.limbo = {} /\ \A c \in u.live \cup u.dying : Spared(u, c)
      OBVIOUS
    <3>1. CountsDown(s) /\ p \notin s.ready
      <4>1. CountsDown(s) /\ s.fight # 2
        BY <1>2 DEF CountsDown
      <4>2. QED BY <1>5, <4>1 DEF CA_CheckAlive
    <3>2. s.limbo = {} /\ (\A c \in s.live \cup s.dying : Spared(s, c)) /\ s.dying \subseteq CaPlayer
      BY <3>1 DEF RoundIsFair, ClanState
    <3>3. p \notin u.limbo
      BY <1>1, <1>5, <3>1
    <3>4. \A c \in u.live \cup u.dying : c \in CaPlayer /\ c # p /\ c \in s.live \cup s.dying
      BY <1>1, <1>3, <2>3, <3>2
    <3>5. \A c \in u.live \cup u.dying : Spared(u, c)
      BY <1>1, <1>2, <1>5, <3>2, <3>4 DEF Spared
    <3>6. QED BY <2>1, <3>2, <3>3, <3>5
  <2>6. QED BY <1>1, <2>2, <2>4, <2>5 DEF RoundIsFair, u
<1>6. QED BY <1>4, <1>5

\* A newcomer does not take part, whoever has been in his slot.
LEMMA CaConnectStep ==
  ASSUME ClanInv, NEW p \in CaPlayer, CaConnect(p)
  PROVE  ClanInv'
<1> DEFINE w == ca.here \cup {p}
           m == [ca.team EXCEPT ![p] = 0]
           n == [ca.deaths EXCEPT ![p] = 0]
           s == [ca EXCEPT !.here = w, !.team = m, !.deaths = n]
<1>1. ca \in ClanState /\ RoundIsFair(ca) /\ p \notin ca.here
  BY DEF ClanInv, CaConnect
<1>2. ca' = CA_PutClientInServer(s, p)
  BY <1>1 DEF CaConnect, ClanState
<1>3. /\ w \in SUBSET CaPlayer /\ m \in [CaPlayer -> CaTeamNo] /\ n \in [CaPlayer -> Int]
      /\ \A c \in CaPlayer : c # p => n[c] = ca.deaths[c]
  BY <1>1 DEF ClanState, CaTeamNo
<1>4. ca.here \subseteq w
  OBVIOUS
<1> HIDE DEF w, m, n
<1>5. /\ s \in ClanState /\ s.here = w /\ s.deaths = n /\ s.ready = ca.ready /\ s.live = ca.live
      /\ s.limbo = ca.limbo /\ s.dying = ca.dying /\ s.fight = ca.fight /\ s.pause = ca.pause
      /\ s.mode = ca.mode
  BY <1>1, <1>3 DEF ClanState
<1> HIDE DEF s
<1>6. p \notin ca.ready /\ \A c \in ca.live \cup ca.limbo \cup ca.dying : c # p /\ c \in CaPlayer
  BY <1>1 DEF RoundIsFair, Belongs, ClanState
<1>7. \A c \in ca.live \cup ca.limbo \cup ca.dying : Spared(ca, c) => Spared(s, c)
  BY <1>3, <1>5, <1>6 DEF Spared, Respawns
<1>8. RoundIsFair(s)
  BY <1>1, <1>4, <1>5, <1>7 DEF RoundIsFair, Belongs, CountsDown
<1>9. QED BY <1>2, <1>5, <1>6, <1>8, PutKeepsFair DEF ClanInv

\* Who leaves is nowhere any more.
LEMMA CaDisconnectStep ==
  ASSUME ClanInv, NEW p \in CaPlayer, CaDisconnect(p)
  PROVE  ClanInv'
<1> DEFINE m == [ca.team EXCEPT ![p] = 0]
           n == [ca.deaths EXCEPT ![p] = 0]
           w == [ca.delay EXCEPT ![p] = NoDelay]
           o == ca.over \/ ca.here = {p}
<1>1. ca \in ClanState /\ RoundIsFair(ca)
  BY DEF ClanInv
<1>2. ca' = [ca EXCEPT !.here = @ \ {p}, !.ready = @ \ {p}, !.live = @ \ {p},
                       !.dying = @ \ {p}, !.in_play = @ \ {p}, !.limbo = @ \ {p},
                       !.can = @ \ {p}, !.solo = @ \ {p}, !.no_pain = @ \ {p},
                       !.team = m, !.deaths = n, !.delay = w, !.over = o]
  BY <1>1 DEF CaDisconnect, ClanState
<1>3. /\ m \in [CaPlayer -> CaTeamNo] /\ n \in [CaPlayer -> Int] /\ w \in [CaPlayer -> Int]
      /\ o \in BOOLEAN /\ \A c \in CaPlayer : c # p => n[c] = ca.deaths[c]
  BY <1>1 DEF ClanState, CaTeamNo, NoDelay
<1> HIDE DEF m, n, w, o
<1>4. /\ ca' \in ClanState /\ ca'.deaths = n /\ ca'.ready = ca.ready \ {p} /\ ca'.live = ca.live \ {p}
      /\ ca'.here = ca.here \ {p} /\ ca'.limbo = ca.limbo \ {p} /\ ca'.dying = ca.dying \ {p}
      /\ ca'.fight = ca.fight /\ ca'.pause = ca.pause /\ ca'.mode = ca.mode
  BY <1>1, <1>2, <1>3 DEF ClanState
<1>5. \A c \in ca'.live \cup ca'.limbo \cup ca'.dying : Spared(ca, c) => Spared(ca', c)
  BY <1>1, <1>3, <1>4 DEF Spared, Respawns, ClanState
<1>6. QED BY <1>1, <1>4, <1>5 DEF ClanInv, RoundIsFair, Belongs, CountsDown

\* Who joins late takes part, but does not live before the next round.
LEMMA LateJoinStep ==
  ASSUME ClanInv, NEW p \in CaPlayer, NEW t \in {1, 2}, CaLateJoin(p, t)
  PROVE  ClanInv'
<1> DEFINE m == [ca.team EXCEPT ![p] = t]
<1>1. ca \in ClanState /\ RoundIsFair(ca) /\ p \in ca.here
  BY DEF ClanInv, CaLateJoin
<1>2. ca' = [ca EXCEPT !.ready = @ \cup {p}, !.team = m, !.can = @ \ {p}]
  BY <1>1 DEF CaLateJoin, ClanState
<1>3. m \in [CaPlayer -> CaTeamNo]
  BY <1>1 DEF ClanState, CaTeamNo
<1> HIDE DEF m
<1>4. /\ ca' \in ClanState /\ ca'.deaths = ca.deaths /\ ca'.ready = ca.ready \cup {p} /\ ca'.live = ca.live
      /\ ca'.here = ca.here /\ ca'.limbo = ca.limbo /\ ca'.dying = ca.dying
      /\ ca'.fight = ca.fight /\ ca'.pause = ca.pause /\ ca'.mode = ca.mode
  BY <1>1, <1>2, <1>3 DEF ClanState
<1>5. QED BY <1>1, <1>4 DEF ClanInv, RoundIsFair, Belongs, CountsDown, Spared, Respawns

\* Who is killed or kills himself is dying, with no more deaths than before.
LEMMA DeathStep ==
  ASSUME ClanInv, NEW p \in CaPlayer, CaKilled(p) \/ CaSuicide(p)
  PROVE  ClanInv'
<1>1. ca \in ClanState /\ RoundIsFair(ca) /\ p \in ca.live
  BY DEF ClanInv, CaKilled, CaSuicide
<1>2. PICK n \in [CaPlayer -> Int], k \in SUBSET CaPlayer :
        /\ ca' = [ca EXCEPT !.live = @ \ {p}, !.dying = @ \cup {p}, !.deaths = n, !.can = k]
        /\ \A c \in CaPlayer : n[c] <= ca.deaths[c]
  <2> DEFINE less == [ca.deaths EXCEPT ![p] = ca.deaths[p] - 1]
  <2>1. /\ ca.deaths \in [CaPlayer -> Int] /\ less \in [CaPlayer -> Int]
        /\ \A c \in CaPlayer : less[c] <= ca.deaths[c] /\ ca.deaths[c] <= ca.deaths[c]
        /\ ca.can \in SUBSET CaPlayer /\ ca.can \ {p} \in SUBSET CaPlayer
    BY <1>1 DEF ClanState
  <2>2. CASE ca' = PlayerDies(ca, p)
    <3>1. ca' = [ca EXCEPT !.live = @ \ {p}, !.dying = @ \cup {p}, !.deaths = ca.deaths, !.can = ca.can]
      BY <1>1, <2>2 DEF PlayerDies, ClanState
    <3>2. QED BY <2>1, <3>1
  <2>3. CASE ca' = [PlayerDies(ca, p) EXCEPT !.deaths[p] = @ - 1]
    <3>1. ca' = [ca EXCEPT !.live = @ \ {p}, !.dying = @ \cup {p}, !.deaths = less, !.can = ca.can]
      BY <1>1, <2>3 DEF PlayerDies, ClanState
    <3> HIDE DEF less
    <3>2. QED BY <2>1, <3>1
  <2>4. CASE ca' = [PlayerDies(ca, p) EXCEPT !.can = @ \ {p}]
    <3>1. ca' = [ca EXCEPT !.live = @ \ {p}, !.dying = @ \cup {p}, !.deaths = ca.deaths, !.can = ca.can \ {p}]
      BY <1>1, <2>4 DEF PlayerDies, ClanState
    <3>2. QED BY <2>1, <3>1
  <2>5. QED BY <2>2, <2>3, <2>4 DEF CaKilled, CaSuicide
<1>3. /\ ca' \in ClanState /\ ca'.deaths = n /\ ca'.ready = ca.ready /\ ca'.live = ca.live \ {p}
      /\ ca'.here = ca.here /\ ca'.limbo = ca.limbo /\ ca'.dying = ca.dying \cup {p}
      /\ ca'.fight = ca.fight /\ ca'.pause = ca.pause /\ ca'.mode = ca.mode
  BY <1>1, <1>2 DEF ClanState
<1>4. \A c \in ca.live \cup ca.limbo \cup ca.dying : Spared(ca, c) => Spared(ca', c)
  <2> SUFFICES ASSUME NEW c \in ca.live \cup ca.limbo \cup ca.dying, Spared(ca, c) PROVE Spared(ca', c)
    OBVIOUS
  <2>1. c \in CaPlayer /\ ca.deaths[c] <= Respawns(ca) /\ ca.deaths[c] \in Int /\ n[c] \in Int
    BY <1>1, <1>2 DEF Spared, ClanState
  <2>2. Respawns(ca') = Respawns(ca) /\ Respawns(ca) \in Nat
    BY <1>1, <1>3, RespawnsAreMany DEF Respawns
  <2>3. QED BY <1>2, <1>3, <2>1, <2>2 DEF Spared
<1>5. Belongs(ca')
  BY <1>1, <1>3 DEF RoundIsFair, Belongs
<1>6. QED BY <1>1, <1>3, <1>4, <1>5 DEF ClanInv, RoundIsFair, CountsDown

LEMMA CaRespawnStep ==
  ASSUME ClanInv, NEW p \in CaPlayer, CaRespawn(p)
  PROVE  ClanInv'
<1>1. ca \in ClanState /\ RoundIsFair(ca) /\ p \in ca.dying /\ ca' = CA_PutClientInServer(ca, p)
  BY DEF ClanInv, CaRespawn
<1>2. p \in CaPlayer
  BY <1>1 DEF ClanState
<1>3. QED BY <1>1, <1>2, PutKeepsFair DEF ClanInv

-----------------------------------------------------------------------------
(***************************************************************************)
(* The clock, and the next match.                                          *)
(***************************************************************************)
LEMMA CaTimeStep ==
  ASSUME ClanInv, CaTime
  PROVE  ClanInv'
<1> DEFINE less(n) == IF n > 0 THEN n - 1 ELSE n
           w == [c \in CaPlayer |-> less(ca.delay[c])]
           t == [ca EXCEPT !.left = less(@), !.pause_left = less(@), !.delay = w]
<1>1. ca \in ClanState /\ RoundIsFair(ca)
  BY DEF ClanInv
<1>2. PICK S \in SUBSET CaPlayer : ca' = PreThink(t, S)
  <2>1. PICK R \in SUBSET (ca.here \cap CaLaggard) : ca' = PreThink(t, R \cup (ca.here \ CaLaggard))
    BY DEF CaTime
  <2>2. R \cup (ca.here \ CaLaggard) \in SUBSET CaPlayer
    BY <1>1 DEF ClanState
  <2>3. QED BY <2>1, <2>2
<1>3. /\ w \in [CaPlayer -> Int] /\ less(ca.left) \in Nat /\ less(ca.pause_left) \in Nat
  BY <1>1 DEF ClanState
<1> HIDE DEF w
<1>4. /\ t \in ClanState /\ t.deaths = ca.deaths /\ t.ready = ca.ready /\ t.live = ca.live
      /\ t.here = ca.here /\ t.limbo = ca.limbo /\ t.dying = ca.dying
      /\ t.fight = ca.fight /\ t.pause = ca.pause /\ t.mode = ca.mode
  BY <1>1, <1>3 DEF ClanState
<1> HIDE DEF t
<1> DEFINE k == {p \in t.no_pain : p \notin S} \cup {p \in S \ t.dying : ~Hurts(t, p)}
                  \cup (t.no_pain \cap t.dying)
<1>5. k \in SUBSET CaPlayer /\ ca' = [t EXCEPT !.no_pain = k]
  BY <1>2, <1>4 DEF PreThink, ClanState
<1> HIDE DEF k
<1>6. /\ ca' \in ClanState /\ ca'.deaths = t.deaths /\ ca'.ready = t.ready /\ ca'.live = t.live
      /\ ca'.here = t.here /\ ca'.limbo = t.limbo /\ ca'.dying = t.dying
      /\ ca'.fight = t.fight /\ ca'.pause = t.pause /\ ca'.mode = t.mode
  BY <1>4, <1>5 DEF ClanState
<1>7. QED BY <1>1, <1>4, <1>6 DEF ClanInv, RoundIsFair, Belongs, CountsDown, Spared, Respawns

\* A match begins with everybody alive who is there.
LEMMA StartIsFair == ASSUME NEW mode \in {1, 2} PROVE CaStart(mode) \in ClanState /\ RoundIsFair(CaStart(mode))
<1> DEFINE s == CaStart(mode)
<1>1. s \in ClanState
  BY DEF CaStart, ClanState, CaAll, CaTeamOf, CaTeamNo, FightNo, NoDelay
<1>2. s.fight = 0 /\ s.live = CaPlayer /\ s.ready = CaPlayer /\ s.here = CaPlayer /\ s.limbo = {} /\ s.dying = {}
  BY DEF CaStart
<1> HIDE DEF s
<1>3. RoundIsFair(s)
  BY <1>2 DEF RoundIsFair, Belongs, CountsDown
<1>4. QED BY <1>1, <1>3 DEF s

-----------------------------------------------------------------------------
(***************************************************************************)
(* CA_Frame: limbo.                                                        *)
(***************************************************************************)
\* The walk of CA_Frame over the players in limbo: some of them come back to life.
LEMMA LimboStep ==
  ASSUME NEW s \in ClanState, RoundIsFair(s)
  PROVE  /\ Limbo(s) \in ClanState /\ RoundIsFair(Limbo(s)) /\ SameRound(s, Limbo(s))
         /\ Apart(s) => Apart(Limbo(s))
<1> DEFINE u == Limbo(s)
<1>1. CASE ~(s.fight = 2 /\ ~s.pause /\ s.mode = 2)
  BY <1>1 DEF Limbo, SameRound
<1>2. CASE s.fight = 2 /\ ~s.pause /\ s.mode = 2
  <2> DEFINE S == s.limbo
             l == {c \in S : c \in LeaveLimbo(s, c).live} \cup (s.live \ S)
             i == {c \in S : c \in LeaveLimbo(s, c).in_play} \cup (s.in_play \ S)
             d == {c \in S : c \in LeaveLimbo(s, c).dying} \cup (s.dying \ S)
             b == {c \in S : c \in LeaveLimbo(s, c).limbo} \cup (s.limbo \ S)
             n == [c \in CaPlayer |-> IF c \in S THEN LeaveLimbo(s, c).deaths[c] ELSE s.deaths[c]]
             w == [c \in CaPlayer |-> IF c \in S THEN LeaveLimbo(s, c).delay[c] ELSE s.delay[c]]
             e == {c \in s.solo : c \notin s.limbo} \cup {c \in s.limbo : Alone(s, c)}
             v == WithLife(s, l, i, d, b, n, w)
  <2>1. u = [v EXCEPT !.solo = e]
    BY <1>2 DEF Limbo, EachOf, WithLife, ClanState
  <2>2. S \subseteq CaPlayer /\ S \subseteq s.ready
    BY DEF ClanState, RoundIsFair, Belongs
  <2>3. \A c \in S : /\ LeaveLimbo(s, c) \in ClanState /\ LeaveLimbo(s, c).deaths = s.deaths
                     /\ LeaveLimbo(s, c).dying \subseteq s.dying
                     /\ Apart(s) /\ c \in LeaveLimbo(s, c).live => c \notin LeaveLimbo(s, c).limbo
    <3> SUFFICES ASSUME NEW c \in S
                 PROVE  /\ LeaveLimbo(s, c) \in ClanState /\ LeaveLimbo(s, c).deaths = s.deaths
                        /\ LeaveLimbo(s, c).dying \subseteq s.dying
                        /\ Apart(s) /\ c \in LeaveLimbo(s, c).live => c \notin LeaveLimbo(s, c).limbo
      OBVIOUS
    <3> DEFINE a == IF s.delay[c] = NoDelay THEN RespawnTime(s, c) ELSE s.delay[c]
               f == [s.delay EXCEPT ![c] = a]
               q == CA_PutClientInServer(s, c)
               g == [q.delay EXCEPT ![c] = NoDelay]
    <3>1. a \in Int /\ c \in CaPlayer
      BY <2>2 DEF ClanState, RespawnTime
    <3>2. CASE a > 0
      <4>1. LeaveLimbo(s, c) = [s EXCEPT !.delay = f]
        BY <3>2 DEF LeaveLimbo, ClanState
      <4>2. f \in [CaPlayer -> Int]
        BY <3>1 DEF ClanState
      <4> HIDE DEF f, a
      <4>3. QED BY <4>1, <4>2 DEF ClanState, Apart
    <3>3. CASE ~(a > 0)
      <4>1. CA_CheckAlive(s, c)
        BY <2>2 DEF CA_CheckAlive
      <4>2. q \in ClanState /\ q.dying = s.dying \ {c} /\ q.deaths = s.deaths /\ c \notin q.limbo
        BY <3>1, <4>1, PutStep
      <4> HIDE DEF q
      <4>3. LeaveLimbo(s, c) = [q EXCEPT !.delay = g]
        BY <3>3, <4>2 DEF LeaveLimbo, ClanState, q
      <4>4. g \in [CaPlayer -> Int]
        BY <3>1, <4>2 DEF ClanState, NoDelay
      <4> HIDE DEF g, a
      <4>5. QED BY <4>2, <4>3, <4>4 DEF ClanState
    <3>4. QED BY <3>2, <3>3
  <2>4. /\ l \in SUBSET CaPlayer /\ i \in SUBSET CaPlayer /\ d \in SUBSET CaPlayer
        /\ b \in SUBSET CaPlayer /\ e \in SUBSET CaPlayer
        /\ n \in [CaPlayer -> Int] /\ w \in [CaPlayer -> Int]
        /\ \A c \in CaPlayer : n[c] = s.deaths[c]
    <3>1. /\ l \in SUBSET CaPlayer /\ i \in SUBSET CaPlayer /\ d \in SUBSET CaPlayer
          /\ b \in SUBSET CaPlayer /\ e \in SUBSET CaPlayer
      BY <2>2 DEF ClanState
    <3>2. \A c \in S : LeaveLimbo(s, c).delay \in [CaPlayer -> Int]
      BY <2>3 DEF ClanState
    <3>3. s.deaths \in [CaPlayer -> Int] /\ s.delay \in [CaPlayer -> Int]
      BY DEF ClanState
    <3>4. n \in [CaPlayer -> Int] /\ \A c \in CaPlayer : n[c] = s.deaths[c]
      BY <2>3, <3>3
    <3>5. w \in [CaPlayer -> Int]
      BY <2>2, <3>2, <3>3
    <3>6. QED BY <3>1, <3>4, <3>5
  <2>5. /\ l \subseteq s.live \cup s.limbo /\ b \subseteq s.limbo /\ d \subseteq s.dying
        /\ Apart(s) => l \cap b = {}
    BY <2>3
  <2> HIDE DEF l, i, d, b, n, w, e, v, u
  <2>6. v \in ClanState /\ SameRound(s, v) /\ v.live = l /\ v.dying = d /\ v.limbo = b /\ v.deaths = n
    BY <2>4, LifeChanges DEF v
  <2>7. u \in ClanState /\ SameRound(s, u) /\ u.live = l /\ u.dying = d /\ u.limbo = b /\ u.deaths = n
    BY <2>1, <2>4, <2>6 DEF ClanState, SameRound
  <2>8. Belongs(u)
    BY <2>5, <2>7 DEF RoundIsFair, Belongs, SameRound
  <2>9. \A c \in u.live \cup u.limbo : Spared(u, c)
    <3> SUFFICES ASSUME NEW c \in u.live \cup u.limbo PROVE Spared(u, c)
      OBVIOUS
    <3>1. c \in s.live \cup s.limbo /\ c \in CaPlayer
      BY <2>4, <2>5, <2>7
    <3>2. Spared(s, c)
      BY <1>2, <3>1 DEF RoundIsFair
    <3>3. QED BY <2>4, <2>7, <3>1, <3>2 DEF Spared, Respawns, SameRound
  <2>10. ~CountsDown(u)
    BY <1>2, <2>7 DEF CountsDown, SameRound
  <2>11. Apart(s) => Apart(u)
    BY <2>5, <2>7 DEF Apart
  <2>12. QED BY <2>7, <2>8, <2>9, <2>10, <2>11 DEF RoundIsFair, u
<1>3. QED BY <1>1, <1>2

-----------------------------------------------------------------------------
(***************************************************************************)
(* CA_Frame: the referee.                                                  *)
(***************************************************************************)
\* The same players are where they were.
SamePlayers(s, t) ==
  /\ t.mode = s.mode /\ t.here = s.here /\ t.ready = s.ready /\ t.live = s.live
  /\ t.limbo = s.limbo /\ t.dying = s.dying /\ t.deaths = s.deaths /\ t.team = s.team
  /\ t.no_pain = s.no_pain

LEMMA FairIfNoNewRound ==
  ASSUME NEW s \in ClanState, NEW t \in ClanState, RoundIsFair(s), SamePlayers(s, t),
         t.fight = 2 => s.fight = 2, CountsDown(t) => CountsDown(s)
  PROVE  RoundIsFair(t)
BY DEF RoundIsFair, SamePlayers, Belongs, Spared, Respawns

\* The pause ends in no fight, and no fight or countdown begins without another round.
LEMMA EndRoundStep ==
  ASSUME NEW s \in ClanState, RoundIsFair(s), NEW t \in CaTeamNo
  PROVE  EndRound(s, t) \in ClanState /\ RoundIsFair(EndRound(s, t))
<1> DEFINE begun == IF s.pause THEN s
                    ELSE [s EXCEPT !.pause = TRUE, !.pause_left = PauseTime,
                                   !.loser = IF t = 0 THEN 0 ELSE 3 - t]
           u == EndRound(s, t)
<1>1. /\ begun \in ClanState /\ SamePlayers(s, begun) /\ begun.pause /\ begun.fight = s.fight
  <2>1. CASE s.pause
    BY <2>1 DEF SamePlayers
  <2>2. CASE ~s.pause
    <3>1. PauseTime \in Nat /\ (IF t = 0 THEN 0 ELSE 3 - t) \in Int
      BY CaNumberAssumption DEF CaTeamNo
    <3>2. QED BY <2>2, <3>1 DEF ClanState, SamePlayers
  <2>3. QED BY <2>1, <2>2
<1>2. u = IF begun.pause_left = 0
          THEN [Score(begun, t) EXCEPT !.pause = FALSE, !.loser = 0, !.fight = 0]
          ELSE [begun EXCEPT !.fight = IF 2 * begun.pause_left <= PauseTime THEN 1 ELSE begun.fight]
  BY DEF EndRound
<1> HIDE DEF begun, u
<1>3. CASE begun.pause_left = 0
  <2> DEFINE v == Score(begun, t)
  <2>1. v \in ClanState /\ SamePlayers(s, v)
    <3>1. CASE t = 0
      BY <1>1, <3>1 DEF Score
    <3>2. CASE t # 0
      <4> DEFINE a == [begun.score EXCEPT ![t] = begun.score[t] + 1]
      <4>1. v = [begun EXCEPT !.score = a, !.round = begun.round + 1]
        BY <1>1, <3>2 DEF Score, ClanState
      <4>2. a \in [{1, 2} -> Nat] /\ begun.round + 1 \in Nat
        BY <1>1, <3>2 DEF ClanState, CaTeamNo
      <4> HIDE DEF a
      <4>3. v \in ClanState
        BY <1>1, <4>1, <4>2 DEF ClanState
      <4>4. SamePlayers(s, v)
        BY <1>1, <4>1 DEF ClanState, SamePlayers
      <4>5. QED BY <4>3, <4>4
    <3>3. QED BY <3>1, <3>2
  <2> HIDE DEF v
  <2>2. u = [v EXCEPT !.pause = FALSE, !.loser = 0, !.fight = 0]
    BY <1>2, <1>3 DEF v
  <2>3. u \in ClanState /\ SamePlayers(s, u) /\ u.fight = 0
    <3>1. u \in ClanState /\ u.fight = 0
      BY <2>1, <2>2, CaNumbers DEF ClanState
    <3>2. SamePlayers(s, u)
      BY <2>1, <2>2 DEF ClanState, SamePlayers
    <3>3. QED BY <3>1, <3>2
  <2>4. QED BY <2>3, FairIfNoNewRound DEF CountsDown, u
<1>4. CASE begun.pause_left # 0
  <2> DEFINE f == IF 2 * begun.pause_left <= PauseTime THEN 1 ELSE begun.fight
  <2>1. u = [begun EXCEPT !.fight = f] /\ f \in FightNo /\ (f = 2 => s.fight = 2)
    BY <1>1, <1>2, <1>4 DEF ClanState, FightNo
  <2> HIDE DEF f
  <2>2. u \in ClanState /\ SamePlayers(s, u) /\ u.pause /\ u.fight = f
    BY <1>1, <2>1 DEF ClanState, SamePlayers
  <2>3. QED BY <2>1, <2>2, FairIfNoNewRound DEF CountsDown, u
<1>5. QED BY <1>3, <1>4

LEMMA JudgeStep ==
  ASSUME NEW s \in ClanState, RoundIsFair(s)
  PROVE  Judge(s) \in ClanState /\ RoundIsFair(Judge(s))
<1>1. \A t \in LiveTeams(s) : t \in CaTeamNo
  BY DEF LiveTeams, ClanState
<1>2. Verdict(s) = -1 \/ Verdict(s) \in CaTeamNo
  <2>1. 0 \in CaTeamNo
    BY DEF CaTeamNo
  <2>2. CASE LiveTeams(s) = {}
    <3>1. Verdict(s) = -1 \/ Verdict(s) = 0
      BY <2>2 DEF Verdict
    <3>2. QED BY <2>1, <3>1
  <2>3. CASE LiveTeams(s) # {}
    <3>1. (CHOOSE t \in LiveTeams(s) : TRUE) \in LiveTeams(s)
      BY <2>3
    <3>2. Verdict(s) = -1 \/ Verdict(s) = CHOOSE t \in LiveTeams(s) : TRUE
      BY <2>3 DEF Verdict
    <3>3. QED BY <1>1, <3>1, <3>2
  <2>4. QED BY <2>2, <2>3
<1>3. QED BY <1>2, EndRoundStep DEF Judge

\* Who takes part in a new round is alive, has no deaths and is not in limbo.
LEMMA NewRoundStep ==
  ASSUME NEW s \in ClanState, RoundIsFair(s)
  PROVE  LET u == NewRound(s) IN
         /\ u \in ClanState /\ Belongs(u) /\ u.fight = 1 /\ u.limbo = {} /\ u.dying = {}
         /\ \A c \in u.live : Spared(u, c)
         /\ u.ready = s.ready /\ u.team = s.team /\ u.pause = s.pause /\ u.loser = s.loser /\ u.score = s.score
<1> DEFINE S == s.ready
           k == s.can \cup S
           m == [c \in CaPlayer |-> IF c \in S THEN 0 ELSE s.deaths[c]]
           e == {c \in s.solo : c \notin S} \cup {c \in S : Alone(s, c)}
           x == [s EXCEPT !.fight = 1, !.left = RoundTime, !.can = k, !.deaths = m, !.solo = e]
           u == NewRound(s)
<1>1. S \subseteq CaPlayer /\ k \in SUBSET CaPlayer /\ m \in [CaPlayer -> Int] /\ e \in SUBSET CaPlayer
  BY DEF ClanState
<1>2. \A c \in S : m[c] = 0
  BY <1>1
<1>3. s.live \subseteq S /\ s.limbo \subseteq S /\ s.dying \subseteq S
  BY DEF RoundIsFair, Belongs
<1>4. u = EachOf(x, S, CA_PutClientInServer)
  BY DEF NewRound, ClanState
<1> HIDE DEF k, m, e, S
<1>5. /\ x \in ClanState /\ x.fight = 1 /\ x.deaths = m /\ x.ready = S /\ x.here = s.here /\ x.mode = s.mode
      /\ x.live = s.live /\ x.limbo = s.limbo /\ x.dying = s.dying /\ x.team = s.team
      /\ x.pause = s.pause /\ x.loser = s.loser /\ x.score = s.score
  <2>1. s.ready = S
    BY DEF S
  <2>2. QED BY <1>1, <2>1, CaNumbers DEF ClanState
<1> HIDE DEF x, u
<1> DEFINE P(c) == CA_PutClientInServer(x, c)
           l == {c \in S : c \in P(c).live} \cup (x.live \ S)
           i == {c \in S : c \in P(c).in_play} \cup (x.in_play \ S)
           d == {c \in S : c \in P(c).dying} \cup (x.dying \ S)
           b == {c \in S : c \in P(c).limbo} \cup (x.limbo \ S)
           n == [c \in CaPlayer |-> IF c \in S THEN P(c).deaths[c] ELSE x.deaths[c]]
           w == [c \in CaPlayer |-> IF c \in S THEN P(c).delay[c] ELSE x.delay[c]]
<1>6. u = WithLife(x, l, i, d, b, n, w)
  BY <1>4, <1>5 DEF EachOf, WithLife, ClanState
<1>7. \A c \in S : P(c) \in ClanState /\ P(c).dying = x.dying \ {c} /\ P(c).limbo = x.limbo \ {c} /\ P(c).deaths = m
  <2> SUFFICES ASSUME NEW c \in S
               PROVE  P(c) \in ClanState /\ P(c).dying = x.dying \ {c} /\ P(c).limbo = x.limbo \ {c} /\ P(c).deaths = m
    OBVIOUS
  <2>1. CA_CheckAlive(x, c) /\ c \in CaPlayer
    BY <1>1, <1>5 DEF CA_CheckAlive
  <2>2. QED BY <1>5, <2>1, PutStep
<1>8. \A c \in S : P(c).deaths \in [CaPlayer -> Int] /\ P(c).delay \in [CaPlayer -> Int]
  BY <1>7 DEF ClanState
<1>9. x.deaths \in [CaPlayer -> Int] /\ x.delay \in [CaPlayer -> Int] /\ x.in_play \subseteq CaPlayer
  BY <1>5 DEF ClanState
<1> HIDE DEF P
<1>10. l \subseteq S /\ d = {} /\ b = {}
  BY <1>3, <1>5, <1>7
<1>11. l \in SUBSET CaPlayer /\ i \in SUBSET CaPlayer /\ d \in SUBSET CaPlayer /\ b \in SUBSET CaPlayer
  BY <1>1, <1>9, <1>10
<1>12. n \in [CaPlayer -> Int] /\ \A c \in S : n[c] = 0
  BY <1>1, <1>2, <1>7, <1>8, <1>9
<1>13. w \in [CaPlayer -> Int]
  BY <1>8, <1>9
<1> HIDE DEF l, i, d, b, n, w
<1>14. u \in ClanState /\ SameRound(x, u) /\ u.live = l /\ u.dying = d /\ u.limbo = b /\ u.deaths = n
  BY <1>5, <1>6, <1>11, <1>12, <1>13, LifeChanges
<1>15. Belongs(u)
  BY <1>5, <1>10, <1>14 DEF RoundIsFair, Belongs, SameRound, S
<1>16. \A c \in u.live : Spared(u, c)
  BY <1>10, <1>12, <1>14, RespawnsAreMany DEF Spared
<1>17. QED BY <1>5, <1>10, <1>14, <1>15, <1>16 DEF SameRound, u, S

LEMMA CountdownStep ==
  ASSUME NEW s \in ClanState, RoundIsFair(s), s.fight = 1 => ~s.pause, s.fight # 2
  PROVE  Countdown(s) \in ClanState /\ RoundIsFair(Countdown(s))
<1> DEFINE t == IF s.fight = 0 THEN NewRound(s) ELSE s
<1>1. /\ t \in ClanState /\ Belongs(t) /\ t.fight = 1 /\ t.limbo = {}
      /\ \A c \in t.live \cup t.dying : Spared(t, c)
  <2>1. CASE s.fight = 0
    BY <2>1, NewRoundStep
  <2>2. CASE s.fight # 0
    <3>1. s.fight = 1 /\ t = s
      BY <2>2 DEF ClanState, FightNo
    <3>2. QED BY <3>1 DEF RoundIsFair, CountsDown
  <2>3. QED BY <2>1, <2>2
<1>2. Countdown(s) = IF t.left = 0 THEN [t EXCEPT !.fight = 2] ELSE t
  BY DEF Countdown
<1> HIDE DEF t
<1>3. CASE t.left = 0
  <2> DEFINE u == [t EXCEPT !.fight = 2]
  <2>1. u \in ClanState /\ SamePlayers(t, u) /\ u.fight = 2
    BY <1>1 DEF ClanState, SamePlayers, FightNo
  <2>2. Countdown(s) = u
    BY <1>2, <1>3
  <2> HIDE DEF u
  <2>3. RoundIsFair(u)
    BY <1>1, <2>1 DEF RoundIsFair, SamePlayers, Belongs, Spared, Respawns, CountsDown
  <2>4. QED BY <2>1, <2>2, <2>3
<1>4. CASE t.left # 0
  BY <1>1, <1>2, <1>4 DEF RoundIsFair
<1>5. QED BY <1>3, <1>4

LEMMA CaFrameStep ==
  ASSUME ClanInv, CaFrame
  PROVE  ClanInv'
<1> DEFINE t == Judge(Limbo(ca))
<1>1. t \in ClanState /\ RoundIsFair(t)
  BY LimboStep, JudgeStep DEF ClanInv
<1>2. ca' = CA_FrameOf(ca)
  BY DEF CaFrame
<1> HIDE DEF t
<1>3. CASE t.fight = 2 \/ (~SeriesWon(t) /\ t.pause)
  <2>1. ca' = t
    BY <1>2, <1>3 DEF CA_FrameOf, t
  <2>2. QED BY <1>1, <2>1 DEF ClanInv
<1>4. CASE t.fight # 2 /\ SeriesWon(t)
  <2>1. ca' = [t EXCEPT !.over = TRUE]
    BY <1>2, <1>4 DEF CA_FrameOf, t
  <2>2. ca' \in ClanState /\ SamePlayers(t, ca') /\ ca'.fight = t.fight /\ ca'.pause = t.pause
    BY <1>1, <2>1 DEF ClanState, SamePlayers
  <2>3. QED BY <1>1, <2>2, FairIfNoNewRound DEF ClanInv, CountsDown
<1>5. CASE t.fight # 2 /\ ~SeriesWon(t) /\ ~t.pause
  <2>1. ca' = Countdown(t)
    BY <1>2, <1>5 DEF CA_FrameOf, t
  <2>2. QED BY <1>1, <1>5, <2>1, CountdownStep DEF ClanInv
<1>6. QED BY <1>3, <1>4, <1>5

-----------------------------------------------------------------------------
(***************************************************************************)
(* The theorems.                                                           *)
(***************************************************************************)
LEMMA ClanNextInv == ClanInv /\ [ClanNext]_ca => ClanInv'
<1> SUFFICES ASSUME ClanInv, [ClanNext]_ca PROVE ClanInv'
  OBVIOUS
<1>1. CASE ClanPlayers
  BY <1>1, CaConnectStep, CaDisconnectStep, LateJoinStep, DeathStep, CaRespawnStep DEF ClanPlayers
<1>2. CASE CaFrame
  BY <1>2, CaFrameStep
<1>3. CASE CaTime
  BY <1>3, CaTimeStep
<1>4. CASE CaNewMatch
  BY <1>4, StartIsFair, CaModeAssumption DEF CaNewMatch, ClanInv
<1>5. CASE UNCHANGED ca
  BY <1>5 DEF ClanInv
<1>6. QED BY <1>1, <1>2, <1>3, <1>4, <1>5 DEF ClanNext

\* The inductive invariant holds in every state of every behaviour.
THEOREM ClanInvariance == ClanSafety => []ClanInv
<1>1. ClanInit => ClanInv
  BY StartIsFair, CaModeAssumption DEF ClanInit, ClanInv
<1>2. QED BY <1>1, ClanNextInv, PTL DEF ClanSafety

\* In a round of clan_arena.c the eliminated and those who came late stay out.
THEOREM EliminatedStayOut == ClanSafety => []OutsidersStayOut
<1>1. ClanInv => OutsidersStayOut
  BY DEF ClanInv, RoundIsFair, Belongs, Spared, OutsidersStayOut
<1>2. QED BY <1>1, ClanInvariance, PTL
-----------------------------------------------------------------------------
(***************************************************************************)
(* The points.  Between the verdict and the point lies the pause, in which *)
(* clients die, leave, come and spawn.  Who is alive in it must not be of  *)
(* the team that lost.                                                     *)
(***************************************************************************)
SurvivorsWin(s) == s.loser # 0 /\ \A p \in s.live : s.team[p] # s.loser

\* The frames of all clients have been run since the pause began: nobody is dying, and
\* nobody alive can be hurt.  This is so before the second half of it, in which CA_CheckAlive
\* would let the dead spawn.
PauseIsSafe(s) == s.dying = {} /\ s.live \subseteq s.no_pain

Settled(s) ==
  /\ \A p \in s.ready : s.team[p] \in {1, 2}
  /\ Apart(s)
  /\ s.pause => /\ s.fight # 0 /\ s.pause_left <= PauseTime
                /\ s.live # {} => SurvivorsWin(s)
                /\ s.pause_left < PauseTime => PauseIsSafe(s)
                /\ s.fight = 1 => s.pause_left < PauseTime

PointsAreFair == \A t \in {1, 2} : ca'.score[t] > ca.score[t] => ca.loser # t /\ t \in LiveTeams(ca)

LEMMA NoPoint ==
  ASSUME ca \in ClanState, ca'.score = ca.score PROVE PointsAreFair
BY DEF PointsAreFair, ClanState

\* Who is put into the server does not disturb a pause, if he had to die first or does not
\* take part.
LEMMA PutSettles ==
  ASSUME NEW s \in ClanState, Settled(s), NEW p \in CaPlayer,
         p \in s.dying \/ p \notin s.ready, p \notin s.limbo
  PROVE  LET u == CA_PutClientInServer(s, p) IN Settled(u) /\ u.score = s.score
<1> DEFINE u == CA_PutClientInServer(s, p)
<1>1. /\ u \in ClanState /\ SameRound(s, u) /\ u.dying = s.dying \ {p}
      /\ IF CA_CheckAlive(s, p)
         THEN u.live = s.live \cup {p} /\ u.limbo = s.limbo \ {p} /\ u.deaths = s.deaths
         ELSE /\ u.live = s.live \ {p}
              /\ \A c \in CaPlayer : c # p => u.deaths[c] = s.deaths[c] /\ (c \in u.limbo <=> c \in s.limbo)
              /\ p \in u.limbo => p \in s.ready /\ Spared(u, p)
  BY PutStep
<1> HIDE DEF u
<1>2. u.limbo \subseteq CaPlayer /\ s.limbo \subseteq CaPlayer
  BY <1>1 DEF ClanState
<1>3. CA_CheckAlive(s, p) => s.fight # 2 /\ p \in s.dying
  BY DEF CA_CheckAlive
<1>4. Apart(u)
  BY <1>1, <1>2 DEF Settled, Apart
<1>5. s.pause /\ CA_CheckAlive(s, p) => FALSE
  <2> SUFFICES ASSUME s.pause, CA_CheckAlive(s, p) PROVE FALSE
    OBVIOUS
  <2>1. s.fight = 1
    BY <1>3 DEF Settled, ClanState, FightNo
  <2>2. QED BY <1>3, <2>1 DEF Settled, PauseIsSafe
<1>6. s.pause => u.live \subseteq s.live
  BY <1>1, <1>5
<1>7. u.pause => /\ u.fight # 0 /\ u.pause_left <= PauseTime
                 /\ u.live # {} => SurvivorsWin(u)
                 /\ u.pause_left < PauseTime => PauseIsSafe(u)
                 /\ u.fight = 1 => u.pause_left < PauseTime
  BY <1>1, <1>6 DEF Settled, SameRound, SurvivorsWin, PauseIsSafe
<1>8. QED BY <1>1, <1>4, <1>7 DEF Settled, SameRound, u

LEMMA ConnectSettles ==
  ASSUME ClanInv, Settled(ca), NEW p \in CaPlayer, CaConnect(p)
  PROVE  Settled(ca') /\ PointsAreFair
<1> DEFINE w == ca.here \cup {p}
           m == [ca.team EXCEPT ![p] = 0]
           n == [ca.deaths EXCEPT ![p] = 0]
           s == [ca EXCEPT !.here = w, !.team = m, !.deaths = n]
<1>1. ca \in ClanState /\ RoundIsFair(ca) /\ p \notin ca.here
  BY DEF ClanInv, CaConnect
<1>2. ca' = CA_PutClientInServer(s, p)
  BY <1>1 DEF CaConnect, ClanState
<1>3. /\ w \in SUBSET CaPlayer /\ m \in [CaPlayer -> CaTeamNo] /\ n \in [CaPlayer -> Int]
      /\ \A c \in CaPlayer : c # p => m[c] = ca.team[c]
  BY <1>1 DEF ClanState, CaTeamNo
<1> HIDE DEF w, m, n
<1>4. /\ s \in ClanState /\ s.team = m /\ s.ready = ca.ready /\ s.live = ca.live
      /\ s.limbo = ca.limbo /\ s.dying = ca.dying /\ s.fight = ca.fight /\ s.pause = ca.pause
      /\ s.pause_left = ca.pause_left /\ s.loser = ca.loser /\ s.no_pain = ca.no_pain /\ s.score = ca.score
  BY <1>1, <1>3 DEF ClanState
<1> HIDE DEF s
<1>5. p \notin ca.ready /\ p \notin ca.live /\ p \notin ca.limbo
      /\ ca.ready \subseteq CaPlayer /\ ca.live \subseteq CaPlayer
  BY <1>1 DEF RoundIsFair, Belongs, ClanState
<1>6. Settled(s)
  BY <1>3, <1>4, <1>5 DEF Settled, Apart, SurvivorsWin, PauseIsSafe
<1>7. Settled(ca') /\ ca'.score = s.score
  BY <1>2, <1>4, <1>5, <1>6, PutSettles
<1>8. QED BY <1>1, <1>4, <1>7, NoPoint

LEMMA DisconnectSettles ==
  ASSUME ClanInv, Settled(ca), NEW p \in CaPlayer, CaDisconnect(p)
  PROVE  Settled(ca') /\ PointsAreFair
<1> DEFINE m == [ca.team EXCEPT ![p] = 0]
           n == [ca.deaths EXCEPT ![p] = 0]
           w == [ca.delay EXCEPT ![p] = NoDelay]
           o == ca.over \/ ca.here = {p}
<1>1. ca \in ClanState
  BY DEF ClanInv
<1>2. ca' = [ca EXCEPT !.here = @ \ {p}, !.ready = @ \ {p}, !.live = @ \ {p},
                       !.dying = @ \ {p}, !.in_play = @ \ {p}, !.limbo = @ \ {p},
                       !.can = @ \ {p}, !.solo = @ \ {p}, !.no_pain = @ \ {p},
                       !.team = m, !.deaths = n, !.delay = w, !.over = o]
  BY <1>1 DEF CaDisconnect, ClanState
<1>3. \A c \in CaPlayer : c # p => m[c] = ca.team[c]
  BY <1>1 DEF ClanState
<1> HIDE DEF m, n, w, o
<1>4. /\ ca'.team = m /\ ca'.ready = ca.ready \ {p} /\ ca'.live = ca.live \ {p}
      /\ ca'.limbo = ca.limbo \ {p} /\ ca'.dying = ca.dying \ {p} /\ ca'.no_pain = ca.no_pain \ {p}
      /\ ca'.fight = ca.fight /\ ca'.pause = ca.pause /\ ca'.pause_left = ca.pause_left
      /\ ca'.loser = ca.loser /\ ca'.score = ca.score
  BY <1>1, <1>2 DEF ClanState
<1>5. ca.ready \subseteq CaPlayer /\ ca.live \subseteq CaPlayer
  BY <1>1 DEF ClanState
<1>6. Settled(ca')
  BY <1>3, <1>4, <1>5 DEF Settled, Apart, SurvivorsWin, PauseIsSafe
<1>7. QED BY <1>1, <1>4, <1>6, NoPoint

LEMMA LateJoinSettles ==
  ASSUME ClanInv, Settled(ca), NEW p \in CaPlayer, NEW t \in {1, 2}, CaLateJoin(p, t)
  PROVE  Settled(ca') /\ PointsAreFair
<1> DEFINE m == [ca.team EXCEPT ![p] = t]
<1>1. ca \in ClanState /\ RoundIsFair(ca) /\ p \notin ca.ready
  BY DEF ClanInv, CaLateJoin
<1>2. ca' = [ca EXCEPT !.ready = @ \cup {p}, !.team = m, !.can = @ \ {p}]
  BY <1>1 DEF CaLateJoin, ClanState
<1>3. m[p] = t /\ \A c \in CaPlayer : c # p => m[c] = ca.team[c]
  BY <1>1 DEF ClanState
<1> HIDE DEF m
<1>4. /\ ca'.team = m /\ ca'.ready = ca.ready \cup {p} /\ ca'.live = ca.live
      /\ ca'.limbo = ca.limbo /\ ca'.dying = ca.dying /\ ca'.no_pain = ca.no_pain
      /\ ca'.fight = ca.fight /\ ca'.pause = ca.pause /\ ca'.pause_left = ca.pause_left
      /\ ca'.loser = ca.loser /\ ca'.score = ca.score
  BY <1>1, <1>2 DEF ClanState
<1>5. ca.ready \subseteq CaPlayer /\ \A c \in ca.live : c \in CaPlayer /\ c # p
  BY <1>1 DEF ClanState, RoundIsFair, Belongs
<1>6. Settled(ca')
  BY <1>3, <1>4, <1>5 DEF Settled, Apart, SurvivorsWin, PauseIsSafe
<1>7. QED BY <1>1, <1>4, <1>6, NoPoint

\* In the part of a pause that is safe nobody dies.
LEMMA DeathSettles ==
  ASSUME ClanInv, Settled(ca), NEW p \in CaPlayer, CaKilled(p) \/ CaSuicide(p)
  PROVE  Settled(ca') /\ PointsAreFair
<1>1. ca \in ClanState /\ p \in ca.live /\ (ca.pause => p \notin ca.no_pain)
  BY DEF ClanInv, CaKilled, CaSuicide
<1>2. /\ ca'.team = ca.team /\ ca'.ready = ca.ready /\ ca'.live = ca.live \ {p}
      /\ ca'.limbo = ca.limbo /\ ca'.dying = ca.dying \cup {p} /\ ca'.no_pain = ca.no_pain
      /\ ca'.fight = ca.fight /\ ca'.pause = ca.pause /\ ca'.pause_left = ca.pause_left
      /\ ca'.loser = ca.loser /\ ca'.score = ca.score
  <2>1. CASE ca' = PlayerDies(ca, p)
    BY <1>1, <2>1 DEF PlayerDies, ClanState
  <2>2. CASE ca' = [PlayerDies(ca, p) EXCEPT !.deaths[p] = @ - 1]
    BY <1>1, <2>2 DEF PlayerDies, ClanState
  <2>3. CASE ca' = [PlayerDies(ca, p) EXCEPT !.can = @ \ {p}]
    BY <1>1, <2>3 DEF PlayerDies, ClanState
  <2>4. QED BY <2>1, <2>2, <2>3 DEF CaKilled, CaSuicide
<1>3. Settled(ca')
  BY <1>1, <1>2 DEF Settled, Apart, SurvivorsWin, PauseIsSafe
<1>4. QED BY <1>1, <1>2, <1>3, NoPoint

LEMMA RespawnSettles ==
  ASSUME ClanInv, Settled(ca), NEW p \in CaPlayer, CaRespawn(p)
  PROVE  Settled(ca') /\ PointsAreFair
<1>1. ca \in ClanState /\ p \in ca.dying /\ p \notin ca.limbo
  BY DEF ClanInv, CaRespawn, Settled, Apart
<1>2. Settled(ca') /\ ca'.score = ca.score
  BY <1>1, PutSettles DEF CaRespawn
<1>3. QED BY <1>1, <1>2, NoPoint

\* When the clock has moved, the frames of all clients have been run.
LEMMA TimeSettles ==
  ASSUME ClanInv, Settled(ca), CaLaggard = {}, CaTime
  PROVE  Settled(ca') /\ PointsAreFair
<1> DEFINE less(n) == IF n > 0 THEN n - 1 ELSE n
           w == [c \in CaPlayer |-> less(ca.delay[c])]
           t == [ca EXCEPT !.left = less(@), !.pause_left = less(@), !.delay = w]
<1>1. ca \in ClanState /\ RoundIsFair(ca) /\ ca.dying = {}
  BY DEF ClanInv, CaTime
<1>2. ca' = PreThink(t, ca.here)
  <2>1. PICK R \in SUBSET (ca.here \cap CaLaggard) : ca' = PreThink(t, R \cup (ca.here \ CaLaggard))
    BY DEF CaTime
  <2>2. R \cup (ca.here \ CaLaggard) = ca.here
    OBVIOUS
  <2>3. QED BY <2>1, <2>2
<1>3. /\ t.team = ca.team /\ t.ready = ca.ready /\ t.live = ca.live
      /\ t.limbo = ca.limbo /\ t.dying = {} /\ t.no_pain = ca.no_pain
      /\ t.fight = ca.fight /\ t.pause = ca.pause /\ t.pause_left = less(ca.pause_left)
      /\ t.loser = ca.loser /\ t.score = ca.score /\ t.in_play = ca.in_play
      /\ DOMAIN t = DOMAIN ca
  BY <1>1 DEF ClanState
<1> HIDE DEF t
<1> DEFINE k == {p \in t.no_pain : p \notin ca.here} \cup {p \in ca.here \ t.dying : ~Hurts(t, p)}
                  \cup (t.no_pain \cap t.dying)
<1>4. ca' = [t EXCEPT !.no_pain = k]
  BY <1>2 DEF PreThink
<1>5. ca.pause => ca.here \subseteq k
  BY <1>3 DEF Hurts
<1> HIDE DEF k
<1>6. /\ ca'.team = t.team /\ ca'.ready = t.ready /\ ca'.live = t.live
      /\ ca'.limbo = t.limbo /\ ca'.dying = t.dying /\ ca'.no_pain = k
      /\ ca'.fight = t.fight /\ ca'.pause = t.pause /\ ca'.pause_left = t.pause_left
      /\ ca'.loser = t.loser /\ ca'.score = t.score
  BY <1>1, <1>3, <1>4 DEF ClanState
<1>7. ca.live \subseteq ca.here
  BY <1>1 DEF RoundIsFair, Belongs
<1>8. ca.pause => PauseIsSafe(ca')
  BY <1>3, <1>5, <1>6, <1>7 DEF PauseIsSafe
<1>9. ca.pause_left \in Nat
  BY <1>1 DEF ClanState
<1>10. less(ca.pause_left) <= ca.pause_left
  BY <1>9
<1>11. Settled(ca')
  BY <1>3, <1>6, <1>8, <1>9, <1>10, CaNumberAssumption DEF Settled, Apart, SurvivorsWin
<1>12. QED BY <1>1, <1>3, <1>6, <1>11, NoPoint
LEMMA StartSettles == ASSUME NEW mode \in {1, 2} PROVE Settled(CaStart(mode))
BY DEF CaStart, Settled, Apart, CaAll, CaTeamOf

LEMMA NewMatchSettles ==
  ASSUME ClanInv, Settled(ca), CaNewMatch
  PROVE  Settled(ca') /\ PointsAreFair
<1>1. PICK mode \in {1, 2} : ca' = CaStart(mode)
  BY CaModeAssumption DEF CaNewMatch
<1>2. \A t \in {1, 2} : ca'.score[t] = 0 /\ ca.score[t] \in Nat
  BY <1>1 DEF CaStart, ClanInv, ClanState
<1>3. PointsAreFair
  BY <1>2 DEF PointsAreFair
<1>4. QED BY <1>1, <1>3, StartSettles

-----------------------------------------------------------------------------
(***************************************************************************)
(* The referee's verdict.                                                  *)
(***************************************************************************)
LEMMA TwoTeams == Cardinality({1, 2}) = 2
<1>1. IsFiniteSet({1}) /\ Cardinality({1}) = 1 /\ {1} \cup {2} = {1, 2}
  BY FS_Singleton
<1>2. QED BY <1>1, FS_AddElement

\* A team wins when all who are alive are of it, and nobody wins when nobody is alive.
LEMMA VerdictIsRight ==
  ASSUME NEW s \in ClanState, RoundIsFair(s), Settled(s), Verdict(s) # -1
  PROVE  LET t == Verdict(s) IN
         IF s.live = {} THEN t = 0
         ELSE t \in {1, 2} /\ t \in LiveTeams(s) /\ \A p \in s.live : s.team[p] = t
<1>1. LiveTeams(s) \subseteq {1, 2}
  BY DEF LiveTeams, Settled, RoundIsFair, Belongs
<1>2. LiveTeams(s) = {} <=> s.live = {}
  BY DEF LiveTeams
<1>3. ~(Cardinality(LiveTeams(s)) > 1)
  BY DEF Verdict
<1>4. LiveTeams(s) # {1, 2}
  BY <1>3, TwoTeams
<1>5. CASE s.live = {}
  BY <1>2, <1>5 DEF Verdict
<1>6. CASE s.live # {}
  <2>1. Verdict(s) = CHOOSE t \in LiveTeams(s) : TRUE
    BY <1>2, <1>6 DEF Verdict
  <2>2. Verdict(s) \in LiveTeams(s)
    BY <1>2, <1>6, <2>1
  <2>3. \A t \in LiveTeams(s) : t = Verdict(s)
    BY <1>1, <1>4, <2>2
  <2>4. \A p \in s.live : s.team[p] = Verdict(s)
    BY <2>3 DEF LiveTeams
  <2>5. QED BY <1>1, <1>6, <2>2, <2>4
<1>7. QED BY <1>5, <1>6

\* What the judge may do to the score s had.
PointTo(s, u) ==
  \/ u.score = s.score
  \/ /\ s.pause
     /\ \E t \in LiveTeams(s) : /\ t \in {1, 2} /\ t # s.loser
                                /\ u.score = [s.score EXCEPT ![t] = @ + 1]

LEMMA EndRoundSettles ==
  ASSUME NEW s \in ClanState, RoundIsFair(s), Settled(s), Verdict(s) # -1,
         s.fight = 2 \/ (s.fight = 1 /\ s.pause)
  PROVE  LET u == EndRound(s, Verdict(s)) IN Settled(u) /\ PointTo(s, u)
<1> DEFINE t == Verdict(s)
           begun == IF s.pause THEN s
                    ELSE [s EXCEPT !.pause = TRUE, !.pause_left = PauseTime,
                                   !.loser = IF t = 0 THEN 0 ELSE 3 - t]
           u == EndRound(s, t)
<1>1. IF s.live = {} THEN t = 0
      ELSE t \in {1, 2} /\ t \in LiveTeams(s) /\ \A p \in s.live : s.team[p] = t
  BY VerdictIsRight
<1>2. u = IF begun.pause_left = 0
          THEN [Score(begun, t) EXCEPT !.pause = FALSE, !.loser = 0, !.fight = 0]
          ELSE [begun EXCEPT !.fight = IF 2 * begun.pause_left <= PauseTime THEN 1 ELSE begun.fight]
  BY DEF EndRound
<1> HIDE DEF t
<1>3. /\ begun \in ClanState /\ begun.pause /\ begun.fight = s.fight /\ begun.score = s.score
      /\ begun.live = s.live /\ begun.team = s.team /\ begun.ready = s.ready /\ begun.limbo = s.limbo
      /\ begun.dying = s.dying /\ begun.no_pain = s.no_pain
      /\ s.pause => begun = s
      /\ ~s.pause => begun.pause_left = PauseTime /\ begun.loser = IF t = 0 THEN 0 ELSE 3 - t
  <2>1. CASE s.pause
    BY <2>1
  <2>2. CASE ~s.pause
    <3>1. PauseTime \in Nat /\ (IF t = 0 THEN 0 ELSE 3 - t) \in Int
      BY <1>1, CaNumberAssumption
    <3>2. QED BY <2>2, <3>1 DEF ClanState
  <2>3. QED BY <2>1, <2>2
<1>4. begun.live # {} => SurvivorsWin(begun)
  <2>1. CASE s.pause
    BY <1>3, <2>1 DEF Settled
  <2>2. CASE ~s.pause
    BY <1>1, <1>3, <2>2 DEF SurvivorsWin
  <2>3. QED BY <2>1, <2>2
<1> HIDE DEF begun, u
<1>5. CASE begun.pause_left = 0
  <2>1. s.pause /\ begun = s
    BY <1>3, <1>5, CaNumberAssumption
  <2>2. u = [Score(s, t) EXCEPT !.pause = FALSE, !.loser = 0, !.fight = 0]
    BY <1>2, <1>5, <2>1
  <2>3. CASE t = 0
    <3>1. u = [s EXCEPT !.pause = FALSE, !.loser = 0, !.fight = 0]
      BY <2>2, <2>3 DEF Score
    <3>2. /\ ~u.pause /\ u.loser = 0 /\ u.score = s.score /\ u.ready = s.ready /\ u.team = s.team
          /\ u.live = s.live /\ u.limbo = s.limbo /\ u.dying = s.dying
      BY <3>1 DEF ClanState
    <3>3. QED BY <3>2 DEF Settled, Apart, PointTo, u, t
  <2>4. CASE t # 0
    <3> DEFINE a == [s.score EXCEPT ![t] = @ + 1]
    <3>1. t \in {1, 2} /\ t \in LiveTeams(s) /\ t # s.loser
      BY <1>1, <1>4, <2>1, <2>4 DEF SurvivorsWin
    <3>2. Score(s, t) = [s EXCEPT !.score = a, !.round = s.round + 1]
      BY <2>4 DEF Score, ClanState
    <3> HIDE DEF a
    <3>3. /\ ~u.pause /\ u.loser = 0 /\ u.score = a /\ u.ready = s.ready /\ u.team = s.team
          /\ u.live = s.live /\ u.limbo = s.limbo /\ u.dying = s.dying
      BY <2>2, <3>2 DEF ClanState
    <3>4. Settled(u)
      BY <3>3 DEF Settled, Apart
    <3>5. PointTo(s, u)
      BY <2>1, <3>1, <3>3 DEF PointTo, a
    <3>6. QED BY <3>4, <3>5 DEF u, t
  <2>5. QED BY <2>3, <2>4
<1>6. CASE begun.pause_left # 0
  <2> DEFINE f == IF 2 * begun.pause_left <= PauseTime THEN 1 ELSE begun.fight
  <2>1. /\ u.fight = f /\ u.pause /\ u.pause_left = begun.pause_left
        /\ u.loser = begun.loser /\ u.score = s.score /\ u.ready = s.ready /\ u.team = s.team
        /\ u.live = s.live /\ u.limbo = s.limbo /\ u.dying = s.dying /\ u.no_pain = s.no_pain
    BY <1>2, <1>3, <1>6 DEF ClanState
  <2>2. begun.pause_left \in Nat /\ PauseTime \in Nat \ {0} /\ begun.pause_left <= PauseTime
    BY <1>3, CaNumberAssumption DEF ClanState, Settled
  <2>3. f # 0 /\ (f = 1 => begun.pause_left < PauseTime)
    <3>1. CASE 2 * begun.pause_left <= PauseTime
      BY <1>6, <2>2, <3>1
    <3>2. CASE ~(2 * begun.pause_left <= PauseTime)
      BY <1>3, <3>2 DEF Settled
    <3>3. QED BY <3>1, <3>2
  <2>4. u.live # {} => SurvivorsWin(u)
    BY <1>3, <1>4, <2>1 DEF SurvivorsWin
  <2>5. u.pause_left < PauseTime => PauseIsSafe(u)
    BY <1>3, <2>1, <2>2 DEF Settled, PauseIsSafe
  <2> HIDE DEF f
  <2>6. Settled(u)
    BY <2>1, <2>2, <2>3, <2>4, <2>5 DEF Settled, Apart
  <2>7. QED BY <2>1, <2>6 DEF PointTo, u, t
<1>7. QED BY <1>5, <1>6

LEMMA LimboSettles ==
  ASSUME NEW s \in ClanState, RoundIsFair(s), Settled(s)
  PROVE  Settled(Limbo(s)) /\ (s.pause => Limbo(s) = s)
<1>1. SameRound(s, Limbo(s)) /\ Apart(Limbo(s))
  BY LimboStep DEF Settled
<1>2. s.pause => Limbo(s) = s
  BY DEF Limbo
<1>3. QED BY <1>1, <1>2 DEF Settled, SameRound

LEMMA CountdownSettles ==
  ASSUME NEW s \in ClanState, RoundIsFair(s), Settled(s), ~s.pause
  PROVE  Settled(Countdown(s)) /\ Countdown(s).score = s.score
<1> DEFINE t == IF s.fight = 0 THEN NewRound(s) ELSE s
<1>1. t \in ClanState /\ Settled(t) /\ ~t.pause /\ t.score = s.score
  <2>1. CASE s.fight = 0
    BY <2>1, NewRoundStep DEF Settled, Apart
  <2>2. CASE s.fight # 0
    BY <2>2
  <2>3. QED BY <2>1, <2>2
<1>2. Countdown(s) = IF t.left = 0 THEN [t EXCEPT !.fight = 2] ELSE t
  BY DEF Countdown
<1> HIDE DEF t
<1>3. CASE t.left = 0
  <2> DEFINE u == [t EXCEPT !.fight = 2]
  <2>1. /\ ~u.pause /\ u.score = t.score /\ u.ready = t.ready /\ u.team = t.team
        /\ u.live = t.live /\ u.limbo = t.limbo /\ u.dying = t.dying
    BY <1>1 DEF ClanState
  <2>2. Countdown(s) = u
    BY <1>2, <1>3
  <2> HIDE DEF u
  <2>3. QED BY <1>1, <2>1, <2>2 DEF Settled, Apart
<1>4. CASE t.left # 0
  BY <1>1, <1>2, <1>4
<1>5. QED BY <1>3, <1>4

LEMMA FrameSettles ==
  ASSUME ClanInv, Settled(ca), CaFrame
  PROVE  Settled(ca') /\ PointsAreFair
<1> DEFINE s == Limbo(ca)
           t == Judge(s)
<1>1. ca \in ClanState /\ RoundIsFair(ca)
  BY DEF ClanInv
<1>2. /\ s \in ClanState /\ RoundIsFair(s) /\ SameRound(ca, s) /\ Settled(s)
      /\ ca.pause => s = ca
  BY <1>1, LimboStep, LimboSettles
<1> HIDE DEF s
<1>3. t \in ClanState /\ RoundIsFair(t)
  BY <1>2, JudgeStep
<1>4. Settled(t) /\ PointTo(s, t)
  BY <1>2, EndRoundSettles DEF Judge, PointTo
<1>5. ca' = CA_FrameOf(ca)
  BY DEF CaFrame
<1> HIDE DEF t
<1>6. Settled(ca') /\ ca'.score = t.score
  <2>1. CASE t.fight = 2 \/ (~SeriesWon(t) /\ t.pause)
    <3>1. ca' = t
      BY <1>5, <2>1 DEF CA_FrameOf, t, s
    <3>2. QED BY <1>4, <3>1
  <2>2. CASE t.fight # 2 /\ SeriesWon(t)
    <3>1. ca' = [t EXCEPT !.over = TRUE]
      BY <1>5, <2>2 DEF CA_FrameOf, t, s
    <3>2. /\ ca'.fight = t.fight /\ ca'.pause = t.pause /\ ca'.pause_left = t.pause_left
          /\ ca'.loser = t.loser /\ ca'.score = t.score /\ ca'.ready = t.ready /\ ca'.team = t.team
          /\ ca'.live = t.live /\ ca'.limbo = t.limbo /\ ca'.dying = t.dying /\ ca'.no_pain = t.no_pain
      BY <1>3, <3>1 DEF ClanState
    <3>3. QED BY <1>4, <3>2 DEF Settled, Apart, SurvivorsWin, PauseIsSafe
  <2>3. CASE t.fight # 2 /\ ~SeriesWon(t) /\ ~t.pause
    <3>1. ca' = Countdown(t)
      BY <1>5, <2>3 DEF CA_FrameOf, t, s
    <3>2. QED BY <1>3, <1>4, <2>3, <3>1, CountdownSettles
  <2>4. QED BY <2>1, <2>2, <2>3
<1>7. CASE t.score = s.score
  BY <1>1, <1>2, <1>6, <1>7, NoPoint DEF SameRound
<1>8. CASE t.score # s.score
  <2>1. ca.pause /\ s = ca
    BY <1>2, <1>4, <1>8 DEF PointTo, SameRound
  <2>2. PICK k \in LiveTeams(ca) : /\ k \in {1, 2} /\ k # ca.loser
                                   /\ ca'.score = [ca.score EXCEPT ![k] = @ + 1]
    BY <1>4, <1>6, <1>8, <2>1 DEF PointTo
  <2>3. \A j \in {1, 2} : ca.score[j] \in Nat /\ (j # k => ca'.score[j] = ca.score[j])
    BY <1>1, <2>2 DEF ClanState
  <2>4. QED BY <1>6, <2>2, <2>3 DEF PointsAreFair
<1>9. QED BY <1>7, <1>8

LEMMA ClanNextSettles ==
  CaLaggard = {} => (ClanInv /\ Settled(ca) /\ [ClanNext]_ca => Settled(ca)' /\ PointsAreFair)
<1> SUFFICES ASSUME CaLaggard = {}, ClanInv, Settled(ca), [ClanNext]_ca
             PROVE  Settled(ca') /\ PointsAreFair
  OBVIOUS
<1>1. CASE ClanPlayers
  BY <1>1, ConnectSettles, DisconnectSettles, LateJoinSettles, DeathSettles, RespawnSettles DEF ClanPlayers
<1>2. CASE CaFrame
  BY <1>2, FrameSettles
<1>3. CASE CaTime
  BY <1>3, TimeSettles
<1>4. CASE CaNewMatch
  BY <1>4, NewMatchSettles
<1>5. CASE UNCHANGED ca
  BY <1>5, NoPoint DEF ClanInv
<1>6. QED BY <1>1, <1>2, <1>3, <1>4, <1>5 DEF ClanNext

\* The point of clan_arena.c goes to the survivors, however many players come, go, spawn and
\* die in the pause.  Without CaLaggard = {} it is false: a dying client whose frame is run
\* only in the second half of the pause lives again, and if his opponents leave the point
\* is scored for the team that has lost.
THEOREM SurvivorsScore == CaLaggard = {} => (ClanSafety => PointForTheSurvivors)
<1> SUFFICES ASSUME CaLaggard = {} PROVE ClanSafety => PointForTheSurvivors
  OBVIOUS
<1>1. ClanInit => Settled(ca)
  BY StartSettles, CaModeAssumption DEF ClanInit
<1>2. ClanInv /\ Settled(ca) /\ [ClanNext]_ca => Settled(ca)'
  BY ClanNextSettles
<1>3. ClanInv /\ Settled(ca) /\ [ClanNext]_ca => [PointsAreFair]_ca
  BY ClanNextSettles
<1>4. QED BY <1>1, <1>2, <1>3, ClanInvariance, PTL DEF ClanSafety, PointForTheSurvivors, PointsAreFair

-----------------------------------------------------------------------------
LEMMA ArenaIsTyped == ArenaInv => ArenaTypeOK
BY DEF ArenaInv, Orderly, ArenaState, ArenaTypeOK, RaEmpty, RaFightNo, ClockNo, MatchNo

\* The line, the parts of the clients and the clock of RA_Frame() keep their types: nobody who
\* is no client gets into ra_que or is hurt or dead.
THEOREM ArenaTypes == ArenaSafety => []ArenaTypeOK
BY ArenaIsTyped, ArenaInvariance, PTL

-----------------------------------------------------------------------------
(***************************************************************************)
(* The counters.  Deaths and times in limbo are bounded because who is     *)
(* alive, dying or in limbo always has a spawn left, in the pause and in   *)
(* the countdown as well; the scores because the frame that gives the last *)
(* point ends the match.                                                   *)
(***************************************************************************)
DeathRange == [CaPlayer -> -1 .. MaxRespawns + 1]
DelayRange == [CaPlayer -> -1 .. MaxRespawns]

InRange(s) == s.deaths \in DeathRange /\ s.delay \in DelayRange

HaveSpawns(s) == \A p \in s.live \cup s.limbo \cup s.dying : Spared(s, p)

ScoresInRange(s) ==
  /\ s.loser \in CaTeamNo
  /\ \A t \in {1, 2} : s.score[t] <= WinsRequired /\ (s.over \/ s.score[t] < WinsRequired)

InCount(s) == InRange(s) /\ HaveSpawns(s) /\ ScoresInRange(s)

SameScores(s, t) == t.loser = s.loser /\ t.score = s.score /\ t.over = s.over

LEMMA CaLimits ==
  /\ MaxRespawns \in Nat /\ WinsRequired \in Nat \ {0}
  /\ \A s : Respawns(s) \in Nat /\ Respawns(s) <= MaxRespawns
BY CaNumberAssumption DEF Respawns

LEMMA OneInRange ==
  ASSUME NEW f \in DeathRange, NEW w \in DelayRange, NEW p \in CaPlayer,
         NEW k \in -1 .. MaxRespawns + 1, NEW d \in -1 .. MaxRespawns
  PROVE  [f EXCEPT ![p] = k] \in DeathRange /\ [w EXCEPT ![p] = d] \in DelayRange
BY DEF DeathRange, DelayRange

LEMMA PutCounts ==
  ASSUME NEW s \in ClanState, InRange(s), HaveSpawns(s), NEW p \in CaPlayer, Spared(s, p)
  PROVE  LET u == CA_PutClientInServer(s, p) IN
         /\ InRange(u) /\ HaveSpawns(u) /\ SameScores(s, u)
         /\ CA_CheckAlive(s, p) => u.delay = s.delay
<1> DEFINE u == CA_PutClientInServer(s, p)
<1>1. s.deaths \in DeathRange /\ s.delay \in DelayRange
  BY DEF InRange
<1>2. CASE CA_CheckAlive(s, p)
  <2>1. /\ u.deaths = s.deaths /\ u.delay = s.delay /\ u.mode = s.mode
        /\ u.live = s.live \cup {p} /\ u.limbo = s.limbo \ {p} /\ u.dying = s.dying \ {p}
        /\ SameScores(s, u)
    BY <1>2 DEF CA_PutClientInServer, ClanState, SameScores
  <2> HIDE DEF u
  <2>2. HaveSpawns(u)
    BY <2>1 DEF HaveSpawns, Spared, Respawns
  <2>3. QED BY <1>1, <2>1, <2>2 DEF InRange, u
<1>3. CASE ~CA_CheckAlive(s, p)
  <2> DEFINE k == s.deaths[p] + 1
             waits == p \in s.ready /\ k <= Respawns(s) /\ p \in s.can
             n == [s.deaths EXCEPT ![p] = k]
             w == [s.delay EXCEPT ![p] = NoDelay]
  <2>1. /\ u.deaths = n /\ u.delay = w /\ u.mode = s.mode
        /\ u.live = s.live \ {p} /\ u.dying = s.dying \ {p}
        /\ u.limbo = IF waits THEN (s.limbo \ {p}) \cup {p} ELSE s.limbo \ {p}
        /\ SameScores(s, u)
    BY <1>3 DEF CA_PutClientInServer, ClanState, SameScores
  <2>2. s.deaths[p] \in -1 .. MaxRespawns + 1 /\ s.deaths[p] <= Respawns(s)
    BY <1>1 DEF DeathRange, Spared
  <2>3. k \in -1 .. MaxRespawns + 1 /\ NoDelay \in -1 .. MaxRespawns
    BY <2>2, CaLimits DEF NoDelay
  <2>4. n[p] = k /\ \A c \in CaPlayer : c # p => n[c] = s.deaths[c]
    BY <1>1 DEF DeathRange
  <2> HIDE DEF k
  <2>5. n \in DeathRange /\ w \in DelayRange
    BY <1>1, <2>3, OneInRange
  <2> HIDE DEF n, w, u
  <2>6. \A c \in u.live \cup u.limbo \cup u.dying :
          c \in CaPlayer /\ (c = p => k <= Respawns(s)) /\ (c # p => c \in s.live \cup s.limbo \cup s.dying)
    BY <2>1 DEF ClanState
  <2>7. HaveSpawns(u)
    BY <2>1, <2>4, <2>6 DEF HaveSpawns, Spared, Respawns
  <2>8. QED BY <1>3, <2>1, <2>5, <2>7 DEF InRange, u
<1>4. QED BY <1>2, <1>3

-----------------------------------------------------------------------------
LEMMA ConnectCounts ==
  ASSUME ClanInv, InCount(ca), NEW p \in CaPlayer, CaConnect(p)
  PROVE  InCount(ca')
<1> DEFINE w == ca.here \cup {p}
           m == [ca.team EXCEPT ![p] = 0]
           n == [ca.deaths EXCEPT ![p] = 0]
           s == [ca EXCEPT !.here = w, !.team = m, !.deaths = n]
<1>1. ca \in ClanState /\ RoundIsFair(ca) /\ p \notin ca.here /\ InRange(ca) /\ HaveSpawns(ca)
  BY DEF ClanInv, CaConnect, InCount
<1>2. ca' = CA_PutClientInServer(s, p)
  BY <1>1 DEF CaConnect, ClanState
<1>3. /\ w \in SUBSET CaPlayer /\ m \in [CaPlayer -> CaTeamNo] /\ n \in [CaPlayer -> Int]
      /\ n[p] = 0 /\ \A c \in CaPlayer : c # p => n[c] = ca.deaths[c]
  BY <1>1 DEF ClanState, CaTeamNo
<1>4. n \in DeathRange
  <2>1. 0 \in -1 .. MaxRespawns + 1 /\ -1 \in -1 .. MaxRespawns
    BY CaLimits
  <2>2. QED BY <1>1, <2>1, OneInRange DEF InRange
<1> HIDE DEF w, m, n
<1>5. /\ s \in ClanState /\ s.deaths = n /\ s.delay = ca.delay /\ s.live = ca.live
      /\ s.limbo = ca.limbo /\ s.dying = ca.dying /\ s.mode = ca.mode /\ SameScores(ca, s)
  BY <1>1, <1>3 DEF ClanState, SameScores
<1> HIDE DEF s
<1>6. \A c \in ca.live \cup ca.limbo \cup ca.dying : c # p /\ c \in CaPlayer
  BY <1>1 DEF RoundIsFair, Belongs, ClanState
<1>7. HaveSpawns(s) /\ Spared(s, p) /\ InRange(s)
  BY <1>1, <1>3, <1>4, <1>5, <1>6, CaLimits DEF HaveSpawns, Spared, Respawns, InRange
<1>8. InRange(ca') /\ HaveSpawns(ca') /\ SameScores(s, ca')
  BY <1>2, <1>5, <1>7, PutCounts
<1>9. QED BY <1>5, <1>8 DEF InCount, ScoresInRange, SameScores

LEMMA DisconnectCounts ==
  ASSUME ClanInv, InCount(ca), NEW p \in CaPlayer, CaDisconnect(p)
  PROVE  InCount(ca')
<1> DEFINE n == [ca.deaths EXCEPT ![p] = 0]
           w == [ca.delay EXCEPT ![p] = NoDelay]
<1>1. ca \in ClanState /\ ca.deaths \in DeathRange /\ ca.delay \in DelayRange /\ HaveSpawns(ca)
  BY DEF ClanInv, InCount, InRange
<1>2. /\ ca'.deaths = n /\ ca'.delay = w /\ ca'.live = ca.live \ {p} /\ ca'.mode = ca.mode
      /\ ca'.limbo = ca.limbo \ {p} /\ ca'.dying = ca.dying \ {p}
      /\ ca'.loser = ca.loser /\ ca'.score = ca.score /\ (ca.over => ca'.over)
  BY <1>1 DEF CaDisconnect, ClanState
<1>3. n \in DeathRange /\ w \in DelayRange
  <2>1. 0 \in -1 .. MaxRespawns + 1 /\ NoDelay \in -1 .. MaxRespawns
    BY CaLimits DEF NoDelay
  <2>2. QED BY <1>1, <2>1, OneInRange
<1>4. \A c \in CaPlayer : c # p => n[c] = ca.deaths[c]
  BY <1>1 DEF DeathRange
<1> HIDE DEF n, w
<1>5. HaveSpawns(ca')
  BY <1>1, <1>2, <1>4 DEF HaveSpawns, Spared, Respawns, ClanState
<1>6. QED BY <1>2, <1>3, <1>5 DEF InCount, InRange, ScoresInRange

\* Who joins late is not alive yet.
LEMMA LateJoinCounts ==
  ASSUME ClanInv, InCount(ca), NEW p \in CaPlayer, NEW t \in {1, 2}, CaLateJoin(p, t)
  PROVE  InCount(ca')
<1>1. ca \in ClanState
  BY DEF ClanInv
<1>2. /\ ca'.deaths = ca.deaths /\ ca'.delay = ca.delay /\ ca'.live = ca.live /\ ca'.mode = ca.mode
      /\ ca'.limbo = ca.limbo /\ ca'.dying = ca.dying /\ SameScores(ca, ca')
  BY <1>1 DEF CaLateJoin, ClanState, SameScores
<1>3. QED BY <1>2 DEF InCount, InRange, HaveSpawns, Spared, Respawns, ScoresInRange, SameScores

\* CA_check_escape() takes a death from who has none or more, so that -1 is the least.
LEMMA DeathCounts ==
  ASSUME ClanInv, InCount(ca), NEW p \in CaPlayer, CaKilled(p) \/ CaSuicide(p)
  PROVE  InCount(ca')
<1>1. /\ ca \in ClanState /\ p \in ca.live /\ ca.deaths \in DeathRange /\ ca.delay \in DelayRange
      /\ HaveSpawns(ca) /\ ScoresInRange(ca)
  BY DEF ClanInv, CaKilled, CaSuicide, InCount, InRange
<1> DEFINE less == [ca.deaths EXCEPT ![p] = ca.deaths[p] - 1]
<1>2. /\ ca'.deaths = ca.deaths \/ (ca.deaths[p] >= 0 /\ ca'.deaths = less)
      /\ ca'.delay = ca.delay /\ ca'.live = ca.live \ {p} /\ ca'.mode = ca.mode
      /\ ca'.limbo = ca.limbo /\ ca'.dying = ca.dying \cup {p} /\ SameScores(ca, ca')
  <2>1. CASE ca' = PlayerDies(ca, p)
    BY <1>1, <2>1 DEF PlayerDies, ClanState, SameScores
  <2>2. CASE ca.deaths[p] >= 0 /\ ca' = [PlayerDies(ca, p) EXCEPT !.deaths[p] = @ - 1]
    BY <1>1, <2>2 DEF PlayerDies, ClanState, SameScores
  <2>3. CASE ca' = [PlayerDies(ca, p) EXCEPT !.can = @ \ {p}]
    BY <1>1, <2>3 DEF PlayerDies, ClanState, SameScores
  <2>4. QED BY <2>1, <2>2, <2>3 DEF CaKilled, CaSuicide
<1>3. ca.deaths[p] \in -1 .. MaxRespawns + 1 /\ -1 \in -1 .. MaxRespawns
  BY <1>1, CaLimits DEF DeathRange
<1>4. ca.deaths[p] >= 0 => ca.deaths[p] - 1 \in -1 .. MaxRespawns + 1
  BY <1>3, CaLimits
<1>5. ca.deaths[p] >= 0 => less \in DeathRange
  BY <1>1, <1>3, <1>4, OneInRange
<1>6. \A c \in CaPlayer : ca.deaths[c] \in Int /\ less[c] <= ca.deaths[c] /\ less[c] \in Int
  BY <1>1 DEF ClanState
<1> HIDE DEF less
<1>7. \A c \in ca'.live \cup ca'.limbo \cup ca'.dying : Spared(ca', c)
  <2> SUFFICES ASSUME NEW c \in ca'.live \cup ca'.limbo \cup ca'.dying PROVE Spared(ca', c)
    OBVIOUS
  <2>1. c \in ca.live \cup ca.limbo \cup ca.dying /\ c \in CaPlayer
    BY <1>1, <1>2 DEF ClanState
  <2>2. ca.deaths[c] <= Respawns(ca) /\ ca'.deaths[c] <= ca.deaths[c] /\ ca'.deaths[c] \in Int /\ ca.deaths[c] \in Int
    BY <1>1, <1>2, <1>6, <2>1 DEF HaveSpawns, Spared
  <2>3. Respawns(ca') = Respawns(ca) /\ Respawns(ca) \in Nat
    BY <1>2, CaLimits DEF Respawns
  <2>4. QED BY <2>2, <2>3 DEF Spared
<1>8. QED
  BY <1>1, <1>2, <1>5, <1>7 DEF InCount, InRange, HaveSpawns, ScoresInRange, SameScores

LEMMA RespawnCounts ==
  ASSUME ClanInv, InCount(ca), NEW p \in CaPlayer, CaRespawn(p)
  PROVE  InCount(ca')
<1>1. ca \in ClanState /\ InRange(ca) /\ HaveSpawns(ca) /\ Spared(ca, p)
  BY DEF ClanInv, InCount, CaRespawn, HaveSpawns
<1>2. InRange(ca') /\ HaveSpawns(ca') /\ SameScores(ca, ca')
  BY <1>1, PutCounts DEF CaRespawn
<1>3. QED BY <1>2 DEF InCount, ScoresInRange, SameScores

LEMMA TimeCounts ==
  ASSUME ClanInv, InCount(ca), CaTime
  PROVE  InCount(ca')
<1> DEFINE less(n) == IF n > 0 THEN n - 1 ELSE n
           w == [c \in CaPlayer |-> less(ca.delay[c])]
           t == [ca EXCEPT !.left = less(@), !.pause_left = less(@), !.delay = w]
<1>1. ca \in ClanState /\ ca.delay \in DelayRange
  BY DEF ClanInv, InCount, InRange
<1>2. PICK S : ca' = PreThink(t, S)
  BY DEF CaTime
<1>3. w \in DelayRange
  BY <1>1, CaLimits DEF DelayRange
<1> HIDE DEF w
<1>4. /\ ca'.deaths = ca.deaths /\ ca'.delay = w /\ ca'.live = ca.live /\ ca'.mode = ca.mode
      /\ ca'.limbo = ca.limbo /\ ca'.dying = ca.dying /\ SameScores(ca, ca')
  BY <1>1, <1>2 DEF PreThink, ClanState, SameScores
<1>5. QED BY <1>3, <1>4 DEF InCount, InRange, HaveSpawns, Spared, Respawns, ScoresInRange, SameScores

LEMMA StartCounts == ASSUME NEW mode \in {1, 2} PROVE InCount(CaStart(mode))
<1> DEFINE s == CaStart(mode)
<1>1. /\ s.deaths = [p \in CaPlayer |-> 0] /\ s.delay = [p \in CaPlayer |-> -1]
      /\ s.live = CaPlayer /\ s.limbo = {} /\ s.dying = {}
      /\ s.loser = 0 /\ s.score = <<0, 0>>
  BY DEF CaStart, CaAll, NoDelay
<1> HIDE DEF s
<1>2. InRange(s)
  BY <1>1, CaLimits DEF InRange, DeathRange, DelayRange
<1>3. HaveSpawns(s)
  BY <1>1, CaLimits DEF HaveSpawns, Spared
<1>4. ScoresInRange(s)
  BY <1>1, CaLimits DEF ScoresInRange, CaTeamNo
<1>5. QED BY <1>2, <1>3, <1>4 DEF InCount, s

-----------------------------------------------------------------------------
\* Who has a time in limbo has one that his deaths allow.
LEMMA LimboCounts ==
  ASSUME NEW s \in ClanState, InRange(s), HaveSpawns(s)
  PROVE  LET u == Limbo(s) IN InRange(u) /\ HaveSpawns(u) /\ SameScores(s, u)
<1> DEFINE u == Limbo(s)
<1>1. CASE ~(s.fight = 2 /\ ~s.pause /\ s.mode = 2)
  BY <1>1 DEF Limbo, SameScores
<1>2. CASE s.fight = 2 /\ ~s.pause /\ s.mode = 2
  <2> DEFINE S == s.limbo
             l == {c \in S : c \in LeaveLimbo(s, c).live} \cup (s.live \ S)
             d == {c \in S : c \in LeaveLimbo(s, c).dying} \cup (s.dying \ S)
             b == {c \in S : c \in LeaveLimbo(s, c).limbo} \cup (s.limbo \ S)
             n == [c \in CaPlayer |-> IF c \in S THEN LeaveLimbo(s, c).deaths[c] ELSE s.deaths[c]]
             w == [c \in CaPlayer |-> IF c \in S THEN LeaveLimbo(s, c).delay[c] ELSE s.delay[c]]
  <2>1. /\ u.live = l /\ u.dying = d /\ u.limbo = b /\ u.deaths = n /\ u.delay = w /\ u.mode = s.mode
        /\ SameScores(s, u)
    BY <1>2 DEF Limbo, EachOf, ClanState, SameScores
  <2>2. S \subseteq CaPlayer /\ s.deaths \in DeathRange /\ s.delay \in DelayRange
    BY DEF ClanState, InRange
  <2>3. \A c \in S : /\ LeaveLimbo(s, c).delay[c] \in -1 .. MaxRespawns
                     /\ LeaveLimbo(s, c).deaths \in DeathRange
                     /\ c \in LeaveLimbo(s, c).live \cup LeaveLimbo(s, c).limbo \cup LeaveLimbo(s, c).dying
                          => LeaveLimbo(s, c).deaths[c] <= Respawns(s)
    <3> SUFFICES ASSUME NEW c \in S
                 PROVE  /\ LeaveLimbo(s, c).delay[c] \in -1 .. MaxRespawns
                        /\ LeaveLimbo(s, c).deaths \in DeathRange
                        /\ c \in LeaveLimbo(s, c).live \cup LeaveLimbo(s, c).limbo \cup LeaveLimbo(s, c).dying
                             => LeaveLimbo(s, c).deaths[c] <= Respawns(s)
      OBVIOUS
    <3> DEFINE a == IF s.delay[c] = NoDelay THEN RespawnTime(s, c) ELSE s.delay[c]
               f == [s.delay EXCEPT ![c] = a]
               q == CA_PutClientInServer(s, c)
               g == [q.delay EXCEPT ![c] = NoDelay]
    <3>1. c \in CaPlayer /\ s.deaths[c] \in -1 .. MaxRespawns + 1 /\ s.delay[c] \in -1 .. MaxRespawns
      BY <2>2 DEF DeathRange, DelayRange
    <3>2. Spared(s, c) /\ s.deaths[c] <= MaxRespawns
      <4>1. Spared(s, c)
        BY DEF HaveSpawns
      <4>2. QED BY <3>1, <4>1, CaLimits DEF Spared
    <3>3. a \in -1 .. MaxRespawns
      BY <3>1, <3>2, CaLimits DEF RespawnTime
    <3> HIDE DEF a
    <3>4. CASE a > 0
      <4>1. LeaveLimbo(s, c) = [s EXCEPT !.delay = f]
        BY <3>4 DEF LeaveLimbo, ClanState, a
      <4>2. f[c] = a
        BY <2>2, <3>1 DEF DelayRange
      <4> HIDE DEF f
      <4>3. LeaveLimbo(s, c).delay = f /\ LeaveLimbo(s, c).deaths = s.deaths
        BY <4>1 DEF ClanState
      <4>4. QED BY <2>2, <3>2, <3>3, <4>2, <4>3 DEF Spared
    <3>5. CASE ~(a > 0)
      <4>1. q \in ClanState /\ InRange(q) /\ HaveSpawns(q) /\ q.mode = s.mode
        <5>1. q \in ClanState /\ SameRound(s, q)
          BY <3>1, PutStep
        <5>2. InRange(q) /\ HaveSpawns(q)
          BY <3>1, <3>2, PutCounts
        <5>3. QED BY <5>1, <5>2 DEF SameRound
      <4> HIDE DEF q
      <4>2. LeaveLimbo(s, c) = [q EXCEPT !.delay = g]
        BY <3>5, <4>1 DEF LeaveLimbo, ClanState, q, a
      <4>3. g[c] = NoDelay
        BY <3>1, <4>1 DEF ClanState
      <4> HIDE DEF g
      <4>4. /\ LeaveLimbo(s, c).delay = g /\ LeaveLimbo(s, c).deaths = q.deaths
            /\ LeaveLimbo(s, c).live = q.live /\ LeaveLimbo(s, c).limbo = q.limbo
            /\ LeaveLimbo(s, c).dying = q.dying
        BY <4>1, <4>2 DEF ClanState
      <4>5. NoDelay \in -1 .. MaxRespawns
        BY CaLimits DEF NoDelay
      <4>6. QED BY <4>1, <4>3, <4>4, <4>5 DEF InRange, HaveSpawns, Spared, Respawns
    <3>6. QED BY <3>4, <3>5
  <2>4. n \in DeathRange /\ w \in DelayRange
    BY <2>2, <2>3 DEF DeathRange, DelayRange
  <2>5. \A c \in l \cup b \cup d : c \in CaPlayer /\ n[c] <= Respawns(s)
    <3>1. \A c \in l \cup b \cup d : c \in CaPlayer
      BY <2>2 DEF ClanState
    <3>2. \A c \in CaPlayer : c \notin S => n[c] = s.deaths[c] /\ (c \in l \cup b \cup d => c \in s.live \cup s.limbo \cup s.dying)
      BY DEF ClanState
    <3>3. \A c \in S : c \in CaPlayer /\ n[c] = LeaveLimbo(s, c).deaths[c]
      BY <2>2
    <3>4. QED BY <2>3, <3>1, <3>2, <3>3 DEF HaveSpawns, Spared
  <2> HIDE DEF l, d, b, n, w, u
  <2>6. HaveSpawns(u)
    BY <2>1, <2>5 DEF HaveSpawns, Spared, Respawns
  <2>7. QED BY <2>1, <2>4, <2>6 DEF InRange, u
<1>3. QED BY <1>1, <1>2

\* The judge gives one point at most, and at the end of the pause only.
LEMMA JudgeCounts ==
  ASSUME NEW s \in ClanState, s.loser \in CaTeamNo
  PROVE  LET u == Judge(s) IN
         /\ u.deaths = s.deaths /\ u.delay = s.delay /\ u.mode = s.mode
         /\ u.live = s.live /\ u.limbo = s.limbo /\ u.dying = s.dying
         /\ u.loser \in CaTeamNo /\ u.over = s.over
         /\ \/ u.score = s.score
            \/ u.fight = 0 /\ \A t \in {1, 2} : u.score[t] <= s.score[t] + 1
<1> DEFINE u == Judge(s)
<1>1. CASE u = s
  BY <1>1
<1>2. CASE u # s
  <2> DEFINE t == Verdict(s)
             v == IF t = 0 THEN 0 ELSE 3 - t
             begun == IF s.pause THEN s
                      ELSE [s EXCEPT !.pause = TRUE, !.pause_left = PauseTime, !.loser = v]
  <2>1. u = EndRound(s, t) /\ t # -1
    BY <1>2 DEF Judge
  <2>2. t \in CaTeamNo
    <3>1. CASE LiveTeams(s) = {}
      BY <2>1, <3>1 DEF Verdict, CaTeamNo
    <3>2. CASE LiveTeams(s) # {}
      <4>1. t = CHOOSE j \in LiveTeams(s) : TRUE
        BY <2>1, <3>2 DEF Verdict
      <4>2. t \in LiveTeams(s)
        BY <3>2, <4>1
      <4>3. QED BY <4>2 DEF LiveTeams, ClanState
    <3>3. QED BY <3>1, <3>2
  <2>3. v \in CaTeamNo
    BY <2>2 DEF CaTeamNo
  <2>4. u = IF begun.pause_left = 0
            THEN [Score(begun, t) EXCEPT !.pause = FALSE, !.loser = 0, !.fight = 0]
            ELSE [begun EXCEPT !.fight = IF 2 * begun.pause_left <= PauseTime THEN 1 ELSE begun.fight]
    BY <2>1 DEF EndRound
  <2> HIDE DEF t, v, u
  <2>5. /\ begun.deaths = s.deaths /\ begun.delay = s.delay /\ begun.mode = s.mode
        /\ begun.live = s.live /\ begun.limbo = s.limbo /\ begun.dying = s.dying
        /\ begun.loser \in CaTeamNo /\ begun.over = s.over /\ begun.score = s.score
        /\ DOMAIN begun = DOMAIN s
    BY <2>3 DEF ClanState
  <2> HIDE DEF begun
  <2>6. CASE begun.pause_left # 0
    BY <2>4, <2>5, <2>6 DEF ClanState, u
  <2>7. CASE begun.pause_left = 0
    <3> DEFINE a == [s.score EXCEPT ![t] = @ + 1]
    <3>1. Score(begun, t) = begun \/ Score(begun, t) = [begun EXCEPT !.score = a, !.round = @ + 1]
      BY <2>5 DEF Score, ClanState
    <3>2. \A j \in {1, 2} : a[j] <= s.score[j] + 1
      BY DEF ClanState
    <3> HIDE DEF a
    <3>3. /\ u.deaths = s.deaths /\ u.delay = s.delay /\ u.mode = s.mode
          /\ u.live = s.live /\ u.limbo = s.limbo /\ u.dying = s.dying
          /\ u.loser = 0 /\ u.over = s.over /\ u.fight = 0
          /\ u.score = s.score \/ u.score = a
      BY <2>4, <2>5, <2>7, <3>1 DEF ClanState
    <3>4. QED BY <3>2, <3>3 DEF CaTeamNo, u
  <2>8. QED BY <2>6, <2>7
<1>3. QED BY <1>1, <1>2

\* In a new round nobody who takes part has deaths.
LEMMA NewRoundCounts ==
  ASSUME NEW s \in ClanState, RoundIsFair(s), InRange(s)
  PROVE  LET u == NewRound(s) IN InRange(u) /\ HaveSpawns(u) /\ SameScores(s, u)
<1> DEFINE S == s.ready
           k == s.can \cup S
           m == [c \in CaPlayer |-> IF c \in S THEN 0 ELSE s.deaths[c]]
           e == {c \in s.solo : c \notin S} \cup {c \in S : Alone(s, c)}
           x == [s EXCEPT !.fight = 1, !.left = RoundTime, !.can = k, !.deaths = m, !.solo = e]
           u == NewRound(s)
<1>1. S \subseteq CaPlayer /\ k \in SUBSET CaPlayer /\ m \in [CaPlayer -> Int] /\ e \in SUBSET CaPlayer
  BY DEF ClanState
<1>2. m \in DeathRange /\ \A c \in S : m[c] = 0
  BY <1>1, CaLimits DEF InRange, DeathRange
<1>3. u = EachOf(x, S, CA_PutClientInServer)
  BY DEF NewRound, ClanState
<1>4. s.ready = S
  OBVIOUS
<1> HIDE DEF k, m, e, S
<1>5. /\ x \in ClanState /\ x.deaths = m /\ x.delay = s.delay /\ x.ready = S /\ x.fight = 1 /\ SameScores(s, x)
  BY <1>1, <1>4, CaNumbers DEF ClanState, SameScores
<1> HIDE DEF x, u
<1> DEFINE P(c) == CA_PutClientInServer(x, c)
           n == [c \in CaPlayer |-> IF c \in S THEN P(c).deaths[c] ELSE x.deaths[c]]
           w == [c \in CaPlayer |-> IF c \in S THEN P(c).delay[c] ELSE x.delay[c]]
<1>6. u.deaths = n /\ u.delay = w /\ SameScores(x, u)
  BY <1>3, <1>5 DEF EachOf, ClanState, SameScores
<1>7. \A c \in S : P(c).deaths = m /\ P(c).delay = s.delay
  <2> SUFFICES ASSUME NEW c \in S PROVE P(c).deaths = m /\ P(c).delay = s.delay
    OBVIOUS
  <2>1. CA_CheckAlive(x, c) /\ c \in CaPlayer
    BY <1>1, <1>5 DEF CA_CheckAlive
  <2>2. QED BY <1>5, <2>1 DEF CA_PutClientInServer, ClanState
<1> HIDE DEF P
<1>8. n = m /\ w = s.delay
  <2>1. m = [c \in CaPlayer |-> m[c]] /\ s.delay = [c \in CaPlayer |-> s.delay[c]]
    BY <1>1 DEF ClanState
  <2>2. QED BY <1>5, <1>7, <2>1
<1> HIDE DEF n, w
<1>9. u.live \cup u.limbo \cup u.dying \subseteq S
  <2>1. Belongs(u) /\ u.ready = s.ready
    BY NewRoundStep DEF u
  <2>2. QED BY <1>4, <2>1 DEF Belongs
<1>10. HaveSpawns(u)
  BY <1>2, <1>6, <1>8, <1>9, CaLimits DEF HaveSpawns, Spared
<1>11. QED BY <1>2, <1>5, <1>6, <1>8, <1>10 DEF InRange, SameScores, u

LEMMA FrameCounts ==
  ASSUME ClanInv, InCount(ca), CaFrame
  PROVE  InCount(ca')
<1> DEFINE s == Limbo(ca)
           t == Judge(s)
<1>1. ca \in ClanState /\ RoundIsFair(ca) /\ InRange(ca) /\ HaveSpawns(ca) /\ ScoresInRange(ca) /\ ~ca.over
  BY DEF ClanInv, InCount, CaFrame
<1>2. s \in ClanState /\ RoundIsFair(s)
  BY <1>1, LimboStep
<1>3. InRange(s) /\ HaveSpawns(s) /\ SameScores(ca, s)
  BY <1>1, LimboCounts
<1>4. ca' = CA_FrameOf(ca)
  BY DEF CaFrame
<1> HIDE DEF s
<1>5. t \in ClanState /\ RoundIsFair(t)
  BY <1>2, JudgeStep
<1>6. s.loser \in CaTeamNo
  BY <1>1, <1>3 DEF SameScores, ScoresInRange
<1>7. /\ t.deaths = s.deaths /\ t.delay = s.delay /\ t.mode = s.mode
      /\ t.live = s.live /\ t.limbo = s.limbo /\ t.dying = s.dying
      /\ t.loser \in CaTeamNo /\ t.over = s.over
      /\ \/ t.score = s.score
         \/ t.fight = 0 /\ \A j \in {1, 2} : t.score[j] <= s.score[j] + 1
  BY <1>2, <1>6, JudgeCounts
<1> HIDE DEF t
<1>8. InRange(t) /\ HaveSpawns(t)
  BY <1>3, <1>7 DEF InRange, HaveSpawns, Spared, Respawns
<1>9. /\ ~t.over
      /\ \A j \in {1, 2} : ca.score[j] \in Nat /\ t.score[j] \in Nat /\ ca.score[j] < WinsRequired
                           /\ t.score[j] <= WinsRequired /\ (t.fight # 0 => t.score[j] < WinsRequired)
  BY <1>1, <1>3, <1>5, <1>7, CaLimits DEF ScoresInRange, SameScores, ClanState
<1>10. CASE t.fight = 2 \/ (~SeriesWon(t) /\ t.pause)
  <2>1. ca' = t
    BY <1>4, <1>10 DEF CA_FrameOf, t, s
  <2>2. \A j \in {1, 2} : t.score[j] < WinsRequired
    BY <1>9, <1>10, CaLimits DEF SeriesWon
  <2>3. QED BY <1>7, <1>8, <1>9, <2>1, <2>2 DEF InCount, ScoresInRange
<1>11. CASE t.fight # 2 /\ SeriesWon(t)
  <2>1. ca' = [t EXCEPT !.over = TRUE]
    BY <1>4, <1>11 DEF CA_FrameOf, t, s
  <2>2. /\ ca'.deaths = t.deaths /\ ca'.delay = t.delay /\ ca'.mode = t.mode
        /\ ca'.live = t.live /\ ca'.limbo = t.limbo /\ ca'.dying = t.dying
        /\ ca'.loser = t.loser /\ ca'.score = t.score /\ ca'.over
    BY <1>5, <2>1 DEF ClanState
  <2>3. QED BY <1>7, <1>8, <1>9, <2>2 DEF InCount, InRange, HaveSpawns, Spared, Respawns, ScoresInRange
<1>12. CASE t.fight # 2 /\ ~SeriesWon(t) /\ ~t.pause
  <2>1. ca' = Countdown(t)
    BY <1>4, <1>12 DEF CA_FrameOf, t, s
  <2> DEFINE v == IF t.fight = 0 THEN NewRound(t) ELSE t
  <2>2. v \in ClanState /\ InRange(v) /\ HaveSpawns(v) /\ SameScores(t, v)
    <3>1. CASE t.fight = 0
      BY <1>5, <1>8, <3>1, NewRoundStep, NewRoundCounts
    <3>2. CASE t.fight # 0
      BY <1>5, <1>8, <3>2 DEF SameScores
    <3>3. QED BY <3>1, <3>2
  <2>3. ca' = IF v.left = 0 THEN [v EXCEPT !.fight = 2] ELSE v
    BY <2>1 DEF Countdown
  <2> HIDE DEF v
  <2>4. /\ ca'.deaths = v.deaths /\ ca'.delay = v.delay /\ ca'.mode = v.mode
        /\ ca'.live = v.live /\ ca'.limbo = v.limbo /\ ca'.dying = v.dying /\ SameScores(v, ca')
    BY <2>2, <2>3 DEF ClanState, SameScores
  <2>5. \A j \in {1, 2} : t.score[j] < WinsRequired
    BY <1>9, <1>12, CaLimits DEF SeriesWon
  <2>6. InRange(ca') /\ HaveSpawns(ca')
    BY <2>2, <2>4 DEF InRange, HaveSpawns, Spared, Respawns
  <2>7. ScoresInRange(ca')
    BY <1>7, <1>9, <2>2, <2>4, <2>5 DEF ScoresInRange, SameScores
  <2>8. QED BY <2>6, <2>7 DEF InCount
<1>13. QED BY <1>10, <1>11, <1>12

LEMMA ClanNextCounts == ClanInv /\ InCount(ca) /\ [ClanNext]_ca => InCount(ca)'
<1> SUFFICES ASSUME ClanInv, InCount(ca), [ClanNext]_ca PROVE InCount(ca')
  OBVIOUS
<1>1. CASE ClanPlayers
  BY <1>1, ConnectCounts, DisconnectCounts, LateJoinCounts, DeathCounts, RespawnCounts DEF ClanPlayers
<1>2. CASE CaFrame
  BY <1>2, FrameCounts
<1>3. CASE CaTime
  BY <1>3, TimeCounts
<1>4. CASE CaNewMatch
  BY <1>4, StartCounts, CaModeAssumption DEF CaNewMatch
<1>5. CASE UNCHANGED ca
  BY <1>5
<1>6. QED BY <1>1, <1>2, <1>3, <1>4, <1>5 DEF ClanNext

LEMMA ClanIsTyped == ClanInv /\ InCount(ca) => ClanTypeOK
<1> SUFFICES ASSUME ClanInv, InCount(ca) PROVE ClanTypeOK
  OBVIOUS
<1>1. ca \in ClanState
  BY DEF ClanInv
<1>2. DOMAIN ca = DOMAIN CaStart(1)
  BY <1>1 DEF ClanState, CaStart
<1>3. \A f \in {"here", "ready", "live", "dying", "in_play", "limbo", "can", "solo", "no_pain"} :
        ca[f] \subseteq CaPlayer
  BY <1>1 DEF ClanState
<1>4. ca.deaths \in [CaPlayer -> -1 .. MaxRespawns + 1] /\ ca.delay \in [CaPlayer -> -1 .. MaxRespawns]
  BY DEF InCount, InRange, DeathRange, DelayRange
<1>5. ca.fight \in 0 .. 2 /\ ca.loser \in 0 .. 2
  BY <1>1 DEF ClanState, FightNo, InCount, ScoresInRange, CaTeamNo
<1>6. ca.score \in [{1, 2} -> 0 .. WinsRequired]
  BY <1>1, CaLimits DEF ClanState, InCount, ScoresInRange
<1>7. QED BY <1>2, <1>3, <1>4, <1>5, <1>6 DEF ClanTypeOK, CaFields

\* The counters of a series stay in their bounds: round_deaths between -1, which
\* CA_check_escape() can make of it, and one more than k_clan_arena_max_respawns, and no team
\* has more points than it takes to win.
THEOREM ClanTypes == ClanSafety => []ClanTypeOK
<1>1. ClanInit => InCount(ca)
  BY StartCounts, CaModeAssumption DEF ClanInit
<1>2. QED BY <1>1, ClanNextCounts, ClanIsTyped, ClanInvariance, PTL DEF ClanSafety
=============================================================================
