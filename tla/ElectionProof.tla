---------------------------- MODULE ElectionProof ----------------------------
(***************************************************************************)
(* Proofs about elections and picking, for every number of slots.  First   *)
(* what each function of the code does to the fields of the record g, then *)
(* four invariants, each with what a function does to it and a lemma for   *)
(* the commands and one for the engine: TurnInv (who leads in a picking),  *)
(* ElectInv (one election), CapInv (what captains are worth), NumInv (the  *)
(* numbers of the free).  Each of them needs those before it.              *)
(***************************************************************************)
EXTENDS Election, FiniteSetTheorems, WellFoundedInduction, TLAPS

\* The types of the fields, each with a name; k_captains and lead are any integers.
Kinds == [Client -> {"none", "player", "spec"}]
Names == [Client -> Team \cup {NoTeam}]
Flags == [Client -> BOOLEAN]
Offices == [Client -> {"none", "admin", "captain"}]
Parts == [Client -> 0 .. 2]
Numbers == [Client -> Nat]
Turn == {1, 2}
Pick == 0 .. 2
Bool == BOOLEAN
Whole == Int
Count == Nat

State ==
  [ct : Kinds, team : Names, k_admin : Flags, elect : Flags, elect_type : Offices,
   blocked : Flags, k_captain : Parts, k_picked : Parts, frags : Numbers, guards : Count,
   k_captains : Whole, k_captainturn : Turn, turn_number : Pick, lead : Whole, match : Bool]

LEMMA Fields ==
  ASSUME NEW s \in State
  PROVE  /\ s.ct \in [Client -> {"none", "player", "spec"}]
         /\ s.team \in [Client -> Team \cup {NoTeam}]
         /\ s.k_admin \in [Client -> BOOLEAN] /\ s.elect \in [Client -> BOOLEAN]
         /\ s.elect_type \in [Client -> {"none", "admin", "captain"}]
         /\ s.blocked \in [Client -> BOOLEAN]
         /\ s.k_captain \in [Client -> 0 .. 2] /\ s.k_picked \in [Client -> 0 .. 2]
         /\ s.frags \in [Client -> Nat] /\ s.guards \in Nat /\ s.k_captains \in Int
         /\ s.k_captainturn \in {1, 2} /\ s.turn_number \in 0 .. 2 /\ s.lead \in Int
         /\ s.match \in BOOLEAN
BY DEF State, Kinds, Names, Flags, Offices, Parts, Numbers, Turn, Pick, Bool, Whole, Count

-----------------------------------------------------------------------------
(***************************************************************************)
(* The first of a set of numbers.                                          *)
(***************************************************************************)
LEMMA Less == \E R : IsWellFoundedOn(R, Nat) /\ \A m, n \in Nat : m < n => <<m, n>> \in R
<1>1. IsWellFoundedOn(OpToRel(<, Nat), Nat)
  BY NatLessThanWellFounded
<1>2. \A m, n \in Nat : m < n => <<m, n>> \in OpToRel(<, Nat)
  BY DEF OpToRel
<1> QED
  BY <1>1, <1>2

LEMMA FirstIs ==
  ASSUME NEW S \in SUBSET Nat, S # {}
  PROVE  First(S) \in S /\ \A q \in S : First(S) <= q
<1>1. PICK R : IsWellFoundedOn(R, Nat) /\ \A m, n \in Nat : m < n => <<m, n>> \in R
  BY Less
<1>2. PICK x \in S : \A y \in S : ~(<<y, x>> \in R)
  <2>1. IsWellFoundedOn(R, Nat)
    BY <1>1
  <2>2. S \subseteq Nat
    OBVIOUS
  <2> QED
    BY <2>1, <2>2, WFMin, Zenon
<1>3. ASSUME NEW y \in S PROVE x <= y
  <2>1. x \in Nat /\ y \in Nat
    BY <1>2
  <2>2. y < x => <<y, x>> \in R
    BY <1>1, <2>1, Zenon
  <2>3. ~(y < x)
    BY <1>2, <2>2, Zenon
  <2> QED
    BY <2>1, <2>3
<1> QED
  BY <1>2, <1>3 DEF First

LEMMA FirstClient ==
  ASSUME NEW S \in SUBSET Client, S # {}
  PROVE  First(S) \in S
<1>1. S \in SUBSET Nat
  BY DEF Client
<1> QED
  BY <1>1, FirstIs, Zenon

-----------------------------------------------------------------------------
(***************************************************************************)
(* What the functions of the code do to the fields of a state.             *)
(***************************************************************************)
Picking(s) == <<s.k_captainturn, s.turn_number, s.lead>>
Lists(s) == <<s.ct, s.team, s.match>>
Polls(s) == <<s.guards, s.elect, s.elect_type>>

LEMMA AbortFields ==
  ASSUME NEW s \in State
  PROVE  LET t == AbortElect(s)
         IN /\ t \in State /\ Lists(t) = Lists(s) /\ Picking(t) = Picking(s)
            /\ t.k_captain = s.k_captain /\ t.k_picked = s.k_picked /\ t.frags = s.frags
            /\ t.guards = 0
            /\ \A p \in Client : t.elect_type[p] = IF p \in Clients(s) THEN "none" ELSE s.elect_type[p]
            /\ \A p \in Client : t.elect[p] <=> s.elect[p] /\ p \notin Clients(s)
            /\ t.k_captains = IF \E p \in Clients(s) : s.elect_type[p] = "captain"
                              THEN Floor(s.k_captains) ELSE s.k_captains
<1> DEFINE h == IF \E p \in Clients(s) : s.elect_type[p] = "captain"
                THEN Floor(s.k_captains) ELSE s.k_captains
           y == [p \in Client |-> IF p \in Clients(s) THEN "none" ELSE s.elect_type[p]]
           b == [p \in Client |-> s.blocked[p] \/ p \in Candidates(s)]
           e == [p \in Client |-> s.elect[p] /\ p \notin Clients(s)]
           t == AbortElect(s)
<1>1. t = [s EXCEPT !.k_captains = h, !.elect_type = y, !.blocked = b, !.elect = e, !.guards = 0]
  BY DEF AbortElect
<1>2. h \in Whole /\ 0 \in Count
  BY Fields DEF Floor, Whole, Count
<1>3. y \in Offices
  BY Fields DEF Offices
<1>4. b \in Flags /\ e \in Flags
  BY Fields DEF Flags
<1>5. \A p \in Client : y[p] = IF p \in Clients(s) THEN "none" ELSE s.elect_type[p]
  OBVIOUS
<1>6. \A p \in Client : e[p] <=> s.elect[p] /\ p \notin Clients(s)
  OBVIOUS
<1>7. h = IF \E p \in Clients(s) : s.elect_type[p] = "captain"
          THEN Floor(s.k_captains) ELSE s.k_captains
  OBVIOUS
<1> HIDE DEF h, y, b, e, t
<1>8. t \in State
  BY <1>1, <1>2, <1>3, <1>4 DEF State
<1>9. /\ t.k_captains = h /\ t.elect_type = y /\ t.elect = e /\ t.guards = 0
      /\ t.k_captain = s.k_captain /\ t.k_picked = s.k_picked /\ t.frags = s.frags
      /\ Lists(t) = Lists(s) /\ Picking(t) = Picking(s)
  BY <1>1 DEF State, Lists, Picking
<1> USE DEF t
<1> QED
  BY <1>5, <1>6, <1>7, <1>8, <1>9, Zenon

LEMMA CancelFields ==
  ASSUME NEW s \in State
  PROVE  LET t == CancelCaptains(s)
         IN /\ t \in State /\ Lists(t) = Lists(s) /\ Picking(t) = Picking(s)
            /\ t.frags = s.frags /\ t.k_captains = 0
            /\ \A p \in Client : t.k_captain[p] = IF p \in Players(s) THEN 0 ELSE s.k_captain[p]
            /\ \A p \in Client : t.k_picked[p] = IF p \in Players(s) THEN 0 ELSE s.k_picked[p]
            /\ IF \E p \in Players(s) : s.elect_type[p] = "captain"
               THEN /\ t.guards = 0
                    /\ \A p \in Client :
                         t.elect_type[p] = IF p \in Clients(s) THEN "none" ELSE s.elect_type[p]
                    /\ \A p \in Client : t.elect[p] <=> s.elect[p] /\ p \notin Clients(s)
               ELSE t.guards = s.guards /\ t.elect_type = s.elect_type /\ t.elect = s.elect
<1> DEFINE c == [p \in Client |-> IF p \in Players(s) THEN 0 ELSE s.k_captain[p]]
           k == [p \in Client |-> IF p \in Players(s) THEN 0 ELSE s.k_picked[p]]
           r == [s EXCEPT !.k_captains = 0, !.k_captain = c, !.k_picked = k]
<1>1. CancelCaptains(s) = IF \E p \in Players(s) : s.elect_type[p] = "captain"
                          THEN AbortElect(r) ELSE r
  BY DEF CancelCaptains
<1>2. c \in Parts /\ k \in Parts /\ 0 \in Whole
  BY Fields DEF Parts, Whole
<1>3. /\ \A p \in Client : c[p] = IF p \in Players(s) THEN 0 ELSE s.k_captain[p]
      /\ \A p \in Client : k[p] = IF p \in Players(s) THEN 0 ELSE s.k_picked[p]
  OBVIOUS
<1> HIDE DEF c, k
<1>4. r \in State
  BY <1>2 DEF State
<1>5. /\ Lists(r) = Lists(s) /\ Picking(r) = Picking(s)
      /\ r.frags = s.frags /\ r.k_captains = 0 /\ r.k_captain = c /\ r.k_picked = k
      /\ r.guards = s.guards /\ r.elect_type = s.elect_type /\ r.elect = s.elect /\ r.ct = s.ct
  BY DEF State, Lists, Picking
<1> HIDE DEF r
<1>6. Clients(r) = Clients(s) /\ Floor(0) = 0
  BY <1>5 DEF Clients, Floor
<1>7. CASE \E p \in Players(s) : s.elect_type[p] = "captain"
  <2>1. CancelCaptains(s) = AbortElect(r)
    BY <1>1, <1>7
  <2>2. AbortElect(r).k_captains = 0
    BY <1>4, <1>5, <1>6, AbortFields
  <2> QED
    BY <2>1, <2>2, <1>3, <1>4, <1>5, <1>6, <1>7, AbortFields
<1>8. CASE ~ \E p \in Players(s) : s.elect_type[p] = "captain"
  <2>1. CancelCaptains(s) = r
    BY <1>1, <1>8
  <2> QED
    BY <2>1, <1>3, <1>4, <1>5, <1>8
<1> QED
  BY <1>7, <1>8

LEMMA ParamsFields ==
  ASSUME NEW s \in State, NEW p \in Client, NEW cap \in Client
  PROVE  LET t == SetPlayerParams(s, p, cap)
         IN /\ t \in State /\ Lists(t) = Lists(s) /\ Polls(t) = Polls(s)
            /\ t.k_captain = s.k_captain /\ t.k_captains = s.k_captains
            /\ t.k_captainturn = IF s.turn_number # 1 THEN 3 - s.k_captainturn ELSE s.k_captainturn
            /\ t.turn_number = IF s.turn_number < 2 THEN s.turn_number + 1 ELSE s.turn_number
            /\ t.lead = IF s.k_captain[cap] = 1 THEN s.lead + 1 ELSE s.lead - 1
            /\ \A q \in Client : t.frags[q] = IF q = p THEN 0 ELSE s.frags[q]
            /\ \A q \in Client : t.k_picked[q] = IF q = p THEN s.k_captain[cap] ELSE s.k_picked[q]
<1> DEFINE u == IF s.turn_number # 1 THEN 3 - s.k_captainturn ELSE s.k_captainturn
           n == IF s.turn_number < 2 THEN s.turn_number + 1 ELSE s.turn_number
           l == IF s.k_captain[cap] = 1 THEN s.lead + 1 ELSE s.lead - 1
           f == [s.frags EXCEPT ![p] = 0]
           k == [s.k_picked EXCEPT ![p] = s.k_captain[cap]]
           t == SetPlayerParams(s, p, cap)
<1>1. t = [s EXCEPT !.k_captainturn = u, !.turn_number = n, !.lead = l, !.frags = f, !.k_picked = k]
  BY DEF SetPlayerParams, State
<1>2. u \in Turn /\ n \in Pick /\ l \in Whole
  BY Fields DEF Turn, Pick, Whole
<1>3. f \in Numbers /\ k \in Parts
  BY Fields DEF Numbers, Parts
<1>4. \A q \in Client : f[q] = IF q = p THEN 0 ELSE s.frags[q]
  BY Fields
<1>5. \A q \in Client : k[q] = IF q = p THEN s.k_captain[cap] ELSE s.k_picked[q]
  BY Fields
<1> HIDE DEF u, n, l, f, k, t
<1>6. t \in State
  BY <1>1, <1>2, <1>3 DEF State
<1>7. /\ t.k_captainturn = u /\ t.turn_number = n /\ t.lead = l /\ t.frags = f /\ t.k_picked = k
      /\ t.k_captain = s.k_captain /\ t.k_captains = s.k_captains
      /\ Lists(t) = Lists(s) /\ Polls(t) = Polls(s)
  BY <1>1 DEF State, Lists, Polls
<1> QED
  BY <1>4, <1>5, <1>6, <1>7 DEF u, n, l, t

\* t is s when the first numbers are given.
Begun(s, turn, t) ==
  /\ BeginPicking(s, turn) = IF CountPlayers(s) < 3 THEN CancelCaptains(s) ELSE PrintCaptainInTurn(t)
  /\ Lists(t) = Lists(s) /\ Polls(t) = Polls(s)
  /\ t.k_captain = s.k_captain /\ t.k_captains = s.k_captains
  /\ Picking(t) = <<turn, 0, 0>>
  /\ \A p \in Client : t.k_picked[p] = IF p \in Players(s) THEN 0 ELSE s.k_picked[p]
  /\ \A p \in Client :
       t.frags[p] = IF p \in Players(s) \ CaptainsOf(s)
                    THEN Cardinality({q \in Players(s) \ CaptainsOf(s) : q <= p})
                    ELSE s.frags[p]

LEMMA BeginFields ==
  ASSUME NEW s \in State, NEW turn \in {1, 2}
  PROVE  \E t \in State : Begun(s, turn, t)
<1> DEFINE free == Players(s) \ CaptainsOf(s)
           k == [p \in Client |-> IF p \in Players(s) THEN 0 ELSE s.k_picked[p]]
           f == [p \in Client |-> IF p \in free THEN Cardinality({q \in free : q <= p}) ELSE s.frags[p]]
           t == [s EXCEPT !.k_picked = k, !.frags = f,
                          !.turn_number = 0, !.lead = 0, !.k_captainturn = turn]
<1>1. BeginPicking(s, turn) = IF CountPlayers(s) < 3 THEN CancelCaptains(s) ELSE PrintCaptainInTurn(t)
  BY DEF BeginPicking
<1>2. ASSUME NEW p \in Client PROVE Cardinality({q \in free : q <= p}) \in Nat
  <2>1. IsFiniteSet(Client)
    BY SlotAssumption, FS_Interval DEF Client
  <2>2. {q \in free : q <= p} \in SUBSET Client
    BY DEF Players
  <2>3. IsFiniteSet({q \in free : q <= p})
    BY <2>1, <2>2, FS_Subset
  <2> QED
    BY <2>3, FS_CardinalityType
<1>3. f \in Numbers
  BY <1>2, Fields DEF Numbers
<1>4. k \in Parts /\ 0 \in Pick /\ 0 \in Whole /\ turn \in Turn
  BY Fields DEF Parts, Pick, Whole, Turn
<1>5. /\ \A p \in Client : k[p] = IF p \in Players(s) THEN 0 ELSE s.k_picked[p]
      /\ \A p \in Client : f[p] = IF p \in free THEN Cardinality({q \in free : q <= p}) ELSE s.frags[p]
  OBVIOUS
<1> HIDE DEF k, f
<1>6. t \in State
  BY <1>3, <1>4 DEF State
<1>7. /\ t.k_picked = k /\ t.frags = f /\ t.k_captain = s.k_captain /\ t.k_captains = s.k_captains
      /\ Lists(t) = Lists(s) /\ Polls(t) = Polls(s) /\ Picking(t) = <<turn, 0, 0>>
  BY DEF State, Lists, Polls, Picking
<1> HIDE DEF t
<1>8. \A p \in Client : t.frags[p] = IF p \in free THEN Cardinality({q \in free : q <= p})
                                           ELSE s.frags[p]
  BY <1>5, <1>7
<1>9. \A p \in Client : t.k_picked[p] = IF p \in Players(s) THEN 0 ELSE s.k_picked[p]
  BY <1>5, <1>7
<1> QED
  BY <1>1, <1>6, <1>7, <1>8, <1>9, Zenon DEF Begun

LEMMA ExitFields ==
  ASSUME NEW s \in State, NEW p \in Client, s.k_captain[p] # 0
  PROVE  LET t == ExitCaptain(s, p)
         IN /\ t \in State /\ Lists(t) = Lists(s) /\ Polls(t) = Polls(s) /\ Picking(t) = Picking(s)
            /\ t.k_picked = s.k_picked /\ t.k_captains = s.k_captains - 2
            /\ \A q \in Client : t.k_captain[q] = IF q = p THEN 0 ELSE s.k_captain[q]
            /\ \A q \in Client : t.frags[q] = IF s.k_captains = 4 /\ q \in Players(s) THEN 0
                                              ELSE s.frags[q]
<1> DEFINE c == [s.k_captain EXCEPT ![p] = 0]
           f == IF s.k_captains = 4 THEN [q \in Client |-> IF q \in Players(s) THEN 0 ELSE s.frags[q]]
                ELSE s.frags
           t == ExitCaptain(s, p)
<1>1. t = [s EXCEPT !.k_captain = c, !.frags = f, !.k_captains = s.k_captains - 2]
  BY DEF ExitCaptain, State
<1>2. c \in Parts /\ f \in Numbers /\ s.k_captains - 2 \in Whole
  BY Fields DEF Parts, Numbers, Whole
<1>3. \A q \in Client : c[q] = IF q = p THEN 0 ELSE s.k_captain[q]
  BY Fields
<1>4. \A q \in Client : f[q] = IF s.k_captains = 4 /\ q \in Players(s) THEN 0 ELSE s.frags[q]
  OBVIOUS
<1> HIDE DEF c, f, t
<1>5. t \in State
  BY <1>1, <1>2 DEF State
<1>6. /\ t.k_captain = c /\ t.frags = f /\ t.k_captains = s.k_captains - 2
      /\ t.k_picked = s.k_picked
      /\ Lists(t) = Lists(s) /\ Polls(t) = Polls(s) /\ Picking(t) = Picking(s)
  BY <1>1 DEF State, Lists, Polls, Picking
<1> QED
  BY <1>3, <1>4, <1>5, <1>6 DEF t

LEMMA AdminFields ==
  ASSUME NEW s \in State, NEW p \in Client
  PROVE  LET t == BecomeAdmin(s, p)
         IN /\ t \in State /\ Lists(t) = Lists(s) /\ Picking(t) = Picking(s)
            /\ t.guards = s.guards /\ t.k_captain = s.k_captain /\ t.k_picked = s.k_picked
            /\ t.frags = s.frags /\ t.k_captains = s.k_captains
            /\ \A q \in Client : t.elect_type[q] = IF q = p THEN "none" ELSE s.elect_type[q]
            /\ \A q \in Client : t.elect[q] <=> s.elect[q] /\ q # p
<1> DEFINE a == [s.k_admin EXCEPT ![p] = TRUE]
           e == [s.elect EXCEPT ![p] = FALSE]
           y == [s.elect_type EXCEPT ![p] = "none"]
           b == [s.blocked EXCEPT ![p] = FALSE]
           t == BecomeAdmin(s, p)
<1>1. t = [s EXCEPT !.k_admin = a, !.elect = e, !.elect_type = y, !.blocked = b]
  BY DEF BecomeAdmin, State
<1>2. a \in Flags /\ e \in Flags /\ y \in Offices /\ b \in Flags
  BY Fields DEF Flags, Offices
<1>3. /\ \A q \in Client : y[q] = IF q = p THEN "none" ELSE s.elect_type[q]
      /\ \A q \in Client : e[q] <=> s.elect[q] /\ q # p
  BY Fields
<1> HIDE DEF a, e, y, b, t
<1>4. t \in State
  BY <1>1, <1>2 DEF State
<1>5. /\ t.elect_type = y /\ t.elect = e /\ t.guards = s.guards /\ t.k_captain = s.k_captain
      /\ t.k_picked = s.k_picked /\ t.frags = s.frags /\ t.k_captains = s.k_captains
      /\ Lists(t) = Lists(s) /\ Picking(t) = Picking(s)
  BY <1>1 DEF State, Lists, Picking
<1> QED
  BY <1>3, <1>4, <1>5 DEF t

\* t is s with p as a captain.
Promoted(s, p, turn, t) ==
  /\ BecomeCaptain(s, p, turn) = IF t.k_captains = 4 THEN BeginPicking(t, turn) ELSE t
  /\ Lists(t) = Lists(s) /\ Polls(t) = Polls(s) /\ Picking(t) = Picking(s)
  /\ t.k_picked = s.k_picked /\ t.frags = s.frags
  /\ t.k_captains = Floor(s.k_captains) + 2
  /\ \A q \in Client :
       t.k_captain[q] =
         IF q = p
         THEN IF CaptainsOf(s) # {} /\ s.k_captain[First(CaptainsOf(s))] = 1 THEN 2 ELSE 1
         ELSE s.k_captain[q]

LEMMA CaptainFields ==
  ASSUME NEW s \in State, NEW p \in Client, NEW turn \in {1, 2}
  PROVE  \E t \in State : Promoted(s, p, turn, t)
<1> DEFINE n == IF CaptainsOf(s) # {} /\ s.k_captain[First(CaptainsOf(s))] = 1 THEN 2 ELSE 1
           c == [s.k_captain EXCEPT ![p] = n]
           h == Floor(s.k_captains) + 2
           t == [s EXCEPT !.k_captain = c, !.k_captains = h]
<1>0. t = [s EXCEPT !.k_captain[p] = n, !.k_captains = h]
  BY DEF State
<1>1. BecomeCaptain(s, p, turn) = IF t.k_captains = 4 THEN BeginPicking(t, turn) ELSE t
  BY <1>0 DEF BecomeCaptain
<1>2. n \in {1, 2}
  OBVIOUS
<1> HIDE DEF n
<1>3. c \in Parts /\ h \in Whole
  BY <1>2, Fields DEF Parts, Whole, Floor
<1>4. \A q \in Client : c[q] = IF q = p THEN n ELSE s.k_captain[q]
  BY Fields
<1> HIDE DEF c, h
<1>5. t \in State
  BY <1>3 DEF State
<1>6. /\ t.k_captain = c /\ t.k_captains = h /\ t.k_picked = s.k_picked /\ t.frags = s.frags
      /\ Lists(t) = Lists(s) /\ Polls(t) = Polls(s) /\ Picking(t) = Picking(s)
  BY DEF State, Lists, Polls, Picking
<1> HIDE DEF t
<1>7. \A q \in Client : t.k_captain[q] = IF q = p THEN n ELSE s.k_captain[q]
  BY <1>4, <1>6
<1> USE DEF n, h
<1> QED
  BY <1>1, <1>5, <1>6, <1>7, Zenon DEF Promoted

LEMMA AnnounceFields ==
  ASSUME NEW s \in State, NEW p \in Client, NEW type \in {"admin", "captain"}
  PROVE  LET t == Announce(s, p, type)
         IN /\ t \in State /\ Lists(t) = Lists(s) /\ Picking(t) = Picking(s)
            /\ t.k_captain = s.k_captain /\ t.k_picked = s.k_picked /\ t.frags = s.frags
            /\ t.k_captains = s.k_captains /\ t.guards = s.guards + 1
            /\ \A q \in Client : t.elect_type[q] = IF q = p THEN type ELSE s.elect_type[q]
            /\ \A q \in Client : t.elect[q] <=> s.elect[q] \/ q = p
<1> DEFINE e == [s.elect EXCEPT ![p] = TRUE]
           y == [s.elect_type EXCEPT ![p] = type]
           t == Announce(s, p, type)
<1>1. t = [s EXCEPT !.elect = e, !.elect_type = y, !.guards = s.guards + 1]
  BY DEF Announce, State
<1>2. e \in Flags /\ y \in Offices /\ s.guards + 1 \in Count
  BY Fields DEF Flags, Offices, Count
<1>3. /\ \A q \in Client : y[q] = IF q = p THEN type ELSE s.elect_type[q]
      /\ \A q \in Client : e[q] <=> s.elect[q] \/ q = p
  BY Fields
<1> HIDE DEF e, y, t
<1>4. t \in State
  BY <1>1, <1>2 DEF State
<1>5. /\ t.elect_type = y /\ t.elect = e /\ t.guards = s.guards + 1 /\ t.k_captain = s.k_captain
      /\ t.k_picked = s.k_picked /\ t.frags = s.frags /\ t.k_captains = s.k_captains
      /\ Lists(t) = Lists(s) /\ Picking(t) = Picking(s)
  BY <1>1 DEF State, Lists, Picking
<1> QED
  BY <1>3, <1>4, <1>5 DEF t

-----------------------------------------------------------------------------
(***************************************************************************)
(* Turns.  The state of a picking says by how much which captain leads.    *)
(***************************************************************************)
TurnInv(s) ==
  /\ s.turn_number = 0 => s.lead = 0
  /\ s.turn_number = 1 => s.lead = IF s.k_captainturn = 2 THEN 1 ELSE -1
  /\ s.turn_number = 2 => \/ s.lead = 0
                          \/ s.lead = 1 /\ s.k_captainturn = 2
                          \/ s.lead = -1 /\ s.k_captainturn = 1

LEMMA SameTurn ==
  ASSUME NEW s, NEW t, TurnInv(s), Picking(t) = Picking(s)
  PROVE  TurnInv(t)
BY DEF TurnInv, Picking

LEMMA ParamsTurn ==
  ASSUME NEW s \in State, TurnInv(s), NEW p \in Client, NEW cap \in Client,
         s.k_captain[cap] = s.k_captainturn
  PROVE  SetPlayerParams(s, p, cap) \in State /\ TurnInv(SetPlayerParams(s, p, cap))
<1> DEFINE t == SetPlayerParams(s, p, cap)
<1>1. /\ t \in State
      /\ t.k_captainturn = IF s.turn_number # 1 THEN 3 - s.k_captainturn ELSE s.k_captainturn
      /\ t.turn_number = IF s.turn_number < 2 THEN s.turn_number + 1 ELSE s.turn_number
      /\ t.lead = IF s.k_captain[cap] = 1 THEN s.lead + 1 ELSE s.lead - 1
  BY ParamsFields
<1> HIDE DEF t
<1>2. s.k_captainturn \in {1, 2} /\ s.turn_number \in {0, 1, 2} /\ s.lead \in Int
  BY Fields
<1>3. TurnInv(t)
  BY <1>1, <1>2 DEF TurnInv
<1> QED
  BY <1>1, <1>3 DEF t

LEMMA PrintTurn ==
  ASSUME NEW s \in State, TurnInv(s)
  PROVE  PrintCaptainInTurn(s) \in State /\ TurnInv(PrintCaptainInTurn(s))
BY CancelFields, SameTurn DEF PrintCaptainInTurn

LEMMA FreeSets ==
  ASSUME NEW s
  PROVE  /\ FreePlayers(s) \subseteq Client /\ InTurn(s) \subseteq Client
         /\ Players(s) \subseteq Client /\ Candidates(s) \subseteq Client
         /\ CaptainsOf(s) \subseteq Client /\ Clients(s) \subseteq Client
BY DEF FreePlayers, InTurn, Players, Candidates, CaptainsOf, Clients

LEMMA ClientSets ==
  ASSUME NEW S \in SUBSET Client
  PROVE  /\ IsFiniteSet(S) /\ Cardinality(S) \in Nat
         /\ Cardinality(S) = 0 <=> S = {}
<1>1. IsFiniteSet(Client)
  BY SlotAssumption, FS_Interval DEF Client
<1>2. IsFiniteSet(S)
  BY <1>1, FS_Subset
<1> QED
  BY <1>2, FS_CardinalityType, FS_EmptySet

LEMMA FinishTurn ==
  ASSUME NEW s \in State, TurnInv(s)
  PROVE  CheckFinishCaptain(s) \in State /\ TurnInv(CheckFinishCaptain(s))
<1> DEFINE free == FreePlayers(s)
           last == IF InTurn(s) = {} THEN s ELSE SetPlayerParams(s, First(free), First(InTurn(s)))
<1>1. CASE Cardinality(free) > 1
  <2>1. CheckFinishCaptain(s) = s
    BY <1>1 DEF CheckFinishCaptain
  <2> QED
    BY <2>1
<1>2. CASE Cardinality(free) = 1
  <2>1. CheckFinishCaptain(s) = CancelCaptains(last)
    BY <1>2 DEF CheckFinishCaptain
  <2>2. free # {}
    BY <1>2, FreeSets, ClientSets
  <2>3. last \in State /\ TurnInv(last)
    <3>1. CASE InTurn(s) = {}
      BY <3>1
    <3>2. CASE InTurn(s) # {}
      <4>1. First(free) \in Client /\ First(InTurn(s)) \in InTurn(s)
        BY <2>2, <3>2, FreeSets, FirstClient
      <4>2. /\ First(InTurn(s)) \in Client
            /\ s.k_captain[First(InTurn(s))] = s.k_captainturn
        BY <4>1 DEF InTurn, Players
      <4>3. last = SetPlayerParams(s, First(free), First(InTurn(s)))
        BY <3>2
      <4> HIDE DEF last, free
      <4> QED
        BY <4>1, <4>2, <4>3, ParamsTurn
    <3> QED
      BY <3>1, <3>2
  <2> HIDE DEF last
  <2> QED
    BY <2>1, <2>3, CancelFields, SameTurn
<1>3. CASE ~(Cardinality(free) > 1) /\ Cardinality(free) # 1
  <2>1. CheckFinishCaptain(s) = CancelCaptains(s)
    BY <1>3 DEF CheckFinishCaptain
  <2> QED
    BY <2>1, CancelFields, SameTurn
<1> QED
  BY <1>1, <1>2, <1>3

LEMMA BeginTurn ==
  ASSUME NEW s \in State, TurnInv(s), NEW turn \in {1, 2}
  PROVE  BeginPicking(s, turn) \in State /\ TurnInv(BeginPicking(s, turn))
<1>1. PICK t \in State : Begun(s, turn, t)
  BY BeginFields
<1>2. /\ BeginPicking(s, turn) = IF CountPlayers(s) < 3 THEN CancelCaptains(s)
                                 ELSE PrintCaptainInTurn(t)
      /\ Picking(t) = <<turn, 0, 0>>
  BY <1>1 DEF Begun
<1>3. TurnInv(t)
  BY <1>2 DEF TurnInv, Picking
<1> QED
  BY <1>2, <1>3, CancelFields, SameTurn, PrintTurn

LEMMA CaptainTurn ==
  ASSUME NEW s \in State, TurnInv(s), NEW p \in Client, NEW turn \in {1, 2}
  PROVE  BecomeCaptain(s, p, turn) \in State /\ TurnInv(BecomeCaptain(s, p, turn))
<1>1. PICK t \in State : Promoted(s, p, turn, t)
  BY CaptainFields
<1>2. /\ BecomeCaptain(s, p, turn) = IF t.k_captains = 4 THEN BeginPicking(t, turn) ELSE t
      /\ Picking(t) = Picking(s)
  BY <1>1 DEF Promoted
<1>3. TurnInv(t)
  BY <1>2, SameTurn
<1> QED
  BY <1>2, <1>3, BeginTurn

\* What an election that passes does, before it is taken away.
Elected(s, turn) ==
  LET p == First(Candidates(s))
  IN IF Candidates(s) = {} THEN s
     ELSE CASE s.elect_type[p] = "admin" /\ ~(s.ct[p] = "spec" /\ s.match) -> BecomeAdmin(s, p)
            [] s.elect_type[p] = "captain" /\ ~s.match -> BecomeCaptain(s, p, turn)
            [] OTHER -> s

LEMMA ElectedIs ==
  ASSUME NEW s, NEW turn
  PROVE  /\ vote_check_elect(s, turn) = IF Votes(s) < VotesReq(s) THEN s
                                        ELSE AbortElect(Elected(s, turn))
         /\ \/ Elected(s, turn) = s
            \/ /\ Candidates(s) # {} /\ s.elect_type[First(Candidates(s))] = "admin"
               /\ Elected(s, turn) = BecomeAdmin(s, First(Candidates(s)))
            \/ /\ Candidates(s) # {} /\ s.elect_type[First(Candidates(s))] = "captain" /\ ~s.match
               /\ Elected(s, turn) = BecomeCaptain(s, First(Candidates(s)), turn)
<1>1. vote_check_elect(s, turn) = IF Votes(s) < VotesReq(s) THEN s ELSE AbortElect(Elected(s, turn))
  BY DEF vote_check_elect, Elected
<1> DEFINE p == First(Candidates(s))
<1>2. \/ Elected(s, turn) = s
      \/ /\ Candidates(s) # {} /\ s.elect_type[p] = "admin" /\ Elected(s, turn) = BecomeAdmin(s, p)
      \/ /\ Candidates(s) # {} /\ s.elect_type[p] = "captain" /\ ~s.match
         /\ Elected(s, turn) = BecomeCaptain(s, p, turn)
  <2>1. Elected(s, turn) =
          IF Candidates(s) = {} THEN s
          ELSE CASE s.elect_type[p] = "admin" /\ ~(s.ct[p] = "spec" /\ s.match) -> BecomeAdmin(s, p)
                 [] s.elect_type[p] = "captain" /\ ~s.match -> BecomeCaptain(s, p, turn)
                 [] OTHER -> s
    BY DEF Elected
  <2> HIDE DEF p
  <2>2. CASE Candidates(s) = {}
    BY <2>1, <2>2
  <2>3. CASE Candidates(s) # {} /\ s.elect_type[p] = "admin" /\ ~(s.ct[p] = "spec" /\ s.match)
    BY <2>1, <2>3
  <2>4. CASE Candidates(s) # {} /\ s.elect_type[p] = "captain" /\ ~s.match
    BY <2>1, <2>4
  <2>5. CASE /\ Candidates(s) # {}
             /\ ~(s.elect_type[p] = "admin" /\ ~(s.ct[p] = "spec" /\ s.match))
             /\ ~(s.elect_type[p] = "captain" /\ ~s.match)
    BY <2>1, <2>5
  <2> QED
    BY <2>2, <2>3, <2>4, <2>5
<1> QED
  BY <1>1, <1>2

LEMMA VoteTurn ==
  ASSUME NEW s \in State, TurnInv(s), NEW turn \in {1, 2}
  PROVE  vote_check_elect(s, turn) \in State /\ TurnInv(vote_check_elect(s, turn))
<1> DEFINE p == First(Candidates(s))
<1>1. Candidates(s) # {} => p \in Client
  BY FreeSets, FirstClient
<1>2. Elected(s, turn) \in State /\ TurnInv(Elected(s, turn))
  <2>1. CASE Elected(s, turn) = s
    BY <2>1
  <2>2. CASE Candidates(s) # {} /\ Elected(s, turn) = BecomeAdmin(s, p)
    <3>1. p \in Client
      BY <1>1, <2>2
    <3> HIDE DEF p
    <3> QED
      BY <2>2, <3>1, AdminFields, SameTurn
  <2>3. CASE Candidates(s) # {} /\ Elected(s, turn) = BecomeCaptain(s, p, turn)
    <3>1. p \in Client
      BY <1>1, <2>3
    <3> HIDE DEF p
    <3> QED
      BY <2>3, <3>1, CaptainTurn
  <2> QED
    BY <2>1, <2>2, <2>3, ElectedIs
<1>3. /\ AbortElect(Elected(s, turn)) \in State
      /\ Picking(AbortElect(Elected(s, turn))) = Picking(Elected(s, turn))
  BY <1>2, AbortFields
<1>4. TurnInv(AbortElect(Elected(s, turn)))
  BY <1>2, <1>3, SameTurn
<1> QED
  BY <1>3, <1>4, ElectedIs

-----------------------------------------------------------------------------
(***************************************************************************)
(* The fields after the actions that assign them at once.                  *)
(***************************************************************************)
LEMMA VoteFields ==
  ASSUME NEW s \in State, NEW p \in Client, NEW v \in BOOLEAN
  PROVE  LET t == [s EXCEPT !.elect[p] = v]
         IN /\ t \in State /\ Lists(t) = Lists(s) /\ Picking(t) = Picking(s)
            /\ t.k_captain = s.k_captain /\ t.k_picked = s.k_picked /\ t.frags = s.frags
            /\ t.k_captains = s.k_captains /\ t.guards = s.guards /\ t.elect_type = s.elect_type
            /\ \A q \in Client : t.elect[q] = IF q = p THEN v ELSE s.elect[q]
<1> DEFINE e == [s.elect EXCEPT ![p] = v]
           t == [s EXCEPT !.elect = e]
<1>1. [s EXCEPT !.elect[p] = v] = t
  BY DEF State
<1>2. e \in Flags /\ \A q \in Client : e[q] = IF q = p THEN v ELSE s.elect[q]
  BY Fields DEF Flags
<1> HIDE DEF e
<1>3. t \in State
  BY <1>2 DEF State
<1>4. /\ Lists(t) = Lists(s) /\ Picking(t) = Picking(s)
      /\ t.k_captain = s.k_captain /\ t.k_picked = s.k_picked /\ t.frags = s.frags
      /\ t.k_captains = s.k_captains /\ t.guards = s.guards /\ t.elect_type = s.elect_type
      /\ t.elect = e
  BY DEF State, Lists, Picking
<1> HIDE DEF t
<1> QED
  BY <1>1, <1>2, <1>3, <1>4

LEMMA EmptyFields ==
  /\ Empty \in State /\ TurnInv(Empty)
<1>1. /\ Idle \in Kinds /\ Idle \in Offices /\ Off \in Flags /\ Zero \in Parts /\ Zero \in Numbers
      /\ [p \in Client |-> NoTeam] \in Names
      /\ 0 \in Count /\ 0 \in Whole /\ 1 \in Turn /\ 0 \in Pick /\ FALSE \in Bool
  BY DEF Idle, Off, Zero, Kinds, Offices, Flags, Parts, Numbers, Names, Count, Whole, Turn, Pick, Bool
<1>2. Empty \in State
  BY <1>1 DEF Empty, State
<1>3. TurnInv(Empty)
  BY DEF Empty, TurnInv
<1> QED
  BY <1>2, <1>3

LEMMA RaiseFields ==
  ASSUME NEW s \in State
  PROVE  LET t == [s EXCEPT !.k_captains = @ + 1]
         IN /\ t \in State /\ Lists(t) = Lists(s) /\ Picking(t) = Picking(s) /\ Polls(t) = Polls(s)
            /\ t.k_captain = s.k_captain /\ t.k_picked = s.k_picked /\ t.frags = s.frags
            /\ t.k_captains = s.k_captains + 1
<1>1. s.k_captains + 1 \in Whole
  BY Fields DEF Whole
<1>2. [s EXCEPT !.k_captains = @ + 1] \in State
  BY <1>1 DEF State
<1> QED
  BY <1>2 DEF State, Lists, Picking, Polls

\* t differs from s in the rights of admins and in who may stand again.
Else(s, t) ==
  /\ t \in State /\ Lists(t) = Lists(s) /\ Picking(t) = Picking(s) /\ Polls(t) = Polls(s)
  /\ t.k_captain = s.k_captain /\ t.k_picked = s.k_picked /\ t.frags = s.frags
  /\ t.k_captains = s.k_captains

LEMMA ElseFields ==
  ASSUME NEW s \in State, NEW p \in Client
  PROVE  /\ Else(s, [s EXCEPT !.k_admin[p] = FALSE])
         /\ Else(s, [s EXCEPT !.blocked[p] = FALSE])
<1> DEFINE a == [s.k_admin EXCEPT ![p] = FALSE]
           b == [s.blocked EXCEPT ![p] = FALSE]
<1>1. /\ [s EXCEPT !.k_admin[p] = FALSE] = [s EXCEPT !.k_admin = a]
      /\ [s EXCEPT !.blocked[p] = FALSE] = [s EXCEPT !.blocked = b]
  BY DEF State
<1>2. a \in Flags /\ b \in Flags
  BY Fields DEF Flags
<1> HIDE DEF a, b
<1>3. [s EXCEPT !.k_admin = a] \in State /\ [s EXCEPT !.blocked = b] \in State
  BY <1>2 DEF State
<1>4. Else(s, [s EXCEPT !.k_admin = a])
  BY <1>3 DEF State, Else, Lists, Picking, Polls
<1>5. Else(s, [s EXCEPT !.blocked = b])
  BY <1>3 DEF State, Else, Lists, Picking, Polls
<1> QED
  BY <1>1, <1>4, <1>5

LEMMA MatchFields ==
  ASSUME NEW s \in State, NEW v \in BOOLEAN
  PROVE  LET t == [s EXCEPT !.match = v]
         IN /\ t \in State /\ t.ct = s.ct /\ t.team = s.team
            /\ Picking(t) = Picking(s) /\ Polls(t) = Polls(s)
            /\ t.k_captain = s.k_captain /\ t.k_picked = s.k_picked /\ t.frags = s.frags
            /\ t.k_captains = s.k_captains
<1>1. v \in Bool
  BY DEF Bool
<1>2. [s EXCEPT !.match = v] \in State
  BY <1>1 DEF State
<1> QED
  BY <1>2 DEF State, Picking, Polls

LEMMA TeamFields ==
  ASSUME NEW s \in State, NEW p \in Client, NEW m \in Team \cup {NoTeam}
  PROVE  LET t == [s EXCEPT !.team[p] = m]
         IN /\ t \in State /\ t.ct = s.ct /\ t.match = s.match
            /\ \A q \in Client : t.team[q] = IF q = p THEN m ELSE s.team[q]
            /\ Picking(t) = Picking(s) /\ Polls(t) = Polls(s)
            /\ t.k_captain = s.k_captain /\ t.k_picked = s.k_picked /\ t.frags = s.frags
            /\ t.k_captains = s.k_captains
<1> DEFINE n == [s.team EXCEPT ![p] = m]
           t == [s EXCEPT !.team = n]
<1>1. [s EXCEPT !.team[p] = m] = t
  BY DEF State
<1>2. n \in Names /\ \A q \in Client : n[q] = IF q = p THEN m ELSE s.team[q]
  BY Fields DEF Names
<1> HIDE DEF n
<1>3. t \in State
  BY <1>2 DEF State
<1>4. /\ t.ct = s.ct /\ t.match = s.match /\ t.team = n /\ Picking(t) = Picking(s) /\ Polls(t) = Polls(s)
      /\ t.k_captain = s.k_captain /\ t.k_picked = s.k_picked /\ t.frags = s.frags
      /\ t.k_captains = s.k_captains
  BY DEF State, Picking, Polls
<1> HIDE DEF t
<1> QED
  BY <1>1, <1>2, <1>3, <1>4

LEMMA SpeedFields ==
  ASSUME NEW s \in State, NEW p \in Client, NEW n \in Nat
  PROVE  LET t == [s EXCEPT !.frags[p] = n]
         IN /\ t \in State /\ Lists(t) = Lists(s) /\ Picking(t) = Picking(s) /\ Polls(t) = Polls(s)
            /\ t.k_captain = s.k_captain /\ t.k_picked = s.k_picked
            /\ \A q \in Client : t.frags[q] = IF q = p THEN n ELSE s.frags[q]
            /\ t.k_captains = s.k_captains
<1> DEFINE f == [s.frags EXCEPT ![p] = n]
           t == [s EXCEPT !.frags = f]
<1>1. [s EXCEPT !.frags[p] = n] = t
  BY DEF State
<1>2. f \in Numbers /\ \A q \in Client : f[q] = IF q = p THEN n ELSE s.frags[q]
  BY Fields DEF Numbers
<1> HIDE DEF f
<1>3. t \in State
  BY <1>2 DEF State
<1>4. /\ t.frags = f /\ Lists(t) = Lists(s) /\ Picking(t) = Picking(s) /\ Polls(t) = Polls(s)
      /\ t.k_captain = s.k_captain /\ t.k_picked = s.k_picked
      /\ t.k_captains = s.k_captains
  BY DEF State, Lists, Picking, Polls
<1> HIDE DEF t
<1> QED
  BY <1>1, <1>2, <1>3, <1>4

\* Slot p is t's as it is s's, but for who is in it.
Slot(s, t, p, kind, team, n) ==
  /\ t \in State /\ Picking(t) = Picking(s) /\ t.match = s.match
  /\ t.k_captains = s.k_captains /\ t.guards = s.guards
  /\ \A q \in Client : t.ct[q] = IF q = p THEN kind ELSE s.ct[q]
  /\ \A q \in Client : t.team[q] = IF q = p THEN team ELSE s.team[q]
  /\ \A q \in Client : t.elect[q] <=> s.elect[q] /\ q # p
  /\ \A q \in Client : t.k_captain[q] = IF q = p THEN 0 ELSE s.k_captain[q]
  /\ \A q \in Client : t.k_picked[q] = IF q = p THEN 0 ELSE s.k_picked[q]
  /\ \A q \in Client : t.frags[q] = IF q = p THEN n ELSE s.frags[q]

Seated(s, p, kind, m, n) ==
  [s EXCEPT !.ct[p] = kind, !.team[p] = m, !.k_admin[p] = FALSE, !.elect[p] = FALSE,
            !.elect_type[p] = "none", !.blocked[p] = FALSE,
            !.k_captain[p] = 0, !.k_picked[p] = 0, !.frags[p] = n]

LEMMA ConnectFields ==
  ASSUME NEW s \in State, NEW p \in Client, NEW kind \in {"player", "spec"},
         NEW m \in Team \cup {NoTeam}, NEW n \in Nat
  PROVE  LET t == Seated(s, p, kind, m, n)
         IN /\ Slot(s, t, p, kind, m, n)
            /\ \A q \in Client : t.elect_type[q] = IF q = p THEN "none" ELSE s.elect_type[q]
<1> DEFINE f1 == [s.ct EXCEPT ![p] = kind]
           f2 == [s.team EXCEPT ![p] = m]
           f3 == [s.k_admin EXCEPT ![p] = FALSE]
           f4 == [s.elect EXCEPT ![p] = FALSE]
           f5 == [s.elect_type EXCEPT ![p] = "none"]
           f6 == [s.blocked EXCEPT ![p] = FALSE]
           f7 == [s.k_captain EXCEPT ![p] = 0]
           f8 == [s.k_picked EXCEPT ![p] = 0]
           f9 == [s.frags EXCEPT ![p] = n]
           t == [s EXCEPT !.ct = f1, !.team = f2, !.k_admin = f3, !.elect = f4, !.elect_type = f5,
                          !.blocked = f6, !.k_captain = f7, !.k_picked = f8, !.frags = f9]
<1>1. Seated(s, p, kind, m, n) = t
  BY DEF State, Seated
<1>2. /\ f1 \in Kinds /\ f2 \in Names /\ f3 \in Flags /\ f4 \in Flags /\ f5 \in Offices
      /\ f6 \in Flags /\ f7 \in Parts /\ f8 \in Parts /\ f9 \in Numbers
  BY Fields DEF Kinds, Names, Flags, Offices, Parts, Numbers
<1>3. /\ \A q \in Client : f1[q] = IF q = p THEN kind ELSE s.ct[q]
      /\ \A q \in Client : f2[q] = IF q = p THEN m ELSE s.team[q]
      /\ \A q \in Client : f4[q] <=> s.elect[q] /\ q # p
      /\ \A q \in Client : f5[q] = IF q = p THEN "none" ELSE s.elect_type[q]
      /\ \A q \in Client : f7[q] = IF q = p THEN 0 ELSE s.k_captain[q]
      /\ \A q \in Client : f8[q] = IF q = p THEN 0 ELSE s.k_picked[q]
      /\ \A q \in Client : f9[q] = IF q = p THEN n ELSE s.frags[q]
  BY Fields
<1> HIDE DEF f1, f2, f3, f4, f5, f6, f7, f8, f9
<1>4. t \in State
  BY <1>2 DEF State
<1>5. /\ t.ct = f1 /\ t.team = f2 /\ t.elect = f4 /\ t.elect_type = f5 /\ t.k_captain = f7
      /\ t.k_picked = f8 /\ t.frags = f9 /\ Picking(t) = Picking(s) /\ t.match = s.match
      /\ t.k_captains = s.k_captains /\ t.guards = s.guards
  BY DEF State, Picking
<1> HIDE DEF t
<1>6. Slot(s, t, p, kind, m, n)
  BY <1>3, <1>4, <1>5 DEF Slot
<1> QED
  BY <1>1, <1>3, <1>5, <1>6

LEMMA VacateFields ==
  ASSUME NEW s \in State, NEW p \in Client
  PROVE  /\ Slot(s, Vacate(s, p), p, "none", NoTeam, 0)
         /\ Vacate(s, p).elect_type = s.elect_type
<1> DEFINE f1 == [s.ct EXCEPT ![p] = "none"]
           f2 == [s.team EXCEPT ![p] = NoTeam]
           f3 == [s.k_admin EXCEPT ![p] = FALSE]
           f4 == [s.elect EXCEPT ![p] = FALSE]
           f6 == [s.blocked EXCEPT ![p] = FALSE]
           f7 == [s.k_captain EXCEPT ![p] = 0]
           f8 == [s.k_picked EXCEPT ![p] = 0]
           f9 == [s.frags EXCEPT ![p] = 0]
           t == [s EXCEPT !.ct = f1, !.team = f2, !.k_admin = f3, !.elect = f4,
                          !.blocked = f6, !.k_captain = f7, !.k_picked = f8, !.frags = f9]
<1>1. Vacate(s, p) = t
  BY DEF State, Vacate
<1>2. /\ f1 \in Kinds /\ f2 \in Names /\ f3 \in Flags /\ f4 \in Flags
      /\ f6 \in Flags /\ f7 \in Parts /\ f8 \in Parts /\ f9 \in Numbers
  BY Fields DEF Kinds, Names, Flags, Parts, Numbers
<1>3. /\ \A q \in Client : f1[q] = IF q = p THEN "none" ELSE s.ct[q]
      /\ \A q \in Client : f2[q] = IF q = p THEN NoTeam ELSE s.team[q]
      /\ \A q \in Client : f4[q] <=> s.elect[q] /\ q # p
      /\ \A q \in Client : f7[q] = IF q = p THEN 0 ELSE s.k_captain[q]
      /\ \A q \in Client : f8[q] = IF q = p THEN 0 ELSE s.k_picked[q]
      /\ \A q \in Client : f9[q] = IF q = p THEN 0 ELSE s.frags[q]
  BY Fields
<1> HIDE DEF f1, f2, f3, f4, f6, f7, f8, f9
<1>4. t \in State
  BY <1>2 DEF State
<1>5. /\ t.ct = f1 /\ t.team = f2 /\ t.elect = f4 /\ t.elect_type = s.elect_type /\ t.k_captain = f7
      /\ t.k_picked = f8 /\ t.frags = f9 /\ Picking(t) = Picking(s) /\ t.match = s.match
      /\ t.k_captains = s.k_captains /\ t.guards = s.guards
  BY DEF State, Picking
<1> HIDE DEF t
<1>6. Slot(s, t, p, "none", NoTeam, 0)
  BY <1>3, <1>4, <1>5 DEF Slot
<1> QED
  BY <1>1, <1>5, <1>6

LEMMA GoneFields ==
  ASSUME NEW s \in State, NEW p \in Client
  PROVE  LET t == [s EXCEPT !.ct[p] = "none"]
         IN /\ t \in State /\ t.team = s.team /\ t.match = s.match
            /\ Picking(t) = Picking(s) /\ Polls(t) = Polls(s)
            /\ \A q \in Client : t.ct[q] = IF q = p THEN "none" ELSE s.ct[q]
            /\ t.k_captain = s.k_captain /\ t.k_picked = s.k_picked
            /\ t.frags = s.frags /\ t.k_captains = s.k_captains
<1> DEFINE c == [s.ct EXCEPT ![p] = "none"]
           t == [s EXCEPT !.ct = c]
<1>1. [s EXCEPT !.ct[p] = "none"] = t
  BY DEF State
<1>2. c \in Kinds /\ \A q \in Client : c[q] = IF q = p THEN "none" ELSE s.ct[q]
  BY Fields DEF Kinds
<1> HIDE DEF c
<1>3. t \in State
  BY <1>2 DEF State
<1>4. /\ t.ct = c /\ t.team = s.team /\ t.match = s.match /\ t.frags = s.frags
      /\ Picking(t) = Picking(s) /\ Polls(t) = Polls(s)
      /\ t.k_captain = s.k_captain /\ t.k_picked = s.k_picked
      /\ t.k_captains = s.k_captains
  BY DEF State, Picking, Polls
<1> HIDE DEF t
<1> QED
  BY <1>1, <1>2, <1>3, <1>4

LEMMA FreeNumberIs ==
  ASSUME NEW s \in State
  PROVE  /\ FreeNumber(s) \in Nat \ {0}
         /\ \A q \in Players(s) : s.frags[q] # FreeNumber(s)
<1> DEFINE S == {i \in 1 .. MaxClients + 1 : \A q \in Players(s) : s.frags[q] # i}
           N == 1 .. MaxClients + 1
           f == [i \in N |-> CHOOSE q \in Players(s) : s.frags[q] = i]
<1>1. S # {}
  <2> SUFFICES ASSUME S = {} PROVE FALSE
    OBVIOUS
  <2>1. \A i \in N : \E q \in Players(s) : s.frags[q] = i
    OBVIOUS
  <2>2. \A i \in N : f[i] \in Players(s) /\ s.frags[f[i]] = i
    BY <2>1
  <2>3. f \in [N -> Client]
    BY <2>2, FreeSets
  <2>4. IsFiniteSet(N) /\ Cardinality(N) = MaxClients + 1
    BY SlotAssumption, FS_Interval
  <2>5. IsFiniteSet(Client) /\ Cardinality(Client) = MaxClients
    BY SlotAssumption, FS_Interval DEF Client
  <2>6. Cardinality(Client) < Cardinality(N)
    BY <2>4, <2>5, SlotAssumption
  <2> HIDE DEF N, f
  <2>7. \E x, y \in N : x # y /\ f[x] = f[y]
    BY <2>3, <2>4, <2>5, <2>6, FS_PigeonHole
  <2> QED
    BY <2>2, <2>7
<1>2. S \in SUBSET Nat
  BY SlotAssumption
<1>3. First(S) \in S
  BY <1>1, <1>2, FirstIs
<1>4. FreeNumber(s) = First(S)
  BY DEF FreeNumber
<1>5. First(S) \in N /\ \A q \in Players(s) : s.frags[q] # First(S)
  BY <1>3
<1> HIDE DEF S
<1> QED
  BY <1>4, <1>5, SlotAssumption

-----------------------------------------------------------------------------
TurnsOK == g \in State /\ TurnInv(g)

LEMMA TurnCommands ==
  ASSUME TurnsOK, Commands
  PROVE  TurnsOK'
<1>0. g \in State /\ TurnInv(g)
  BY DEF TurnsOK
<1>1. PICK p \in Client :
        \/ VoteCaptain(p) \/ VoteAdmin(p) \/ ReqAdmin(p)
        \/ \E turn \in {1, 2} : VoteYes(p, turn) \/ VoteNo(p, turn)
        \/ CaptainPickPlayer(p)
        \/ \E t \in Teams(p) : SetTeam(p, t)
  BY Zenon DEF Commands
<1>2. ASSUME NEW type, AbortElection(p, type) PROVE TurnsOK'
  <2>1. g' = AbortElect(g)
    BY <1>2 DEF AbortElection
  <2> QED
    BY <1>0, <2>1, AbortFields, SameTurn DEF TurnsOK
<1>3. CASE VoteCaptain(p)
  <2>1. CASE ResignCaptain(p)
    <3>1. g.k_captain[p] # 0 /\ g' = ExitCaptain(g, p)
      BY <2>1 DEF ResignCaptain, CaptainsOf
    <3> QED
      BY <1>0, <3>1, ExitFields, SameTurn DEF TurnsOK
  <2>2. CASE StandAsCaptain(p)
    <3> DEFINE t == Announce(g, p, "captain")
    <3>1. g' = [t EXCEPT !.k_captains = @ + 1]
      BY <2>2 DEF StandAsCaptain
    <3>2. t \in State /\ Picking(t) = Picking(g)
      BY <1>0, AnnounceFields
    <3> HIDE DEF t
    <3>3. g' \in State /\ Picking(g') = Picking(t)
      BY <3>1, <3>2, RaiseFields
    <3> QED
      BY <1>0, <3>2, <3>3, SameTurn DEF TurnsOK
  <2> QED
    BY <1>2, <1>3, <2>1, <2>2 DEF VoteCaptain
<1>4. CASE VoteAdmin(p)
  <2>1. CASE StandAsAdmin(p)
    <3>1. g' = Announce(g, p, "admin")
      BY <2>1 DEF StandAsAdmin
    <3> QED
      BY <1>0, <3>1, AnnounceFields, SameTurn DEF TurnsOK
  <2> QED
    BY <1>2, <1>4, <2>1 DEF VoteAdmin
<1>5. CASE ReqAdmin(p)
  <2>1. CASE GiveUpAdmin(p)
    <3>1. Else(g, g')
      BY <1>0, <2>1, ElseFields DEF GiveUpAdmin
    <3> QED
      BY <1>0, <3>1, SameTurn DEF Else, TurnsOK
  <2>2. CASE AdminByCode(p)
    <3>1. g' = BecomeAdmin(g, p)
      BY <2>2 DEF AdminByCode
    <3> QED
      BY <1>0, <3>1, AdminFields, SameTurn DEF TurnsOK
  <2> QED
    BY <1>5, <2>1, <2>2 DEF ReqAdmin
<1>6. ASSUME NEW turn \in {1, 2}, NEW v \in BOOLEAN,
             g' = vote_check_elect([g EXCEPT !.elect[p] = v], turn)
      PROVE  TurnsOK'
  <2> DEFINE t == [g EXCEPT !.elect[p] = v]
  <2>1. t \in State /\ Picking(t) = Picking(g)
    BY <1>0, VoteFields
  <2>2. g' = vote_check_elect(t, turn)
    BY <1>6
  <2> HIDE DEF t
  <2>3. TurnInv(t)
    BY <1>0, <2>1, SameTurn
  <2> QED
    BY <2>1, <2>2, <2>3, VoteTurn DEF TurnsOK
<1>7. CASE \E turn \in {1, 2} : VoteYes(p, turn) \/ VoteNo(p, turn)
  BY <1>6, <1>7 DEF VoteYes, VoteNo
<1>8. CASE CaptainPickPlayer(p)
  <2>1. PICK impulse \in Client :
          LET named == {q \in Players(g) : g.frags[q] = impulse}
              t == CheckFinishCaptain(SetPlayerParams(g, First(named), p))
          IN named # {} /\ g' = IF t.k_captains # 0 THEN PrintCaptainInTurn(t) ELSE t
    BY <1>8 DEF CaptainPickPlayer
  <2> DEFINE named == {q \in Players(g) : g.frags[q] = impulse}
             r == SetPlayerParams(g, First(named), p)
             t == CheckFinishCaptain(r)
  <2>2. named # {} /\ g' = IF t.k_captains # 0 THEN PrintCaptainInTurn(t) ELSE t
    BY <2>1
  <2>3. First(named) \in Client
    <3>1. named \in SUBSET Client
      BY FreeSets
    <3> HIDE DEF named
    <3> QED
      BY <2>2, <3>1, FirstClient
  <2>4. g.k_captain[p] = g.k_captainturn
    BY <1>8 DEF CaptainPickPlayer
  <2> HIDE DEF named
  <2>5. r \in State /\ TurnInv(r)
    BY <1>0, <2>3, <2>4, ParamsTurn
  <2> HIDE DEF r
  <2>6. t \in State /\ TurnInv(t)
    BY <2>5, FinishTurn
  <2> HIDE DEF t
  <2> QED
    BY <2>2, <2>6, PrintTurn DEF TurnsOK
<1>9. CASE \E t \in Teams(p) : SetTeam(p, t)
  <2>1. PICK t \in Team \cup {NoTeam} : g' = [g EXCEPT !.team[p] = t]
    BY <1>9 DEF Teams, SetTeam
  <2> QED
    BY <1>0, <2>1, TeamFields, SameTurn DEF TurnsOK
<1> QED
  BY <1>1, <1>3, <1>4, <1>5, <1>7, <1>8, <1>9

LEMMA TurnEngine ==
  ASSUME TurnsOK, Engine
  PROVE  TurnsOK'
<1>0. g \in State /\ TurnInv(g)
  BY DEF TurnsOK
<1>1. CASE ElectThink
  <2>1. g' = AbortElect(g)
    BY <1>1 DEF ElectThink
  <2> QED
    BY <1>0, <2>1, AbortFields, SameTurn DEF TurnsOK
<1>2. CASE VoteFrame
  <2>1. PICK turn \in {1, 2} : g' = vote_check_elect(g, turn)
    BY <1>2 DEF VoteFrame
  <2> QED
    BY <1>0, <2>1, VoteTurn DEF TurnsOK
<1>3. CASE MatchStarts \/ MatchStops
  <2>1. PICK v \in BOOLEAN : g' = [g EXCEPT !.match = v]
    BY <1>3 DEF MatchStarts, MatchStops
  <2> QED
    BY <1>0, <2>1, MatchFields, SameTurn DEF TurnsOK
<1>4. CASE NewLevel
  BY <1>4, EmptyFields DEF NewLevel, TurnsOK
<1>5. ASSUME NEW p \in Client, BlockEnds(p) PROVE TurnsOK'
  <2>1. Else(g, g')
    BY <1>0, <1>5, ElseFields DEF BlockEnds
  <2> QED
    BY <1>0, <2>1, SameTurn DEF Else, TurnsOK
<1>6. ASSUME NEW p \in Client, PlayerPostThink(p) \/ Score(p) PROVE TurnsOK'
  <2>1. PICK n \in Nat : g' = [g EXCEPT !.frags[p] = n]
    BY <1>6 DEF PlayerPostThink, Score
  <2> QED
    BY <1>0, <2>1, SpeedFields, SameTurn DEF TurnsOK
<1>7. ASSUME NEW p \in Client, ClientDisconnect(p) PROVE TurnsOK'
  <2> DEFINE a == IF g.elect_type[p] # "none" THEN AbortElect(g) ELSE g
             c == [a EXCEPT !.ct[p] = "none"]
             d == ExitCaptain(c, p)
             b == Vacate(d, p)
  <2>1. g' = IF b.k_captains = 4 THEN CheckFinishCaptain(b) ELSE b
    BY <1>7 DEF ClientDisconnect
  <2>2. a \in State /\ TurnInv(a)
    BY <1>0, AbortFields, SameTurn
  <2> HIDE DEF a
  <2>3. c \in State /\ TurnInv(c)
    BY <2>2, GoneFields, SameTurn
  <2> HIDE DEF c
  <2>4. d \in State /\ TurnInv(d)
    <3>1. CASE c.k_captain[p] = 0
      BY <2>3, <3>1 DEF ExitCaptain
    <3>2. CASE c.k_captain[p] # 0
      BY <2>3, <3>2, ExitFields, SameTurn
    <3> QED
      BY <3>1, <3>2
  <2> HIDE DEF d
  <2>5. b \in State /\ TurnInv(b)
    BY <2>4, VacateFields, SameTurn DEF Slot
  <2> HIDE DEF b
  <2> QED
    BY <2>1, <2>5, FinishTurn DEF TurnsOK
<1>8. ASSUME NEW p \in Client, SpectatorDisconnect(p) PROVE TurnsOK'
  <2> DEFINE a == IF g.elect_type[p] # "none" THEN AbortElect(g) ELSE g
  <2>1. g' = Vacate(a, p)
    BY <1>8 DEF SpectatorDisconnect
  <2>2. a \in State /\ TurnInv(a)
    BY <1>0, AbortFields, SameTurn
  <2> HIDE DEF a
  <2> QED
    BY <2>1, <2>2, VacateFields, SameTurn DEF Slot, TurnsOK
<1>9. ASSUME NEW p \in Client, NEW t \in Teams(p), Connect(p, t) PROVE TurnsOK'
  <2> DEFINE kind == IF p \in Viewers THEN "spec" ELSE "player"
             n == IF g.k_captains = 4 /\ p \notin Viewers THEN FreeNumber(g) ELSE 0
  <2>1. g' = Seated(g, p, kind, t, n)
    BY <1>9 DEF Connect, Seated
  <2>2. n \in Nat /\ kind \in {"player", "spec"} /\ t \in Team \cup {NoTeam}
    BY <1>0, FreeNumberIs DEF Teams
  <2> HIDE DEF kind, n
  <2>3. Slot(g, g', p, kind, t, n)
    BY <1>0, <2>1, <2>2, ConnectFields
  <2> QED
    BY <1>0, <2>3, SameTurn DEF Slot, TurnsOK
<1> QED
  BY <1>1, <1>2, <1>3, <1>4, <1>5, <1>6, <1>7, <1>8, <1>9, Zenon DEF Engine

LEMMA TurnsAlways == Spec => []TurnsOK
<1>1. Init => TurnsOK
  BY EmptyFields DEF Init, TurnsOK
<1>2. TurnsOK /\ [Next]_vars => TurnsOK'
  BY TurnCommands, TurnEngine DEF Next, vars, TurnsOK
<1> QED
  BY <1>1, <1>2, PTL DEF Spec

(***************************************************************************)
(* Turns go c1 c2 c2 c1 c2 c1 ...: whoever begins, resigns, is elected,    *)
(* leaves or connects, no captain is more than one pick ahead.             *)
(***************************************************************************)
THEOREM FairPicks == Spec => []PicksAreFair
<1>1. TurnsOK => PicksAreFair
  BY Fields DEF TurnsOK, TurnInv, PicksAreFair
<1> QED
  BY <1>1, TurnsAlways, PTL

-----------------------------------------------------------------------------
(***************************************************************************)
(* Who becomes captain.                                                    *)
(***************************************************************************)
Keeps(s, t) == \A p \in Client : s.k_captain[p] = 0 => t.k_captain[p] = 0

LEMMA PrintKeeps ==
  ASSUME NEW s \in State
  PROVE  Keeps(s, PrintCaptainInTurn(s))
BY CancelFields DEF Keeps, PrintCaptainInTurn

LEMMA FinishKeeps ==
  ASSUME NEW s \in State
  PROVE  Keeps(s, CheckFinishCaptain(s))
<1> DEFINE free == FreePlayers(s)
           last == IF InTurn(s) = {} THEN s ELSE SetPlayerParams(s, First(free), First(InTurn(s)))
<1>1. CASE Cardinality(free) = 1
  <2>1. CheckFinishCaptain(s) = CancelCaptains(last)
    BY <1>1 DEF CheckFinishCaptain
  <2>2. last \in State /\ last.k_captain = s.k_captain
    <3>1. CASE InTurn(s) = {}
      BY <3>1
    <3>2. CASE InTurn(s) # {}
      <4>1. free # {}
        BY <1>1, FreeSets, ClientSets
      <4>2. First(free) \in Client /\ First(InTurn(s)) \in Client
        BY <3>2, <4>1, FreeSets, FirstClient
      <4>3. last = SetPlayerParams(s, First(free), First(InTurn(s)))
        BY <3>2
      <4> HIDE DEF last, free
      <4> QED
        BY <4>2, <4>3, ParamsFields
    <3> QED
      BY <3>1, <3>2
  <2> HIDE DEF last
  <2> QED
    BY <2>1, <2>2, CancelFields DEF Keeps
<1>2. CASE Cardinality(free) # 1
  <2>1. CheckFinishCaptain(s) = s \/ CheckFinishCaptain(s) = CancelCaptains(s)
    BY <1>2 DEF CheckFinishCaptain
  <2> QED
    BY <2>1, CancelFields DEF Keeps
<1> QED
  BY <1>1, <1>2

LEMMA BeginKeeps ==
  ASSUME NEW s \in State, NEW turn \in {1, 2}
  PROVE  Keeps(s, BeginPicking(s, turn))
<1>1. PICK t \in State : Begun(s, turn, t)
  BY BeginFields
<1>2. /\ BeginPicking(s, turn) = IF CountPlayers(s) < 3 THEN CancelCaptains(s)
                                 ELSE PrintCaptainInTurn(t)
      /\ t.k_captain = s.k_captain
  BY <1>1 DEF Begun
<1>3. Keeps(t, PrintCaptainInTurn(t))
  BY PrintKeeps
<1> QED
  BY <1>2, <1>3, CancelFields DEF Keeps

LEMMA CaptainKeeps ==
  ASSUME NEW s \in State, NEW p \in Client, NEW turn \in {1, 2}
  PROVE  \A q \in Client \ {p} : s.k_captain[q] = 0 => BecomeCaptain(s, p, turn).k_captain[q] = 0
<1>1. PICK t \in State : Promoted(s, p, turn, t)
  BY CaptainFields
<1>2. /\ BecomeCaptain(s, p, turn) = IF t.k_captains = 4 THEN BeginPicking(t, turn) ELSE t
      /\ \A q \in Client \ {p} : t.k_captain[q] = s.k_captain[q]
  BY <1>1 DEF Promoted
<1>3. Keeps(t, BeginPicking(t, turn))
  BY BeginKeeps
<1> QED
  BY <1>2, <1>3 DEF Keeps

LEMMA TwoVotes ==
  ASSUME NEW s \in State
  PROVE  VotesReq(s) \in Int /\ VotesReq(s) >= 2
<1> DEFINE types == {s.elect_type[p] : p \in Candidates(s)}
           percent == CASE "admin" \in types   -> k_vp_admin
                        [] "captain" \in types -> k_vp_captain
                        [] OTHER               -> 100
           req == (percent * CountPlayers(s) + 99) \div 100
<1>1. CountPlayers(s) \in Nat
  BY FreeSets, ClientSets DEF CountPlayers
<1>2. percent \in Nat
  BY PercentAssumption
<1> HIDE DEF percent
<1>3. percent * CountPlayers(s) \in Nat
  BY <1>1, <1>2
<1>4. req \in Int
  BY <1>3
<1>5. VotesReq(s) = IF req < 2 THEN 2 ELSE req
  BY DEF VotesReq, percent
<1> HIDE DEF req
<1> QED
  BY <1>4, <1>5

LEMMA ElectChooses ==
  ASSUME NEW s \in State, TurnInv(s), NEW turn \in {1, 2}, NEW p \in Client,
         s.k_captain[p] = 0, vote_check_elect(s, turn).k_captain[p] # 0
  PROVE  s.elect_type[p] = "captain" /\ ~s.match /\ ~(Votes(s) < VotesReq(s))
<1> DEFINE c == First(Candidates(s))
           e == Elected(s, turn)
<1>1. Candidates(s) # {} => c \in Client
  BY FreeSets, FirstClient
<1>2. ~(Votes(s) < VotesReq(s)) /\ vote_check_elect(s, turn) = AbortElect(e)
  BY ElectedIs
<1>3. \/ e = s
      \/ Candidates(s) # {} /\ e = BecomeAdmin(s, c)
      \/ /\ Candidates(s) # {} /\ s.elect_type[c] = "captain" /\ ~s.match
         /\ e = BecomeCaptain(s, c, turn)
  BY ElectedIs
<1> HIDE DEF c, e
<1>4. CASE e = s
  BY <1>2, <1>4, AbortFields
<1>5. CASE Candidates(s) # {} /\ e = BecomeAdmin(s, c)
  <2>1. e \in State /\ e.k_captain = s.k_captain
    BY <1>1, <1>5, AdminFields
  <2> QED
    BY <1>2, <2>1, AbortFields
<1>6. CASE /\ Candidates(s) # {} /\ s.elect_type[c] = "captain" /\ ~s.match
           /\ e = BecomeCaptain(s, c, turn)
  <2>1. e \in State
    BY <1>1, <1>6, CaptainTurn
  <2>2. AbortElect(e).k_captain = e.k_captain
    BY <2>1, AbortFields
  <2>3. p = c
    BY <1>1, <1>2, <1>6, <2>2, CaptainKeeps
  <2> QED
    BY <1>2, <1>6, <2>3
<1> QED
  BY <1>3, <1>4, <1>5, <1>6

\* A vote given or taken back: who stands and how many votes he needs stay.
LEMMA OneVote ==
  ASSUME NEW s \in State, NEW p \in Client, NEW v \in BOOLEAN
  PROVE  LET t == [s EXCEPT !.elect[p] = v]
         IN /\ VotesReq(t) = VotesReq(s)
            /\ Votes(s) \in Nat /\ Votes(t) \in Nat
            /\ Votes(t) <= Votes(s) + 1
            /\ ~v => Votes(t) <= Votes(s)
<1> DEFINE t == [s EXCEPT !.elect[p] = v]
           A == {q \in Clients(s) : s.elect[q]}
           B == {q \in Clients(t) : t.elect[q]}
<1>1. /\ t \in State /\ t.ct = s.ct /\ t.elect_type = s.elect_type
      /\ \A q \in Client : t.elect[q] = IF q = p THEN v ELSE s.elect[q]
  BY VoteFields DEF Lists
<1> HIDE DEF t
<1>2. Clients(t) = Clients(s) /\ Candidates(t) = Candidates(s) /\ CountPlayers(t) = CountPlayers(s)
  BY <1>1 DEF Clients, Candidates, CountPlayers, Players
<1>3. VotesReq(t) = VotesReq(s)
  BY <1>1, <1>2 DEF VotesReq
<1>4. B \subseteq A \cup {p} /\ (~v => B \subseteq A) /\ A \subseteq Client
  BY <1>1, <1>2 DEF Clients
<1>5. Votes(s) = Cardinality(A) /\ Votes(t) = Cardinality(B)
  BY DEF Votes
<1> HIDE DEF A, B
<1>6. IsFiniteSet(A) /\ Cardinality(A) \in Nat
  BY <1>4, ClientSets
<1>7. /\ IsFiniteSet(A \cup {p})
      /\ Cardinality(A \cup {p}) = IF p \in A THEN Cardinality(A) ELSE Cardinality(A) + 1
  BY <1>6, FS_AddElement
<1>8. Cardinality(B) <= Cardinality(A \cup {p}) /\ Cardinality(B) \in Nat
  BY <1>4, <1>7, FS_Subset, FS_CardinalityType
<1>9. ~v => Cardinality(B) <= Cardinality(A)
  BY <1>4, <1>6, FS_Subset
<1> QED
  BY <1>3, <1>5, <1>6, <1>7, <1>8, <1>9 DEF t

Majority ==
  \A p \in Client :
    (g.k_captain[p] = 0 /\ g'.k_captain[p] # 0) =>
      /\ g.elect_type[p] = "captain" /\ ~g.match
      /\ Votes(g) + 1 >= VotesReq(g)
      /\ Votes(g) >= 1

LEMMA KeepsMajority ==
  ASSUME Keeps(g, g')
  PROVE  Majority
BY DEF Keeps, Majority

LEMMA MajorityCommands ==
  ASSUME TurnsOK, Commands
  PROVE  Majority
<1>0. g \in State /\ TurnInv(g)
  BY DEF TurnsOK
<1>1. PICK p \in Client :
        \/ VoteCaptain(p) \/ VoteAdmin(p) \/ ReqAdmin(p)
        \/ \E turn \in {1, 2} : VoteYes(p, turn) \/ VoteNo(p, turn)
        \/ CaptainPickPlayer(p)
        \/ \E t \in Teams(p) : SetTeam(p, t)
  BY Zenon DEF Commands
<1>2. ASSUME NEW type, AbortElection(p, type) PROVE Majority
  <2>1. g' = AbortElect(g)
    BY <1>2 DEF AbortElection
  <2> QED
    BY <1>0, <2>1, AbortFields, KeepsMajority DEF Keeps
<1>3. CASE VoteCaptain(p)
  <2>1. CASE ResignCaptain(p)
    <3>1. g.k_captain[p] # 0 /\ g' = ExitCaptain(g, p)
      BY <2>1 DEF ResignCaptain, CaptainsOf
    <3> QED
      BY <1>0, <3>1, ExitFields, KeepsMajority DEF Keeps
  <2>2. CASE StandAsCaptain(p)
    <3> DEFINE t == Announce(g, p, "captain")
    <3>1. g' = [t EXCEPT !.k_captains = @ + 1]
      BY <2>2 DEF StandAsCaptain
    <3>2. t \in State /\ t.k_captain = g.k_captain
      BY <1>0, AnnounceFields
    <3> HIDE DEF t
    <3>3. g'.k_captain = t.k_captain
      BY <3>1, <3>2, RaiseFields
    <3> QED
      BY <3>2, <3>3, KeepsMajority DEF Keeps
  <2> QED
    BY <1>2, <1>3, <2>1, <2>2 DEF VoteCaptain
<1>4. CASE VoteAdmin(p)
  <2>1. CASE StandAsAdmin(p)
    <3>1. g' = Announce(g, p, "admin")
      BY <2>1 DEF StandAsAdmin
    <3>2. g'.k_captain = g.k_captain
      BY <1>0, <3>1, AnnounceFields
    <3> QED
      BY <3>2, KeepsMajority DEF Keeps
  <2> QED
    BY <1>2, <1>4, <2>1 DEF VoteAdmin
<1>5. CASE ReqAdmin(p)
  <2>1. CASE GiveUpAdmin(p)
    <3>1. Else(g, g')
      BY <1>0, <2>1, ElseFields DEF GiveUpAdmin
    <3> QED
      BY <3>1, KeepsMajority DEF Else, Keeps
  <2>2. CASE AdminByCode(p)
    <3>1. g' = BecomeAdmin(g, p)
      BY <2>2 DEF AdminByCode
    <3> QED
      BY <1>0, <3>1, AdminFields, KeepsMajority DEF Keeps
  <2> QED
    BY <1>5, <2>1, <2>2 DEF ReqAdmin
<1>6. ASSUME NEW turn \in {1, 2}, NEW v \in BOOLEAN, v => Votes(g) # 0,
             g' = vote_check_elect([g EXCEPT !.elect[p] = v], turn)
      PROVE  Majority
  <2> DEFINE t == [g EXCEPT !.elect[p] = v]
  <2>1. /\ t \in State /\ Picking(t) = Picking(g) /\ t.elect_type = g.elect_type
        /\ t.match = g.match /\ t.k_captain = g.k_captain
    BY <1>0, VoteFields DEF Lists
  <2>2. g' = vote_check_elect(t, turn)
    BY <1>6
  <2>3. /\ VotesReq(t) = VotesReq(g)
        /\ Votes(g) \in Nat /\ Votes(t) \in Nat /\ Votes(t) <= Votes(g) + 1
        /\ ~v => Votes(t) <= Votes(g)
    BY <1>0, OneVote
  <2> HIDE DEF t
  <2>4. TurnInv(t) /\ VotesReq(t) \in Int /\ VotesReq(t) >= 2
    BY <1>0, <2>1, SameTurn, TwoVotes
  <2>5. SUFFICES ASSUME NEW q \in Client, g.k_captain[q] = 0, g'.k_captain[q] # 0
                 PROVE  /\ g.elect_type[q] = "captain" /\ ~g.match
                        /\ Votes(g) + 1 >= VotesReq(g) /\ Votes(g) >= 1
    BY DEF Majority
  <2>6. t.elect_type[q] = "captain" /\ ~t.match /\ ~(Votes(t) < VotesReq(t))
    BY <2>1, <2>2, <2>4, <2>5, ElectChooses
  <2>7. Votes(g) + 1 >= VotesReq(g) /\ Votes(g) >= 1
    BY <1>6, <2>3, <2>4, <2>6
  <2> QED
    BY <2>1, <2>6, <2>7
<1>7. CASE \E turn \in {1, 2} : VoteYes(p, turn) \/ VoteNo(p, turn)
  BY <1>6, <1>7 DEF VoteYes, VoteNo
<1>8. CASE CaptainPickPlayer(p)
  <2>1. PICK impulse \in Client :
          LET named == {q \in Players(g) : g.frags[q] = impulse}
              t == CheckFinishCaptain(SetPlayerParams(g, First(named), p))
          IN named # {} /\ g' = IF t.k_captains # 0 THEN PrintCaptainInTurn(t) ELSE t
    BY <1>8 DEF CaptainPickPlayer
  <2> DEFINE named == {q \in Players(g) : g.frags[q] = impulse}
             r == SetPlayerParams(g, First(named), p)
             t == CheckFinishCaptain(r)
  <2>2. named # {} /\ g' = IF t.k_captains # 0 THEN PrintCaptainInTurn(t) ELSE t
    BY <2>1
  <2>3. First(named) \in Client
    <3>1. named \in SUBSET Client
      BY FreeSets
    <3> HIDE DEF named
    <3> QED
      BY <2>2, <3>1, FirstClient
  <2>4. g.k_captain[p] = g.k_captainturn
    BY <1>8 DEF CaptainPickPlayer
  <2> HIDE DEF named
  <2>5. r \in State /\ TurnInv(r) /\ r.k_captain = g.k_captain
    BY <1>0, <2>3, <2>4, ParamsTurn, ParamsFields
  <2> HIDE DEF r
  <2>6. t \in State /\ Keeps(r, t)
    BY <2>5, FinishTurn, FinishKeeps
  <2> HIDE DEF t
  <2>7. Keeps(t, PrintCaptainInTurn(t))
    BY <2>6, PrintKeeps
  <2> QED
    BY <2>2, <2>5, <2>6, <2>7, KeepsMajority DEF Keeps
<1>9. CASE \E t \in Teams(p) : SetTeam(p, t)
  <2>1. PICK t \in Team \cup {NoTeam} : g' = [g EXCEPT !.team[p] = t]
    BY <1>9 DEF Teams, SetTeam
  <2> QED
    BY <1>0, <2>1, TeamFields, KeepsMajority DEF Keeps
<1> QED
  BY <1>1, <1>3, <1>4, <1>5, <1>7, <1>8, <1>9

LEMMA MajorityEngine ==
  ASSUME TurnsOK, Engine
  PROVE  Majority
<1>0. g \in State /\ TurnInv(g)
  BY DEF TurnsOK
<1>1. CASE ElectThink
  <2>1. g' = AbortElect(g)
    BY <1>1 DEF ElectThink
  <2> QED
    BY <1>0, <2>1, AbortFields, KeepsMajority DEF Keeps
<1>2. CASE VoteFrame
  <2>1. PICK turn \in {1, 2} : g' = vote_check_elect(g, turn)
    BY <1>2 DEF VoteFrame
  <2>2. VotesReq(g) \in Int /\ VotesReq(g) >= 2 /\ Votes(g) \in Nat
    BY <1>0, TwoVotes, FreeSets, ClientSets DEF Votes
  <2>3. SUFFICES ASSUME NEW q \in Client, g.k_captain[q] = 0, g'.k_captain[q] # 0
                 PROVE  /\ g.elect_type[q] = "captain" /\ ~g.match
                        /\ Votes(g) + 1 >= VotesReq(g) /\ Votes(g) >= 1
    BY DEF Majority
  <2>4. g.elect_type[q] = "captain" /\ ~g.match /\ ~(Votes(g) < VotesReq(g))
    BY <1>0, <2>1, <2>3, ElectChooses
  <2>5. Votes(g) + 1 >= VotesReq(g) /\ Votes(g) >= 1
    BY <2>2, <2>4
  <2> QED
    BY <2>4, <2>5
<1>3. CASE MatchStarts \/ MatchStops
  <2>1. PICK v \in BOOLEAN : g' = [g EXCEPT !.match = v]
    BY <1>3 DEF MatchStarts, MatchStops
  <2> QED
    BY <1>0, <2>1, MatchFields, KeepsMajority DEF Keeps
<1>4. CASE NewLevel
  <2>1. \A p \in Client : g'.k_captain[p] = 0
    BY <1>4 DEF NewLevel, Empty, Zero
  <2> QED
    BY <2>1 DEF Majority
<1>5. ASSUME NEW p \in Client, BlockEnds(p) PROVE Majority
  <2>1. Else(g, g')
    BY <1>0, <1>5, ElseFields DEF BlockEnds
  <2> QED
    BY <2>1, KeepsMajority DEF Else, Keeps
<1>6. ASSUME NEW p \in Client, PlayerPostThink(p) \/ Score(p) PROVE Majority
  <2>1. PICK n \in Nat : g' = [g EXCEPT !.frags[p] = n]
    BY <1>6 DEF PlayerPostThink, Score
  <2> QED
    BY <1>0, <2>1, SpeedFields, KeepsMajority DEF Keeps
<1>7. ASSUME NEW p \in Client, ClientDisconnect(p) PROVE Majority
  <2> DEFINE a == IF g.elect_type[p] # "none" THEN AbortElect(g) ELSE g
             c == [a EXCEPT !.ct[p] = "none"]
             d == ExitCaptain(c, p)
             b == Vacate(d, p)
  <2>1. g' = IF b.k_captains = 4 THEN CheckFinishCaptain(b) ELSE b
    BY <1>7 DEF ClientDisconnect
  <2>2. a \in State /\ Keeps(g, a)
    BY <1>0, AbortFields DEF Keeps
  <2> HIDE DEF a
  <2>3. c \in State /\ Keeps(a, c)
    BY <2>2, GoneFields DEF Keeps
  <2> HIDE DEF c
  <2>4. d \in State /\ Keeps(c, d)
    <3>1. CASE c.k_captain[p] = 0
      BY <2>3, <3>1 DEF ExitCaptain, Keeps
    <3>2. CASE c.k_captain[p] # 0
      BY <2>3, <3>2, ExitFields DEF Keeps
    <3> QED
      BY <3>1, <3>2
  <2> HIDE DEF d
  <2>5. b \in State /\ Keeps(d, b)
    BY <2>4, VacateFields DEF Slot, Keeps
  <2> HIDE DEF b
  <2>6. Keeps(b, CheckFinishCaptain(b))
    BY <2>5, FinishKeeps
  <2> QED
    BY <2>1, <2>2, <2>3, <2>4, <2>5, <2>6, KeepsMajority DEF Keeps
<1>8. ASSUME NEW p \in Client, SpectatorDisconnect(p) PROVE Majority
  <2> DEFINE a == IF g.elect_type[p] # "none" THEN AbortElect(g) ELSE g
  <2>1. g' = Vacate(a, p)
    BY <1>8 DEF SpectatorDisconnect
  <2>2. a \in State /\ Keeps(g, a)
    BY <1>0, AbortFields DEF Keeps
  <2> HIDE DEF a
  <2> QED
    BY <2>1, <2>2, VacateFields, KeepsMajority DEF Slot, Keeps
<1>9. ASSUME NEW p \in Client, NEW t \in Teams(p), Connect(p, t) PROVE Majority
  <2> DEFINE kind == IF p \in Viewers THEN "spec" ELSE "player"
             n == IF g.k_captains = 4 /\ p \notin Viewers THEN FreeNumber(g) ELSE 0
  <2>1. g' = Seated(g, p, kind, t, n)
    BY <1>9 DEF Connect, Seated
  <2>2. n \in Nat /\ kind \in {"player", "spec"} /\ t \in Team \cup {NoTeam}
    BY <1>0, FreeNumberIs DEF Teams
  <2> HIDE DEF kind, n
  <2>3. Slot(g, g', p, kind, t, n)
    BY <1>0, <2>1, <2>2, ConnectFields
  <2> QED
    BY <2>3, KeepsMajority DEF Slot, Keeps
<1> QED
  BY <1>1, <1>2, <1>3, <1>4, <1>5, <1>6, <1>7, <1>8, <1>9, Zenon DEF Engine

(***************************************************************************)
(* Nobody becomes captain but a candidate with the votes of the majority,  *)
(* and never in a countdown or match: by his vote, by a frame that counts  *)
(* them again, whoever leaves or comes (vote_check_elect).                 *)
(***************************************************************************)
THEOREM CaptainsAreElected == Spec => MajorityElects
<1>1. TurnsOK /\ [Next]_vars => [Majority]_vars
  <2>1. SUFFICES ASSUME TurnsOK, Next PROVE Majority
    OBVIOUS
  <2> QED
    BY <2>1, MajorityCommands, MajorityEngine DEF Next
<1>2. [][Majority]_vars => MajorityElects
  BY PTL DEF Majority, MajorityElects
<1> QED
  BY <1>1, <1>2, TurnsAlways, PTL DEF Spec

-----------------------------------------------------------------------------
(***************************************************************************)
(* One election at a time.                                                 *)
(***************************************************************************)
\* Votes and candidacies are clients', candidacies as captain players'.
Homes(s) ==
  /\ \A p \in Client : s.ct[p] = "player" => p \notin Viewers
  /\ \A p \in Client : s.elect_type[p] = "captain" => s.ct[p] = "player"
  /\ \A p \in Client : s.elect[p] \/ s.elect_type[p] # "none" => s.ct[p] # "none"

Quiet(s) == s.guards = 0 /\ \A p \in Client : ~s.elect[p] /\ s.elect_type[p] = "none"

Open(s) ==
  /\ s.guards = 1
  /\ \E c \in Client : /\ s.elect[c] /\ s.elect_type[c] # "none"
                       /\ \A q \in Client \ {c} : s.elect_type[q] = "none"

ElectInv(s) == Homes(s) /\ (Quiet(s) \/ Open(s))

LEMMA SamePolls ==
  ASSUME NEW s, NEW t, ElectInv(s), t.ct = s.ct, Polls(t) = Polls(s)
  PROVE  ElectInv(t)
<1>1. t.guards = s.guards /\ t.elect = s.elect /\ t.elect_type = s.elect_type
  BY DEF Polls
<1>2. Homes(t)
  BY <1>1 DEF ElectInv, Homes
<1>3. Quiet(s) => Quiet(t)
  BY <1>1 DEF Quiet
<1>4. Open(s) => Open(t)
  BY <1>1 DEF Open
<1> QED
  BY <1>2, <1>3, <1>4 DEF ElectInv

LEMMA AbortQuiet ==
  ASSUME NEW s \in State, Homes(s)
  PROVE  ElectInv(AbortElect(s)) /\ Quiet(AbortElect(s))
<1> DEFINE t == AbortElect(s)
<1>1. /\ t.ct = s.ct /\ t.guards = 0
      /\ \A p \in Client : t.elect_type[p] = IF p \in Clients(s) THEN "none" ELSE s.elect_type[p]
      /\ \A p \in Client : t.elect[p] <=> s.elect[p] /\ p \notin Clients(s)
  BY AbortFields DEF Lists
<1> HIDE DEF t
<1>2. \A p \in Client : p \in Clients(s) <=> s.ct[p] # "none"
  BY DEF Clients
<1>3. Quiet(t)
  BY <1>1, <1>2 DEF Quiet, Homes
<1>4. Homes(t)
  BY <1>1, <1>3 DEF Homes, Quiet
<1> QED
  BY <1>3, <1>4 DEF ElectInv, t

LEMMA CancelElect ==
  ASSUME NEW s \in State, ElectInv(s)
  PROVE  ElectInv(CancelCaptains(s))
<1> DEFINE t == CancelCaptains(s)
<1>1. t.ct = s.ct
  BY CancelFields DEF Lists
<1>2. CASE \E p \in Players(s) : s.elect_type[p] = "captain"
  <2>1. /\ t.guards = 0
        /\ \A p \in Client : t.elect_type[p] = IF p \in Clients(s) THEN "none" ELSE s.elect_type[p]
        /\ \A p \in Client : t.elect[p] <=> s.elect[p] /\ p \notin Clients(s)
    BY <1>2, CancelFields
  <2> HIDE DEF t
  <2>2. \A p \in Client : p \in Clients(s) <=> s.ct[p] # "none"
    BY DEF Clients
  <2>3. Quiet(t)
    BY <2>1, <2>2 DEF Quiet, Homes, ElectInv
  <2>4. Homes(t)
    BY <1>1, <2>3 DEF Homes, Quiet, ElectInv
  <2> QED
    BY <2>3, <2>4 DEF ElectInv, t
<1>3. CASE ~ \E p \in Players(s) : s.elect_type[p] = "captain"
  <2>1. Polls(t) = Polls(s)
    BY <1>3, CancelFields DEF Polls
  <2> HIDE DEF t
  <2>2. ElectInv(t)
    BY <1>1, <2>1, SamePolls
  <2> QED
    BY <2>2 DEF t
<1> QED
  BY <1>2, <1>3

LEMMA PrintElect ==
  ASSUME NEW s \in State, ElectInv(s)
  PROVE  ElectInv(PrintCaptainInTurn(s))
BY CancelElect DEF PrintCaptainInTurn

LEMMA FinishElect ==
  ASSUME NEW s \in State, ElectInv(s)
  PROVE  ElectInv(CheckFinishCaptain(s))
<1> DEFINE free == FreePlayers(s)
           last == IF InTurn(s) = {} THEN s ELSE SetPlayerParams(s, First(free), First(InTurn(s)))
<1>1. CASE Cardinality(free) = 1
  <2>1. CheckFinishCaptain(s) = CancelCaptains(last)
    BY <1>1 DEF CheckFinishCaptain
  <2>2. last \in State /\ ElectInv(last)
    <3>1. CASE InTurn(s) = {}
      BY <3>1
    <3>2. CASE InTurn(s) # {}
      <4>1. free # {}
        BY <1>1, FreeSets, ClientSets
      <4>2. First(free) \in Client /\ First(InTurn(s)) \in Client
        BY <3>2, <4>1, FreeSets, FirstClient
      <4>3. last = SetPlayerParams(s, First(free), First(InTurn(s)))
        BY <3>2
      <4> HIDE DEF last, free
      <4>4. last \in State /\ last.ct = s.ct /\ Polls(last) = Polls(s)
        BY <4>2, <4>3, ParamsFields DEF Lists
      <4> QED
        BY <4>4, SamePolls
    <3> QED
      BY <3>1, <3>2
  <2> HIDE DEF last
  <2> QED
    BY <2>1, <2>2, CancelElect
<1>2. CASE Cardinality(free) # 1
  <2>1. CheckFinishCaptain(s) = s \/ CheckFinishCaptain(s) = CancelCaptains(s)
    BY <1>2 DEF CheckFinishCaptain
  <2> QED
    BY <2>1, CancelElect
<1> QED
  BY <1>1, <1>2

LEMMA CaptainElect ==
  ASSUME NEW s \in State, ElectInv(s), NEW p \in Client, NEW turn \in {1, 2}
  PROVE  ElectInv(BecomeCaptain(s, p, turn))
<1>1. PICK t \in State : Promoted(s, p, turn, t)
  BY CaptainFields
<1>2. /\ BecomeCaptain(s, p, turn) = IF t.k_captains = 4 THEN BeginPicking(t, turn) ELSE t
      /\ t.ct = s.ct /\ Polls(t) = Polls(s)
  BY <1>1 DEF Promoted, Lists
<1>3. ElectInv(t)
  BY <1>2, SamePolls
<1>4. PICK b \in State : Begun(t, turn, b)
  BY BeginFields
<1>5. /\ BeginPicking(t, turn) = IF CountPlayers(t) < 3 THEN CancelCaptains(t)
                                 ELSE PrintCaptainInTurn(b)
      /\ b.ct = t.ct /\ Polls(b) = Polls(t)
  BY <1>4 DEF Begun, Lists
<1>6. ElectInv(b)
  BY <1>3, <1>5, SamePolls
<1> QED
  BY <1>2, <1>3, <1>5, <1>6, CancelElect, PrintElect

LEMMA VoteElect ==
  ASSUME NEW s \in State, TurnInv(s), ElectInv(s), NEW turn \in {1, 2}
  PROVE  ElectInv(vote_check_elect(s, turn))
<1> DEFINE c == First(Candidates(s))
           e == Elected(s, turn)
<1>1. Candidates(s) # {} => c \in Client
  BY FreeSets, FirstClient
<1>2. vote_check_elect(s, turn) = s \/ vote_check_elect(s, turn) = AbortElect(e)
  BY ElectedIs
<1>3. \/ e = s
      \/ Candidates(s) # {} /\ e = BecomeAdmin(s, c)
      \/ Candidates(s) # {} /\ e = BecomeCaptain(s, c, turn)
  BY ElectedIs
<1> HIDE DEF c, e
<1>4. e \in State /\ Homes(e)
  <2>1. CASE e = s
    BY <2>1 DEF ElectInv
  <2>2. CASE Candidates(s) # {} /\ e = BecomeAdmin(s, c)
    <3>1. /\ e \in State /\ e.ct = s.ct
          /\ \A q \in Client : e.elect_type[q] = IF q = c THEN "none" ELSE s.elect_type[q]
          /\ \A q \in Client : e.elect[q] <=> s.elect[q] /\ q # c
      BY <1>1, <2>2, AdminFields DEF Lists
    <3> QED
      BY <3>1 DEF ElectInv, Homes
  <2>3. CASE Candidates(s) # {} /\ e = BecomeCaptain(s, c, turn)
    BY <1>1, <2>3, CaptainTurn, CaptainElect DEF ElectInv
  <2> QED
    BY <1>3, <2>1, <2>2, <2>3
<1> QED
  BY <1>2, <1>4, AbortQuiet

\* No votes, no election.
LEMMA NoVotes ==
  ASSUME NEW s \in State, ElectInv(s)
  PROVE  /\ Votes(s) = 0 <=> Quiet(s)
         /\ Votes(s) = 0 <=> \A p \in Client : ~s.elect[p]
<1> DEFINE V == {p \in Clients(s) : s.elect[p]}
<1>1. Votes(s) = Cardinality(V) /\ V \in SUBSET Client
  BY FreeSets DEF Votes
<1>2. Votes(s) = 0 <=> V = {}
  BY <1>1, ClientSets
<1>3. V = {} <=> \A p \in Client : ~s.elect[p]
  BY DEF ElectInv, Homes, Clients
<1>4. Quiet(s) <=> \A p \in Client : ~s.elect[p]
  BY DEF ElectInv, Quiet, Open
<1> QED
  BY <1>2, <1>3, <1>4

\* t is s with p's candidacy.
Announced(s, p, type, t) ==
  /\ t.ct = s.ct /\ t.guards = s.guards + 1
  /\ \A q \in Client : t.elect_type[q] = IF q = p THEN type ELSE s.elect_type[q]
  /\ \A q \in Client : t.elect[q] <=> s.elect[q] \/ q = p

LEMMA AnnounceElect ==
  ASSUME NEW s \in State, ElectInv(s), Votes(s) = 0, NEW p \in Client, s.ct[p] # "none",
         NEW type \in {"admin", "captain"}, type = "captain" => s.ct[p] = "player"
  PROVE  ElectInv(Announce(s, p, type))
<1> DEFINE t == Announce(s, p, type)
<1>0. Announced(s, p, type, t)
  <2>1. CASE type = "admin"
    <3>1. Announced(s, p, "admin", Announce(s, p, "admin"))
      BY AnnounceFields DEF Announced, Lists
    <3> QED
      BY <2>1, <3>1
  <2>2. CASE type = "captain"
    <3>1. Announced(s, p, "captain", Announce(s, p, "captain"))
      BY AnnounceFields DEF Announced, Lists
    <3> QED
      BY <2>2, <3>1
  <2> QED
    BY <2>1, <2>2
<1>1. /\ t.ct = s.ct /\ t.guards = s.guards + 1
      /\ \A q \in Client : t.elect_type[q] = IF q = p THEN type ELSE s.elect_type[q]
      /\ \A q \in Client : t.elect[q] <=> s.elect[q] \/ q = p
  BY <1>0 DEF Announced
<1>2. Quiet(s) /\ Homes(s)
  BY NoVotes DEF ElectInv
<1> HIDE DEF t
<1>3. Homes(t)
  BY <1>1, <1>2 DEF Homes
<1>4. Open(t)
  <2>1. t.guards = 1
    BY <1>1, <1>2 DEF Quiet
  <2>2. t.elect[p] /\ t.elect_type[p] # "none" /\ \A q \in Client \ {p} : t.elect_type[q] = "none"
    BY <1>1, <1>2 DEF Quiet
  <2> QED
    BY <2>1, <2>2 DEF Open
<1> QED
  BY <1>3, <1>4 DEF ElectInv, t

\* Who stands for nothing may vote, take his vote back, or lose it as an admin.
LEMMA VoterElect ==
  ASSUME NEW s \in State, NEW t \in State, ElectInv(s), NEW p \in Client,
         s.elect_type[p] = "none", s.ct[p] # "none", t.ct = s.ct, t.guards = s.guards,
         \A q \in Client : t.elect_type[q] = s.elect_type[q],
         \A q \in Client \ {p} : t.elect[q] <=> s.elect[q],
         t.elect[p] => Votes(s) # 0
  PROVE  ElectInv(t)
<1>1. Homes(t)
  BY DEF ElectInv, Homes
<1>2. CASE Open(s)
  <2>1. PICK c \in Client : /\ s.elect[c] /\ s.elect_type[c] # "none"
                            /\ \A q \in Client \ {c} : s.elect_type[q] = "none"
    BY <1>2 DEF Open
  <2>2. t.elect[c] /\ t.elect_type[c] # "none" /\ \A q \in Client \ {c} : t.elect_type[q] = "none"
    BY <2>1
  <2> QED
    BY <1>1, <1>2, <2>2 DEF Open, ElectInv
<1>3. CASE Quiet(s)
  <2>1. ~t.elect[p]
    BY <1>3, NoVotes
  <2> QED
    BY <1>1, <1>3, <2>1 DEF Quiet, ElectInv
<1> QED
  BY <1>2, <1>3 DEF ElectInv

ElectOK == TurnsOK /\ ElectInv(g)

LEMMA ElectCommands ==
  ASSUME Codes \subseteq Viewers, ElectOK, Commands
  PROVE  ElectInv(g')
<1>0. g \in State /\ TurnInv(g) /\ ElectInv(g) /\ Homes(g)
  BY DEF TurnsOK, ElectOK, ElectInv
<1>1. PICK p \in Client :
        \/ VoteCaptain(p) \/ VoteAdmin(p) \/ ReqAdmin(p)
        \/ \E turn \in {1, 2} : VoteYes(p, turn) \/ VoteNo(p, turn)
        \/ CaptainPickPlayer(p)
        \/ \E t \in Teams(p) : SetTeam(p, t)
  BY Zenon DEF Commands
<1>2. ASSUME NEW type, AbortElection(p, type) PROVE ElectInv(g')
  <2>1. g' = AbortElect(g)
    BY <1>2 DEF AbortElection
  <2> QED
    BY <1>0, <2>1, AbortQuiet
<1>3. CASE VoteCaptain(p)
  <2>1. CASE ResignCaptain(p)
    <3>1. g.k_captain[p] # 0 /\ g' = ExitCaptain(g, p)
      BY <2>1 DEF ResignCaptain, CaptainsOf
    <3>2. g'.ct = g.ct /\ Polls(g') = Polls(g)
      BY <1>0, <3>1, ExitFields DEF Lists
    <3> QED
      BY <1>0, <3>2, SamePolls
  <2>2. CASE StandAsCaptain(p)
    <3> DEFINE t == Announce(g, p, "captain")
    <3>1. g' = [t EXCEPT !.k_captains = @ + 1] /\ Votes(g) = 0
      BY <2>2 DEF StandAsCaptain, MayStand
    <3>2. g.ct[p] = "player"
      BY <1>3 DEF VoteCaptain, Players
    <3>3. t \in State /\ ElectInv(t)
      BY <1>0, <3>1, <3>2, AnnounceFields, AnnounceElect
    <3> HIDE DEF t
    <3>4. g'.ct = t.ct /\ Polls(g') = Polls(t)
      BY <3>1, <3>3, RaiseFields DEF Lists
    <3> QED
      BY <3>3, <3>4, SamePolls
  <2> QED
    BY <1>2, <1>3, <2>1, <2>2 DEF VoteCaptain
<1>4. CASE VoteAdmin(p)
  <2>1. CASE StandAsAdmin(p)
    <3>1. g' = Announce(g, p, "admin") /\ Votes(g) = 0 /\ g.ct[p] # "none"
      BY <1>4, <2>1 DEF StandAsAdmin, VoteAdmin, Clients
    <3> QED
      BY <1>0, <3>1, AnnounceElect
  <2> QED
    BY <1>2, <1>4, <2>1 DEF VoteAdmin
<1>5. CASE ReqAdmin(p)
  <2>1. CASE GiveUpAdmin(p)
    <3>1. Else(g, g')
      BY <1>0, <2>1, ElseFields DEF GiveUpAdmin
    <3> QED
      BY <1>0, <3>1, SamePolls DEF Else, Lists
  <2>2. CASE AdminByCode(p)
    <3>1. g' = BecomeAdmin(g, p) /\ p \in Viewers
      BY <2>2 DEF AdminByCode
    <3>2. /\ g' \in State /\ g'.ct = g.ct /\ g'.guards = g.guards
          /\ \A q \in Client : g'.elect_type[q] = IF q = p THEN "none" ELSE g.elect_type[q]
          /\ \A q \in Client : g'.elect[q] <=> g.elect[q] /\ q # p
      BY <1>0, <3>1, AdminFields DEF Lists
    <3>3. g.ct[p] # "none" /\ g.ct[p] # "player" /\ g.elect_type[p] # "admin"
      BY <1>0, <1>5, <3>1 DEF ReqAdmin, Clients, Homes
    <3>4. g.elect_type[p] = "none"
      BY <1>0, <3>3, Fields DEF Homes
    <3> QED
      BY <1>0, <3>2, <3>3, <3>4, VoterElect
  <2> QED
    BY <1>5, <2>1, <2>2 DEF ReqAdmin
<1>6. ASSUME NEW turn \in {1, 2}, NEW v \in BOOLEAN, v => Votes(g) # 0,
             g.ct[p] # "none", g.elect_type[p] = "none",
             g' = vote_check_elect([g EXCEPT !.elect[p] = v], turn)
      PROVE  ElectInv(g')
  <2> DEFINE t == [g EXCEPT !.elect[p] = v]
  <2>1. /\ t \in State /\ Picking(t) = Picking(g) /\ t.elect_type = g.elect_type
        /\ t.ct = g.ct /\ t.guards = g.guards
        /\ \A q \in Client : t.elect[q] = IF q = p THEN v ELSE g.elect[q]
    BY <1>0, VoteFields DEF Lists
  <2>2. g' = vote_check_elect(t, turn)
    BY <1>6
  <2> HIDE DEF t
  <2>3. TurnInv(t)
    BY <1>0, <2>1, SameTurn
  <2>4. ElectInv(t)
    BY <1>0, <1>6, <2>1, VoterElect
  <2> QED
    BY <2>1, <2>2, <2>3, <2>4, VoteElect
<1>7. CASE \E turn \in {1, 2} : VoteYes(p, turn) \/ VoteNo(p, turn)
  BY <1>6, <1>7 DEF VoteYes, VoteNo, Players
<1>8. CASE CaptainPickPlayer(p)
  <2>1. PICK impulse \in Client :
          LET named == {q \in Players(g) : g.frags[q] = impulse}
              t == CheckFinishCaptain(SetPlayerParams(g, First(named), p))
          IN named # {} /\ g' = IF t.k_captains # 0 THEN PrintCaptainInTurn(t) ELSE t
    BY <1>8 DEF CaptainPickPlayer
  <2> DEFINE named == {q \in Players(g) : g.frags[q] = impulse}
             r == SetPlayerParams(g, First(named), p)
             t == CheckFinishCaptain(r)
  <2>2. named # {} /\ g' = IF t.k_captains # 0 THEN PrintCaptainInTurn(t) ELSE t
    BY <2>1
  <2>3. First(named) \in Client
    <3>1. named \in SUBSET Client
      BY FreeSets
    <3> HIDE DEF named
    <3> QED
      BY <2>2, <3>1, FirstClient
  <2>4. g.k_captain[p] = g.k_captainturn
    BY <1>8 DEF CaptainPickPlayer
  <2> HIDE DEF named
  <2>5. r \in State /\ TurnInv(r) /\ r.ct = g.ct /\ Polls(r) = Polls(g)
    BY <1>0, <2>3, <2>4, ParamsTurn, ParamsFields DEF Lists
  <2> HIDE DEF r
  <2>6. ElectInv(r)
    BY <1>0, <2>5, SamePolls
  <2>7. t \in State /\ ElectInv(t)
    BY <2>5, <2>6, FinishTurn, FinishElect
  <2> HIDE DEF t
  <2> QED
    BY <2>2, <2>7, PrintElect
<1>9. CASE \E t \in Teams(p) : SetTeam(p, t)
  <2>1. PICK t \in Team \cup {NoTeam} : g' = [g EXCEPT !.team[p] = t]
    BY <1>9 DEF Teams, SetTeam
  <2>2. g'.ct = g.ct /\ Polls(g') = Polls(g)
    BY <1>0, <2>1, TeamFields
  <2> QED
    BY <1>0, <2>2, SamePolls
<1> QED
  BY <1>1, <1>3, <1>4, <1>5, <1>7, <1>8, <1>9

LEMMA EmptyElect == ElectInv(Empty)
BY DEF Empty, Idle, Off, ElectInv, Homes, Quiet

\* p, who stood for nothing, has left or come; his vote is gone.
LEMMA SlotElect ==
  ASSUME NEW s, NEW t, ElectInv(s), NEW p \in Client, NEW kind,
         s.elect_type[p] = "none", kind = "player" => p \notin Viewers, t.guards = s.guards,
         \A q \in Client : t.elect_type[q] = s.elect_type[q],
         \A q \in Client : t.ct[q] = IF q = p THEN kind ELSE s.ct[q],
         \A q \in Client : t.elect[q] <=> s.elect[q] /\ q # p
  PROVE  ElectInv(t)
<1>1. Homes(t)
  BY DEF ElectInv, Homes
<1>2. CASE Open(s)
  <2>1. PICK c \in Client : /\ s.elect[c] /\ s.elect_type[c] # "none"
                            /\ \A q \in Client \ {c} : s.elect_type[q] = "none"
    BY <1>2 DEF Open
  <2>2. t.elect[c] /\ t.elect_type[c] # "none" /\ \A q \in Client \ {c} : t.elect_type[q] = "none"
    BY <2>1
  <2> QED
    BY <1>1, <1>2, <2>2 DEF Open, ElectInv
<1>3. CASE Quiet(s)
  BY <1>1, <1>3 DEF Quiet, ElectInv
<1> QED
  BY <1>2, <1>3 DEF ElectInv

\* A candidate who leaves ends the election.
LEMMA LeaverElect ==
  ASSUME NEW s \in State, ElectInv(s), NEW p \in Client
  PROVE  LET a == IF s.elect_type[p] # "none" THEN AbortElect(s) ELSE s
         IN a \in State /\ ElectInv(a) /\ a.elect_type[p] = "none"
<1>1. CASE s.elect_type[p] # "none"
  BY <1>1, AbortFields, AbortQuiet DEF ElectInv, Quiet
<1>2. CASE s.elect_type[p] = "none"
  BY <1>2
<1> QED
  BY <1>1, <1>2

LEMMA ElectEngine ==
  ASSUME ElectOK, Engine
  PROVE  ElectInv(g')
<1>0. g \in State /\ TurnInv(g) /\ ElectInv(g) /\ Homes(g)
  BY DEF TurnsOK, ElectOK, ElectInv
<1>1. CASE ElectThink
  <2>1. g' = AbortElect(g)
    BY <1>1 DEF ElectThink
  <2> QED
    BY <1>0, <2>1, AbortQuiet
<1>2. CASE VoteFrame
  <2>1. PICK turn \in {1, 2} : g' = vote_check_elect(g, turn)
    BY <1>2 DEF VoteFrame
  <2> QED
    BY <1>0, <2>1, VoteElect
<1>3. CASE MatchStarts \/ MatchStops
  <2>1. PICK v \in BOOLEAN : g' = [g EXCEPT !.match = v]
    BY <1>3 DEF MatchStarts, MatchStops
  <2>2. g'.ct = g.ct /\ Polls(g') = Polls(g)
    BY <1>0, <2>1, MatchFields
  <2> QED
    BY <1>0, <2>2, SamePolls
<1>4. CASE NewLevel
  <2>1. g' = Empty
    BY <1>4 DEF NewLevel
  <2> QED
    BY <2>1, EmptyElect
<1>5. ASSUME NEW p \in Client, BlockEnds(p) PROVE ElectInv(g')
  <2>1. Else(g, g')
    BY <1>0, <1>5, ElseFields DEF BlockEnds
  <2> QED
    BY <1>0, <2>1, SamePolls DEF Else, Lists
<1>6. ASSUME NEW p \in Client, PlayerPostThink(p) \/ Score(p) PROVE ElectInv(g')
  <2>1. PICK n \in Nat : g' = [g EXCEPT !.frags[p] = n]
    BY <1>6 DEF PlayerPostThink, Score
  <2>2. g'.ct = g.ct /\ Polls(g') = Polls(g)
    BY <1>0, <2>1, SpeedFields DEF Lists
  <2> QED
    BY <1>0, <2>2, SamePolls
<1>7. ASSUME NEW p \in Client, ClientDisconnect(p) PROVE ElectInv(g')
  <2> DEFINE a == IF g.elect_type[p] # "none" THEN AbortElect(g) ELSE g
             c == [a EXCEPT !.ct[p] = "none"]
             d == ExitCaptain(c, p)
             b == Vacate(d, p)
  <2>1. g' = IF b.k_captains = 4 THEN CheckFinishCaptain(b) ELSE b
    BY <1>7 DEF ClientDisconnect
  <2>2. a \in State /\ ElectInv(a) /\ a.elect_type[p] = "none"
    BY <1>0, LeaverElect
  <2> HIDE DEF a
  <2>3. /\ c \in State /\ Polls(c) = Polls(a)
        /\ \A q \in Client : c.ct[q] = IF q = p THEN "none" ELSE a.ct[q]
    BY <2>2, GoneFields
  <2> HIDE DEF c
  <2>4. d \in State /\ Polls(d) = Polls(a) /\ d.ct = c.ct
    <3>1. CASE c.k_captain[p] = 0
      BY <2>3, <3>1 DEF ExitCaptain
    <3>2. CASE c.k_captain[p] # 0
      BY <2>3, <3>2, ExitFields DEF Lists
    <3> QED
      BY <3>1, <3>2
  <2> HIDE DEF d
  <2>5. Slot(d, b, p, "none", NoTeam, 0) /\ b.elect_type = d.elect_type
    BY <2>4, VacateFields
  <2> HIDE DEF b
  <2>6. /\ b \in State /\ b.guards = a.guards /\ b.elect_type = a.elect_type
        /\ \A q \in Client : b.ct[q] = IF q = p THEN "none" ELSE a.ct[q]
        /\ \A q \in Client : b.elect[q] <=> a.elect[q] /\ q # p
    BY <2>3, <2>4, <2>5 DEF Slot, Polls
  <2>7. ElectInv(b)
    BY <2>2, <2>6, SlotElect
  <2> QED
    BY <2>1, <2>6, <2>7, FinishElect
<1>8. ASSUME NEW p \in Client, SpectatorDisconnect(p) PROVE ElectInv(g')
  <2> DEFINE a == IF g.elect_type[p] # "none" THEN AbortElect(g) ELSE g
  <2>1. g' = Vacate(a, p)
    BY <1>8 DEF SpectatorDisconnect
  <2>2. a \in State /\ ElectInv(a) /\ a.elect_type[p] = "none"
    BY <1>0, LeaverElect
  <2> HIDE DEF a
  <2>3. Slot(a, g', p, "none", NoTeam, 0) /\ g'.elect_type = a.elect_type
    BY <2>1, <2>2, VacateFields
  <2>4. /\ g'.guards = a.guards
        /\ \A q \in Client : g'.ct[q] = IF q = p THEN "none" ELSE a.ct[q]
        /\ \A q \in Client : g'.elect[q] <=> a.elect[q] /\ q # p
    BY <2>3 DEF Slot
  <2> QED
    BY <2>2, <2>3, <2>4, SlotElect
<1>9. ASSUME NEW p \in Client, NEW t \in Teams(p), Connect(p, t) PROVE ElectInv(g')
  <2> DEFINE kind == IF p \in Viewers THEN "spec" ELSE "player"
             n == IF g.k_captains = 4 /\ p \notin Viewers THEN FreeNumber(g) ELSE 0
  <2>1. g' = Seated(g, p, kind, t, n) /\ g.ct[p] = "none"
    BY <1>9 DEF Connect, Seated
  <2>2. n \in Nat /\ kind \in {"player", "spec"} /\ t \in Team \cup {NoTeam}
    BY <1>0, FreeNumberIs DEF Teams
  <2>3. kind = "player" => p \notin Viewers
    OBVIOUS
  <2> HIDE DEF kind, n
  <2>4. /\ Slot(g, g', p, kind, t, n)
        /\ \A q \in Client : g'.elect_type[q] = IF q = p THEN "none" ELSE g.elect_type[q]
    BY <1>0, <2>1, <2>2, ConnectFields
  <2>5. g.elect_type[p] = "none"
    BY <1>0, <2>1 DEF Homes
  <2>6. /\ g'.guards = g.guards
        /\ \A q \in Client : g'.elect_type[q] = g.elect_type[q]
        /\ \A q \in Client : g'.ct[q] = IF q = p THEN kind ELSE g.ct[q]
        /\ \A q \in Client : g'.elect[q] <=> g.elect[q] /\ q # p
    BY <2>4, <2>5 DEF Slot
  <2> QED
    BY <1>0, <2>3, <2>5, <2>6, SlotElect
<1> QED
  BY <1>1, <1>2, <1>3, <1>4, <1>5, <1>6, <1>7, <1>8, <1>9, Zenon DEF Engine

(***************************************************************************)
(* There is one election at a time, with votes and one guard that ends it, *)
(* and nothing is left of it when it is over, if only spectators have the  *)
(* admin code: AdminByCode wipes the candidacy of a captain who has it but *)
(* leaves the guard.                                                       *)
(***************************************************************************)
THEOREM ElectionsAlone ==
  ASSUME Codes \subseteq Viewers
  PROVE  Spec => []OneElection
<1>1. Init => ElectOK
  BY EmptyFields, EmptyElect DEF Init, TurnsOK, ElectOK
<1>2. ElectOK /\ [Next]_vars => ElectOK'
  <2>1. CASE Next
    BY <2>1, TurnCommands, TurnEngine, ElectCommands, ElectEngine DEF Next, ElectOK
  <2>2. CASE UNCHANGED vars
    BY <2>2 DEF vars, ElectOK, TurnsOK
  <2> QED
    BY <2>1, <2>2
<1>3. ElectOK => OneElection
  <2>1. SUFFICES ASSUME ElectOK PROVE OneElection
    OBVIOUS
  <2>2. g \in State /\ ElectInv(g)
    BY <2>1 DEF ElectOK, TurnsOK
  <2>3. Votes(g) = 0 <=> Quiet(g)
    BY <2>2, NoVotes
  <2>4. CASE Quiet(g)
    <3>1. g.guards = 0 /\ Candidates(g) = {}
      BY <2>4 DEF Quiet, Candidates, Clients
    <3> QED
      BY <2>3, <2>4, <3>1, FS_EmptySet DEF OneElection
  <2>5. CASE Open(g)
    <3>1. PICK c \in Client : /\ g.elect[c] /\ g.elect_type[c] # "none"
                              /\ \A q \in Client \ {c} : g.elect_type[q] = "none"
      BY <2>5 DEF Open
    <3>2. Candidates(g) = {c}
      BY <2>2, <3>1 DEF Candidates, Clients, ElectInv, Homes
    <3>3. Cardinality(Candidates(g)) = 1
      BY <3>2, FS_Singleton
    <3>4. g.guards = 1
      BY <2>5 DEF Open
    <3>5. ~Quiet(g)
      BY <3>4 DEF Quiet
    <3> QED
      BY <2>3, <3>3, <3>4, <3>5 DEF OneElection
  <2> QED
    BY <2>2, <2>4, <2>5 DEF ElectInv
<1> QED
  BY <1>1, <1>2, <1>3, PTL DEF Spec

-----------------------------------------------------------------------------
(***************************************************************************)
(* What captains are worth.                                                *)
(***************************************************************************)
Has(s, i) == \E p \in Client : s.k_captain[p] = i
Stands(s) == \E p \in Client : s.elect_type[p] = "captain"
Half(s) == IF Stands(s) THEN 1 ELSE 0

Worth(s, h) ==
  s.k_captains = (IF Has(s, 1) THEN 2 ELSE 0) + (IF Has(s, 2) THEN 2 ELSE 0) + h

\* Captains are players with numbers and, but for clan arena, teams of their own.
Apart(s) ==
  /\ \A p \in Client : s.k_captain[p] # 0 => s.ct[p] = "player"
  /\ \A p, q \in Client : s.k_captain[p] # 0 /\ s.k_captain[q] # 0 /\ p # q =>
                            s.k_captain[p] # s.k_captain[q] /\ (isCA \/ s.team[p] # s.team[q])

\* Who stands is no captain yet, and there is a number and a team for him.
Room(s) ==
  \A p \in Client : s.elect_type[p] = "captain" =>
    /\ s.k_captain[p] = 0
    /\ \A q \in Client : s.k_captain[q] # 0 => isCA \/ s.team[q] # s.team[p]
    /\ ~(Has(s, 1) /\ Has(s, 2))

CapInv(s) == Apart(s) /\ Worth(s, Half(s)) /\ Room(s)

LEMMA SameCap ==
  ASSUME NEW s, NEW t, CapInv(s), t.ct = s.ct, isCA \/ t.team = s.team, t.k_captain = s.k_captain,
         t.k_captains = s.k_captains,
         \A p \in Client : t.elect_type[p] = "captain" <=> s.elect_type[p] = "captain"
  PROVE  CapInv(t)
<1>1. Apart(t)
  BY DEF CapInv, Apart
<1>2. Has(t, 1) = Has(s, 1) /\ Has(t, 2) = Has(s, 2) /\ Half(t) = Half(s)
  BY DEF Has, Half, Stands
<1>3. Worth(t, Half(t))
  BY <1>2 DEF CapInv, Worth
<1>4. Room(t)
  BY <1>2 DEF CapInv, Room
<1> QED
  BY <1>1, <1>3, <1>4 DEF CapInv

\* After CancelCaptains there is nothing left of them.
LEMMA CancelCap ==
  ASSUME NEW s \in State, ElectInv(s), Apart(s)
  PROVE  LET t == CancelCaptains(s)
         IN t \in State /\ CapInv(t) /\ Apart(t) /\ Worth(t, 0)
<1> DEFINE t == CancelCaptains(s)
<1>1. /\ t \in State /\ t.ct = s.ct /\ t.k_captains = 0
      /\ \A p \in Client : t.k_captain[p] = IF p \in Players(s) THEN 0 ELSE s.k_captain[p]
  BY CancelFields DEF Lists
<1>2. ~Stands(t)
  <2>1. CASE \E p \in Players(s) : s.elect_type[p] = "captain"
    <3>1. \A p \in Client : t.elect_type[p] = IF p \in Clients(s) THEN "none" ELSE s.elect_type[p]
      BY <2>1, CancelFields
    <3> HIDE DEF t
    <3> QED
      BY <3>1 DEF Stands, ElectInv, Homes, Clients
  <2>2. CASE ~ \E p \in Players(s) : s.elect_type[p] = "captain"
    <3>1. t.elect_type = s.elect_type
      BY <2>2, CancelFields
    <3> HIDE DEF t
    <3> QED
      BY <2>2, <3>1 DEF Stands, ElectInv, Homes, Players
  <2> QED
    BY <2>1, <2>2
<1> HIDE DEF t
<1>3. \A p \in Client : t.k_captain[p] = 0
  BY <1>1 DEF Apart, Players
<1>4. ~Has(t, 1) /\ ~Has(t, 2) /\ Half(t) = 0
  BY <1>2, <1>3 DEF Has, Half
<1>5. Apart(t) /\ Room(t)
  BY <1>2, <1>3 DEF Apart, Room, Stands
<1>6. Worth(t, 0)
  BY <1>1, <1>4 DEF Worth
<1> QED
  BY <1>1, <1>4, <1>5, <1>6 DEF CapInv, t

LEMMA Whole2 ==
  ASSUME NEW s, NEW h \in {0, 1}, Worth(s, h)
  PROVE  /\ s.k_captains \in 0 .. 5 /\ Floor(s.k_captains) = s.k_captains - h
         /\ s.k_captains = 4 <=> Has(s, 1) /\ Has(s, 2) /\ h = 0
BY DEF Worth, Floor

LEMMA AbortCap ==
  ASSUME NEW s \in State, Homes(s), Apart(s), Worth(s, 0) \/ Worth(s, Half(s))
  PROVE  CapInv(AbortElect(s))
<1> DEFINE t == AbortElect(s)
<1>1. /\ t.ct = s.ct /\ t.team = s.team /\ t.k_captain = s.k_captain
      /\ t.k_captains = IF \E p \in Clients(s) : s.elect_type[p] = "captain"
                        THEN Floor(s.k_captains) ELSE s.k_captains
  BY AbortFields DEF Lists
<1>2. \A p \in Client : t.elect_type[p] = IF p \in Clients(s) THEN "none" ELSE s.elect_type[p]
  BY AbortFields
<1> HIDE DEF t
<1>3. (\E p \in Clients(s) : s.elect_type[p] = "captain") <=> Stands(s)
  BY DEF Stands, Homes, Clients
<1>4. ~Stands(t)
  BY <1>2 DEF Stands, Homes, Clients
<1>5. Has(t, 1) = Has(s, 1) /\ Has(t, 2) = Has(s, 2) /\ Half(t) = 0
  BY <1>1, <1>4 DEF Has, Half
<1>6. Worth(t, 0)
  <2>1. CASE Worth(s, 0)
    <3>1. t.k_captains = s.k_captains
      BY <1>1, <2>1, Whole2
    <3> QED
      BY <1>5, <2>1, <3>1 DEF Worth
  <2>2. CASE Worth(s, Half(s)) /\ Stands(s)
    <3>1. Worth(s, 1)
      BY <2>2 DEF Half
    <3>2. t.k_captains = s.k_captains - 1
      BY <1>1, <1>3, <2>2, <3>1, Whole2
    <3> QED
      BY <1>5, <3>1, <3>2 DEF Worth
  <2>3. CASE Worth(s, Half(s)) /\ ~Stands(s)
    BY <2>1, <2>3 DEF Half
  <2> QED
    BY <2>1, <2>2, <2>3
<1>7. Apart(t) /\ Room(t)
  BY <1>1, <1>4 DEF Apart, Room, Stands
<1> QED
  BY <1>5, <1>6, <1>7 DEF CapInv, t

LEMMA PrintCap ==
  ASSUME NEW s \in State, ElectInv(s), CapInv(s)
  PROVE  CapInv(PrintCaptainInTurn(s))
BY CancelCap DEF PrintCaptainInTurn, CapInv

\* The functions that pick change nothing of the captains but cancel them.
LEMMA FinishIs ==
  ASSUME NEW s \in State
  PROVE  \/ CheckFinishCaptain(s) = s
         \/ \E t \in State : /\ CheckFinishCaptain(s) = CancelCaptains(t)
                             /\ Lists(t) = Lists(s) /\ Polls(t) = Polls(s)
                             /\ t.k_captain = s.k_captain /\ t.k_captains = s.k_captains
<1> DEFINE free == FreePlayers(s)
           last == IF InTurn(s) = {} THEN s ELSE SetPlayerParams(s, First(free), First(InTurn(s)))
<1>1. CASE Cardinality(free) = 1
  <2>1. CheckFinishCaptain(s) = CancelCaptains(last)
    BY <1>1 DEF CheckFinishCaptain
  <2>2. /\ last \in State /\ Lists(last) = Lists(s) /\ Polls(last) = Polls(s)
        /\ last.k_captain = s.k_captain /\ last.k_captains = s.k_captains
    <3>1. CASE InTurn(s) = {}
      BY <3>1
    <3>2. CASE InTurn(s) # {}
      <4>1. free # {}
        BY <1>1, FreeSets, ClientSets
      <4>2. First(free) \in Client /\ First(InTurn(s)) \in Client
        BY <3>2, <4>1, FreeSets, FirstClient
      <4>3. last = SetPlayerParams(s, First(free), First(InTurn(s)))
        BY <3>2
      <4> HIDE DEF last, free
      <4> QED
        BY <4>2, <4>3, ParamsFields
    <3> QED
      BY <3>1, <3>2
  <2> HIDE DEF last
  <2> QED
    BY <2>1, <2>2
<1>2. CASE Cardinality(free) # 1
  <2>1. CheckFinishCaptain(s) = s \/ CheckFinishCaptain(s) = CancelCaptains(s)
    BY <1>2 DEF CheckFinishCaptain
  <2> QED
    BY <2>1
<1> QED
  BY <1>1, <1>2

LEMMA FinishCap ==
  ASSUME NEW s \in State, ElectInv(s), CapInv(s)
  PROVE  CapInv(CheckFinishCaptain(s))
<1>1. CASE CheckFinishCaptain(s) = s
  BY <1>1
<1>2. ASSUME NEW t \in State, CheckFinishCaptain(s) = CancelCaptains(t),
             Lists(t) = Lists(s), Polls(t) = Polls(s),
             t.k_captain = s.k_captain, t.k_captains = s.k_captains
      PROVE  CapInv(CheckFinishCaptain(s))
  <2>1. t.ct = s.ct /\ t.team = s.team /\ t.elect_type = s.elect_type
    BY <1>2 DEF Lists, Polls
  <2>2. ElectInv(t)
    BY <1>2, <2>1, SamePolls
  <2>3. Apart(t)
    BY <1>2, <2>1 DEF CapInv, Apart
  <2> QED
    BY <1>2, <2>2, <2>3, CancelCap
<1> QED
  BY <1>1, <1>2, FinishIs

\* The number a new captain gets is the one that is not taken.
LEMMA NumberIs ==
  ASSUME NEW s \in State, CapInv(s), NEW p \in Client, s.elect_type[p] = "captain"
  PROVE  LET n == IF CaptainsOf(s) # {} /\ s.k_captain[First(CaptainsOf(s))] = 1 THEN 2 ELSE 1
         IN ~Has(s, n)
<1> DEFINE c == First(CaptainsOf(s))
<1>1. \A q \in Client : q \in CaptainsOf(s) <=> s.k_captain[q] # 0
  BY DEF CapInv, Apart, CaptainsOf, Players
<1>2. ~(Has(s, 1) /\ Has(s, 2))
  BY DEF CapInv, Room
<1>3. CASE CaptainsOf(s) = {}
  BY <1>1, <1>3 DEF Has
<1>4. CASE CaptainsOf(s) # {}
  <2>1. c \in Client /\ c \in CaptainsOf(s)
    BY <1>4, FreeSets, FirstClient
  <2> HIDE DEF c
  <2>2. s.k_captain[c] \in {1, 2}
    BY <1>1, <2>1, Fields
  <2>3. (s.k_captain[c] = 1 => ~Has(s, 2)) /\ (s.k_captain[c] # 1 => ~Has(s, 1))
    BY <1>2, <2>1, <2>2 DEF Has
  <2> QED
    BY <1>4, <2>3 DEF c
<1> QED
  BY <1>3, <1>4

LEMMA PromotedCap ==
  ASSUME NEW s \in State, Homes(s), CapInv(s), NEW p \in Client, s.elect_type[p] = "captain",
         NEW turn, NEW t \in State, Promoted(s, p, turn, t)
  PROVE  Apart(t) /\ Worth(t, 0)
<1> DEFINE n == IF CaptainsOf(s) # {} /\ s.k_captain[First(CaptainsOf(s))] = 1 THEN 2 ELSE 1
<1>1. /\ t.ct = s.ct /\ t.team = s.team
      /\ t.k_captains = Floor(s.k_captains) + 2
      /\ \A q \in Client : t.k_captain[q] = IF q = p THEN n ELSE s.k_captain[q]
  BY DEF Promoted, Lists
<1>2. n \in {1, 2} /\ ~Has(s, n)
  BY NumberIs
<1> HIDE DEF n
<1>3. /\ s.k_captain[p] = 0 /\ s.ct[p] = "player"
      /\ \A q \in Client : s.k_captain[q] # 0 => isCA \/ s.team[q] # s.team[p]
  BY DEF CapInv, Room, Homes
<1>4. Apart(t)
  <2>1. \A q \in Client : t.k_captain[q] # 0 => t.ct[q] = "player"
    BY <1>1, <1>3 DEF CapInv, Apart
  <2>2. ASSUME NEW q \in Client, NEW r \in Client, t.k_captain[q] # 0, t.k_captain[r] # 0, q # r
        PROVE  t.k_captain[q] # t.k_captain[r] /\ (isCA \/ t.team[q] # t.team[r])
    <3>1. CASE q = p
      BY <1>1, <1>2, <1>3, <2>2, <3>1 DEF Has
    <3>2. CASE r = p
      BY <1>1, <1>2, <1>3, <2>2, <3>2 DEF Has
    <3>3. CASE q # p /\ r # p
      BY <1>1, <2>2, <3>3 DEF CapInv, Apart
    <3> QED
      BY <3>1, <3>2, <3>3
  <2> QED
    BY <2>1, <2>2 DEF Apart
<1>5. Worth(s, 1)
  BY DEF CapInv, Half, Stands
<1>6. t.k_captains = s.k_captains + 1
  BY <1>1, <1>5, Whole2
<1>7. Has(t, n) /\ \A i \in {1, 2} \ {n} : Has(t, i) <=> Has(s, i)
  BY <1>1, <1>3 DEF Has
<1>8. Worth(t, 0)
  <2>1. CASE n = 1
    <3>1. Has(t, 1) /\ ~Has(s, 1) /\ (Has(t, 2) <=> Has(s, 2))
      BY <1>2, <1>7, <2>1
    <3> QED
      BY <1>5, <1>6, <3>1 DEF Worth
  <2>2. CASE n = 2
    <3>1. Has(t, 2) /\ ~Has(s, 2) /\ (Has(t, 1) <=> Has(s, 1))
      BY <1>2, <1>7, <2>2
    <3> QED
      BY <1>5, <1>6, <3>1 DEF Worth
  <2> QED
    BY <1>2, <2>1, <2>2
<1> QED
  BY <1>4, <1>8

LEMMA CaptainCap ==
  ASSUME NEW s \in State, ElectInv(s), CapInv(s), NEW p \in Client, s.elect_type[p] = "captain",
         NEW turn \in {1, 2}
  PROVE  Apart(BecomeCaptain(s, p, turn)) /\ Worth(BecomeCaptain(s, p, turn), 0)
<1>1. PICK t \in State : Promoted(s, p, turn, t)
  BY CaptainFields
<1>2. /\ BecomeCaptain(s, p, turn) = IF t.k_captains = 4 THEN BeginPicking(t, turn) ELSE t
      /\ t.ct = s.ct /\ Polls(t) = Polls(s)
  BY <1>1 DEF Promoted, Lists
<1>3. ElectInv(t) /\ Apart(t) /\ Worth(t, 0)
  BY <1>1, <1>2, SamePolls, PromotedCap DEF ElectInv
<1>4. PICK b \in State : Begun(t, turn, b)
  BY BeginFields
<1>5. /\ BeginPicking(t, turn) = IF CountPlayers(t) < 3 THEN CancelCaptains(t)
                                 ELSE PrintCaptainInTurn(b)
      /\ b.ct = t.ct /\ b.team = t.team /\ Polls(b) = Polls(t)
      /\ b.k_captain = t.k_captain /\ b.k_captains = t.k_captains
  BY <1>4 DEF Begun, Lists
<1>6. ElectInv(b)
  BY <1>3, <1>5, SamePolls
<1>7. Apart(b) /\ Worth(b, 0)
  BY <1>3, <1>5 DEF Apart, Worth, Has
<1>8. Apart(PrintCaptainInTurn(b)) /\ Worth(PrintCaptainInTurn(b), 0)
  BY <1>6, <1>7, CancelCap DEF PrintCaptainInTurn
<1>9. Apart(CancelCaptains(t)) /\ Worth(CancelCaptains(t), 0)
  BY <1>3, CancelCap
<1> QED
  BY <1>2, <1>3, <1>5, <1>8, <1>9

LEMMA VoteCap ==
  ASSUME NEW s \in State, TurnInv(s), ElectInv(s), CapInv(s), NEW turn \in {1, 2}
  PROVE  CapInv(vote_check_elect(s, turn))
<1> DEFINE c == First(Candidates(s))
           e == Elected(s, turn)
<1>1. Candidates(s) # {} => c \in Client
  BY FreeSets, FirstClient
<1>2. vote_check_elect(s, turn) = s \/ vote_check_elect(s, turn) = AbortElect(e)
  BY ElectedIs
<1>3. \/ e = s
      \/ Candidates(s) # {} /\ s.elect_type[c] = "admin" /\ e = BecomeAdmin(s, c)
      \/ Candidates(s) # {} /\ s.elect_type[c] = "captain" /\ e = BecomeCaptain(s, c, turn)
  BY ElectedIs
<1> HIDE DEF c, e
<1>4. e \in State /\ Homes(e) /\ Apart(e) /\ (Worth(e, 0) \/ Worth(e, Half(e)))
  <2>1. CASE e = s
    BY <2>1 DEF ElectInv, CapInv
  <2>2. CASE Candidates(s) # {} /\ s.elect_type[c] = "admin" /\ e = BecomeAdmin(s, c)
    <3>1. /\ e \in State /\ e.ct = s.ct /\ e.team = s.team /\ e.k_captain = s.k_captain
          /\ e.k_captains = s.k_captains
      BY <1>1, <2>2, AdminFields DEF Lists
    <3>2. /\ \A q \in Client : e.elect_type[q] = IF q = c THEN "none" ELSE s.elect_type[q]
          /\ \A q \in Client : e.elect[q] <=> s.elect[q] /\ q # c
      BY <1>1, <2>2, AdminFields
    <3>3. \A q \in Client : e.elect_type[q] = "captain" <=> s.elect_type[q] = "captain"
      BY <2>2, <3>2
    <3>4. CapInv(e)
      BY <3>1, <3>3, SameCap
    <3>5. Homes(e)
      BY <3>1, <3>2 DEF ElectInv, Homes
    <3> QED
      BY <3>1, <3>4, <3>5 DEF CapInv
  <2>3. CASE Candidates(s) # {} /\ s.elect_type[c] = "captain" /\ e = BecomeCaptain(s, c, turn)
    <3>1. e \in State
      BY <1>1, <2>3, CaptainTurn
    <3>2. Homes(e)
      BY <1>1, <2>3, CaptainElect DEF ElectInv
    <3> QED
      BY <1>1, <2>3, <3>1, <3>2, CaptainCap
  <2> QED
    BY <1>3, <2>1, <2>2, <2>3
<1> QED
  BY <1>2, <1>4, AbortCap

\* p resigns, leaves or comes, who does not stand.
LEMMA SlotCap ==
  ASSUME NEW s \in State, NEW t, CapInv(s), NEW p \in Client, s.elect_type[p] # "captain",
         \A q \in Client : t.elect_type[q] = s.elect_type[q],
         \A q \in Client \ {p} : t.ct[q] = s.ct[q] /\ t.team[q] = s.team[q],
         \A q \in Client : t.k_captain[q] = IF q = p THEN 0 ELSE s.k_captain[q],
         t.k_captains = IF s.k_captain[p] = 0 THEN s.k_captains ELSE s.k_captains - 2
  PROVE  CapInv(t)
<1>1. Apart(t)
  BY DEF CapInv, Apart
<1>2. Half(t) = Half(s) /\ Half(s) \in {0, 1}
  BY DEF Half, Stands
<1>3. \A i \in {1, 2} : Has(t, i) <=> Has(s, i) /\ s.k_captain[p] # i
  <2>1. ASSUME NEW i \in {1, 2}, Has(t, i) PROVE Has(s, i) /\ s.k_captain[p] # i
    <3>1. PICK q \in Client : t.k_captain[q] = i
      BY <2>1 DEF Has
    <3>2. q # p /\ s.k_captain[q] = i
      BY <3>1
    <3> QED
      BY <3>2 DEF CapInv, Apart, Has
  <2>2. ASSUME NEW i \in {1, 2}, Has(s, i), s.k_captain[p] # i PROVE Has(t, i)
    BY <2>2 DEF Has
  <2> QED
    BY <2>1, <2>2
<1>4. Room(t)
  BY <1>3 DEF CapInv, Room
<1>5. Worth(t, Half(t))
  <2>1. CASE s.k_captain[p] = 0
    <3>1. Has(t, 1) = Has(s, 1) /\ Has(t, 2) = Has(s, 2)
      BY <1>3, <2>1 DEF Has
    <3> QED
      BY <1>2, <2>1, <3>1 DEF CapInv, Worth
  <2>2. CASE s.k_captain[p] = 1
    <3>1. ~Has(t, 1) /\ Has(s, 1) /\ Has(t, 2) = Has(s, 2)
      BY <1>3, <2>2 DEF Has
    <3> QED
      BY <1>2, <2>2, <3>1 DEF CapInv, Worth
  <2>3. CASE s.k_captain[p] = 2
    <3>1. ~Has(t, 2) /\ Has(s, 2) /\ Has(t, 1) = Has(s, 1)
      BY <1>3, <2>3 DEF Has
    <3> QED
      BY <1>2, <2>3, <3>1 DEF CapInv, Worth
  <2>4. s.k_captain[p] \in {0, 1, 2}
    BY Fields
  <2> QED
    BY <2>1, <2>2, <2>3, <2>4
<1> QED
  BY <1>1, <1>4, <1>5 DEF CapInv

MayStandAt(s, p) ==
  /\ s.k_captain[p] = 0 /\ s.k_captains # 4 /\ Votes(s) = 0
  /\ CaptainsOf(s) # {} => s.team[First(CaptainsOf(s))] # s.team[p]

\* A candidacy as captain: his half, when there is room.
LEMMA StandCap ==
  ASSUME NEW s \in State, ElectInv(s), CapInv(s), NEW p \in Client, s.ct[p] = "player", MayStandAt(s, p),
         NEW t, t.ct = s.ct, t.team = s.team, t.k_captain = s.k_captain,
         t.k_captains = s.k_captains + 1,
         \A q \in Client : t.elect_type[q] = IF q = p THEN "captain" ELSE s.elect_type[q]
  PROVE  CapInv(t)
<1>1. Quiet(s)
  BY NoVotes DEF MayStandAt
<1>2. ~Stands(s) /\ Stands(t)
  BY <1>1 DEF Quiet, Stands
<1>3. Worth(s, 0)
  BY <1>2 DEF CapInv, Half
<1>4. Has(t, 1) = Has(s, 1) /\ Has(t, 2) = Has(s, 2) /\ Half(t) = 1
  BY <1>2 DEF Has, Half
<1>5. Worth(t, Half(t))
  BY <1>3, <1>4 DEF Worth
<1>6. ~(Has(s, 1) /\ Has(s, 2))
  BY <1>3, Whole2 DEF MayStandAt
<1>7. ASSUME NEW q \in Client, s.k_captain[q] # 0 PROVE s.team[q] # s.team[p]
  <2> DEFINE c == First(CaptainsOf(s))
  <2>1. q \in CaptainsOf(s)
    BY <1>7 DEF CapInv, Apart, CaptainsOf, Players
  <2>2. c \in CaptainsOf(s) /\ c \in Client
    BY <2>1, FreeSets, FirstClient
  <2>3. s.team[c] # s.team[p]
    BY <2>1 DEF MayStandAt
  <2> HIDE DEF c
  <2>4. s.k_captain[c] # 0
    BY <2>2 DEF CaptainsOf
  <2>5. c = q
    <3>1. s.k_captain[c] \in {1, 2} /\ s.k_captain[q] \in {1, 2}
      BY <1>7, <2>2, <2>4, Fields
    <3>2. s.k_captain[c] = s.k_captain[q]
      BY <1>6, <2>2, <3>1 DEF Has
    <3> QED
      BY <2>2, <2>4, <3>2 DEF CapInv, Apart
  <2> QED
    BY <2>3, <2>5
<1>8. Room(t)
  BY <1>1, <1>4, <1>6, <1>7 DEF Room, Quiet, MayStandAt
<1>9. Apart(t)
  BY DEF CapInv, Apart
<1> QED
  BY <1>5, <1>8, <1>9 DEF CapInv

(* Two different members make a set of two. *)
LEMMA PairCount ==
  ASSUME NEW c, NEW d, c # d
  PROVE  Cardinality({c} \cup {d}) = 2
<1> DEFINE S == {c}
<1>1. IsFiniteSet(S) /\ Cardinality(S) = 1
  BY FS_Singleton
<1>2. d \notin S
  OBVIOUS
<1>3. S \cup {d} = {c} \cup {d}
  OBVIOUS
<1> HIDE DEF S
<1>4. Cardinality(S \cup {d}) = Cardinality(S) + 1
  BY <1>1, <1>2, FS_AddElement
<1>5. Cardinality(S \cup {d}) = 2
  BY <1>1, <1>4
<1> QED
  BY <1>3, <1>5

\* How many captains there are.
LEMMA CaptainsAre ==
  ASSUME NEW s \in State, Apart(s)
  PROVE  Cardinality(CaptainsOf(s)) = (IF Has(s, 1) THEN 1 ELSE 0) + (IF Has(s, 2) THEN 1 ELSE 0)
<1>1. \A q \in Client : q \in CaptainsOf(s) <=> s.k_captain[q] # 0
  BY DEF Apart, CaptainsOf, Players
<1>2. \A q \in Client : s.k_captain[q] \in {0, 1, 2}
  BY Fields
<1>3. \A p, q \in CaptainsOf(s) : s.k_captain[p] = s.k_captain[q] => p = q
  BY <1>1, FreeSets DEF Apart
<1>4. CaptainsOf(s) \subseteq Client
  BY FreeSets
<1>5. CASE ~Has(s, 1) /\ ~Has(s, 2)
  <2>1. CaptainsOf(s) = {}
    BY <1>1, <1>2, <1>4, <1>5 DEF Has
  <2> QED
    BY <1>5, <2>1, FS_EmptySet
<1>6. ASSUME NEW i \in {1, 2}, NEW j \in {1, 2}, i # j, Has(s, i), ~Has(s, j)
      PROVE  Cardinality(CaptainsOf(s)) = 1
  <2>1. PICK c \in Client : s.k_captain[c] = i
    BY <1>6 DEF Has
  <2>2. CaptainsOf(s) = {c}
    <3>1. c \in CaptainsOf(s)
      BY <1>1, <2>1
    <3>2. ASSUME NEW q \in CaptainsOf(s) PROVE q = c
      <4>1. s.k_captain[q] = i
        BY <1>1, <1>2, <1>4, <1>6 DEF Has
      <4> QED
        BY <1>3, <2>1, <3>1, <4>1
    <3> QED
      BY <3>1, <3>2
  <2> QED
    BY <2>2, FS_Singleton
<1>7. CASE Has(s, 1) /\ Has(s, 2)
  <2>1. PICK c \in Client : s.k_captain[c] = 1
    BY <1>7 DEF Has
  <2>2. PICK d \in Client : s.k_captain[d] = 2
    BY <1>7 DEF Has
  <2>3. c \in CaptainsOf(s) /\ d \in CaptainsOf(s) /\ c # d
    BY <1>1, <2>1, <2>2
  <2>4. CaptainsOf(s) = {c} \cup {d}
    <3>1. ASSUME NEW q \in CaptainsOf(s) PROVE q = c \/ q = d
      <4>1. s.k_captain[q] = 1 \/ s.k_captain[q] = 2
        BY <1>1, <1>2, <1>4
      <4> QED
        BY <1>3, <2>1, <2>2, <2>3, <4>1
    <3> QED
      BY <2>3, <3>1
  <2>5. IsFiniteSet({c}) /\ Cardinality({c}) = 1
    BY FS_Singleton
  <2>6. Cardinality({c} \cup {d}) = 2
    BY <2>3, PairCount
  <2> QED
    BY <1>7, <2>4, <2>6
<1> QED
  BY <1>5, <1>6, <1>7

CapOK == ElectOK /\ CapInv(g)

LEMMA CapCommands ==
  ASSUME Codes \subseteq Viewers, CapOK, Commands
  PROVE  CapInv(g')
<1>0. g \in State /\ TurnInv(g) /\ ElectInv(g) /\ Homes(g) /\ CapInv(g)
  BY DEF TurnsOK, ElectOK, ElectInv, CapOK
<1>1. PICK p \in Client :
        \/ VoteCaptain(p) \/ VoteAdmin(p) \/ ReqAdmin(p)
        \/ \E turn \in {1, 2} : VoteYes(p, turn) \/ VoteNo(p, turn)
        \/ CaptainPickPlayer(p)
        \/ \E t \in Teams(p) : SetTeam(p, t)
  BY Zenon DEF Commands
<1>2. ASSUME NEW type, AbortElection(p, type) PROVE CapInv(g')
  <2>1. g' = AbortElect(g)
    BY <1>2 DEF AbortElection
  <2> QED
    BY <1>0, <2>1, AbortCap DEF CapInv
<1>3. CASE VoteCaptain(p)
  <2>1. CASE ResignCaptain(p)
    <3>1. g.k_captain[p] # 0 /\ g' = ExitCaptain(g, p) /\ g.elect_type[p] # "captain"
      BY <2>1 DEF ResignCaptain, CaptainsOf
    <3>2. /\ g'.ct = g.ct /\ g'.team = g.team /\ g'.elect_type = g.elect_type
          /\ g'.k_captains = g.k_captains - 2
          /\ \A q \in Client : g'.k_captain[q] = IF q = p THEN 0 ELSE g.k_captain[q]
      BY <1>0, <3>1, ExitFields DEF Lists, Polls
    <3> QED
      BY <1>0, <3>1, <3>2, SlotCap
  <2>2. CASE StandAsCaptain(p)
    <3> DEFINE t == Announce(g, p, "captain")
    <3>1. g' = [t EXCEPT !.k_captains = @ + 1] /\ MayStandAt(g, p)
      BY <2>2 DEF StandAsCaptain, MayStand, MayStandAt
    <3>2. g.ct[p] = "player"
      BY <1>3 DEF VoteCaptain, Players
    <3>3. /\ t \in State /\ t.ct = g.ct /\ t.team = g.team /\ t.k_captain = g.k_captain
          /\ t.k_captains = g.k_captains
      BY <1>0, AnnounceFields DEF Lists
    <3>4. \A q \in Client : t.elect_type[q] = IF q = p THEN "captain" ELSE g.elect_type[q]
      BY <1>0, AnnounceFields
    <3> HIDE DEF t
    <3>5. /\ g'.ct = t.ct /\ g'.team = t.team /\ g'.elect_type = t.elect_type
          /\ g'.k_captain = t.k_captain /\ g'.k_captains = t.k_captains + 1
      BY <3>1, <3>3, RaiseFields DEF Lists, Polls
    <3>6. /\ g'.ct = g.ct /\ g'.team = g.team /\ g'.k_captain = g.k_captain
          /\ g'.k_captains = g.k_captains + 1
          /\ \A q \in Client : g'.elect_type[q] = IF q = p THEN "captain" ELSE g.elect_type[q]
      BY <3>3, <3>4, <3>5
    <3> QED
      BY <1>0, <3>1, <3>2, <3>6, StandCap
  <2> QED
    BY <1>2, <1>3, <2>1, <2>2 DEF VoteCaptain
<1>4. CASE VoteAdmin(p)
  <2>1. CASE StandAsAdmin(p)
    <3>1. g' = Announce(g, p, "admin") /\ Votes(g) = 0
      BY <2>1 DEF StandAsAdmin
    <3>2. /\ g'.ct = g.ct /\ g'.team = g.team /\ g'.k_captain = g.k_captain
          /\ g'.k_captains = g.k_captains
      BY <1>0, <3>1, AnnounceFields DEF Lists
    <3>3. \A q \in Client : g'.elect_type[q] = IF q = p THEN "admin" ELSE g.elect_type[q]
      <4>1. \A q \in Client : Announce(g, p, "admin").elect_type[q]
                               = IF q = p THEN "admin" ELSE g.elect_type[q]
        BY <1>0, AnnounceFields
      <4> QED
        BY <3>1, <4>1
    <3>4. g.elect_type[p] = "none"
      BY <1>0, <3>1, NoVotes DEF Quiet
    <3>5. \A q \in Client : g'.elect_type[q] = "captain" <=> g.elect_type[q] = "captain"
      BY <3>3, <3>4
    <3> QED
      BY <1>0, <3>2, <3>5, SameCap
  <2> QED
    BY <1>2, <1>4, <2>1 DEF VoteAdmin
<1>5. CASE ReqAdmin(p)
  <2>1. CASE GiveUpAdmin(p)
    <3>1. Else(g, g')
      BY <1>0, <2>1, ElseFields DEF GiveUpAdmin
    <3> QED
      BY <1>0, <3>1, SameCap DEF Else, Lists, Polls
  <2>2. CASE AdminByCode(p)
    <3>1. g' = BecomeAdmin(g, p) /\ p \in Viewers
      BY <2>2 DEF AdminByCode
    <3>2. /\ g'.ct = g.ct /\ g'.team = g.team /\ g'.k_captain = g.k_captain
          /\ g'.k_captains = g.k_captains
      BY <1>0, <3>1, AdminFields DEF Lists
    <3>3. \A q \in Client : g'.elect_type[q] = IF q = p THEN "none" ELSE g.elect_type[q]
      BY <1>0, <3>1, AdminFields
    <3>4. g.elect_type[p] # "captain"
      BY <1>0, <3>1 DEF Homes
    <3>5. \A q \in Client : g'.elect_type[q] = "captain" <=> g.elect_type[q] = "captain"
      BY <3>3, <3>4
    <3> QED
      BY <1>0, <3>2, <3>5, SameCap
  <2> QED
    BY <1>5, <2>1, <2>2 DEF ReqAdmin
<1>6. ASSUME NEW turn \in {1, 2}, NEW v \in BOOLEAN, v => Votes(g) # 0,
             g.ct[p] # "none", g.elect_type[p] = "none",
             g' = vote_check_elect([g EXCEPT !.elect[p] = v], turn)
      PROVE  CapInv(g')
  <2> DEFINE t == [g EXCEPT !.elect[p] = v]
  <2>1. /\ t \in State /\ Picking(t) = Picking(g) /\ t.elect_type = g.elect_type
        /\ t.ct = g.ct /\ t.team = g.team /\ t.guards = g.guards
        /\ t.k_captain = g.k_captain /\ t.k_captains = g.k_captains
    BY <1>0, VoteFields DEF Lists
  <2>2. \A q \in Client : t.elect[q] = IF q = p THEN v ELSE g.elect[q]
    BY <1>0, VoteFields
  <2>3. g' = vote_check_elect(t, turn)
    BY <1>6
  <2> HIDE DEF t
  <2>4. TurnInv(t)
    BY <1>0, <2>1, SameTurn
  <2>5. ElectInv(t)
    BY <1>0, <1>6, <2>1, <2>2, VoterElect
  <2>6. CapInv(t)
    BY <1>0, <2>1, SameCap
  <2> QED
    BY <2>1, <2>3, <2>4, <2>5, <2>6, VoteCap
<1>7. CASE \E turn \in {1, 2} : VoteYes(p, turn) \/ VoteNo(p, turn)
  BY <1>6, <1>7 DEF VoteYes, VoteNo, Players
<1>8. CASE CaptainPickPlayer(p)
  <2>1. PICK impulse \in Client :
          LET named == {q \in Players(g) : g.frags[q] = impulse}
              t == CheckFinishCaptain(SetPlayerParams(g, First(named), p))
          IN named # {} /\ g' = IF t.k_captains # 0 THEN PrintCaptainInTurn(t) ELSE t
    BY <1>8 DEF CaptainPickPlayer
  <2> DEFINE named == {q \in Players(g) : g.frags[q] = impulse}
             r == SetPlayerParams(g, First(named), p)
             t == CheckFinishCaptain(r)
  <2>2. named # {} /\ g' = IF t.k_captains # 0 THEN PrintCaptainInTurn(t) ELSE t
    BY <2>1
  <2>3. First(named) \in Client
    <3>1. named \in SUBSET Client
      BY FreeSets
    <3> HIDE DEF named
    <3> QED
      BY <2>2, <3>1, FirstClient
  <2>4. g.k_captain[p] = g.k_captainturn
    BY <1>8 DEF CaptainPickPlayer
  <2> HIDE DEF named
  <2>5. /\ r \in State /\ TurnInv(r) /\ r.ct = g.ct /\ r.team = g.team /\ Polls(r) = Polls(g)
        /\ r.k_captain = g.k_captain /\ r.k_captains = g.k_captains
    BY <1>0, <2>3, <2>4, ParamsTurn, ParamsFields DEF Lists
  <2> HIDE DEF r
  <2>6. ElectInv(r) /\ CapInv(r)
    BY <1>0, <2>5, SamePolls, SameCap DEF Polls
  <2>7. t \in State /\ ElectInv(t) /\ CapInv(t)
    BY <2>5, <2>6, FinishTurn, FinishElect, FinishCap
  <2> HIDE DEF t
  <2> QED
    BY <2>2, <2>7, PrintCap
<1>9. CASE \E t \in Teams(p) : SetTeam(p, t)
  <2>1. PICK t \in Team \cup {NoTeam} : g' = [g EXCEPT !.team[p] = t]
    BY <1>9 DEF Teams, SetTeam
  <2>2. /\ g'.ct = g.ct /\ g'.elect_type = g.elect_type /\ g'.k_captain = g.k_captain
        /\ g'.k_captains = g.k_captains
    BY <1>0, <2>1, TeamFields DEF Polls
  <2>3. \A q \in Client : g'.team[q] = IF q = p THEN t ELSE g.team[q]
    BY <1>0, <2>1, TeamFields
  <2>4. CASE isCA
    BY <1>0, <2>2, <2>4, SameCap
  <2>5. CASE ~isCA
    <3>1. g.k_captain[p] = 0 /\ g.elect_type[p] # "captain"
      BY <1>9, <2>5 DEF SetTeam, FixPlayerTeam
    <3>2. \A q \in Client : g'.k_captain[q] = IF q = p THEN 0 ELSE g.k_captain[q]
      BY <2>2, <3>1
    <3> QED
      BY <1>0, <2>2, <2>3, <3>1, <3>2, SlotCap
  <2> QED
    BY <2>4, <2>5
<1> QED
  BY <1>1, <1>3, <1>4, <1>5, <1>7, <1>8, <1>9

LEMMA LeaverCap ==
  ASSUME NEW s \in State, Homes(s), CapInv(s), NEW p \in Client
  PROVE  CapInv(IF s.elect_type[p] # "none" THEN AbortElect(s) ELSE s)
<1>1. CASE s.elect_type[p] # "none"
  BY <1>1, AbortCap DEF CapInv
<1> QED
  BY <1>1

LEMMA EmptyCap == CapInv(Empty)
<1>1. \A p \in Client : Empty.k_captain[p] = 0 /\ Empty.elect_type[p] = "none"
  BY DEF Empty, Idle, Zero
<1>2. Empty.k_captains = 0
  BY DEF Empty
<1>3. Apart(Empty) /\ Room(Empty)
  BY <1>1 DEF Apart, Room
<1>4. ~Has(Empty, 1) /\ ~Has(Empty, 2) /\ Half(Empty) = 0
  BY <1>1 DEF Has, Half, Stands
<1>5. Worth(Empty, Half(Empty))
  BY <1>2, <1>4 DEF Worth
<1> QED
  BY <1>3, <1>5 DEF CapInv

LEMMA CapEngine ==
  ASSUME CapOK, Engine
  PROVE  CapInv(g')
<1>0. g \in State /\ TurnInv(g) /\ ElectInv(g) /\ Homes(g) /\ CapInv(g)
  BY DEF TurnsOK, ElectOK, ElectInv, CapOK
<1>1. CASE ElectThink
  <2>1. g' = AbortElect(g)
    BY <1>1 DEF ElectThink
  <2> QED
    BY <1>0, <2>1, AbortCap DEF CapInv
<1>2. CASE VoteFrame
  <2>1. PICK turn \in {1, 2} : g' = vote_check_elect(g, turn)
    BY <1>2 DEF VoteFrame
  <2> QED
    BY <1>0, <2>1, VoteCap
<1>3. CASE MatchStarts \/ MatchStops
  <2>1. PICK v \in BOOLEAN : g' = [g EXCEPT !.match = v]
    BY <1>3 DEF MatchStarts, MatchStops
  <2>2. /\ g'.ct = g.ct /\ g'.team = g.team /\ g'.elect_type = g.elect_type
        /\ g'.k_captain = g.k_captain /\ g'.k_captains = g.k_captains
    BY <1>0, <2>1, MatchFields DEF Polls
  <2> QED
    BY <1>0, <2>2, SameCap
<1>4. CASE NewLevel
  <2>1. g' = Empty
    BY <1>4 DEF NewLevel
  <2> QED
    BY <2>1, EmptyCap
<1>5. ASSUME NEW p \in Client, BlockEnds(p) PROVE CapInv(g')
  <2>1. Else(g, g')
    BY <1>0, <1>5, ElseFields DEF BlockEnds
  <2> QED
    BY <1>0, <2>1, SameCap DEF Else, Lists, Polls
<1>6. ASSUME NEW p \in Client, PlayerPostThink(p) \/ Score(p) PROVE CapInv(g')
  <2>1. PICK n \in Nat : g' = [g EXCEPT !.frags[p] = n]
    BY <1>6 DEF PlayerPostThink, Score
  <2>2. /\ g'.ct = g.ct /\ g'.team = g.team /\ g'.elect_type = g.elect_type
        /\ g'.k_captain = g.k_captain /\ g'.k_captains = g.k_captains
    BY <1>0, <2>1, SpeedFields DEF Lists, Polls
  <2> QED
    BY <1>0, <2>2, SameCap
<1>7. ASSUME NEW p \in Client, ClientDisconnect(p) PROVE CapInv(g')
  <2> DEFINE a == IF g.elect_type[p] # "none" THEN AbortElect(g) ELSE g
             c == [a EXCEPT !.ct[p] = "none"]
             d == ExitCaptain(c, p)
             b == Vacate(d, p)
  <2>1. g' = IF b.k_captains = 4 THEN CheckFinishCaptain(b) ELSE b
    BY <1>7 DEF ClientDisconnect
  <2>2. a \in State /\ ElectInv(a) /\ CapInv(a) /\ a.elect_type[p] = "none"
    BY <1>0, LeaverElect, LeaverCap
  <2> HIDE DEF a
  <2>3. /\ c \in State /\ Polls(c) = Polls(a) /\ c.team = a.team
        /\ c.k_captain = a.k_captain /\ c.k_captains = a.k_captains
    BY <2>2, GoneFields
  <2>c. \A q \in Client : c.ct[q] = IF q = p THEN "none" ELSE a.ct[q]
    BY <2>2, GoneFields
  <2> HIDE DEF c
  <2>4. /\ d \in State /\ Polls(d) = Polls(a) /\ d.ct = c.ct /\ d.team = a.team
        /\ d.k_captains = IF a.k_captain[p] = 0 THEN a.k_captains ELSE a.k_captains - 2
        /\ \A q \in Client : d.k_captain[q] = IF q = p THEN 0 ELSE a.k_captain[q]
    <3>1. CASE c.k_captain[p] = 0
      BY <2>3, <3>1 DEF ExitCaptain
    <3>2. CASE c.k_captain[p] # 0
      <4>1. /\ d \in State /\ Polls(d) = Polls(c) /\ Lists(d) = Lists(c)
            /\ d.k_captains = c.k_captains - 2
            /\ \A q \in Client : d.k_captain[q] = IF q = p THEN 0 ELSE c.k_captain[q]
        BY <2>3, <3>2, ExitFields
      <4> HIDE DEF d
      <4> QED
        BY <2>3, <3>2, <4>1 DEF Lists
    <3> QED
      BY <3>1, <3>2
  <2> HIDE DEF d
  <2>5. Slot(d, b, p, "none", NoTeam, 0) /\ b.elect_type = d.elect_type
    BY <2>4, VacateFields
  <2> HIDE DEF b
  <2>6. /\ b \in State /\ b.guards = a.guards /\ b.elect_type = a.elect_type
        /\ \A q \in Client : b.ct[q] = IF q = p THEN "none" ELSE a.ct[q]
        /\ \A q \in Client : b.elect[q] <=> a.elect[q] /\ q # p
    BY <2>3, <2>c, <2>4, <2>5 DEF Slot, Polls
  <2>7. /\ \A q \in Client \ {p} : b.team[q] = a.team[q]
        /\ b.k_captains = IF a.k_captain[p] = 0 THEN a.k_captains ELSE a.k_captains - 2
        /\ \A q \in Client : b.k_captain[q] = IF q = p THEN 0 ELSE a.k_captain[q]
    BY <2>4, <2>5 DEF Slot
  <2>8. ElectInv(b)
    BY <2>2, <2>6, SlotElect
  <2>9. CapInv(b)
    BY <2>2, <2>6, <2>7, SlotCap
  <2> QED
    BY <2>1, <2>6, <2>8, <2>9, FinishCap
<1>8. ASSUME NEW p \in Client, SpectatorDisconnect(p) PROVE CapInv(g')
  <2> DEFINE a == IF g.elect_type[p] # "none" THEN AbortElect(g) ELSE g
  <2>1. g' = Vacate(a, p) /\ g.ct[p] = "spec"
    BY <1>8 DEF SpectatorDisconnect
  <2>2. a \in State /\ ElectInv(a) /\ CapInv(a) /\ a.elect_type[p] = "none" /\ a.ct = g.ct
    BY <1>0, LeaverElect, LeaverCap, AbortFields DEF Lists
  <2> HIDE DEF a
  <2>3. Slot(a, g', p, "none", NoTeam, 0) /\ g'.elect_type = a.elect_type
    BY <2>1, <2>2, VacateFields
  <2>4. a.k_captain[p] = 0
    BY <2>1, <2>2 DEF CapInv, Apart
  <2>5. /\ \A q \in Client \ {p} : g'.ct[q] = a.ct[q] /\ g'.team[q] = a.team[q]
        /\ g'.k_captains = a.k_captains
        /\ \A q \in Client : g'.k_captain[q] = IF q = p THEN 0 ELSE a.k_captain[q]
    BY <2>3 DEF Slot
  <2> QED
    BY <2>2, <2>3, <2>4, <2>5, SlotCap
<1>9. ASSUME NEW p \in Client, NEW t \in Teams(p), Connect(p, t) PROVE CapInv(g')
  <2> DEFINE kind == IF p \in Viewers THEN "spec" ELSE "player"
             n == IF g.k_captains = 4 /\ p \notin Viewers THEN FreeNumber(g) ELSE 0
  <2>1. g' = Seated(g, p, kind, t, n) /\ g.ct[p] = "none"
    BY <1>9 DEF Connect, Seated
  <2>2. n \in Nat /\ kind \in {"player", "spec"} /\ t \in Team \cup {NoTeam}
    BY <1>0, FreeNumberIs DEF Teams
  <2> HIDE DEF kind, n
  <2>3. /\ Slot(g, g', p, kind, t, n)
        /\ \A q \in Client : g'.elect_type[q] = IF q = p THEN "none" ELSE g.elect_type[q]
    BY <1>0, <2>1, <2>2, ConnectFields
  <2>4. g.elect_type[p] = "none" /\ g.k_captain[p] = 0
    BY <1>0, <2>1 DEF Homes, CapInv, Apart
  <2>5. /\ \A q \in Client : g'.elect_type[q] = g.elect_type[q]
        /\ \A q \in Client \ {p} : g'.ct[q] = g.ct[q] /\ g'.team[q] = g.team[q]
        /\ g'.k_captains = g.k_captains
        /\ \A q \in Client : g'.k_captain[q] = IF q = p THEN 0 ELSE g.k_captain[q]
    BY <2>3, <2>4 DEF Slot
  <2> QED
    BY <1>0, <2>4, <2>5, SlotCap
<1> QED
  BY <1>1, <1>2, <1>3, <1>4, <1>5, <1>6, <1>7, <1>8, <1>9, Zenon DEF Engine

LEMMA CapsAlways ==
  ASSUME Codes \subseteq Viewers
  PROVE  Spec => []CapOK
<1>1. Init => CapOK
  BY EmptyFields, EmptyElect, EmptyCap DEF Init, TurnsOK, ElectOK, CapOK
<1>2. CapOK /\ [Next]_vars => CapOK'
  <2>1. CASE Next
    BY <2>1, TurnCommands, TurnEngine, ElectCommands, ElectEngine, CapCommands, CapEngine
       DEF Next, CapOK, ElectOK
  <2>2. CASE UNCHANGED vars
    BY <2>2 DEF vars, CapOK, ElectOK, TurnsOK
  <2> QED
    BY <2>1, <2>2
<1> QED
  BY <1>1, <1>2, PTL DEF Spec

Halves == 0 .. 4

(***************************************************************************)
(* The fields keep their types; in particular k_captains stays between     *)
(* none and two captains whatever makes and unmakes them, if only          *)
(* spectators have the admin code.                                         *)
(***************************************************************************)
THEOREM ElectionTypes ==
  ASSUME Codes \subseteq Viewers
  PROVE  Spec => []TypeOK
<1>1. CapOK => TypeOK
  <2>1. SUFFICES ASSUME CapOK PROVE TypeOK
    OBVIOUS
  <2>2. g \in State /\ CapInv(g)
    BY <2>1 DEF CapOK, ElectOK, TurnsOK
  <2>3. Half(g) \in {0, 1} /\ Worth(g, Half(g))
    BY <2>2 DEF Half, CapInv
  <2>4. g.k_captains # 5
    <3>1. g.k_captains = 5 => Has(g, 1) /\ Has(g, 2) /\ Half(g) = 1
      BY <2>3 DEF Worth
    <3>2. Half(g) = 1 => ~(Has(g, 1) /\ Has(g, 2))
      BY <2>2 DEF CapInv, Room, Half, Stands
    <3> QED
      BY <3>1, <3>2
  <2>5. g.k_captains \in Halves
    BY <2>3, <2>4, Whole2 DEF Halves
  <2>6. g \in [ct : Kinds, team : Names, k_admin : Flags, elect : Flags, elect_type : Offices,
               blocked : Flags, k_captain : Parts, k_picked : Parts, frags : Numbers,
               guards : Count, k_captains : Halves, k_captainturn : Turn, turn_number : Pick,
               lead : Whole, match : Bool]
    BY <2>2, <2>5 DEF State
  <2>7. TypeOK = (g \in [ct : Kinds, team : Names, k_admin : Flags, elect : Flags,
               elect_type : Offices,
               blocked : Flags, k_captain : Parts, k_picked : Parts, frags : Numbers,
               guards : Count, k_captains : Halves, k_captainturn : Turn, turn_number : Pick,
               lead : Whole, match : Bool])
    BY Zenon DEF TypeOK, Captains, Kinds, Names, Flags, Offices, Parts, Numbers, Count, Halves, Turn,
           Pick, Whole, Bool
  <2> QED
    BY <2>6, <2>7
<1> QED
  BY <1>1, CapsAlways, PTL

(***************************************************************************)
(* Picking goes on between two players, captains 1 and 2, although each    *)
(* may leave, resign or be cancelled at any time, if only spectators have  *)
(* the admin code; in every mode but clan arena their teams differ.        *)
(***************************************************************************)
THEOREM TwoCaptainsPick ==
  ASSUME Codes \subseteq Viewers
  PROVE  Spec => []PickingHasTwoCaptains
<1>1. CapOK => PickingHasTwoCaptains
  <2>1. SUFFICES ASSUME CapOK, g.k_captains = 4
                 PROVE  \E c, d \in Players(g) : /\ g.k_captain[c] = 1 /\ g.k_captain[d] = 2
                                                 /\ isCA \/ g.team[c] # g.team[d]
    BY DEF PickingHasTwoCaptains
  <2>2. g \in State /\ CapInv(g)
    BY <2>1 DEF CapOK, ElectOK, TurnsOK
  <2>3. Half(g) \in {0, 1} /\ Worth(g, Half(g))
    BY <2>2 DEF Half, CapInv
  <2>4. Has(g, 1) /\ Has(g, 2)
    BY <2>1, <2>3, Whole2
  <2>5. PICK c \in Client : g.k_captain[c] = 1
    BY <2>4 DEF Has
  <2>6. PICK d \in Client : g.k_captain[d] = 2
    BY <2>4 DEF Has
  <2>7. c \in Players(g) /\ d \in Players(g) /\ (isCA \/ g.team[c] # g.team[d])
    BY <2>2, <2>5, <2>6 DEF CapInv, Apart, Players
  <2> QED
    BY <2>5, <2>6, <2>7
<1> QED
  BY <1>1, CapsAlways, PTL

(***************************************************************************)
(* k_captains is two halves for every captain and one for the candidate,   *)
(* whatever ends an election or takes a captain away, if only spectators   *)
(* have the admin code.                                                    *)
(***************************************************************************)
THEOREM CaptainsCount ==
  ASSUME Codes \subseteq Viewers
  PROVE  Spec => []CaptainsWorth
<1>1. CapOK => CaptainsWorth
  <2>1. SUFFICES ASSUME CapOK PROVE CaptainsWorth
    OBVIOUS
  <2>2. g \in State /\ CapInv(g) /\ ElectInv(g)
    BY <2>1 DEF CapOK, ElectOK, TurnsOK
  <2>3. Cardinality({p \in Players(g) : g.elect_type[p] = "captain"}) = Half(g)
    <3> DEFINE S == {p \in Players(g) : g.elect_type[p] = "captain"}
    <3>1. CASE Stands(g)
      <4>1. PICK c \in Client : g.elect_type[c] = "captain"
        BY <3>1 DEF Stands
      <4>2. g.ct[c] = "player" /\ \A q \in Client \ {c} : g.elect_type[q] = "none"
        BY <2>2, <4>1 DEF ElectInv, Homes, Quiet, Open
      <4>3. S = {c}
        BY <4>1, <4>2 DEF Players
      <4> QED
        BY <3>1, <4>3, FS_Singleton DEF Half
    <3>2. CASE ~Stands(g)
      <4>1. S = {}
        BY <3>2 DEF Stands, Players
      <4> QED
        BY <3>2, <4>1, FS_EmptySet DEF Half
    <3> QED
      BY <3>1, <3>2
  <2>4. Cardinality(CaptainsOf(g)) = (IF Has(g, 1) THEN 1 ELSE 0) + (IF Has(g, 2) THEN 1 ELSE 0)
    BY <2>2, CaptainsAre DEF CapInv
  <2>5. Half(g) \in Nat /\ Worth(g, Half(g))
    BY <2>2 DEF Half, CapInv
  <2> QED
    BY <2>3, <2>4, <2>5 DEF CaptainsWorth, Worth
<1> QED
  BY <1>1, CapsAlways, PTL

-----------------------------------------------------------------------------
(***************************************************************************)
(* The numbers of the free players.                                        *)
(***************************************************************************)
NumInv(s) ==
  /\ \A p \in Client : s.ct[p] # "player" => s.frags[p] = 0 /\ s.k_picked[p] = 0
  /\ s.k_captains # 4 => \A p \in Client : s.frags[p] = 0
  /\ s.k_captains = 4 =>
       /\ \A p \in Client : s.ct[p] = "player" =>
            (s.frags[p] # 0 <=> s.k_captain[p] = 0 /\ s.k_picked[p] = 0)
       /\ \A p, q \in Client : s.frags[p] # 0 /\ s.frags[p] = s.frags[q] => p = q

\* While picking goes on somebody is free.
Some(s) == s.k_captains = 4 => \E p \in Client : s.frags[p] # 0

LEMMA SameNum ==
  ASSUME NEW s, NEW t, NumInv(s), Some(s), t.ct = s.ct, t.k_captain = s.k_captain,
         t.k_picked = s.k_picked, t.frags = s.frags, t.k_captains = 4 <=> s.k_captains = 4
  PROVE  NumInv(t) /\ Some(t)
BY DEF NumInv, Some

\* Without picking nobody has a number.
LEMMA NoNum ==
  ASSUME NEW s, s.k_captains # 4, \A p \in Client : s.frags[p] = 0,
         \A p \in Client : s.ct[p] # "player" => s.k_picked[p] = 0
  PROVE  NumInv(s) /\ Some(s)
BY DEF NumInv, Some

LEMMA CancelNum ==
  ASSUME NEW s \in State, \A p \in Client : s.frags[p] = 0,
         \A p \in Client : s.ct[p] # "player" => s.k_picked[p] = 0
  PROVE  NumInv(CancelCaptains(s)) /\ Some(CancelCaptains(s))
<1> DEFINE t == CancelCaptains(s)
<1>1. t.ct = s.ct /\ t.frags = s.frags /\ t.k_captains = 0
  BY CancelFields DEF Lists
<1>2. \A p \in Client : t.k_picked[p] = IF p \in Players(s) THEN 0 ELSE s.k_picked[p]
  BY CancelFields
<1> HIDE DEF t
<1>3. \A p \in Client : t.ct[p] # "player" => t.k_picked[p] = 0
  BY <1>1, <1>2
<1>4. NumInv(t) /\ Some(t)
  BY <1>1, <1>3, NoNum
<1> QED
  BY <1>4 DEF t

\* With two captains one of them is in turn.
LEMMA FullTurn ==
  ASSUME NEW s \in State, Apart(s), Worth(s, 0), s.k_captains = 4
  PROVE  InTurn(s) # {} /\ PrintCaptainInTurn(s) = s
<1>1. Has(s, 1) /\ Has(s, 2)
  BY Whole2
<1>2. s.k_captainturn \in {1, 2}
  BY Fields
<1>3. PICK c \in Client : s.k_captain[c] = s.k_captainturn
  BY <1>1, <1>2 DEF Has
<1>4. c \in InTurn(s)
  BY <1>2, <1>3 DEF InTurn, Players, Apart
<1> QED
  BY <1>4 DEF PrintCaptainInTurn

LEMMA FullWorth ==
  ASSUME NEW s, CapInv(s), s.k_captains = 4
  PROVE  Worth(s, 0) /\ ~Stands(s)
BY DEF CapInv, Half, Worth, Stands

\* t is s when captain cap has got p.
Taken(s, p, cap, t) ==
  /\ t \in State /\ t.ct = s.ct /\ t.team = s.team /\ Polls(t) = Polls(s)
  /\ t.k_captain = s.k_captain /\ t.k_captains = s.k_captains
  /\ \A q \in Client : t.frags[q] = IF q = p THEN 0 ELSE s.frags[q]
  /\ \A q \in Client : t.k_picked[q] = IF q = p THEN s.k_captain[cap] ELSE s.k_picked[q]

LEMMA TakenIs ==
  ASSUME NEW s \in State, NEW p \in Client, NEW cap \in Client
  PROVE  Taken(s, p, cap, SetPlayerParams(s, p, cap))
BY ParamsFields DEF Taken, Lists

LEMMA FinishNum ==
  ASSUME NEW s \in State, CapInv(s), NumInv(s), s.k_captains = 4
  PROVE  NumInv(CheckFinishCaptain(s)) /\ Some(CheckFinishCaptain(s))
<1> DEFINE free == FreePlayers(s)
           x == First(free)
           last == IF InTurn(s) = {} THEN s ELSE SetPlayerParams(s, x, First(InTurn(s)))
<1>1. \A p \in Client : p \in free <=> s.frags[p] # 0
  BY DEF FreePlayers, Players, NumInv
<1>2. free \in SUBSET Client
  BY FreeSets
<1>3. Cardinality(free) \in Nat /\ (Cardinality(free) = 0 <=> free = {})
  BY <1>2, ClientSets
<1>4. CASE Cardinality(free) > 1
  <2>1. CheckFinishCaptain(s) = s
    BY <1>4 DEF CheckFinishCaptain
  <2>2. Some(s)
    BY <1>1, <1>2, <1>3, <1>4 DEF Some
  <2> QED
    BY <2>1, <2>2
<1>5. CASE Cardinality(free) = 1
  <2>1. CheckFinishCaptain(s) = CancelCaptains(last)
    BY <1>5 DEF CheckFinishCaptain
  <2>2. free # {}
    BY <1>3, <1>5
  <2>3. PICK y : free = {y}
    BY <1>2, <1>5, ClientSets, FS_Singleton
  <2>4. x \in free
    BY <1>2, <2>2, FirstClient
  <2>5. x \in Client /\ s.ct[x] = "player" /\ \A q \in Client : q # x => s.frags[q] = 0
    BY <1>1, <2>3, <2>4 DEF FreePlayers, Players
  <2> HIDE DEF x
  <2>6. /\ last \in State /\ \A q \in Client : last.ct[q] # "player" => last.k_picked[q] = 0
        /\ \A q \in Client : last.frags[q] = 0
    <3>1. CASE InTurn(s) = {}
      <4>1. InTurn(s) # {}
        BY FullTurn, FullWorth DEF CapInv
      <4> QED
        BY <3>1, <4>1
    <3>2. CASE InTurn(s) # {}
      <4> DEFINE c == First(InTurn(s))
      <4>1. c \in Client
        BY <3>2, FreeSets, FirstClient
      <4>2. last = SetPlayerParams(s, x, c)
        BY <3>2
      <4> HIDE DEF last, c
      <4>3. Taken(s, x, c, last)
        BY <2>5, <4>1, <4>2, TakenIs
      <4>4. /\ last \in State /\ last.ct = s.ct
            /\ \A q \in Client : last.frags[q] = IF q = x THEN 0 ELSE s.frags[q]
            /\ \A q \in Client : last.k_picked[q] = IF q = x THEN s.k_captain[c] ELSE s.k_picked[q]
        BY <4>3 DEF Taken
      <4> QED
        BY <2>5, <4>4 DEF NumInv
    <3> QED
      BY <3>1, <3>2
  <2> HIDE DEF last
  <2> QED
    BY <2>1, <2>6, CancelNum
<1>6. CASE Cardinality(free) = 0
  <2>1. CheckFinishCaptain(s) = CancelCaptains(s)
    BY <1>6 DEF CheckFinishCaptain
  <2>2. \A p \in Client : s.frags[p] = 0
    BY <1>1, <1>3, <1>6
  <2> QED
    BY <2>1, <2>2, CancelNum DEF NumInv
<1> QED
  BY <1>3, <1>4, <1>5, <1>6

LEMMA AbortNum ==
  ASSUME NEW s \in State, Homes(s), NumInv(s), Some(s), Worth(s, 0) \/ CapInv(s)
  PROVE  NumInv(AbortElect(s)) /\ Some(AbortElect(s))
<1> DEFINE t == AbortElect(s)
<1>1. /\ t.ct = s.ct /\ t.k_captain = s.k_captain /\ t.k_picked = s.k_picked /\ t.frags = s.frags
      /\ t.k_captains = IF \E p \in Clients(s) : s.elect_type[p] = "captain"
                        THEN Floor(s.k_captains) ELSE s.k_captains
  BY AbortFields DEF Lists
<1> HIDE DEF t
<1>2. CASE Worth(s, 0)
  <2>1. t.k_captains = s.k_captains
    BY <1>1, <1>2, Whole2
  <2>2. NumInv(t) /\ Some(t)
    BY <1>1, <2>1, SameNum
  <2> QED
    BY <2>2 DEF t
<1>3. CASE CapInv(s) /\ Stands(s)
  <2>1. Worth(s, 1) /\ ~(Has(s, 1) /\ Has(s, 2))
    BY <1>3 DEF CapInv, Half, Room, Stands
  <2>2. s.k_captains # 4 /\ s.k_captains # 5 /\ s.k_captains \in 0 .. 5
    BY <2>1, Whole2 DEF Worth
  <2>3. Floor(s.k_captains) = s.k_captains - 1
    BY <2>1, Whole2
  <2>4. t.k_captains # 4
    BY <1>1, <2>2, <2>3
  <2>5. NumInv(t) /\ Some(t)
    BY <1>1, <2>2, <2>4, SameNum
  <2> QED
    BY <2>5 DEF t
<1>4. CASE CapInv(s) /\ ~Stands(s)
  BY <1>2, <1>4 DEF CapInv, Half
<1> QED
  BY <1>2, <1>3, <1>4

\* The players a picking counts for p's number.
UpTo(F, p) == {q \in F : q <= p}

LEMMA RankIs ==
  ASSUME NEW F \in SUBSET Client
  PROVE  /\ \A p \in F : Cardinality(UpTo(F, p)) # 0
         /\ \A p, q \in F : Cardinality(UpTo(F, p)) = Cardinality(UpTo(F, q)) => p = q
<1>1. \A q \in F : q \in Int
  BY SlotAssumption DEF Client
<1>2. ASSUME NEW p \in F PROVE /\ IsFiniteSet(UpTo(F, p)) /\ Cardinality(UpTo(F, p)) \in Nat
                               /\ Cardinality(UpTo(F, p)) # 0
  <2>1. p <= p
    BY <1>1
  <2>2. UpTo(F, p) \in SUBSET Client /\ p \in UpTo(F, p)
    BY <2>1 DEF UpTo
  <2> QED
    BY <2>2, ClientSets
<1>3. ASSUME NEW p \in F, NEW q \in F, p < q PROVE Cardinality(UpTo(F, p)) # Cardinality(UpTo(F, q))
  <2>1. ASSUME NEW r \in UpTo(F, p) PROVE r \in UpTo(F, q)
    <3>1. r \in F /\ r <= p
      BY DEF UpTo
    <3>2. r <= q
      BY <1>1, <1>3, <3>1
    <3> QED
      BY <3>1, <3>2 DEF UpTo
  <2>2. q <= q /\ ~(q <= p)
    BY <1>1, <1>3
  <2>3. q \in UpTo(F, q) /\ q \notin UpTo(F, p)
    BY <2>2 DEF UpTo
  <2>4. UpTo(F, p) \in SUBSET UpTo(F, q) /\ UpTo(F, p) # UpTo(F, q)
    BY <2>1, <2>3
  <2> QED
    BY <1>2, <2>4, FS_Subset
<1>4. ASSUME NEW p \in F, NEW q \in F, Cardinality(UpTo(F, p)) = Cardinality(UpTo(F, q)) PROVE p = q
  <2>1. ~(p < q) /\ ~(q < p)
    BY <1>3, <1>4
  <2>2. p \in Int /\ q \in Int
    BY <1>1
  <2> QED
    BY <2>1, <2>2
<1> QED
  BY <1>2, <1>4

LEMMA CaptainNum ==
  ASSUME NEW s \in State, ElectInv(s), CapInv(s), NumInv(s), NEW p \in Client,
         s.elect_type[p] = "captain", NEW turn \in {1, 2}
  PROVE  NumInv(BecomeCaptain(s, p, turn)) /\ Some(BecomeCaptain(s, p, turn))
<1>1. PICK t \in State : Promoted(s, p, turn, t)
  BY CaptainFields
<1>2. /\ BecomeCaptain(s, p, turn) = IF t.k_captains = 4 THEN BeginPicking(t, turn) ELSE t
      /\ t.ct = s.ct /\ t.frags = s.frags /\ t.k_picked = s.k_picked
  BY <1>1 DEF Promoted, Lists
<1>3. Apart(t) /\ Worth(t, 0)
  BY <1>1, PromotedCap DEF ElectInv
<1>4. s.k_captains # 4
  BY FullWorth DEF Stands
<1>5. /\ \A q \in Client : t.frags[q] = 0
      /\ \A q \in Client : t.ct[q] # "player" => t.k_picked[q] = 0
  BY <1>2, <1>4 DEF NumInv
<1>6. CASE t.k_captains # 4
  BY <1>2, <1>5, <1>6, NoNum
<1>7. CASE t.k_captains = 4 /\ CountPlayers(t) < 3
  <2>1. PICK b \in State : Begun(t, turn, b)
    BY BeginFields
  <2>2. BecomeCaptain(s, p, turn) = CancelCaptains(t)
    BY <1>2, <1>7, <2>1 DEF Begun
  <2> QED
    BY <1>5, <2>2, CancelNum
<1>8. CASE t.k_captains = 4 /\ ~(CountPlayers(t) < 3)
  <2> DEFINE F == Players(t) \ CaptainsOf(t)
  <2>1. PICK b \in State : Begun(t, turn, b)
    BY BeginFields
  <2>2. /\ BecomeCaptain(s, p, turn) = PrintCaptainInTurn(b)
        /\ b.ct = t.ct /\ b.team = t.team /\ b.k_captain = t.k_captain /\ b.k_captains = t.k_captains
    BY <1>2, <1>8, <2>1 DEF Begun, Lists
  <2>3. \A q \in Client : b.k_picked[q] = IF q \in Players(t) THEN 0 ELSE t.k_picked[q]
    BY <2>1 DEF Begun
  <2>4. \A q \in Client :
          b.frags[q] = IF q \in F THEN Cardinality(UpTo(F, q)) ELSE t.frags[q]
    BY <2>1 DEF Begun, UpTo
  <2>5. Apart(b) /\ Worth(b, 0)
    BY <1>3, <2>2 DEF Apart, Worth, Has
  <2>6. PrintCaptainInTurn(b) = b
    BY <1>8, <2>2, <2>5, FullTurn
  <2>7. F \in SUBSET Client
    BY FreeSets
  <2>8. F # {}
    <3> SUFFICES ASSUME F = {} PROVE FALSE
      OBVIOUS
    <3>1. Cardinality(CaptainsOf(t)) = 2
      BY <1>3, <1>8, CaptainsAre, Whole2
    <3>2. Players(t) \subseteq CaptainsOf(t)
      OBVIOUS
    <3>3. IsFiniteSet(CaptainsOf(t)) /\ Cardinality(Players(t)) \in Nat
      BY FreeSets, ClientSets
    <3>4. Cardinality(Players(t)) <= 2
      BY <3>1, <3>2, <3>3, FS_Subset
    <3> QED
      BY <1>8, <3>3, <3>4 DEF CountPlayers
  <2>9. \A q \in Client : q \in F <=> t.ct[q] = "player" /\ t.k_captain[q] = 0
    BY DEF Players, CaptainsOf
  <2> HIDE DEF F
  <2>10. /\ \A q \in F : b.frags[q] # 0
         /\ \A q, r \in F : b.frags[q] = b.frags[r] => q = r
    <3>1. \A q \in F : b.frags[q] = Cardinality(UpTo(F, q))
      BY <2>4, <2>7
    <3>2. /\ \A q \in F : Cardinality(UpTo(F, q)) # 0
          /\ \A q, r \in F : Cardinality(UpTo(F, q)) = Cardinality(UpTo(F, r)) => q = r
      BY <2>7, RankIs
    <3> QED
      BY <3>1, <3>2
  <2>11. \A q \in Client : q \notin F => b.frags[q] = 0
    BY <1>5, <2>4
  <2>12. \A q \in Client : b.k_picked[q] = 0
    BY <1>5, <2>3 DEF Players
  <2>13. NumInv(b)
    BY <1>8, <2>2, <2>9, <2>10, <2>11, <2>12 DEF NumInv
  <2>14. Some(b)
    BY <2>7, <2>8, <2>10 DEF Some
  <2> QED
    BY <2>2, <2>6, <2>13, <2>14
<1> QED
  BY <1>6, <1>7, <1>8

LEMMA VoteNum ==
  ASSUME NEW s \in State, TurnInv(s), ElectInv(s), CapInv(s), NumInv(s), Some(s), NEW turn \in {1, 2}
  PROVE  NumInv(vote_check_elect(s, turn)) /\ Some(vote_check_elect(s, turn))
<1> DEFINE c == First(Candidates(s))
           e == Elected(s, turn)
<1>1. Candidates(s) # {} => c \in Client
  BY FreeSets, FirstClient
<1>2. vote_check_elect(s, turn) = s \/ vote_check_elect(s, turn) = AbortElect(e)
  BY ElectedIs
<1>3. \/ e = s
      \/ Candidates(s) # {} /\ s.elect_type[c] = "admin" /\ e = BecomeAdmin(s, c)
      \/ Candidates(s) # {} /\ s.elect_type[c] = "captain" /\ e = BecomeCaptain(s, c, turn)
  BY ElectedIs
<1> HIDE DEF c, e
<1>4. e \in State /\ Homes(e) /\ (Worth(e, 0) \/ CapInv(e)) /\ NumInv(e) /\ Some(e)
  <2>1. CASE e = s
    BY <2>1 DEF ElectInv
  <2>2. CASE Candidates(s) # {} /\ s.elect_type[c] = "admin" /\ e = BecomeAdmin(s, c)
    <3>1. /\ e \in State /\ e.ct = s.ct /\ e.team = s.team /\ e.k_captain = s.k_captain
          /\ e.k_captains = s.k_captains /\ e.k_picked = s.k_picked /\ e.frags = s.frags
      BY <1>1, <2>2, AdminFields DEF Lists
    <3>2. /\ \A q \in Client : e.elect_type[q] = IF q = c THEN "none" ELSE s.elect_type[q]
          /\ \A q \in Client : e.elect[q] <=> s.elect[q] /\ q # c
      BY <1>1, <2>2, AdminFields
    <3>3. \A q \in Client : e.elect_type[q] = "captain" <=> s.elect_type[q] = "captain"
      BY <2>2, <3>2
    <3>4. CapInv(e)
      BY <3>1, <3>3, SameCap
    <3>5. Homes(e)
      BY <3>1, <3>2 DEF ElectInv, Homes
    <3>6. NumInv(e) /\ Some(e)
      BY <3>1, SameNum
    <3> QED
      BY <3>1, <3>4, <3>5, <3>6
  <2>3. CASE Candidates(s) # {} /\ s.elect_type[c] = "captain" /\ e = BecomeCaptain(s, c, turn)
    <3>1. e \in State
      BY <1>1, <2>3, CaptainTurn
    <3>2. Homes(e)
      BY <1>1, <2>3, CaptainElect DEF ElectInv
    <3>3. Worth(e, 0)
      BY <1>1, <2>3, CaptainCap
    <3>4. NumInv(e) /\ Some(e)
      BY <1>1, <2>3, CaptainNum
    <3> QED
      BY <3>1, <3>2, <3>3, <3>4
  <2> QED
    BY <1>3, <2>1, <2>2, <2>3
<1> QED
  BY <1>2, <1>4, AbortNum

NumOK == CapOK /\ NumInv(g) /\ Some(g)

LEMMA NumCommands ==
  ASSUME Codes \subseteq Viewers, NumOK, Commands
  PROVE  NumInv(g') /\ Some(g')
<1>0. g \in State /\ TurnInv(g) /\ ElectInv(g) /\ Homes(g) /\ CapInv(g) /\ NumInv(g) /\ Some(g)
  BY DEF TurnsOK, ElectOK, ElectInv, CapOK, NumOK
<1>1. PICK p \in Client :
        \/ VoteCaptain(p) \/ VoteAdmin(p) \/ ReqAdmin(p)
        \/ \E turn \in {1, 2} : VoteYes(p, turn) \/ VoteNo(p, turn)
        \/ CaptainPickPlayer(p)
        \/ \E t \in Teams(p) : SetTeam(p, t)
  BY Zenon DEF Commands
<1>2. ASSUME NEW type, AbortElection(p, type) PROVE NumInv(g') /\ Some(g')
  <2>1. g' = AbortElect(g)
    BY <1>2 DEF AbortElection
  <2> QED
    BY <1>0, <2>1, AbortNum
<1>3. CASE VoteCaptain(p)
  <2>1. CASE ResignCaptain(p)
    <3>1. g.k_captain[p] # 0 /\ g' = ExitCaptain(g, p)
      BY <2>1 DEF ResignCaptain, CaptainsOf
    <3>2. g'.ct = g.ct /\ g'.k_picked = g.k_picked /\ g'.k_captains = g.k_captains - 2
      BY <1>0, <3>1, ExitFields DEF Lists
    <3>3. \A q \in Client : g'.frags[q] = IF g.k_captains = 4 /\ q \in Players(g) THEN 0
                                          ELSE g.frags[q]
      BY <1>0, <3>1, ExitFields
    <3>4. \A q \in Client : g'.frags[q] = 0
      BY <1>0, <3>3 DEF NumInv, Players
    <3>5. g.k_captains \in 0 .. 5
      BY <1>0, Whole2 DEF CapInv, Half
    <3>6. g'.k_captains # 4
      BY <3>2, <3>5
    <3>7. \A q \in Client : g'.ct[q] # "player" => g'.k_picked[q] = 0
      BY <1>0, <3>2 DEF NumInv
    <3> QED
      BY <3>4, <3>6, <3>7, NoNum
  <2>2. CASE StandAsCaptain(p)
    <3> DEFINE t == Announce(g, p, "captain")
    <3>1. g' = [t EXCEPT !.k_captains = @ + 1] /\ g.k_captains # 4 /\ Votes(g) = 0
      BY <2>2 DEF StandAsCaptain, MayStand
    <3>2. /\ t \in State /\ t.ct = g.ct /\ t.k_picked = g.k_picked /\ t.frags = g.frags
          /\ t.k_captains = g.k_captains
      BY <1>0, AnnounceFields DEF Lists
    <3> HIDE DEF t
    <3>3. /\ g'.ct = g.ct /\ g'.k_picked = g.k_picked /\ g'.frags = g.frags
          /\ g'.k_captains = g.k_captains + 1
      BY <3>1, <3>2, RaiseFields DEF Lists
    <3>4. ~Stands(g)
      BY <1>0, <3>1, NoVotes DEF Quiet, Stands
    <3>5. g.k_captains + 1 # 4
      BY <1>0, <3>4 DEF CapInv, Half, Worth
    <3>6. /\ \A q \in Client : g'.frags[q] = 0
          /\ \A q \in Client : g'.ct[q] # "player" => g'.k_picked[q] = 0
      BY <1>0, <3>1, <3>3 DEF NumInv
    <3> QED
      BY <3>3, <3>5, <3>6, NoNum
  <2> QED
    BY <1>2, <1>3, <2>1, <2>2 DEF VoteCaptain
<1>4. CASE VoteAdmin(p)
  <2>1. CASE StandAsAdmin(p)
    <3>1. g' = Announce(g, p, "admin")
      BY <2>1 DEF StandAsAdmin
    <3>2. /\ g'.ct = g.ct /\ g'.k_captain = g.k_captain /\ g'.k_picked = g.k_picked
          /\ g'.frags = g.frags /\ g'.k_captains = g.k_captains
      BY <1>0, <3>1, AnnounceFields DEF Lists
    <3> QED
      BY <1>0, <3>2, SameNum
  <2> QED
    BY <1>2, <1>4, <2>1 DEF VoteAdmin
<1>5. CASE ReqAdmin(p)
  <2>1. CASE GiveUpAdmin(p)
    <3>1. Else(g, g')
      BY <1>0, <2>1, ElseFields DEF GiveUpAdmin
    <3> QED
      BY <1>0, <3>1, SameNum DEF Else, Lists
  <2>2. CASE AdminByCode(p)
    <3>1. g' = BecomeAdmin(g, p)
      BY <2>2 DEF AdminByCode
    <3>2. /\ g'.ct = g.ct /\ g'.k_captain = g.k_captain /\ g'.k_picked = g.k_picked
          /\ g'.frags = g.frags /\ g'.k_captains = g.k_captains
      BY <1>0, <3>1, AdminFields DEF Lists
    <3> QED
      BY <1>0, <3>2, SameNum
  <2> QED
    BY <1>5, <2>1, <2>2 DEF ReqAdmin
<1>6. ASSUME NEW turn \in {1, 2}, NEW v \in BOOLEAN, v => Votes(g) # 0,
             g.ct[p] # "none", g.elect_type[p] = "none",
             g' = vote_check_elect([g EXCEPT !.elect[p] = v], turn)
      PROVE  NumInv(g') /\ Some(g')
  <2> DEFINE t == [g EXCEPT !.elect[p] = v]
  <2>1. /\ t \in State /\ Picking(t) = Picking(g) /\ t.elect_type = g.elect_type
        /\ t.ct = g.ct /\ t.team = g.team /\ t.guards = g.guards
        /\ t.k_captain = g.k_captain /\ t.k_captains = g.k_captains
        /\ t.k_picked = g.k_picked /\ t.frags = g.frags
    BY <1>0, VoteFields DEF Lists
  <2>2. \A q \in Client : t.elect[q] = IF q = p THEN v ELSE g.elect[q]
    BY <1>0, VoteFields
  <2>3. g' = vote_check_elect(t, turn)
    BY <1>6
  <2> HIDE DEF t
  <2>4. TurnInv(t)
    BY <1>0, <2>1, SameTurn
  <2>5. ElectInv(t)
    BY <1>0, <1>6, <2>1, <2>2, VoterElect
  <2>6. CapInv(t)
    BY <1>0, <2>1, SameCap
  <2>7. NumInv(t) /\ Some(t)
    BY <1>0, <2>1, SameNum
  <2> QED
    BY <2>1, <2>3, <2>4, <2>5, <2>6, <2>7, VoteNum
<1>7. CASE \E turn \in {1, 2} : VoteYes(p, turn) \/ VoteNo(p, turn)
  BY <1>6, <1>7 DEF VoteYes, VoteNo, Players
<1>8. CASE CaptainPickPlayer(p)
  <2>1. PICK impulse \in Client :
          LET named == {q \in Players(g) : g.frags[q] = impulse}
              t == CheckFinishCaptain(SetPlayerParams(g, First(named), p))
          IN named # {} /\ g' = IF t.k_captains # 0 THEN PrintCaptainInTurn(t) ELSE t
    BY <1>8 DEF CaptainPickPlayer
  <2> DEFINE named == {q \in Players(g) : g.frags[q] = impulse}
             x == First(named)
             r == SetPlayerParams(g, x, p)
             t == CheckFinishCaptain(r)
  <2>2. named # {} /\ g' = IF t.k_captains # 0 THEN PrintCaptainInTurn(t) ELSE t
    BY <2>1
  <2>3. x \in Client /\ g.ct[x] = "player" /\ g.frags[x] # 0
    <3>1. named \in SUBSET Client /\ \A q \in named : g.ct[q] = "player" /\ g.frags[q] = impulse
      BY FreeSets DEF Players
    <3>2. impulse # 0
      BY SlotAssumption DEF Client
    <3> HIDE DEF named
    <3>3. x \in named
      BY <2>2, <3>1, FirstClient
    <3> QED
      BY <3>1, <3>2, <3>3
  <2>4. g.k_captain[p] = g.k_captainturn /\ g.k_captains = 4
    BY <1>8 DEF CaptainPickPlayer
  <2> HIDE DEF named, x
  <2>5. /\ r \in State /\ TurnInv(r) /\ r.ct = g.ct /\ r.team = g.team /\ Polls(r) = Polls(g)
        /\ r.k_captain = g.k_captain /\ r.k_captains = g.k_captains
    <3>1. TurnInv(r)
      BY <1>0, <2>3, <2>4, ParamsTurn
    <3>2. Taken(g, x, p, r)
      BY <1>0, <2>3, TakenIs
    <3> QED
      BY <3>1, <3>2 DEF Taken
  <2>t. Taken(g, x, p, r)
    BY <1>0, <2>3, TakenIs
  <2>6. \A q \in Client : r.frags[q] = IF q = x THEN 0 ELSE g.frags[q]
    BY <2>t DEF Taken
  <2>7. \A q \in Client : r.k_picked[q] = IF q = x THEN g.k_captain[p] ELSE g.k_picked[q]
    BY <2>t DEF Taken
  <2> HIDE DEF r
  <2>8. ElectInv(r) /\ CapInv(r)
    BY <1>0, <2>5, SamePolls, SameCap DEF Polls
  <2>9. g.k_captain[p] # 0
    BY <1>0, <2>4, Fields
  <2>10. NumInv(r)
    BY <1>0, <2>3, <2>4, <2>5, <2>6, <2>7, <2>9 DEF NumInv
  <2>11. NumInv(t) /\ Some(t) /\ t \in State /\ CapInv(t)
    BY <2>4, <2>5, <2>8, <2>10, FinishNum, FinishTurn, FinishCap
  <2>12. t = r \/ t.k_captains = 0
    BY <2>5, FinishIs, CancelFields
  <2> HIDE DEF t
  <2>13. t.k_captains # 0 => PrintCaptainInTurn(t) = t
    BY <2>4, <2>5, <2>11, <2>12, FullTurn, FullWorth DEF CapInv
  <2> QED
    BY <2>2, <2>11, <2>13
<1>9. CASE \E t \in Teams(p) : SetTeam(p, t)
  <2>1. PICK t \in Team \cup {NoTeam} : g' = [g EXCEPT !.team[p] = t]
    BY <1>9 DEF Teams, SetTeam
  <2>2. /\ g'.ct = g.ct /\ g'.k_captain = g.k_captain /\ g'.k_picked = g.k_picked
        /\ g'.frags = g.frags /\ g'.k_captains = g.k_captains
    BY <1>0, <2>1, TeamFields
  <2> QED
    BY <1>0, <2>2, SameNum
<1> QED
  BY <1>1, <1>3, <1>4, <1>5, <1>7, <1>8, <1>9

LEMMA EmptyNum == NumInv(Empty) /\ Some(Empty)
<1>1. /\ \A p \in Client : Empty.frags[p] = 0 /\ Empty.k_picked[p] = 0
      /\ Empty.k_captains # 4
  BY DEF Empty, Zero
<1> QED
  BY <1>1, NoNum

LEMMA NumEngine ==
  ASSUME Codes \subseteq Viewers, Fast = {}, ~isCA, NumOK, Engine
  PROVE  NumInv(g') /\ Some(g')
<1>0. g \in State /\ TurnInv(g) /\ ElectInv(g) /\ Homes(g) /\ CapInv(g) /\ NumInv(g) /\ Some(g)
  BY DEF TurnsOK, ElectOK, ElectInv, CapOK, NumOK
<1>1. CASE ElectThink
  <2>1. g' = AbortElect(g)
    BY <1>1 DEF ElectThink
  <2> QED
    BY <1>0, <2>1, AbortNum
<1>2. CASE VoteFrame
  <2>1. PICK turn \in {1, 2} : g' = vote_check_elect(g, turn)
    BY <1>2 DEF VoteFrame
  <2> QED
    BY <1>0, <2>1, VoteNum
<1>3. CASE MatchStarts \/ MatchStops
  <2>1. PICK v \in BOOLEAN : g' = [g EXCEPT !.match = v]
    BY <1>3 DEF MatchStarts, MatchStops
  <2>2. /\ g'.ct = g.ct /\ g'.k_captain = g.k_captain /\ g'.k_picked = g.k_picked
        /\ g'.frags = g.frags /\ g'.k_captains = g.k_captains
    BY <1>0, <2>1, MatchFields
  <2> QED
    BY <1>0, <2>2, SameNum
<1>4. CASE NewLevel
  <2>1. g' = Empty
    BY <1>4 DEF NewLevel
  <2> QED
    BY <2>1, EmptyNum
<1>5. ASSUME NEW p \in Client, BlockEnds(p) PROVE NumInv(g') /\ Some(g')
  <2>1. Else(g, g')
    BY <1>0, <1>5, ElseFields DEF BlockEnds
  <2> QED
    BY <1>0, <2>1, SameNum DEF Else, Lists
<1>6. ASSUME NEW p \in Client, PlayerPostThink(p) \/ Score(p) PROVE NumInv(g') /\ Some(g')
  <2>1. g' = [g EXCEPT !.frags[p] = 0] /\ g.k_captains = 0
    BY <1>6 DEF PlayerPostThink, Score
  <2>2. g'.ct = g.ct /\ g'.k_picked = g.k_picked /\ g'.k_captains = g.k_captains
    BY <1>0, <2>1, SpeedFields DEF Lists
  <2>3. \A q \in Client : g'.frags[q] = IF q = p THEN 0 ELSE g.frags[q]
    BY <1>0, <2>1, SpeedFields
  <2>4. /\ \A q \in Client : g'.frags[q] = 0
        /\ \A q \in Client : g'.ct[q] # "player" => g'.k_picked[q] = 0
    BY <1>0, <2>1, <2>2, <2>3 DEF NumInv
  <2>5. g'.k_captains # 4
    BY <2>1, <2>2
  <2> QED
    BY <2>4, <2>5, NoNum
<1>7. ASSUME NEW p \in Client, ClientDisconnect(p) PROVE NumInv(g') /\ Some(g')
  <2> DEFINE a == IF g.elect_type[p] # "none" THEN AbortElect(g) ELSE g
             c == [a EXCEPT !.ct[p] = "none"]
             d == ExitCaptain(c, p)
             b == Vacate(d, p)
  <2>1. g' = IF b.k_captains = 4 THEN CheckFinishCaptain(b) ELSE b
    BY <1>7 DEF ClientDisconnect
  <2>2. a \in State /\ CapInv(a) /\ NumInv(a) /\ Some(a) /\ a.elect_type[p] = "none"
    BY <1>0, LeaverElect, LeaverCap, AbortNum
  <2> HIDE DEF a
  <2>3. /\ c \in State /\ Polls(c) = Polls(a) /\ c.team = a.team
        /\ c.k_captain = a.k_captain /\ c.k_captains = a.k_captains
        /\ c.k_picked = a.k_picked /\ c.frags = a.frags
    BY <2>2, GoneFields
  <2>4. \A q \in Client : c.ct[q] = IF q = p THEN "none" ELSE a.ct[q]
    BY <2>2, GoneFields
  <2> HIDE DEF c
  <2>5. a.k_captains \in 0 .. 5
    BY <2>2, Whole2 DEF CapInv, Half
  <2>6. CASE a.k_captain[p] = 0
    <3>1. d = c
      BY <2>3, <2>6 DEF ExitCaptain
    <3>2. Slot(c, b, p, "none", NoTeam, 0) /\ b.elect_type = c.elect_type
      BY <2>3, <3>1, VacateFields
    <3> HIDE DEF d, b
    <3>3. /\ b \in State /\ b.k_captains = a.k_captains
          /\ \A q \in Client : b.ct[q] = IF q = p THEN "none" ELSE a.ct[q]
          /\ \A q \in Client : b.k_captain[q] = IF q = p THEN 0 ELSE a.k_captain[q]
      BY <2>3, <2>4, <3>2 DEF Slot
    <3>4. /\ \A q \in Client : b.k_picked[q] = IF q = p THEN 0 ELSE a.k_picked[q]
          /\ \A q \in Client : b.frags[q] = IF q = p THEN 0 ELSE a.frags[q]
      BY <2>3, <3>2 DEF Slot
    <3>5. NumInv(b)
      BY <2>2, <3>3, <3>4 DEF NumInv
    <3>6. \A q \in Client \ {p} : b.ct[q] = a.ct[q] /\ b.team[q] = a.team[q]
      BY <2>3, <3>2, <3>3 DEF Slot
    <3>7. \A q \in Client : b.elect_type[q] = a.elect_type[q]
      BY <2>3, <3>2 DEF Polls
    <3>8. CapInv(b)
      BY <2>2, <2>6, <3>3, <3>6, <3>7, SlotCap
    <3>9. CASE b.k_captains = 4
      BY <2>1, <3>3, <3>5, <3>8, <3>9, FinishNum
    <3>10. CASE b.k_captains # 4
      BY <2>1, <3>5, <3>10 DEF Some
    <3> QED
      BY <3>9, <3>10
  <2>7. CASE a.k_captain[p] # 0
    <3>1. c.k_captain[p] # 0
      BY <2>3, <2>7
    <3>2. /\ d \in State /\ d.ct = c.ct /\ d.k_picked = c.k_picked
          /\ d.k_captains = c.k_captains - 2
      BY <2>3, <3>1, ExitFields DEF Lists
    <3>3. \A q \in Client : d.frags[q] = IF c.k_captains = 4 /\ q \in Players(c) THEN 0
                                         ELSE c.frags[q]
      BY <2>3, <3>1, ExitFields
    <3> HIDE DEF d
    <3>4. Slot(d, b, p, "none", NoTeam, 0)
      BY <3>2, VacateFields
    <3> HIDE DEF b
    <3>5. \A q \in Client \ {p} : d.frags[q] = 0
      BY <2>2, <2>3, <2>4, <3>3 DEF NumInv, Players
    <3>6. \A q \in Client : b.frags[q] = 0
      BY <3>4, <3>5 DEF Slot
    <3>7. \A q \in Client : b.ct[q] # "player" => b.k_picked[q] = 0
      BY <2>2, <2>3, <2>4, <3>2, <3>4 DEF Slot, NumInv
    <3>8. b.k_captains # 4
      BY <2>3, <2>5, <3>2, <3>4 DEF Slot
    <3>9. g' = b
      BY <2>1, <3>8
    <3> QED
      BY <3>6, <3>7, <3>8, <3>9, NoNum
  <2> QED
    BY <2>6, <2>7
<1>8. ASSUME NEW p \in Client, SpectatorDisconnect(p) PROVE NumInv(g') /\ Some(g')
  <2> DEFINE a == IF g.elect_type[p] # "none" THEN AbortElect(g) ELSE g
  <2>1. g' = Vacate(a, p) /\ g.ct[p] = "spec"
    BY <1>8 DEF SpectatorDisconnect
  <2>2. a \in State /\ NumInv(a) /\ Some(a) /\ a.ct = g.ct
    BY <1>0, AbortNum, AbortFields DEF Lists
  <2> HIDE DEF a
  <2>3. Slot(a, g', p, "none", NoTeam, 0)
    BY <2>1, <2>2, VacateFields
  <2>4. a.ct[p] # "player" /\ a.frags[p] = 0 /\ a.k_picked[p] = 0
    BY <2>1, <2>2 DEF NumInv
  <2>5. /\ g'.k_captains = a.k_captains
        /\ \A q \in Client : g'.ct[q] = IF q = p THEN "none" ELSE a.ct[q]
        /\ \A q \in Client : g'.k_captain[q] = IF q = p THEN 0 ELSE a.k_captain[q]
    BY <2>3 DEF Slot
  <2>6. \A q \in Client : g'.k_picked[q] = a.k_picked[q] /\ g'.frags[q] = a.frags[q]
    BY <2>3, <2>4 DEF Slot
  <2>7. NumInv(g')
    BY <2>2, <2>4, <2>5, <2>6 DEF NumInv
  <2>8. Some(g')
    BY <2>2, <2>5, <2>6 DEF Some
  <2> QED
    BY <2>7, <2>8
<1>9. ASSUME NEW p \in Client, NEW t \in Teams(p), Connect(p, t) PROVE NumInv(g') /\ Some(g')
  <2> DEFINE kind == IF p \in Viewers THEN "spec" ELSE "player"
             n == IF g.k_captains = 4 /\ p \notin Viewers THEN FreeNumber(g) ELSE 0
  <2>1. g' = Seated(g, p, kind, t, n) /\ g.ct[p] = "none"
    BY <1>9 DEF Connect, Seated
  <2>2. n \in Nat /\ kind \in {"player", "spec"} /\ t \in Team \cup {NoTeam}
    BY <1>0, FreeNumberIs DEF Teams
  <2>3. /\ n # 0 <=> g.k_captains = 4 /\ kind = "player"
        /\ n # 0 => \A q \in Players(g) : g.frags[q] # n
    BY <1>0, FreeNumberIs
  <2> HIDE DEF kind, n
  <2>4. Slot(g, g', p, kind, t, n)
    BY <1>0, <2>1, <2>2, ConnectFields
  <2>5. g.k_captain[p] = 0 /\ g.k_picked[p] = 0 /\ g.frags[p] = 0
    BY <1>0, <2>1 DEF CapInv, Apart, NumInv
  <2>6. /\ g'.k_captains = g.k_captains
        /\ \A q \in Client : g'.ct[q] = IF q = p THEN kind ELSE g.ct[q]
        /\ \A q \in Client : g'.frags[q] = IF q = p THEN n ELSE g.frags[q]
    BY <2>4 DEF Slot
  <2>7. \A q \in Client : g'.k_captain[q] = g.k_captain[q] /\ g'.k_picked[q] = g.k_picked[q]
    BY <2>4, <2>5 DEF Slot
  <2>8. n # 0 => \A q \in Client : g.frags[q] # n
    BY <1>0, <2>3 DEF NumInv, Players
  <2>9. NumInv(g')
    <3>1. \A q \in Client : g'.ct[q] # "player" => g'.frags[q] = 0 /\ g'.k_picked[q] = 0
      BY <1>0, <2>3, <2>5, <2>6, <2>7 DEF NumInv
    <3>2. CASE g.k_captains # 4
      BY <1>0, <2>3, <2>6, <3>1, <3>2 DEF NumInv
    <3>3. CASE g.k_captains = 4
      <4>1. \A q \in Client : g'.ct[q] = "player" =>
              (g'.frags[q] # 0 <=> g'.k_captain[q] = 0 /\ g'.k_picked[q] = 0)
        BY <1>0, <2>3, <2>5, <2>6, <2>7, <3>3 DEF NumInv
      <4>2. \A q, r \in Client : g'.frags[q] # 0 /\ g'.frags[q] = g'.frags[r] => q = r
        BY <1>0, <2>6, <2>8, <3>3 DEF NumInv
      <4> QED
        BY <2>6, <3>1, <3>3, <4>1, <4>2 DEF NumInv
    <3> QED
      BY <3>2, <3>3
  <2>10. Some(g')
    BY <1>0, <2>5, <2>6 DEF Some
  <2> QED
    BY <2>9, <2>10
<1> QED
  BY <1>1, <1>2, <1>3, <1>4, <1>5, <1>6, <1>7, <1>8, <1>9, Zenon DEF Engine

(***************************************************************************)
(* While picking goes on somebody is free, and the numbers name exactly    *)
(* the players who are neither captain nor picked, each of them one,       *)
(* although players are picked, leave and connect.  Three things the code  *)
(* does not rule out are assumed away: a captain who shows his speed as    *)
(* frags (Fast), who would count as free, a player with the admin code     *)
(* (Codes), and a match that begins while captains pick (clan arena).      *)
(***************************************************************************)
THEOREM NumbersCall ==
  ASSUME Codes \subseteq Viewers, Fast = {}, ~isCA
  PROVE  Spec => []NumbersNameTheFree
<1>1. Init => NumOK
  BY EmptyFields, EmptyElect, EmptyCap, EmptyNum DEF Init, TurnsOK, ElectOK, CapOK, NumOK
<1>2. NumOK /\ [Next]_vars => NumOK'
  <2>1. CASE NumOK /\ Next
    <3>1. CapOK'
      BY <2>1, TurnCommands, TurnEngine, ElectCommands, ElectEngine, CapCommands, CapEngine
         DEF Next, NumOK, CapOK, ElectOK
    <3>2. NumInv(g') /\ Some(g')
      BY <2>1, NumCommands, NumEngine DEF Next
    <3> QED
      BY <3>1, <3>2 DEF NumOK
  <2>2. CASE NumOK /\ UNCHANGED vars
    BY <2>2 DEF vars, NumOK, CapOK, ElectOK, TurnsOK
  <2> QED
    BY <2>1, <2>2
<1>3. NumOK => NumbersNameTheFree
  <2>1. SUFFICES ASSUME NumOK, g.k_captains = 4
                 PROVE  /\ FreePlayers(g) # {}
                        /\ FreePlayers(g) = {p \in Players(g) : g.k_captain[p] = 0 /\ g.k_picked[p] = 0}
                        /\ \A p, q \in FreePlayers(g) : g.frags[p] = g.frags[q] => p = q
    BY DEF NumbersNameTheFree
  <2>2. NumInv(g) /\ Some(g)
    BY <2>1 DEF NumOK
  <2>3. FreePlayers(g) # {}
    BY <2>1, <2>2 DEF Some, NumInv, FreePlayers, Players
  <2>4. FreePlayers(g) = {p \in Players(g) : g.k_captain[p] = 0 /\ g.k_picked[p] = 0}
    BY <2>1, <2>2 DEF NumInv, FreePlayers, Players
  <2>5. \A p, q \in FreePlayers(g) : g.frags[p] = g.frags[q] => p = q
    BY <2>1, <2>2 DEF NumInv, FreePlayers, Players
  <2> QED
    BY <2>3, <2>4, <2>5
<1> QED
  BY <1>1, <1>2, <1>3, PTL DEF Spec
=============================================================================
