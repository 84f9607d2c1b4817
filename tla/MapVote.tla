------------------------------- MODULE MapVote -------------------------------
(***************************************************************************)
(* The vote for the next map.  Votes outlive a match; they are counted     *)
(* when somebody votes and in every frame, and the level changes to the    *)
(* most voted map when a majority of the players wants it.                 *)
(***************************************************************************)
EXTENDS Integers, FiniteSets, SequencesExt

CONSTANTS
  MvSlots,      \* number of client slots
  MvSpec,       \* slots used by spectators, the others are for players
  MvSeeker,     \* bound: clients who get and give up admin rights
  MvMap,        \* map numbers
  MvLock,       \* k_lockmap
  MvPercent     \* k_vp_map

MvClient == 1 .. MvSlots

ASSUME MvAssumption ==
  /\ MvSlots \in Nat /\ MvSpec \subseteq MvClient /\ MvSeeker \subseteq MvClient
  /\ MvMap \subseteq Nat \ {0} /\ IsFiniteSet(MvMap) /\ MvLock \in BOOLEAN /\ MvPercent \in 51 .. 100

VARIABLE mv    \* the state of the vote, a record

MvNoVote == [p \in MvClient |-> 0]
MvEmpty ==
  [here |-> {}, adm |-> {},
   vote |-> MvNoVote,        \* v.map
   match |-> FALSE,          \* match_in_progress
   elected |-> 0,            \* history: the map the last step has changed to,
   poll |-> MvNoVote,        \* history: and the votes that were counted then
   checked |-> TRUE]         \* history: the votes were counted in the last step

MvPlayers(s) == s.here \ MvSpec
VotesFor(vote, m) == Cardinality({p \in MvClient : vote[p] = m})
MvEnough(votes, players) == 100 * votes >= MvPercent * players

-----------------------------------------------------------------------------
\* Mutant: the last map counted is the best.
CountVoteLast(s, c, p) ==
  IF s.vote[p] = 0 THEN c ELSE [c EXCEPT !.votes[s.vote[p]] = @ + 1, !.best = s.vote[p]]

\* One client in the walk of vote_get_maps(): the best so far is given up for a map with
\* more votes, and then for one with more admins.
CountVote(s, c, p) ==
  LET m == s.vote[p]
      d == [c EXCEPT !.votes[m] = @ + 1, !.admins[m] = @ + IF p \in s.adm THEN 1 ELSE 0]
      most == IF d.best = 0 \/ d.votes[m] > d.votes[d.best] THEN m ELSE d.best
  IN IF m = 0 THEN c
     ELSE [d EXCEPT !.best = IF d.admins[m] > d.admins[most] THEN m ELSE most]

vote_get_maps(s) ==
  FoldLeft(LAMBDA c, p : CountVote(s, c, p),
           [votes |-> [m \in MvMap |-> 0], admins |-> [m \in MvMap |-> 0], best |-> 0],
           [p \in MvClient |-> p])

\* get_votes_req(OV_MAP) is met: the level changes, and all clients enter it anew.
vote_check_map(s) ==
  LET c == vote_get_maps(s)
  IN IF c.best = 0 \/ s.match \/ ~MvEnough(c.votes[c.best], Cardinality(MvPlayers(s)))
     THEN [s EXCEPT !.elected = 0, !.poll = MvNoVote, !.checked = TRUE]
     ELSE [s EXCEPT !.elected = c.best, !.poll = s.vote, !.vote = MvNoVote, !.checked = TRUE]

-----------------------------------------------------------------------------
DoSelectMap(p, m) ==
  /\ p \in mv.here /\ ~mv.match /\ mv.vote[p] # m
  /\ p \in MvSpec \/ MvLock => p \in mv.adm
  /\ mv' = vote_check_map([mv EXCEPT !.vote[p] = m])

\* vote_check_all(), in every StartFrame().
MvFrame == mv' = vote_check_map(mv) /\ mv' # mv

\* What else happens between two frames does not count the votes.
MvUncounted(s) == mv' = [s EXCEPT !.elected = 0, !.poll = MvNoVote, !.checked = FALSE]

MvConnect(p) == p \notin mv.here /\ MvUncounted([mv EXCEPT !.here = @ \cup {p}])

MvDisconnect(p) ==
  p \in mv.here /\ MvUncounted([mv EXCEPT !.here = @ \ {p}, !.adm = @ \ {p}, !.vote[p] = 0])

\* BecomeAdmin() clears the client's votes, ReqAdmin() of an admin ends his rights.
MvAdmin(p) ==
  /\ p \in mv.here \cap MvSeeker
  /\ MvUncounted(IF p \in mv.adm THEN [mv EXCEPT !.adm = @ \ {p}]
                 ELSE [mv EXCEPT !.adm = @ \cup {p}, !.vote[p] = 0])

MvMatchBegins == ~mv.match /\ MvPlayers(mv) # {} /\ MvUncounted([mv EXCEPT !.match = TRUE])

MvMatchEnds == mv.match /\ MvUncounted([mv EXCEPT !.match = FALSE])

-----------------------------------------------------------------------------
MvInit == mv = MvEmpty

MvNext ==
  \/ \E p \in MvClient :
       MvConnect(p) \/ MvDisconnect(p) \/ MvAdmin(p) \/ \E m \in MvMap : DoSelectMap(p, m)
  \/ MvFrame \/ MvMatchBegins \/ MvMatchEnds

MvSpecification == MvInit /\ [][MvNext]_mv

-----------------------------------------------------------------------------
MvTypeOK ==
  /\ mv.adm \subseteq mv.here /\ mv.here \subseteq MvClient
  /\ mv.vote \in [MvClient -> MvMap \cup {0}] /\ \A p \in MvClient \ mv.here : mv.vote[p] = 0

(***************************************************************************)
(* The level changes to a map with a majority of the players, and, unless  *)
(* an admin has voted, to the one with most votes; and no majority is left *)
(* waiting once a match is over, although votes are counted on the way     *)
(* along the slots and outlive players, admins and matches.                *)
(***************************************************************************)
MapByMajority ==
  /\ mv.elected # 0 =>
       /\ MvEnough(VotesFor(mv.poll, mv.elected), Cardinality(MvPlayers(mv)))
       /\ \/ \E p \in mv.adm : mv.poll[p] # 0
          \/ \A m \in MvMap : VotesFor(mv.poll, m) <= VotesFor(mv.poll, mv.elected)
  /\ mv.checked /\ ~mv.match /\ (\A p \in mv.adm : mv.vote[p] = 0) =>
       \A m \in MvMap : VotesFor(mv.vote, m) > 0 =>
         ~MvEnough(VotesFor(mv.vote, m), Cardinality(MvPlayers(mv)))
=============================================================================
