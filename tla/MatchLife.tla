----------------------------- MODULE MatchLife -----------------------------
(***************************************************************************)
(* What the match lifecycle promises, without players, votes or admins: a  *)
(* match is reached through a countdown only, the players are out of the   *)
(* world only while a countdown runs, one clock runs at a time and belongs *)
(* to the phase, and a match that is over stays over until the next level. *)
(***************************************************************************)
VARIABLES
  phase,   \* "prewar", "countdown", "match" or "over"
  clock,   \* the running clock: "off", "countdown" or "match"
  hidden   \* have the players been taken out of the world?

vars == <<phase, clock, hidden>>

Init == phase = "prewar" /\ clock = "off" /\ hidden = FALSE

Rest(ph) == phase' = ph /\ clock' = "off" /\ hidden' = FALSE

Begin ==
  /\ phase = "prewar"
  /\ phase' = "countdown"
  /\ clock' = "countdown"
  /\ hidden' = FALSE

Hide ==
  /\ phase = "countdown"
  /\ hidden' = TRUE
  /\ UNCHANGED <<phase, clock>>

Abort == phase = "countdown" /\ Rest("prewar")

Start ==
  /\ phase = "countdown"
  /\ phase' = "match"
  /\ clock' \in {"match", "off"}   \* "off": there is no time limit
  /\ hidden' = FALSE

SuddenDeath ==
  /\ phase = "match" /\ clock = "match"
  /\ clock' = "off"
  /\ UNCHANGED <<phase, hidden>>

Finish == phase \in {"countdown", "match"} /\ Rest("over")

NewLevel == Rest("prewar")

Next == Begin \/ Hide \/ Abort \/ Start \/ SuddenDeath \/ Finish \/ NewLevel

Spec == Init /\ [][Next]_vars
=============================================================================
