# KTX: a verification project for the match server

KTX is the server side of QuakeWorld deathmatch: a game library the engine calls (`vmMain` in `src/src/g_main.c`)
once per server frame, for every entity whose think time has come, and for every command and movement of a client.
It is single threaded.  What is hard about it is the order of those calls: a match is run by entities that think
(`timer`, `standby_th`, `mess`, `idlebot`, `electguard`, `trigger_changelevel`) and share global variables
(`match_in_progress`, `k_force`, `k_captains`, ...), while players come, go, vote, and change their minds between any
two thinks.  This directory holds TLA+ models of that logic, configurations that TLC checks and theorems that TLAPS
proves.

## 1. Inventory

| Component | State | Operations | Hard behaviour | What makes it correct |
|---|---|---|---|---|
| Match lifecycle, `match.c` | `match_in_progress`, `match_over`, `k_sudden_death`, entities `timer` and `standby_th`, `ready` of the players | PlayerReady, PlayerBreak, StartTimer, TimerStartThink, standby_think, StartMatch, TimerThink, CheckOvertime, StopTimer, EndMatch | think order in a long frame, stops in any second of the countdown, overtime at the end of a minute | one clock, that of the phase; nobody left out of the world; the clock counts every second; a countdown ends; over stays over |
| Idle bot, `match.c` | entity `idlebot` and its seconds | IdlebotCheck, IdlebotThink, IdlebotForceStart | races with ready, with leaving players and with forcestart | never waits in a countdown or match |
| Forcestart, `admin.c` | `k_force`, entity `mess` with its owner | AdminForceStart, AdminMatchStart (think), AdminForceBreak | the owner leaves, his slot is reused, the match starts by another way | never blocks the players for ever |
| Level change, `world.c`, `client.c`, `g_main.c` | `intermission_running`, `trigger_changelevel` | execute_changelevel, GotoNextMap, G_InitGame, G_ShutDown | thinks that are on their way when a level ends | nothing of a level survives it |
| Clients, `client.c`, `spectate.c`, `g_userinfo.c` | kind of client `ct`, userinfo, per-slot fields | connect, disconnect, FixPlayerTeam | slots are reused; fields outlive their client | counters and numbers follow the clients |
| Votes, `vote.c` | `v.brk`, `v.elect`, `v.map`, ... per client | vote, withdraw, check after each vote and in every frame | the required number changes as players leave | a vote passes with its majority and leaves nothing behind |
| Elections, `vote.c`, `admin.c` | `v.elect_type`, `elect_block_till`, entity `electguard` | VoteAdmin, VoteCaptain, VoteYes, VoteNo, AbortElect, ElectThink, BecomeAdmin | candidates leave, matches begin, elections time out | one election at a time, and it ends |
| Captains, `captain.c`, `weapons.c` | `k_captains` (half units), `k_captain`, `k_picked`, `k_captainturn`, `turn_number`, `frags` as a number | BecomeCaptain, BeginPicking, CaptainPickPlayer, CheckFinishCaptain, ExitCaptain, CancelCaptains | functions that call each other, players who leave and connect between picks | picking has two captains, its numbers name the free players, turns are fair |
| Coaches, `coach.c` | `k_coaches`, `k_coach` | as for captains | as for captains | as for captains |
| Map vote, `vote.c`, `maps.c` | `v.map`, `maps_voted` | DoSelectMap, vote_get_maps, vote_check_map | an admin's priority against the number of votes; votes outlive players, admins and matches | the level changes to a map of the majority, and no majority waits |
| Scores and sudden death, `client.c`, `match.c`, `g_utils.c` | `frags`, the cached scores with `k_nochange`, `golden_frag_score_snapshot` | ClientObituary, ReScores, CheckOvertime, Check_SD | a cache that is stale, a snapshot that is refreshed at every death | an overtime is decided by the scores that were earned |
| Ghosts, `client.c`, `match.c`, `world.c` | entities `ghost`, their numbers in localinfo, `k_userid` | MakeGhost, CanConnect, the reconnect in ClientConnect | leave and return in any order, numbers used again | every frag counts once, for who has made it |
| Rocket Arena, `arena.c` | `ra_que`, `ra_pt`, `ra_match_fight`, `time_to_start` | ra_in_que, ra_out_que, ra_break, ra_ClientObituary, ra_Frame | deaths, departures and breaks between two frames | everybody has one place; only the two who fight can be hurt; the line is fair; a fight follows |
| Clan Arena and wipeout, `clan_arena.c` | `ca_alive`, `in_limbo`, `can_respawn`, `round_deaths`, `spawn_delay`, `ca_round_pause`, the scores | CA_PutClientInServer, CA_AddLatePlayer, CA_check_alive_teams, EndRound, CA_Frame | deaths and departures in the pause, teammates who come back from limbo | the eliminated stay out, points go to survivors, the pause ends |
| HoonyMode, `hoonymode.c` | `round_number`, `true_round_number`, `hoony_results[]`, `k_hoonyspawn` | HM_all_ready, EndRound, HM_is_game_over, HM_draw | rounds beyond the array, draws, players who leave | a series ends even and decided, sides are swapped |
| Race, `race.c` | `race.status`, the line-up `race_ready`, `race_participant`, places, top scores, points | race_think, race_start, race_end, race_toggle, race_match_round_end | the end of the last run starts the next race within the same call | places and records rank the times, a match ends when decided, everybody gets his turn |
| Capture the flag, runes, `ctf.c`, `runes.c` | a flag's `cnt`, `owner` and think, `ctf_flag` of the players, entities `rune` | FlagTouch, FlagThink, DropFlag, PlayerDropFlag, TossFlag, DropRune, RuneTouch | a toss and the second after it, carriers who die or leave | a carried flag has its carrier, a rune is in one place |
| Quad and megahealth, `items.c` | the items' think and touch, `super_damage_finished`, `IT_SUPERHEALTH` | powerup_touch, DropPowerups, hide_powerups, show_powerups, item_megahealth_rot | a dropped quad, settings that change while it is in use, boxes whose owner dies or leaves | what is taken is used up before it is there again |
| Bloodfest, `sp_monsters.c`, `client.c` | `g_bloodfest`, the monsters' edicts, `ready` | bloodfest_think, bloodfest_killed_hook, PutClientInServer, PlayerDeathThink | players die, leave, connect and get ready while the round starts and runs | one life each, the round ends with the last one, a limit of living monsters |
| Combat, weapons, other items, map entities | floats and geometry | `combat.c`, `weapons.c`, `doors.c`, ... | single frames | - |
| Bots and navigation | paths, weights | `bot_*.c`, `kbot_*.c`, `nano_*.c`, `route_*.c`, `marker_*.c` | - | - |
| Statistics, logs, commands, team messages, helpers | text | `stats*.c`, `logs.c`, `commands.c`, `teamplay.c`, `g_*.c`, `q_shared.c` | - | - |

The parts meet in shared variables.  A match cannot begin while the intermission runs; `vote_check_break` calls
EndMatch or StopTimer; a disconnect runs AbortElect, ExitCaptain, CheckFinishCaptain, IdlebotCheck and, in a match,
MakeGhost, in that order; BecomeCaptain begins a picking that may cancel the captains, which aborts the election that
is just being decided; an obituary takes the golden frag snapshot, gives a point of HoonyMode and the other player a
place in the line of Rocket Arena.  The hazards this gives, with their lines, are in `PROJECT.json`.

## 2. Modules

* `Match` - the match lifecycle for duel, team and ffa, with the idle bot, forcestart and forcebreak, the vote to
  break, clients that come and go, the intermission and new levels.  An action is one call by the engine: a think
  (`TimerStartThink`, `StandbyThink`, `TimerThink`, the idle bot's, the message's, the level change's), a command or a
  connect or disconnect.  The order of thinks is left open, because a long frame makes several due at once.
* `MatchLife` - the abstract lifecycle: prewar, countdown, match, over; one clock; players out of the world in a
  countdown only.  `Match` implements it under the mapping `Phase`, `Clock`, `k_standby` (`ImplementsLife`).
* `MatchProof` - the theorems about the invariants of `Match`; that it implements `MatchLife`, and what follows for
  the votes; and that the match clock counts seconds.
* `Election` - elections of admins and captains, and the picking.  The state is a record and every C function is an
  operator from record to record, so an action composes them in the order in which the code calls them.
  `ElectionProof` - the theorems about its invariants.
* `ArenaQueue`, `ClanArena`, `Race`, `Hoony`, `CTFFlag` - the game types with a state machine of their own.  Each takes
  from `Match` only what it needs, a field such as `match`, `game` or `over`, with a step to the next level, so that a
  series is also seen to begin anew.
* `Scores` - frags, cached scores, ghosts and every kind of overtime in duel, ffa and team play.  It refines the choice
  `Match` makes when time is up.
* `MapVote` - the vote for a map; `vote_get_maps` is a fold over the slots, as the code's walk.
* `Items` - the quad of a map and dropped ones, killquad, hiding and showing by the settings, the megahealth boxes.
* `Bloodfest` - its rounds: waves, monsters and corpses, players with one life, countdown and end.
* `ArenasProof`, `RaceProof`, `ScoresProof`, `MapVoteProof` - the theorems about `ArenaQueue` and `ClanArena`, `Race`,
  `Scores`, and `MapVote`; `FoldProof` - lemmas about folds, counts and sequences that the last three share.
* `ModesProof` - the theorems about `Hoony`, `CTFFlag`, `Items` and `Bloodfest`, and those about `MCModes`, the server
  that plays any of the game types.
* `MCMatch`, `MCElection` - the instances for TLC, with the `.cfg` files.  `MCModes` puts the game types, the scores,
  the map vote, the items and bloodfest beside each other, as the alternatives they are: a variable `type` says which one the
  server plays, and the others rest in a state of their own Init, picked by CHOOSE, so that their state counts add up
  instead of multiplying.

How state and actions correspond to the code is in the "map" of `PROJECT.json`, definition by definition; names are
those of the source.  Three conventions deserve a word.  The booleans `standby_th` and `changelevel` and the set
`timers` are the entities of that class; removing an entity is removing it from the set.  `body` is the triple
takedamage, solid, model that standby takes from a player and StopTimer and StartMatch give back.  In `Election`,
`k_captains` counts halves (the code's 0.5 is 1), `turn_number` saturates at 2 because only "is it the second pick"
is ever asked, and `lead` is an auxiliary variable that no guard reads.  In the modules of this second kind too (the
state is one record, a C function an operator on it) the fields called "history" are auxiliary: `caught` (a tossed flag
was caught before FlagResetOwner ran), `changed`, `drawn` and `last` in `Hoony`, `earned` and `lone` in `Scores`,
`elected`, `poll` and `checked` in `MapVote`.  They say what a property needs to know of the past; no guard reads them.

A frame function (`ra_Frame`, `CA_Frame`, `race_think`) is one action that computes the whole frame, every loop over the
slots in it, and is left out when it changes nothing.  A think is an action whose guard is that its time has come;
where a clock matters it is a step (`RaTime`, `CaTime`, `RaceTime`, `ItTick`) that waits for the thinks that are due.

Data that no property tells apart is abstracted: names, texts, sounds, skins, demos and statistics; in `Match`
also the scores (whether the score is level when time runs out is a choice there, which `Scores` resolves).  In
`Election` time is: a block of 30 seconds and the minute of an electguard end at any moment.  The colours two captains
must not share are left out, their teams are kept.  Entering the six digits of the admin code is one step,
`AdminByCode`.  A route of `Race` is the touch of its end, positions and wounds are choices.  What the engine does is
taken from how the code uses it: it gives a client a cleared slot, runs a think when its time has come and calls every
handler to its end.

## 3. Runs

| Run | Question | Instance |
|---|---|---|
| `match_duel` | can any order of thinks, commands and disconnects leave a second clock, a hidden player, a blocked or orphaned forcestart, a match after the match, an idle bot in a match, old votes; is `MatchLife` implemented? | 4 slots (so that a third player or a spectator can disturb a duel), one admin, countdown of 3, idle bot, sudden death, minute of 2 seconds |
| `match_team` | does the clock count every second through two minutes and the overtimes added to them, with teams changing; does a countdown end, the clock run out, a forcestart resolve? | 3 slots, 2 teams, time limit 2, added time, no symmetry, fairness |
| `match_leave` | (violation) does a duel begin with two players? | 2 slots |
| `election_pick` | with five players who vote, leave, connect, resign and change teams: is `k_captains` right, has the picking two captains, do the numbers name the free, are turns fair, does only a majority elect? | 5 slots, of which 2 set one of 2 teams |
| `election_ends` | one election at a time, and does it end, also in clan arena, where captains change their teams and matches begin while they pick? | clan arena, 3 players, of which 2 set a team, and 1 spectator who may become admin by election or by code |
| `election_code` | (violation) the admin code entered by a candidate for captain | 4 slots, one has the code |
| `election_fast` | (violation) a captain who used the speed display | 4 slots, one is fast |
| `modes` | everything `ArenaQueue`, `ClanArena`, `CTFFlag`, `Race`, `Hoony`, `Scores`, `MapVote`, `Items` and `Bloodfest` promise: who is where in the queue, who can be hurt, who is out of a round, who has the flag, who was fastest, when a series ends, whose frags are whose, which map was wanted, where the quad is | the nine instances below |
| `modes_live` | does a fight follow, does the pause of clan arena end, does everybody in the line-up get his run, does a round of bloodfest end and nobody have a second life in it? | 3 clients each (2 in bloodfest), one round or win, fairness |
| `race_lead` | (violation) does a race match of three with scaled points end only when it is decided? | 3 racers, 2 rounds |
| `hoony_draw` | (violation) does a drawn round leave the difference as it was? | 2 players, 4 rounds |
| `modes_revive` | (violation) is a dropped quad that was taken removed? | 2 players, dropped quads |

Each property of a passing run has a mutant: an operator commented "Mutant:" that changes a definition the way a
plausible mistake in the code would.  Put in the definition's place it makes the run fail with that property, so the
property does depend on the code.

Bounds.  `k_count = 3` contains every special second of a countdown: the first, the one in which players are hidden,
and the last.  `Minute = 2` has a boundary and a second that is none; two minutes have an inner and a last boundary.
`ForceDelay` 11 is the code's, 3 in the other runs is enough for every event to fall before, between and at the last
tick.  Five players are the least with two captains and a gap in the numbers of the free players when one of them
leaves and another connects; the slots are reused without limit.  `TeamSetters` bounds who ever sets a team, and so who
can stand as captain; two are enough for every combination of captains and candidates (the instance with three has
1.2 million states and passes too, in four minutes).
`AdminSeekers` bounds who asks for admin rights in `Election`, to keep the instance small; the rights themselves do not
depend on the slot.  A match in `Election` is a flag: a countdown or match that refuses captains.  It is not begun
while a picking goes on: a free player's team is empty, and isCanStart refuses to start then.  Clan arena (`isCA`) is
different: FixPlayerTeam lets everybody change his team before a match, captains too, so a match may begin while they
pick, and the frags that number the free players become scores (`Score`).  It has an instance of its own,
`election_ends`; one team in it is enough for two captains of the same, one of whom has left it in between.

The bounds of `modes`: four clients make a line of two behind a fight in Rocket Arena, with three a fight can be
abandoned and followed.  Clan arena has two against one, one client who leaves and returns, one respawn in wipeout and
two wins, so that a series goes on after a decided round and ends; the pause has two steps, its second half being the
time in which nobody can fire.  Flags and runes: three players, two of them in a team, so that a teammate can catch a
toss; two kinds of runes; captures are not counted and need no bound.  Race: three seats taking turns, two seats racing
together and in a duel (three together are in `race_lead`), three rounds, so that a match can end before its last round
and also in it; two top scores and a time limit of two steps, so that there are a faster and a slower time, and none for
who is late: places go by time, and a record can be beaten, equalled and pushed out.  In the rounds of a match the limit is
one step (`RaceMatchLimit`), which keeps the run short; there the places, not the times, give the points.  The scoring is
"Win Only" here and "Scaled" in `race_lead`; "Formula1" is in the definitions and the proofs and has no run.
HoonyMode: four regular rounds, room for six in `hoony_results[]`, which a series that stays level leaves behind,
and at most five points, which is enough for that; three spawn points, one of which is that of the default winner, so
that rounds end with a draw and with his win.  Scores: at most two frags either way, a tie break of three, two
against one in team play; every overtime and all three lock modes occur.  Map vote: four players and a spectator,
who becomes admin as one of the players does; two maps.  Items: two players and two boxes; a step of
the clock is fifteen seconds, the quad lasts 2 of them, comes back after 4, after a change of settings after 2, a killquad
lasts 1; two drops may lie at once, and the settings revive at most one that was taken (`MaxDrops`, `MaxRevived`);
health counts in steps of half the normal health, so that a megahealth doubles it, up to a cap of 5 (250).
Two boxes are enough to have one rotting a player while he takes the other.  Bloodfest: two players, at most two of
three monsters alive, so that the limit is reached while a corpse lies; waves grow once, which is the length of a round
`BfAge` stands for.  A round is begun at any moment of its countdown, which `Match` counts.

Fairness.  Only the engine is fair: weak fairness of the countdown's timer, the match's timer and the forcestart's
message in `Match`, of the electguard's think in `Election`.  These entities have a nextthink at most one second, or
one minute, away and the engine runs every think that is due in a frame; nothing postpones it.  In the game types it is
the frame itself and its clock that are fair (`RaFrame`, `RaTime`, `CaFrame`, `CaTime`, `RaceFrame`, `RaceTime`, `BfFrame`), and the
death of a client whose frames keep coming (`CaRespawn`), since PlayerDeathThink respawns him without his doing.
In `match_team` time is added as long as the score is level, so there `ClockRunsOut` says that the clock comes to its last
second again and again; without added time it says that the match ends or goes into sudden death.
Clients are never assumed to do anything.  Under this `CountdownEnds`, `ClockRunsOut`, `ForceResolves`, `ElectionsEnd`,
`AFightFollows`, `PauseEnds`, `TurnComes` and `OneLife` hold.  Wipeout is left out of `PauseEnds`: players may come back from limbo
while a pause runs, and the pause with them.

## 4. What the violations show

* `match_leave`: isCanStart refuses a duel with too many players and not one with too few, though its comment says
  two are needed; a player who leaves in the countdown leaves the other one in a match of his own.
* `election_code`: BecomeAdmin clears the votes and the candidacy of the client, and the half unit a candidate captain
  holds in `k_captains` is never taken back.  The next candidate becomes "the second captain" and picks alone.
* `election_fast`: the captains' frags are not cleared when picking begins, so a captain whose speed was shown as frags
  counts as a free player and can be picked, by himself too.
* `race_lead`: race_match_round_end multiplies the rounds that are left by 3, the difference of a duel; with three racers
  a round is worth 4, so a match may end although it could still be drawn level.
* `hoony_draw`: HM_draw uses one loop variable for two nested loops, so after a drawn round one player has a point more.
* `modes_revive`: powerup_touch lets a dropped quad that was taken be removed a thousandth of a second later.  If a setting
  of the powerups changes before that, FixPowerups, which runs at the start of a frame and before the thinks, calls
  show_powerups, which takes the drop for a quad that is away and gives it the think of one that comes back in 30 seconds.
  It then lies there for good and there are two quads.  `UsedUpFirst` is claimed until that has happened (`again`).

Observed while modelling, and left out of the properties where it would break them:

* Scores.  Without `k_tp_tele_death` (its default is on) a telefragged teammate ends a sudden death with level scores;
  captures of CTF change the scores without Check_SD.  With `k_lockmode` 0 who leaves takes his score away; the
  properties of overtime are for the other lock modes.  Golden frag begins whatever the lead is.  After a match without
  a single death the first golden frag does not end it, because the snapshot is still its large initial value; in a duel
  a death while the opponent is away does not refresh the snapshot (`lone`).
* Map vote.  A map an admin wants may lose to one counted later with more votes, though the comment says it has
  priority.  Votes outlive the match and may change the level in the frame after its end.  `MapByMajority` therefore claims
  the majority always and most votes only without an admin's vote.
* Captains.  VoteCaptain refuses a captain whose team the other one has, and in clan arena a captain may take it afterwards,
  because FixPlayerTeam returns before it asks about captains.  `PickingHasTwoCaptains` claims two teams for the other modes
  only, and `NumbersNameTheFree` leaves clan arena out, where a match may begin while captains pick.
* Items.  In killquad who dies within that moment drops none.  A
  killquad's quad is dropped also with `k_pow_q` 0, when nobody can take it.  A powerup hidden in the first frame gets
  nextthink 0, so its PlaceItem never runs.  With three boxes one can be kept from coming back by taking turns.
* Flags.  A toss that is caught before FlagResetOwner runs leaves a carried flag whose owner is then cleared; what
  follows is excluded by `caught`.
* Bloodfest.  StartMatch respawns the players in random order and kills those who are not ready.  If all who are ready are
  dead and not yet respawned when that happens, bloodfest_killed_hook ends the match within StartMatch.
* Coaches.  BecomeCoach looks for the other coach among the players, although coaches are spectators; `k_coach` outlives
  the level in parm12 and `k_coaches` does not.

## 5. Proofs

`MatchProof` proves, for every set of slots and teams, every mode and every value of the settings (under the
assumptions `ClientAssumption`, `TeamAssumption`, `ModeAssumption`, `LimitAssumption` of `Match`), `Spec => []Inv`, and
from it the theorems `TypeCorrect`, `ClockCorrect`, `NoGhosts`, `ForceOwned`, `OverStaysOver` and `IdlebotOutside` for
the six invariants of `match_duel`.

`Inv` is the conjunction of those invariants with two facts that they need to be inductive.  `OneClock` alone does not
survive TimerThink: that sudden death is a property of a running match (`SuddenDeathInMatch`) is needed to know that the
next match gets its clock.  `NobodyLeftOut` alone does not survive a tick of the countdown: that players are out of the
world, or about to be taken out of it by a waiting `standby_th`, only when the timer is in its last second
(`StandbyInLastSecond`) is needed so that StartMatch or StopTimer, one of which comes next, gives all of them back.  The
proof has a lemma per action; the actions that stop or end a match share the lemmas about StopTimer and EndMatch.

`MatchProof` also proves that `Match` implements the abstract lifecycle, `Spec => ImplementsLife`, under the same assumptions.
Every action is a lemma: it is a step of `MatchLife` under the mapping, or changes neither phase nor clock.  The lemmas
need little of the invariant: `OneClock` and `SuddenDeathInMatch` to know which clock runs, and that a match is never
under way on a level that is over.
From the abstract steps it follows that nothing leads from a match back to the time before it, and with the invariant
`NoEarlyVotes` (before a match nobody has a vote to break it) that no match begins with votes against it
(`MatchBeginsWithoutVotes`).  The last theorem is `ClockCountsSeconds`: every step but the thinks of the two timers leaves the
clock alone, ends it, or concerns a countdown, and `SecondsLeft` - the running clock has a second left - is what makes the
minutes roll over right.

For `Hoony`, `ModesProof` proves `SeriesEndsEven` and `SidesSwap` for every even number of rounds, every even size of
`hoony_results[]` and every set of spawn points.  The invariant `HmInv` says that `round_number` and `true_round_number` have the same
parity, also when rounds are used again; that the points given are those of the rounds played; and, which is the heart of
it, that behind the last regular round every even round began with level scores.  So a lead of two, which
HM_is_game_over accepts without asking for the parity, cannot come about in an odd round.

For `CTFFlag` it proves `FlagHasItsCarrier` and `OneOfEachRune` for every set of players, any two teams of them and any set of
runes.  `CtfInv` adds what makes them inductive: until a toss is caught, a flag whose think is FlagResetOwner is not a
carried one, so the owner that think clears is nobody's; and a rune lies nowhere exactly if some player has it, who is
alive and has no other.

For `Items` it proves `UsedUpFirst` for any players, boxes and drops, provided that the map's quad waits at least twice as
long as it lasts, as `ItAssumption` says of the constants of the code (60 s and 30 s).  `ItInv` says without counting that, as
long as no taken drop has been revived, there is one quad: if one is in use or lies dropped, the map's own is away, and waits at least as long as the one in use lasts.  With
killquad the map has none.  A box that rots is owned by whoever has too much health.

For `Bloodfest` it proves `BfTypeOK` and `OneLifeEach`, the half of `OneLife` that is no liveness: `TheReadyLive` says that
in a round the living are among those who were ready, also while StartMatch puts them into the server one by one, and
`Few` that there are never more monsters alive than the limit.

`ArenasProof` proves `OnePlaceEach`, `OnlyFightersBleed` and `LineKeepsOrder` for any set of clients.  `ArenaInv` adds to
the first two what makes them inductive: there is no fight but in a running match, and who has a part is not dead, also
while the arena waits between two fights.  The line is a sequence of clients without a bound on its length; lemmas say
what taking one out of it and appending one does to its members and their order, and that two such steps compose.  The
frame is proved fill by fill, as ra_Frame takes the winner from the line before the loser.

For `ClanArena` it proves `OutsidersStayOut` for any players of the two teams.  `ClanInv` says that who is in limbo in a round
has a spawn left; that when the next round counts down nobody is in limbo, and whoever is alive, or dying because he was
telefragged, has a spawn left; and that the second half of the pause is the only time in which anyone may be alive.

`SurvivorsScore` proves `PointForTheSurvivors`.  Its invariant `Settled` follows the pause: who is alive in it is of a team
that has not lost, and once it has begun to run nobody is dying and nobody alive can be hurt.  So CA_CheckAlive, which
lets who respawns in the second half of the pause be alive, finds nobody dying.  The hypothesis `CaLaggard = {}` is what
that needs: a dead client whose frames do not come is respawned in the second half, and if then his opponents leave,
CA_Frame gives his eliminated team the point.

`ClanTypes` needs an invariant of its own, `InCount`: deaths and
times in limbo are bounded because who is alive, dying or in limbo always has a spawn left.

`ElectionProof` proves the invariants and the action property of `Election` for every number of slots.  As the code's
functions are operators on a record, the proof has a lemma for what each of them does to the fields, and the invariants
are carried through the calls inside one action.  There are four, each needing those before it:

* `TurnInv`: after the first pick the captain who made it leads and the other is in turn, and so on by pairs, so no
  lead grows beyond one (`FairPicks`).  It needs no assumption, and with the field lemmas it gives `CaptainsAreElected`.
* `ElectInv`: either there is no guard, no candidate and no vote, or one guard and one candidate, who votes for himself
  (`ElectionsAlone`).
* `CapInv`: captains are players with numbers and teams of their own, who stands has a number and a team left for
  him, and `k_captains` is the sum (`ElectionTypes`, `CaptainsCount`, `TwoCaptainsPick`).  Between BecomeCaptain and the
  AbortElect that follows it the new captain still stands, so a function in between keeps only a part of it.
* `NumInv`: who has a number, and that without two captains nobody has one (`NumbersCall`).  It needs that the captain in
  turn is somebody, from `CapInv`; otherwise the last free player would keep his number.

All but the first two theorems assume `Codes \subseteq Viewers`, that no player has the admin code, and `NumbersCall` also
`Fast = {}`, that nobody shows his speed as frags.  They hold in clan arena and outside, except that there captains may share
a team and the numbers are not claimed (section 4).  Without the two assumptions the code breaks the invariants, as the runs `election_code`
and `election_fast` show; the runs that pass use constants that meet them.

`ScoresProof` proves `ScoresAreKept` and `OvertimeDecides` for any players, teams and settings.  `ScInv` says for the first
that a name in use belongs to one ghost and to nobody who is there, that no number is in use that was not given out
(`Numbered`), and that what a player has made is in his frags or in those of his ghost (`KeptFor`).  For the second,
`Overtimes` says that the cached scores, when they count as fresh, are those the frags give (`Accurate`); that on a locked
server only the two who began a duel play or have ghosts (`Duelists`); that the sides are level while a sudden death of the
normal kind goes on; and that the snapshot of golden frag is the lead after the last death, unless it was one the
opponent did not see.  `OvertimeIsDecided` has the hypothesis `ScTeleDeath`, the default of `k_tp_tele_death`; without it,
as said in section 4, the death of a teammate ends a sudden death with level scores.

`MapVoteProof` proves `MapByMajority` for any slots, spectators, admins and maps, and any percentage above a half.
vote_get_maps counts while it walks along the slots, and an admin's vote may take the lead from the map with most; the
lemmas follow the walk slot by slot: after each slot the counters are the votes up to there, and without an admin the
map ahead has most of them.

`RaceProof` proves `TimesRank` and `Unassailable` for any seats, rounds, records and limits.  `RaceInv` says that a place is
no greater than the number of those who had finished, at a time that has passed; that those who have finished and those
who still race are not more than those who started; and that the records are in order and without repeated names, which
TopScore keeps by putting a time where it belongs and moving the others down by one.  It is carried through the calls in
which the end of the last run starts the next race.  For `Unassailable`, `RaceDecided` adds that the two whose points are
compared (`KnowsPair`) are there and not the same; its hypothesis `RaceDuels` is that the duel modes have two seats, and
`race_lead` shows what happens with three.

Composition.  `MCModes` is a server that plays one of nine game types.  `OneAtATime` proves that it implements the
specification of every component: each starts in its own Init, resting or not, and a step of the server is one of one
component and leaves the eight other records alone.  With it what is proved of the components holds of the server that
the run `modes` checks: `ModesTypes`, `ModesInvariants` and, under the three hypotheses above, `ModesDecide`.  The specifications
with fairness (`ArenaSpec`, `ClanSpec`, `RaceSpec`) are split for this: `ArenaSafety`, `ClanSafety` and `RaceSafety` are
their first two conjuncts, and the theorems are about these, so they hold with fairness and without.

Induction.  The library's induction theorems take an operator as a parameter, which the installed provers cannot
instantiate.  Facts about folds over sets and about counts are proved by a least counterexample instead: `FoldProof` takes
a minimal set, or the least number, for which the fact fails (`WFMin`, with the well-founded orders of the library) and
derives a contradiction.

Assumptions that were tightened for the proofs: `ItAssumption` says that a powerup shown again waits no longer than one
that was taken (30 s and 60 s in the code), without which its clock would leave its range.

Only model-checked: liveness (`CountdownEnds`, `ClockRunsOut`, `ForceResolves`, `ElectionsEnd`, `AFightFollows`, `PauseEnds`,
`TurnComes` and the second half of `OneLife`), which is beyond the prover.  Every other property of a passing run is a
theorem.

## 6. Plan

Done: `Match`, `MatchLife`, `Election`, the game types, `Scores`, `MapVote`, `Items`, `Bloodfest`, and the theorems of section 5.  Left,
in this order:

1. The team mode of `Hoony`, route ends and team races of `Race`.
2. Coaches as a second kind of candidate in `Election`; suggestcolor and late join as elections without counters.
3. The random pickup with its rerun, backpacks, doors.

## 7. Not modelled, and why

Combat, movement, weapons, monsters and bots compute with floats and geometry frame by frame, which TLC cannot enumerate
and no property here refers to; of the monsters only those of bloodfest are counted; of the items those are modelled that must not be there twice, and armor, weapons, ammo,
backpacks, doors, plats and triggers are not.  Statistics, logs, reports, messages and most commands read the state and
print it.  Of the votes, the random pickup draws teams at random, and those that switch one setting (swapall, nospecs,
overlay, antilag, hook, coop, private game) are a counter compared with a percentage, as the vote to break is.  Coaches
have a counter that decides nothing else.  The captures of CTF count for the score and are left out of `Scores`, as are
midair and damage frags; the practice mode suspends most of the match logic.  Spawn spots and the megahealth of special
maps are geometry.  The build, the tools and the tests are not part of the server.
