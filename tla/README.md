# cjong4: specification and verification

This directory holds TLA+ models of cjong4, a C11 library that runs four-player
riichi mahjong, the TLC configurations that check them on small instances, and
proofs checked by TLAPS. Paths are relative to the repository (`src/core/...`
is `src/src/core/...` seen from here).

## 1. The system

The library is a set of pure functions on one value, `cj4_mahjong`. There are
no threads, no allocation and no persistence; what makes it hard is the *order*
of the transitions, the amount of state that must agree between them, and the
answers of four players which are collected one by one and resolved together.

| component | code | state | operations | hard behaviour | what must hold |
|---|---|---|---|---|---|
| Round flow | `src/core/state_*.c` except settle, yaku, rules | phase, current player, riichi and furiten bits, pending riichi, pending kan, wall position, dora counters, tile locations | `cj4_do_discard`, `_riichi`, `_tsumo`, `_kyuushu_kyuuhai`, `_ankan`, `_kakan`, `_chi`, `_pon`, `_minkan`, `_ron_multi`, `_pass`, `_rinshan_draw` | a declared riichi or kan stays pending over the reactions; a pass may abort the round for several reasons; four counters must follow every kan | hands stay full, the wall suffices for every admitted kan, riichi is paid once, furiten and ippatsu last exactly as long as they should, the round ends |
| Manager | `src/manager/manager_flow.c`, `manager_actions.c` | the answers collected within one `cj4m_step` | ask, select (with fallback), rank, apply | callbacks return anything, seats may be empty, claims compete | the strongest claim wins, no answer can stop the round |
| Settlement and game | `src/core/state_settle.c`, `state_round.c` | scores, sticks, honba, winds, end flag | `cj4_do_settle`, `cj4_do_next_round`, `cj4_do_game_end` | rounding, liability (pao), several winners, several ways for a game to end | no point is created, the deal rotates, the game ends when it should |
| Points | end of `src/core/state_yaku.c` | none | han, fu, yakuman to payments | limits and rounding | used by the settlement |
| Yaku, han and fu | `src/core/state_yaku.c` | none | value of a hand | best decomposition of a hand | the best value is found |
| Hand check and hand analysis | `hand_check.c`, `hand_analysis.c` | none | complete?, waits, shanten | two searches over the same divisions | agrees with the definition |
| Tile locations | `location.h`, `state_query.c` | four bytes per tile | collect hand, discards, melds, dora | a tile must be in one place | the invariants of `doc/architecture.md` |
| Liability (pao) | `state_ops.c:124` | two bytes | set when a meld completes three dragons, four winds or four kans | must not change later | the first liable call is kept |
| Player view | `src/manager/player_view.c` | none | mask a state for one player | what is public changes with the phase | hidden tiles stay hidden |
| Rules | `src/core/rules.c` | none | presets, validation | | |

How they interact: the caller's loop (`README.md:180`) calls `cj4m_step` until the
game is over and supplies a wall between rounds. `cj4m_step` calls the delegates
(callbacks of the caller, with a player view and the offered actions) and then
one `cj4_do_*` transition. A round that reaches `ROUND_END` is settled by the
next step; `SETTLE` is left by `cj4_do_next_round` or `cj4_do_game_end`.

The hazards this leads to are listed, each at its line, in `PROJECT.json`.

## 2. The modules

| module | models | extends |
|---|---|---|
| `RoundFlow` | one round, from the deal to `ROUND_END`; tiles are counted | |
| `Manager` | `cj4m_step` within a round: asking and resolving | `RoundFlow` |
| `RoundContract` | abstract: what a round promises to the game; `RoundFlow` implements it | |
| `Tiles` | tile types, suits, numbers | |
| `TileTable` | a round with its tiles: the four bytes of each, liability, kuikae | `RoundFlow`, `Tiles` |
| `PlayerView` | what a player is shown of it | `TileTable` |
| `HandCheck` | complete hands | `Tiles` |
| `Hands` | shanten, waits, tenpai; one hand that draws, discards and melds | `HandCheck` |
| `Points` | value of a hand to payments | |
| `Score` | yaku, han and fu of a winning hand, when declared and when settled | `HandCheck`, `Points` |
| `Game` | rounds, settlement, next round, end of the game | `Points` |
| `RoundFlow_proofs` | types of a round; hands, melds, walls, discards, indicators; aborts on four kans, the last discard | `RoundFlow` |
| `RoundFlow_results` | riichi, ippatsu, furiten; first go-around, robbed kans, winners; the turns of one player; the round implements its contract | `RoundFlow_proofs` |
| `Manager_proofs` | driven rounds are rounds; the strongest claim wins, only declining is punished | `Manager`, `RoundFlow_results` |
| `TileTable_proofs` | rounds with tiles are rounds; a caller can discard; the tiles agree with the round; views only grow; who is liable | `PlayerView`, `RoundFlow_results` |
| `Game_proofs` | points, debt, seats and overtime of a game; who pays for a win | `Game` |
| `HandCheck_proofs` | what a complete hand is: sums over tile types, one cut of the search, a hand as cuts from any tile on | `HandCheck` |
| `Hands_proofs` | shanten is the best division; what one tile changes; who is tenpai | `Hands`, `HandCheck_proofs` |
| `Score_proofs` | a win has a score, the same when declared and when settled; the most a cheap hand earns; no division of it scores better | `Score`, `HandCheck_proofs` |
| `MCRoundFlow`, `MCManager`, `MCGame`, `MCHands`, `MCScore`, `MCTileTable` | constants of the runs | the module of the name (`MCTileTable`: `PlayerView`) |

How they compose: `Manager` and `TileTable` both refine `RoundFlow`, one by adding the
players' answers, the other by adding the tiles; `RoundFlow` refines
`RoundContract`, which is what `PlayRound` of `Game` takes from a round. `TileTable` takes the
hand check as a parameter, `Complete`, which the run gives it from `HandCheck` and
about which the proofs assume nothing.

An operator `Bug_X` in a module is a plausible wrong variant of a definition
after it. No specification uses one; replacing the definition by it makes a
property fail (the pairs are in `PROJECT.json`, "mutants").

### RoundFlow

Each action is one `cj4_do_*` function *together with* the `cj4_can_*` predicate
that admits it. `cj4_do_pass` is three actions (abort, exhaustive draw, next turn)
that share `PassReactions`; ankan, kakan, minkan, ron and the resolution of a kan
have an alternative that aborts the round. Calls the code makes inside a
transition are operators of the same name: `EstablishPendingRiichi`
(`state_ops.c:236`), `RevealPendingKanDora`, `RecordDiscard`, `AddMeld`,
`FinishDrawRound` and so on.

The state is `cj4_mahjong` without the identity of tiles:

* a hand is its number of concealed tiles, a player's melds are counted by kind,
  the discards are counted by player;
* `draw_tile` and `pending_kan` say whether `draw_tile`, `pending_kakan_tile` and
  `pending_ankan_tile` hold a tile;
* sets of players stand for the bit fields (`riichi_ippatsu`, `furiten`, the low
  half of `double_riichi_pending`, `winner_mask`);
* `ready` is the set of players whose hand wins on the tile being offered. The
  model chooses it when a tile is offered, among `Waiters`, and keeps it until the
  tile is resolved, as the tile and the hands do in the code. `CanRon` takes away
  the discarder and everybody marked furiten. A player who is furiten by his own
  discards is a player not in `ready`.

What depends on tile faces is chosen by the environment: does a tile fit a meld
(`Callers`), is the hand tenpai or complete (`Waiters`), did everybody discard the
same wind. Every behaviour of the code is a behaviour of the model; the model
has more, since it lets a player be ready whenever it likes. Safety properties
that hold of the model hold of the code.

`cj4_state_add_meld` returns silently when all meld groups are taken and
`cj4_state_record_discard` does so when the discard history is full. Both are in
the model (`AddMeld`, `RecordDiscard`), and `HandsBalanced` and `DiscardBudget`
say that they never happen.

Left out: the chankan bit, which no stored state has set (`cj4_can_ron` sets it in
a scratch copy). The pao bytes and kuikae need faces and are in `TileTable`.

### RoundContract

The abstract specification of a round: players stake for a riichi, each once and
only what they have, then the round ends once with a result that `cj4_do_settle`
knows: winners, an exhaustive draw, or an abort for a reason. Its variables are
`RoundFlow`'s variables of the same name; everything else is hidden. `RoundFlow`
instantiates it (`Contract == INSTANCE RoundContract WITH ...`) and states
`KeepsContract == Contract!Spec`, which a run checks and TLAPS proves.

### TileTable

The library keeps no hands, rivers or melds. Each of 136 tiles has four bytes: its place
in the wall, its discard (who, which of his discards, drawn or held), its placement
(hand, or meld with group and kind) and its entry in the discard history. Everything
else is collected from them, and so it is here: `HandOf`, `RiverOf`, `MeldsOf`.
The bytes are numbers laid out as `location.h` does, since the same byte is read by
several tests (`IsHand`, `IsMeld`).

Every action is an action of `RoundFlow` conjoined with the bytes it writes and with the
conditions on faces that `RoundFlow` leaves to the environment: `MayDiscard`
(riichi, kuikae), `CallHasLegalDiscard`, the tiles of a sequence, triplet or kan,
nine orphans, four equal winds, complete hands and waits. A hand without yaku may not
win; that is the one thing still chosen (`ready' \in SUBSET MayWinWith`).
`Kuikae` is `cj4_state_is_kuikae_discard`, `AddMeldTiles` is `cj4_state_add_meld` with
`UpdatePao`, `KeepsWaits` is the condition on a closed kan in riichi.

A tile's name matters only by its type, so a call takes the first of equal tiles
(`FirstOfTheirType`). `PartsWith` bounds what players discard: tiles the deal names,
while there are any, else the tile just drawn.

### PlayerView

`cj4m_make_player_view` copies the bytes of each tile and masks them. `WallVisible`,
`IsShown` and `ShownTo` are its conditions, tile by tile. The fields it copies
unmasked (scores, phase, winds) are not repeated.

### Hands

The library asks two questions of a hand with unrelated code. `hand_check.c`
(`HandCheck`) divides it into melds and a pair, or looks for seven pairs or
thirteen orphans; who may win rests on it. `hand_analysis.c` (`Hands`) minimises
8 - 2 melds - blocks over all ways to cut the hand, takes the minimum over three
forms and derives waits and tenpai from it; riichi, furiten, a kan in riichi and
the tenpai payment rest on it. The state machine plays one hand alone: `Draw`,
`Discard`, `Pon` and `Ankan` change it as the round does, so that the properties see
hands that follow each other.

### Score

`Score` follows a win through its two evaluations: when it is declared, from the
state as it stands, and when it is settled, from a state rebuilt out of what
`ROUND_END` left (`cj4_yaku_prepare_round_end_state` restores phase, chankan and drawn tile). It models each yaku,
the fu, dora with ura and red tiles, all readings of a hand (divisions, and the
groups the winning tile may stand in) and the choice among them.


### Manager

One call of `cj4m_step` is a sequence of steps here, because the delegate is a
callback and the answers of the players are what a test does not enumerate:
`Ask` is one question and answer, `SkipCurrent` passes over the discarder, and
`Resolve` carries out one claim. The loop variables of `cj4m_step_discard_phase`
are state (`ron_players`, `best_call`, `best_chi`); `answers` is a history variable
the properties refer to. During the reactions the phase does not change, so one
call of `cj4m_step` is exactly the steps from `player = 0` to `Resolve`.

`Offered(p)` is what `cj4m_collect_actions` offers. A delegate may return anything;
`cj4m_select_action` replaces what was not offered by PASS where PASS was
offered, or else by the first offered action, so that every answer that counts
is an offered action. A seat without a delegate passes: over an offered tile that
is an answer, on its own turn it does nothing (`TurnStep` needs
`current_player \in Seated`).

### Game

`PlayRound` is a whole round in one step and chooses any outcome a round may
have: who won on whose tile with which hand value and liability, or who was tenpai
and whose discards make nagashi mangan, or an abort; and which players paid for a
riichi. `Settle` is `cj4_do_settle` in full: payments (`TsumoPayments`,
`AllRonPayments`, `NagashiPayments`, `NotenPayments`), deposited sticks, dealer and
wind of the next round, honba with its byte width, and the end of the game
(`ShouldEnd`, from `cj4_settle_determine_progress`). `NextRound` and `GameEnd` are
the two transitions that leave `SETTLE`.

`Points` turns han, fu and yakuman into base points and payments as
`cj4_yaku_fill_basic_points` and `cj4_yaku_finalize_points` do. How a hand gets its
han and fu is in `Score`; `Game` chooses values.

Not modelled: a `NULL` rules pointer and rules of version 0.

## 3. The runs

| run | question | properties |
|---|---|---|
| `round_kans` | do kans, rinshan tiles, dora indicators and the four-kan abort stay in step? | `TypeOK`, `HandsBalanced`, `KanSupply`, `NoKanDoraLost`, `FourKansAbortAtOnce`, `FourKansEndTheRound` |
| `round_riichi` | do riichi, ippatsu, furiten, the aborts of the first go-around and the winners agree, and is the contract kept? | `RiichiPaidOnce`, `FirstGoAround`, `RiichiFlagsAgree`, `RobbedKanKept`, `ResultConsistent`, `IppatsuWindow`, `DeclinedRonIsFuriten`, `KeepsContract` |
| `round_end` | does every round end, within the wall and the discard history? | `DiscardBudget`, `LastDiscardEndsTheRound`, `TurnsGoRound`, `RoundTerminates` |
| `manager_claims` | is the right claim carried out, and only a declined ron punished? | `StrongestClaimWins`, `OnlyDecliningIsPunished` |
| `manager_seats` | can an answer or an empty seat stop a round? | `EndsOrWaitsForEmptySeat` |
| `game_money` | does any settlement create or lose points, or pay a bystander? | `PointsConserved`, `LosersNeverGain` |
| `game_progress` | do deal, wind, overtime and the end of a game follow the rules? | `NobodyPlaysInDebt`, `OvertimeMeansNobodyWon`, `RoundWithinExtension`, `SeatsRotate` |
| `game_ends` | does a game end? | `GameEnds` |
| `game_penalty` | is the noten penalty the total that the README says? | `PenaltyIsTheTotal` (violated) |
| `tiles` | do the bytes of the tiles add up to the round; who is liable; can a caller discard; does a view keep what it showed? | `TilesAgree`, `CallerCanDiscard`, `LiabilityNamed`, `ViewOnlyGrows` |
| `hands` | do the two searches over a hand agree, and is shanten a distance? | `CompletionAgrees`, `TenpaiWaitsForSomething`, `SomeTileHelps`, `OneTileIsOneStep` |
| `score` | is a win paid what it was worth, by its best reading, in every suit? | `ScoredAsDeclared`, `NoBetterReading`, `SuitsAlike`, `MostFuIsWithinMangan` |

Bounds, and why they suffice:

* `LiveTiles` (69 in the library): 5 in `round_kans`, so that a fifth kan (which needs
  no tile) and the last live tile as a rinshan replacement both happen; 7 in
  `round_riichi`, the smallest wall where all four can declare riichi with their first
  discards (each needs four tiles left), and a player in riichi still draws, passes a winning tile and may rob a
  kan; 4 in `round_end`, where the wall ends in every mixture of
  draws, calls and kans. All guards compare the wall with 0 or 4 only.
* `MaxMelds` (4): 4 in `round_kans`, where one player must be able to make four kans
  or two players share them; 1 elsewhere, which keeps hands at four tiles. The only
  uses of the number are the full hand and the guard of `AddMeld`.
* `MaxDiscards` is the smallest that the assumption `MaxDiscardsAssumption` allows for
  the other bounds, as 86 is the smallest for 69 live tiles and 16 melds.
* `Callers`, `Waiters`, `Declarers` limit who may meld, win or declare: two callers are
  enough for four kans by several players; all four may declare and win in
  `round_riichi`, so that four riichi, double and triple ron happen.
* scores are 1000 or 0 in the round runs: a player can pay one stake or none.
* `Game`: `MaxHonba` is how often in a row a dealer may keep the deal (`PlayRound`
  refuses another continuation), `LastSeat` is the last seat a round is played in.
  `game_money` plays the first seat with every outcome of four players, all
  liabilities and both honba values: the money of a settlement depends on the seat
  only through who deals. Progress runs use low initial scores (3000, 4000) and one
  hand value, so that debt, the target and overtime come up within few rounds, and
  scores stay finitely many.

* `tiles`: four walls of 75 tiles (the deal, `LiveTiles` = 8, the whole dead wall), on each
  of which player 1 alone calls and wins, which keeps the round small while the other
  three feed it. `Dragons4`: three dragon pons from three players, a kakan, and a chi
  that kuikae refuses because 4566 would be left. `FourKans`: four kans by one player,
  each a pon with a kakan or a minkan, a closed kan of another, the abort. `Orphans13`: thirteen
  orphans that robs a closed kan, nine orphans. `EastWinds`: four equal winds, a
  riichi, a closed kan in riichi, a win. All actions fire.
* `hands`: sixteen types, the orphans and the rest of one end of a suit. Closed hands of
  the shapes that are hard to tell apart (orphans, pairs, four of a kind), and every
  open hand of seven tiles over four types in a row whose counts are 0, 1, 3 or 4, or of
  four tiles over three in a row and an honor. One drawn or melded tile follows each deal
  (`MaxSteps`), with its discard or closed kan; the properties relate a hand to the next only.
* `score`: five thousand wins put together from groups and a pair, with every place
  of the winning tile, in the circumstances that matter to the groups, under two sets of
  rules with opposite options. A hand knows how it was put together, which is what
  `NoBetterReading` compares with; `SuitsAlike` scores its image in another suit, mirrored.

Deadlock is not checked because these systems stop: a round at `ROUND_END`, a game
at `GAME_END` or at `LastSeat`, a driven round at an empty seat, a hand or a win when
it has been played out. That rounds and games stop
nowhere else is what `RoundTerminates`, `EndsOrWaitsForEmptySeat` and `GameEnds` say.

Fairness: `FairSpec` and `MFairSpec` add weak fairness of the whole next-state
relation. It says that the caller keeps stepping (the loop of `README.md:180`) and
that delegates return. No single action is assumed fair: a player may decline every
win and every call for ever.

### What the runs found

* `cj4_settle_apply_draw` (`state_settle.c:475`) divides the noten penalty by the
  number of tenpai and of noten players and drops the remainders.
  `cj4_rules_validate` admits 1000, of which three tenpai players get 999, while
  `README.md:245` calls the rule the *total* of the penalty. Run `game_penalty`.
  `PointsConserved` is therefore stated for penalties that divide by three.
* Worth knowing, and not contradicted by a document: a player whose winning tile
  is melded by somebody else does not become furiten (only `cj4_do_pass` and
  `cj4_do_rinshan_draw` mark it, so `DeclinedRonIsFuriten` excludes calls); a kakan
  breaks all ippatsu when it is declared, an ankan only when it is completed; a
  delayed kan dora stays hidden when the rinshan tile wins; an exhaustive draw with a
  noten dealer resets honba; the sticks left at the end of a game go to nobody.
* About liability (`state_ops.c:124`), likewise: only the first is kept, so a player whose
  three dragons were fed has no second liable player for four kans; when one's own
  closed kan completes the hand nobody is liable, but the next fed meld, related or
  not, is then blamed; a kakan blames the player who fed its pon.

## 4. The proofs

Every invariant and every action property that the runs check is proved for every value of the
constants: every wall, wall length and number of melds, every set of rules, initial
scores, choice of callers, waiters and seats, every hand and every win. The
assumptions are named in the modules:

* `RoundFlow`: `LiveTilesAssumption` ... `PeopleAssumption`; `Manager`: `SeatedAssumption`.
* `TileTable`: four meld groups; no place of the wall taken twice
  (`WallAssumption`); the live wall stops before position 122, where the dead wall begins
  (`LiveWallAssumption`: 53 tiles are dealt, and 69 is the library's length). Nothing is
  assumed of `Complete`.
* `Game` (`GameAssumption`): rules and hand values are records of natural numbers, and
  a dealer keeps the deal at most 255 times in a row, so that the honba byte never wraps.
* `Hands`: a deal is a hand whose tiles and melds add up to thirteen (`DealsAssumption`);
  the types of an instance include the orphans, and with two types that make up a taatsu the
  third of a sequence (`BlocksAssumption`; all 34 types do).
* `Score`: a win is a hand of fourteen tiles, melds counted as three, with its winning tile,
  and a chi begins with a tile that begins a sequence (`WinsAssumption`); one to three winners; rules are booleans. The `reading` a win carries for
  `NoBetterReading` is a division of it (`DivisionAssumption`).

Each inductive invariant was checked by TLC on a run before it was proved.

### The round

Each module adds a part to one inductive invariant, `RoundInv` in the end:

1. `RoundFlow_proofs`: `TypeOK` is inductive by itself (`TypeCorrect`).
2. Also there, `Accounts` is inductive (`AccountsBalance`). It consists of
   `HandsBalanced`, `KanSupply`, `NoKanDoraLost` and `DiscardBudget`, none of which is
   inductive alone, and of three parts that no run checks. `MeldLimit`: nobody has
   more melds than groups, which bounds the open melds in `DiscardBudget` and so shows
   that the history never fills (`HistoryNeverFull`, a fact about 69, 16 and 86 that
   no test plays out). `DeclaredKan`: a declared ankan is still in the hand, so that
   its resolution finds a free group. `DelayedDoraIsOpen`: an indicator is delayed for
   an open kan only, because `cj4_do_riichi` reveals nothing and would otherwise carry
   one past its discard. The parts lean on each other: a full hand means a free
   meld group (`RoomForAMeld`), which means that no meld is dropped, which keeps hands
   full; the wall and the melds bound the discards, so no discard is dropped; the guard
   `CanDeclareMoreKans` with the count of kans means that the resolution finds both
   tiles. From the accounts follow `FourKansAbortAtOnce` (by induction),
   `FourKansEndTheRound` and `LastDiscardEndsTheRound` (step by step).
3. `RoundFlow_results`: `Stakes` is inductive: `RiichiPaidOnce`, `RiichiFlagsAgree`, and
   `DeclarerNotFuriten`, which neither says: whoever draws, and therefore whoever
   declares, is not temporarily furiten, so that establishing the riichi later never
   meets a furiten mark. From it follow `IppatsuWindow` (a declaration also discards,
   and only `RiichiFlagsAgree` tells that the declarer has no ippatsu to lose) and
   `DeclinedRonIsFuriten` (which needs the accounts: only they tell that a minkan
   changes the melds). `Results` is inductive: `FirstGoAround`, `RobbedKanKept`,
   `ResultConsistent`, and `FirstTurns`, which says who has drawn and discarded what in
   the first go-around, and that once it is over without a call everybody has
   discarded (so that a double riichi is refused rightly). The head bump leaves at most
   `max_ron_players` winners because all but the furthest are closer than that one.
4. Also there, `TurnsGoRound` counts the discards of every player against the turns
   gone by; with the wall it bounds the discards of one player, so that their index fits five
   bits when the wall has 69 tiles (`OwnDiscardsAlwaysFit`). `RoundKeepsContract`: every step
   of a round is a step of `RoundContract`; it takes `RiichiPaidOnce`, which tells that
   a stake is paid by a player who has it, and `ResultConsistent`.

### The manager

`Manager_proofs`: every step of the manager is a step of `RoundFlow` or leaves the
round alone (`ManagerRefinesRound`: `MSpec => Spec`), so that all of the above holds of
driven rounds (`DrivenRoundsAgree`), whatever delegates answer. `AskInv` says what the
locals of `cj4m_step` are while the questions go round (`AnswersInvariant`): every recorded
answer was offered, `ron_players` are those who answered so, `best_call` is the closest pon
or minkan so far, and there is at most one chi, since only the next player is offered one.
With it a resolution can be read off the answers (`StrongestClaimAlwaysWins`), and a furiten
mark leads back to an offered ron that was not taken (`OnlyDecliningEverPunished`). The
offers stay what they are while the questions go round because asking leaves the round alone.

### The tiles

`TileTable_proofs`: `TableRefinesRound` (`TableSpec => Spec`), so that all of the above
holds of a round played with tiles. `CallerAlwaysCanDiscard`: a chi or pon is admitted only
when a scratch copy has a legal discard, and the bytes after the call are those of that
copy; the caller is never in riichi, because only the riichi of the discarder is
established by the call, which `Stakes` tells.

`TilesAgree` is what the runs check, and is not inductive: it counts groups and tiles but
does not tell how a new group gets a free number. The inductive `TableInv` has three parts.
`Board`: the groups of a player are numbered from zero, each byte of a group has one kind,
each group has the size of its kind and one called tile unless it is closed (`Grouped`);
tiles in a hand were never discarded; what the walls have not given is nowhere.
`Logged`: discard index and history entry come in pairs, rivers and history are numbered
from zero without a gap. `NamedTiles`: the tile drawn, offered or declared for a kan is where
the round takes it from. It leans on `RoundInv` (that a free group exists) and on
`OwnDiscardsAlwaysFit` (that an index fits its bits). Collecting anew from the bytes is what
the library does for every meld and discard; `TableInvariant` says that it always finds what
the round has.

The last part takes from the same step lemmas *how* each step moves tiles
(`TableMoves`: they stay, one is parted with, one is drawn, some are melded), and
states it tile by tile (`TileMoves`). Along it `ViewsOnlyGrow`: a
tile shown by its river or meld moves only to where it is shown as well. And
`LiabilityAlwaysNamed`, by `LiabilityInv`: who has a liable player has a big hand among
his melds, whereas the converse is false (a closed kan may complete it). A step changes at most one
group of one player (`MeldsMove`), a kakan keeps the group it grows from, and a big hand once
melded stays one (`BigHandStays`), so that the first liability is also the last.

### The game

`Game_proofs`: `GameInv` is inductive (`GameInvariant`). The four invariants that the runs check
are not, together, because they speak of a round that was decided one step earlier:
`NextRoundPrepared` says what `SETTLE` must have left for `NextRound` (no debt, the seat that
follows, no winner in overtime), and `HonbaWithinBound` keeps honba under its byte.

* `PointsAreConserved`: the payments for each winner sum to zero whatever is shared (`TsumoBalanced`
  and its like for a ron, a draw and nagashi mangan), and the sticks go to one player. A noten penalty that three divides
  is divided without remainder by 1, 2 and 3; for others the run `game_penalty` shows the loss.
* `LosersNeverEverGain`: nothing is ever paid to a loser, and the share of a liable player is at
  most what the loser owed.
* `SeatsAlwaysRotate` follows from `NextRoundPrepared`; the other three from `GameInv`.

### The hand

The searches are functions over levels: level *n* is what *n* cuts can reach. A search is
therefore reasoned about level by level, with an invariant of what is cut off and what is left
(`HandCheck_proofs`: `StandardStep` and its converse).

`Hands_proofs`: `HandInv` says that tiles and melds add up to thirteen, one more while a discard is owed.

* The levels reach exactly the divisions of a hand into blocks and single tiles (`Parts`,
  `IsDivided`), so that `StandardShanten` is the best division (`StandardIsBest`). From there
  the search can be forgotten.
* `OneTileAlwaysOneStep`: a tile more is left single in any division (`AddLone`), a tile less
  shrinks the block it was in (`Shrink`), and each changes 8 - 2 melds - blocks by one at
  most (`StandardDraw`). Seven pairs and orphans count types (`ChiitoitsuDraw`, `KokushiDraw`).
  What the player is told is the minimum of the three (`RawDraw`, `OwingShanten`, `Told`).
* `SomeTileAlwaysHelps`: in a division that is not tenpai some block of two or some single
  tile grows (`Grow`), and there is one because blocks of three and two do not use up the hand
  (`LonesExist`); the same for the other forms (`SevenPairsCloser`, `KokushiCloser`).
* `CompletionAlwaysAgrees`: shanten is -1 exactly if the hand divides into melds and a pair, so
  the search of `hand_analysis.c` and that of `hand_check.c` agree; `TenpaiAlwaysWaits` is the
  same one draw earlier.

### The score

`Score_proofs`: `ScoreInv` says that a declared win was complete with a yaku, and that
`Prepared` rebuilds the context it was declared in, from phase, winners and pending kan alone.

* `ScoredAsDeclaredHolds`: a partly divided hand that can be completed stays so after some cut
  (`CompletableStep`), so a complete hand has a reading (`ReadingExists`); readings are finitely
  many and ranked by numbers, so there is a best (`BestExists`). With the same context both
  evaluations choose the same.
* `MostFuIsWithinManganHolds`: groups, pair and wait give at most 128 fu (`ShapeFuBound`), which
  with one han is still within a mangan, and from three han on the code tests for it. With two,
  more than 120 fu would be too much; that takes three quads *and* three concealed triplets, each
  worth two han of its own, or four quads, a yakuman (`TwoHanShape`).
* `NoBetterReadingHolds` is proved of every division (`IsDivision`), however its groups are listed.
  The search always cuts at the first tile left, which belongs to the pair or begins a
  group that is still due (`FirstBelongs`); so some reading found has the same groups in the
  order of their first tiles (`EveryDivisionIsFound`). Yaku and fu do not depend on the order
  (`RearrangedYaku`, `RearrangedFu`). A hand scored as thirteen orphans has no division at all.
* `SuitsAlikeHolds`: two hands are twins when each is the other's image (`AreTwins`, `TwinsBack`),
  so one direction is enough. Whatever the search finds is a division (`ReadingIsDivision`);
  turned, it is a division of the twin (`TurnedDivision`), whose search finds it by the
  argument above, with the same yaku, han and fu (`ReadAlike`). The check of a standard hand is
  carried over the same way (`ReadingShowsStandard`, `TwinComplete`). Both sets of scores are
  then equal (`TwinScores`), and so is the best.

### Only model-checked

* Everything under fairness (`RoundTerminates`, `EndsOrWaitsForEmptySeat`, `GameEnds`): liveness
  is out of reach of the prover.

## 5. Plan

Done: a round with its contract, its manager and its tiles; the view; hand check and
analysis; score, points, settlement and the game. Every safety property of all of these
is proved, and so are the two refinements of a round and the contract it implements.

Next, in this order:

1. A result of `RoundFlow` is an outcome of `Game`: `RoundContract` as what `PlayRound` takes from
   a round, stated as a refinement and not only by the common names.
2. `Points`: that the payments of a hand never fall when han or fu grow.
3. Rules: the presets and `cj4_rules_validate`, which the assumptions about rules rest on.

Not modelled:

* the public lists of yaku (`cj4_yaku_append_public*`, `cj4_collect_winning_results`),
  which report what was computed;
* the collection of a player's counts from a state or a view and its validation in
  `hand_analysis.c`;
* the layout of the flag and counter bits (fields are variables; only the location
  bytes are laid out), and the tables of tile names and red fives;
* the presets of `rules.c` and the validation of rules, constant tables; a `NULL` rules pointer and
  rules of version 0;
* honba beyond 255 (`state_settle.c:621`): `Settle` wraps it as the code does, but runs
  and proofs end where a dealer has kept the deal `MaxHonba` times;
* the example programs and the build.
