# A TLA+ verification of the muc server

The repository holds a Korean MUD ("Murim Online") ported from Python to Rust.
One process serves telnet connections: a tokio task per connection reads lines,
logs the player in and runs commands, most of them Rhai scripts; a game loop
ticks once a second over all players and mobs. This directory holds TLA+ models of the parts
where tasks, the game loop and shared maps meet, TLC runs on small instances,
and proofs checked by TLAPS for every size.

Paths below are relative to `src/` of the crate unless they start with
`cmds/`, `lib/` or `docs/`.

## 1. Inventory

| component | state | operations | meets |
|---|---|---|---|
| Connections, login, logout (`network/client.rs`, `network/broadcaster.rs`) | `clients`, `player_clients` (name → address), a channel per client, `LoginSession`, positions in `WorldState`, user files | accept, login dialogue, kick of a duplicate, enter the game, command, cleanup; idle timeout and periodic save by the game loop; removal of dead clients by whoever sends to them | everything |
| Follow and party relations (`network/social.rs`, `script/party.rs`, `cmds/따라.rhai`, `무리*.rhai`) | five maps keyed by connection token | one `SocialAction` per command, disconnect | client lock of commands, logout |
| Delayed calls (`scheduler/call_out.rs`) | tasks and two indexes behind a `RwLock` | `call_out`, removal by name, `process_due` | scripts on every task, game loop |
| Timed room dialogue (`world/event.rs`, `command/commands/script.rs`, `script/mod.rs`) | visit token in the body, one delayed call per line | entry event, delivery | delayed calls, movement, login |
| Soul formations (`player/soul.rs`, `network/client.rs`, `world/mod.rs`) | a soul's members, summoned bodies in the world | attach, switch, restore at login, take back at removal | sessions (both load and save user files), parties (limit of four) |
| Game loop (`server/game_loop.rs`) | tick counters, queues for what follows a tick | recovery, combat of mobs and players, death, rewards, timeouts, saves | clients, world, commands run afterwards |
| Mobs (`world/mob.rs`, `world/tracking.rs`) | instances with targets, hp, death time | spawn, respawn, wander, follow | combat |
| Unique items, boxes, inventories (`oneitem.rs`, `script/box_commands.rs`, `script/drop_item.rs`) | registry of holders, inventories, boxes, rooms | take, put, give, drop, die, save | user files |
| Movement (`script/movement.rs`, `script/return_home.rs`) | positions, automatic route | walk, flee, return, followers | entry events, parties |
| Line framing (`network/mod.rs`) | a buffer | `feed_data` | the read loop |
| Guilds, heart beats, channels, ranks, notes, … | files, id sets, lists | single commands | little |

`PROJECT.json` lists every component, those that stay out with the reason.

### What is hard here

* Locks are short and many. `client.rs` drops the clients lock before it takes
  the next one, so a name is bound after its character was placed, a
  replacement is looked up before the position is removed, and the action a
  party script chose is applied after the snapshot it was chosen on is stale.
* The game loop, and every task that sends to others, act on clients whose own tasks are anywhere in
  their login, play or cleanup.
* A failing send leaves `handle_client` through `?`, past the cleanup.
* A due batch leaves the registry before it is run, and what it runs adds and
  removes calls. `process_due` only *tries* the lock.
* Party membership is kept twice (lists and leader pointers) and a succession
  rewrites both. Lists are ordered, and the order decides the heir.
* A dialogue line runs seconds after it was asked for; the player may have
  left, come back, been carried away, reconnected.
* A fight is kept in the body and in the mob, a duel in both bodies. Flight, summons, death,
  respawn and lost connections each undo only the ends they know of, and the tick
  works with lists that were read before the round.
* The companions of a connection are bodies in the world; three sections under two locks take them
  out when the connection ends, while the tick gathers them under a third.
* The registry of unique items is written with every command, a box too, a body only when
  something saves it, a floor never.

The hazards, each at its line and with the properties aimed at it, are in
`PROJECT.json`.

### What correctness means, component by component

* Sessions: the name index leads to the session of that name; the last session
  of a character clears its position; changes are lost only to a session that
  took over; a closed or kicked connection ends; an old session yields to the new.
* Relations: no party above the limit, nobody in its own list, nobody twice in one; lists and
  pointers part, and relations of those who left come back, only by the one kind of late
  request the code cannot refuse; a logout does not split a party.
* Delayed calls: the indexes are exact; each call runs once or was removed; each
  due call is handled.
* Dialogue: lines in order, complete for those who stay; those who leave hear one again only when brought back.
* Souls: no companion is left behind in the world, no position outlives its
  body, the formation gathers around its main character.
* Combat: a mob fights exactly while it has opponents, a player does not go on fighting the
  dead, a death is rewarded once and, in a tick, before the mob is back, a dead player is
  nobody's target.
* Duels: links are mutual when the tick strikes, nobody takes a duel over,
  nobody fights a ghost for ever.
* Lines of input: what is handed over does not depend on how the reads cut the stream.
* Shares of a reward: they fill the pool, and doing more never earns less.
* Unique items: nobody holds two, and the registry names the one holder as long
  as the code can know it.

## 2. Modules

```
SocialGraph ── SocialGraph_proof      operations of SocialState, lists as sets: the abstract specification
  ├─ PartyRace                        EXTENDS it: who asks for what, and when (same proof module)
  └─ SocialLists ── SocialLists_proof INSTANCE ... WITH: ordered lists implement it
Session ────── Network_proof
CallOut ────── Registries_proof
RoomDialogue ─ RoomDialogue_proof     uses of CallOut's contract by one player
Combat ─────── Combat_proof           one tick, commands and room updates
  └─ MobLife                          abstract: a death is owed one reward, at once or late
Pvp ────────── Pvp_proof              duels; a fight with a mob is a flag here
Soul ───────── Soul_proof             bodies of one connection; Session's removal in sections
Algorithms                            EXTENDS LineCodec, ExpShares: one run for both
                                      (proved in Network_proof and Combat_proof)
UniqueItems ── Registries_proof       one item, its places and its registry entry
MC<module>                            symmetry sets and state constraints for TLC
```

Definitions named `X_Something` and marked "(mutant)" are broken variants of `X`. Nothing
in a specification uses them: they name the plausible bug that each property was
shown to detect.

### SocialGraph, SocialLists, PartyRace

`followTarget`, `followers`, `partyLeader`, `partyMembers`, `combatTargets` are
the five maps of `SocialState` (`social.rs:57`), with a missing entry as `None` or
the empty set. Each `SocialAction` is one operator, and `Operation(a)` is `apply()`: any action for
any token with any argument, because `apply_social_action` asks for nothing else
(`broadcaster.rs:316`). What holds of `SocialGraph` therefore holds whatever a script saw. It picks an heir
nondeterministically. `SocialLists` is the code with its `Vec`s: an operator
from relations to relations per function, deterministic, heirs in list order;
its run and a theorem show that with lists read as sets every step is a step of `SocialGraph`.
Its loops are recursive functions (`AddPartyMembers`, `RemoveEach`, `FreeEach`): stage `i` is the state after the
first `i` elements.

The succession copies the follower list of the leader to the heir while the
followers still follow nobody: both modules keep this asymmetry, which a comment
in the source declares intended, and no property demands that followers and
follow targets agree.

`PartyRace` says who asks for which operation and when, cut where the code drops a lock. `Decide` is
the script under the clients lock (its guard and the chosen action, kept in `requested`), `Apply`
is `apply_party_requests` later, with whatever relations there are then and also when the actor is
gone. `Leave` is `leave_party_on_disconnect`, which looks under one lock and asks for a `Disconnect`
to be applied under another. `Unmap` and `CleanUp` are the two locks of `remove_client`, by the
task itself or by any sender that found the channel dead. `status` says how far a
connection is. Under these races neither of the two things one would like holds of every state:
that the two copies of a party agree (`PartyAgrees`), and that those who left have no relations
(`AbsentHasNoRelations`). The properties say exactly which late request may break each.

### Session

One action per lock region; `pc` says which region of `handle_client` comes
next and `state` is the state of the login dialogue. The channel
(`open`/`sentinel`/`closed`) stands for the mpsc channel and its send task,
`peer` for the other end of the TCP connection. `bind_player_name` is two regions, `BindTest` and `BindName`. A user file is abstracted to
the rank of the login that wrote it (0 for an older one, -1 for none), a body to "has changes its
file lacks". `Timeout` and `PeriodicSave` are the game loop's
hands in the clients map; `ReapDead`/`UnbindReaped` stand for all senders that take out a client whose channel is dead
(`broadcast`, `broadcast_active`, `tell_room` and those of `client.rs`), several at once too. `Init` lets any of the characters exist already.

`Reply` and `Bye` carry the `?` of the source: a send that fails moves to
`abandoned`, which has no cleanup. `Play` stands for any command: the body
changes, and a position may be set where there was none (return home).

### CallOut

`tasks`, `by_target` and `by_function` are the three maps of `CallOutRegistry`.
A script on a connection task is `Lock` then `Operate`; a script that
`process_due` itself runs is `Nested`. `TakeDue` requires the lock to be free,
which is the `try_write` that gives up otherwise. `FinishTask` re-registers a
repeating call only if the lock is free, as the code does. Ids are used once,
with one liberty: a repeating call keeps its id in the model and gets a fresh
uuid in the code.

### RoomDialogue

One player. `Enter` is a move with its entry events, `Reconnect` a login with a
fresh body, `Carry` a change of position without entry events (a summons, the
room of the dead), which may lead into a room with a guide and keeps the token. `TakeDue` and `Decide`/`Send` are the game loop's part of a
delivery, with the lock given back in between. The registry of calls is
abstracted to the set of requests, as `CallOut` justifies: each runs once when
due, in any order within a batch. `stay` is a history variable counting changes
of place, `brought` whether the last one was by `Carry`; they let a property say "this stay" without the
visit token the code uses.

### Combat, MobLife

A fight is kept at both ends: `ids` and `keys` in the body (the temp attributes
`_combat_target_instance_ids`, and `_combat_target_ids` with `_attack_target_key`), `targets` and `mobAct` in the
mob. `TickStart` takes the lock of the clients; each player of `todo` then has one
of `Idle`, `Dying`, `LostFoe`, `Round`, `Killed`; `Settle` pays `rewards` and ends the
tick. Commands run between ticks, room updates between any two rounds, because
the world is locked for each player anew.

A weapon thrown at a mob (`ThrowKill`) kills outside of a tick: its reward waits in `queued`, and the body loses the key of
the mob's template although another opponent may share it. The two lists of a body therefore need not agree, and a
round (`GoesOnById`, `GoesOnByKey`) is written for both cases. A group attack is as many actions as the code takes locks: `GroupAttack` is
the decision under the clients lock, `WriteBody` writes one body after the other, whatever it does by now,
`GroupLinks` tells the mobs under the lock of the world. `call` holds what is still to be
carried out; the leader's task runs nothing else meanwhile. `Payees` takes the first `MaxPaid` of those who are there,
as `game_loop.rs:558` does.

Hit points are reduced to "did the blow kill". `MobLife` is what
a player is promised of a mob; `MobsLive` says that `Combat` implements it
with `living <- {m : alive[m]}`, `owed <- ` the rewards of the running tick and `late <- ` the queued ones.

### Pvp

`pvp` is the temp attribute `_pvp_target`. `Attack` and `Cast` set both ends,
everything else may leave one behind. The tick updates the bodies (`Update`),
sorts the links (`Sort`: orphans are cleared, pairs are formed), and per pair
strikes on copies (`Strike`) and applies the damage (`Apply`). A fight with a mob is the
flag `mob`, as far as the commands ask for it. The branch for a pair in different rooms or
with a dead member (`game_loop.rs:2611`) cannot be reached in the model: `Sort` keeps such
pairs away from it, which is what `LinksMutual` states.

### Soul

`player` and `members` of a connection, `standing` for the bodies that stand in the world
without a socket, `bound` for the name index. Attach, switch, walk and removal are cut
where the code drops one lock for the next: `AttachCheck`/`AttachAdd`, the rebinding after a
switch (`former`), the companions that follow a walk (`march`), the gathering of the
tick (`anchors`), the cleanup in three sections (`over`). The party of the
connection is a number that the attach is given.

### LineCodec, ExpShares, Algorithms

`DelimiterCodec` and `party_experience_shares` as operators over sequences, with the
program's integer arithmetic. A behaviour of `Algorithms` either feeds a stream
read by read or adds targets of the killed mob one by one, and the properties compare the result with
a definition over the whole stream, or over all pairs of contributors.

### UniqueItems

One unique item. `copies` counts its objects in every body, corpse, on the floor and in
a box; `file` is the user file of each player; `entry` is the registry's line (none,
have, 버림, 보관). Each action moves an object as one command does, tells the registry
what that command tells it, and saves what it saves: picking up and destroying save
the body, dropping, putting, taking and looting do not, a box is always written, an event that consumes an
item and a kill that makes one tell nothing. `Restart` is a shutdown or a crash: floors and
corpses are gone, bodies are what their files say, an entry 버림 is
forgotten. "Unique" (`OneCopy`) is not an invariant of the code, see section 5.

## 3. Runs

| run | bounds | distinct states | checks |
|---|---|---|---|
| `social_graph` | 3 connections, party ≤ 2, follower lists of 3 places together | 187 613 | `PartySizeBound`, `NobodyLeadsItselfAsMember` |
| `social_lists` | 3 connections, party ≤ 3, requests of 2, follower lists of 2 places, all lists of 3 together | 29 286 | `NoDuplicates`, `ImplementsGraph` |
| `party_race` | 3 connections, 1 mob, party ≤ 3, 5 commands | 1 025 227 | `AgreementLostOnlyLate`, `RelationsReturnOnlyLate`, `SuccessionKeepsParty` |
| `session` | 2 connections, 1 name, 2 commands | 797 959 | `TypeOK`, `NameIndexCurrent`, `PositionHasOwner`, `DroppedOnlyIfReplaced` |
| `session_live` | 2 connections, 1 name | 493 406 | `DisconnectEnds` |
| `callout` | 3 ids, 1 target, 2 functions, delay 1, clock to 2, repeating allowed | 310 138 | `IndexesAgree`, `RunExcludesRemoval`, `RemovesOnlyTheNamed`, `DueIsHandled` |
| `dialogue` | 2 rooms, a summons may lead to both, 2 lines, interval 2, lateness 2, 4 moves, clock to 6 | 65 882 | `InOrder`, `NoneLeftOut`, `OnlyIfBroughtBack`, `StayingHearsAll` |
| `combat` | a party of 2, 2 mobs of one template (one attacks, one helps and wanders), 2 rooms, 1 paid, one thrown death waiting | 1 564 561 | `FightingMobHasOpponents`, `SlayerIsPaid`, `NobodyFightsTheDead`, `DeathFrees`, `MobsLive` |
| `pvp` | 3 players, 2 rooms | 443 891 | `LinkMeansFight`, `LinksMutual`, `NoTakeover`, `GhostsEnd` |
| `soul` | 2 connections, 1 main character with 1 companion and 1 candidate, 2 rooms, 3 bodies | 2 301 315 | `NobodyAbandoned`, `NoGhostPosition`, `Gathers` |
| `algorithms` | streams of 7 bytes in reads of ≤ 3, lines of 2; up to 5 opponents, 3 levels, 3 damages | 192 500 | `NothingLost`, `NeverGlued`, `LineLimit`, `SharesFillPool`, `BetterGetsMore` |
| `unique_items` | 3 players, 2 mobs, 3 objects | 33 959 | `NoBodyHoldsTwo`, `NothingElseDoubles` |

`TypeOK` is a property of `session` only, where it holds the password attempts; of
`SocialGraph`, `Session`, `CallOut`, `RoomDialogue`, `Combat`, `Pvp`, `Soul` and `UniqueItems` it is
proved.

What the instances contain, and why they are enough:

* Three connections are the smallest number with a leader, an heir and one more
  member or outsider, so that a succession has somebody left to keep together.
  `social_graph` uses a limit of two so that three connections can exceed it. Its operations take any argument, so
  one step does what several commands would; `FewFollowers` cuts states in which all lists of followers are long, and
  the constraint of `social_lists` cuts more, because lists have orders. Neither cuts a party of three.
* In `party_race` five commands are two to build a party of two, two late ones, and one more: the shortest
  behaviour that parts the two copies (the trace of `PartyRace_leaders`) needs four.
* Two connections and one name make every session a competitor for the same
  index entry, position and file. A third connection adds sessions that queue
  behind the same entry; the theorems cover any number.
* Two commands let a body change again after a save.
* In `callout` three ids allow two calls due in one batch and a third added or
  removed by a nested request, with a function that must not be touched.
* In `dialogue` an interval of 2 with a lateness of 2 brings two lines near to
  one pass without letting them share it; four moves are leave, return, leave, return.

* `combat` has two players, so that two rounds of one tick can strike the same mob and a group
  attack has a member, and two mobs of one template, so that one can die, also by a throw, while the other
  goes on or helps. With one player paid for a death (`MaxPaid`) two are one too many. `FewAtOnce` lets one thrown death
  wait at a time, with no mob away from its origin; while a group attack is carried out none waits, none is away, and one body
  or mob is dead at most. What it cuts are these together, not any alone. A body that has keys and no ids needs mobs of two templates: `Combat_keys`, an
  instance that is not in the list of runs (one player, two templates, no constraint, 190 174 states; `tlc -config Combat_keys.cfg
  MCCombat`), has its rounds, and so has the theorem. The death sequence is cut to the one step that moves the body to the
  temple (`TempleStep = LastStep = 0`; the code has ten steps, the fourth moves); what the cut
  steps do is wait.
* In `pvp` the third player is the one who would take a duel over; two rooms part a pair.
* In `soul` two connections use the same character one after the other or at once, and
  the limit of three bodies is met by the main character, its companion and the candidate.
* In `algorithms` seven bytes hold three whole lines, or a line too long and one after it, with
  one letter of text and every mix of the delimiters `\r\n` and `\r\0`. Five opponents are one more than a party
  has. Of the numbers, 30 of 1000 lies under and 970 above the twentieth of the damage that
  cuts a share, and the levels span the clamps.
* In `unique_items` three objects are one for a body, one for a box and one on a floor or in a
  corpse: a duplicate and one more. A third player changes no verdict and lets a gift
  pass between two while another one holds a duplicate.

`CHECK_DEADLOCK FALSE` is set for the runs that may stop: every connection may have gone, or
the clock, the number of commands or the input may have reached its bound. `social_graph`, `social_lists`,
`combat`, `pvp`, `soul` and `unique_items` never stop.

### Configurations that end in a violation

Each states
what a comment, a doc or a test of the repository says, and TLC finds a behaviour
of the model in which the code does otherwise. They are not in the list of runs;
`tlc -config X.cfg M` repeats them.

| config, module | statement | what happens |
|---|---|---|
| `Session_yield`, `MCSession` | `client.rs:555`: an old session neither deletes the new session's position nor overwrites its file | The new session is placed under the clients lock and bound to its name only afterwards (`client.rs:1798`, `1811`); an old cleanup in the gap finds no replacement. A second gap lies between the lookup and the removal. |
| `Session_create`, `MCSession` | `client.rs:1365`: a name that exists cannot be used | The file is looked up when the name is given and written when the script ends; two clients pass in between. |
| `Session_logout`, `MCSession` | `server/mod.rs:334`: the task runs the save and cleanup | A reply that cannot be sent returns through `?`; or a sender removed the client first and the task has nothing to save. |
| `RoomDialogue_summons`, `RoomDialogue` | `docs/TIMED_ROOM_DIALOGUE.md:23`: no more lines once the player left | A summons changes the room without renewing the visit token; brought back in time, the player hears the rest of the earlier visit. |
| `PartyRace_leaders`, `MCPartyRace` | `social.rs:63`: leaders map to themselves | A connection asks for members; before that is applied it is taken into another party. It then leads members while it points to another leader, and its logout leaves them with a leader that leads nobody. |
| `UniqueItems_one`, `UniqueItems` | `README.md:56`: a unique item is always managed as unique | Two mobs are killed before the first corpse is looted: both leave the item. |
| `Combat_lethal`, `MCCombat` | `game_loop.rs:4153` (a test): a lethal blow leaves the player in the death sequence | When the first opponent is a corpse at the end of the round, the end of that fight stands the player up after the death was set (`game_loop.rs:1912`). |

### Fairness

* `Session`: weak fairness of a task's next step, of the sentinel reaching the
  send task and of a sender finishing a removal: tokio runs ready tasks,
  and none of these waits for input. Strong fairness of `SendDone`: `select!`
  polls its ready branches in random order, so a branch ready again and again is taken.
  Nothing is assumed of the peer, of its input, or of timeouts.
* `CallOut`: strong fairness of `TakeDue`, because scripts hold the lock for one
  map operation and the loop comes back each second; weak fairness of the
  loop's own steps, of the clock and of a script finishing what it locked.
  Scripts need not schedule anything.
* `RoomDialogue`: weak fairness of the loop and the clock. The player owes nothing.
* `Pvp`: weak fairness of the tick as a whole. The game loop runs it every second, and inside it
  nothing waits for a player.
* `Combat`, `Soul`, `Algorithms`, `UniqueItems` state safety only.

## 4. Proofs

All theorems hold for every value of the constants under the modules' named
assumptions. About 9100 obligations, none left out: every safety property of the runs is a theorem. The assumptions are that the markers
(`None`, `NoName`, `NoRoom`, …) are no members of the sets they mark, the numbers are
natural, and `Conn` (`SocialGraph`, `Soul`) and `Mobs` (`Combat`) are finite: the server
holds finitely many of either, and a size or an enumeration of an infinite set has no meaning.

* **SocialGraph_proof.** `NoPartyOfItself` and `PartySize` are invariants of every operation from
  *any* well typed relations, thus of whatever a stale snapshot decided. For the
  size this needs lemmas of its own (`SmallerParty`, `SizeLeaving`, `SizeAdding`, …): without
  agreement of the two copies a succession may give its list to an heir that has one. `RacesAreOperations` says that each step of
  a race is an operation with some parameters, or leaves the maps alone: so both hold of `PartyRace`.

  The three properties of the races are about single steps. `OnlyLateAdditionsDisagree`: from relations that
  agree each operation leads to some that agree, but for an addition whose leader is a member elsewhere. Succession is
  the hard case: it gives the heir a list that is a proper part of the old one, and only agreement says that the heir's own
  list was empty. `OnlyLateRequestsReturn`: an operation writes keys only for its actor, the followed one, and those
  that agreement puts into the same party. `SuccessionTogether` follows from agreement alone.
* **SocialLists_proof.** `Rels` are the relations in which every list is `Plain`, that is, holds nobody twice. For such relations each small change is
  described by what it does to the sets the lists stand for (an append adds one element, `RemoveFirst` takes one away
  because there is only one, an emptied list is an emptied set, the head of a list is a member of the set). The three loops go through
  stages: `StagesExist` builds the function that a recursive definition chooses, one turn after the other, `TurnByTurn` carries
  a fact from each stage to the next. Of `AddPartyMembers` the fact is which members entered so far and that the party
  is not over its limit, of `RemoveEach` and `FreeEach` which of the first `i` are off the lists. The result after the
  last turn is the set that `SocialGraph` states in one piece. `ListsHoldNobodyTwice` follows per command, and
  `ListsImplementGraph` is the refinement. Through it the theorems about operations on sets (`PartySize`,
  `NoPartyOfItself`) hold of the code's lists.
* **Network_proof, sessions.** `IInv` = `TypeOK`, `Phases`, `NameIndexCurrent`,
  `PositionHasOwner`. `Phases` relates `pc`, `state`, `name` and `session` (who
  has a player, who has a name). A client between the two locks of its binding is in the map or was
  reaped, which bounds the stale entries the index can have. The index property is what makes the position
  property inductive: a cleanup that gives up its position to a replacement got
  the replacement from `find_addr_by_player_name`, which returns a confirmed client only.
  The theorem says that of several sessions in any interleaving one always
  remains responsible; it does not say that the right one is (`Session_yield`).
  `DroppedOnlyToReplacement` adds `Cleanup` to `IInv` (only a player has changes to lose, and a client out of the map is in
  the cleanup that took it out, or was reaped); `ReplacedStays` says that a replacement, once there, stays a player
  of the name.
* **Network_proof, lines.** For every limit, every stream and every cut of it into reads (in the theorems the bounds of the
  stream and of a read are any numbers): `NoByteLost`, `LinesStandAlone`, `LimitHolds`. `CodecInv` relates the buffer to the
  stream: it is what the stream `Ends` with and has no delimiter. While no read failed, what is before it is `Good`: there are
  marks in the stream, one for each line given, with the bytes of the line before the mark and a delimiter at it; a
  delimiter is the last of it; and there are as many lines as delimiters in it, when the peer uses one kind. That the cut is at a delimiter's
  end is what makes the count inductive: no delimiter can begin in one piece and end in the other. After a failed
  read the buffer is empty, thus still an end of the stream; of such a stream the invariant
  keeps that its lines stood in it in one piece (`Stands`) and which line was too long (`TooLong`, which a growing stream cannot undo).
  Inside a read `Reading` is the same for the turns of the loop (`TakeLineKeeps`), and `Shrinks` bounds them: as many turns as
  the buffer has bytes leave no delimiter in it. TLC cannot evaluate `CodecInv` (the
  marks are any function); it checks the three properties that follow from it.
* **Registries_proof, calls.** `Inv` = `TypeOK`, `IndexesAgree`, `RunExcludesRemoval`,
  `RunningIsOut`: the call that runs is in no other set, without which the
  re-registration of a repeating call could collide.
* **RoomDialogue_proof.** `LeavingEndsDialogue` needs no assumption on the rooms a player is summoned to. `Inv` says of every
  pending call of the present token that it is of the stay in which the token was set, and that in a
  room with a guide this is the present stay unless the player was brought there.

  `LinesInOrder` and `StayersMissNone` assume that `Interval > 0` and `MaxLag <= Interval`. Both are
  needed: of two lines in one pass the `HashMap` decides which comes first. The example of
  `docs/TIMED_ROOM_DIALOGUE.md` waits 3 seconds and the loop comes round each second, but the code demands neither (section 5). The
  invariant `OInv` has the calls of a visit apart by an interval (`Apart`), so that a pass takes out one of them
  at most (`Single`), what was shown before what waits (`Behind`), and during the stay of a visit nothing missing (`Complete`).
* **Combat_proof.** `IInv` = `TypeOK`, `FightingMobHasOpponents`, `SlayersStay`. The last (a
  slayer has had its round of this tick and stands where its reward is looked for; no
  reward of a tick is left when commands run again) gives `SlayersArePaid`. `FightsAreWithTheLiving` and
  `DeathsFree` are action properties: the first goes through the ways a round can end for a body
  with ids and for one with keys only, and does not ask that the lists agree.
  `MobsLiveOnce` is the refinement: each step of `Combat` maps to a step of `MobLife` or a stutter; a round, a thrown kill,
  `Settle` and a respawn are those that need not be stutters.

  The same module proves the reward of a kill (`ExpShares`) for any limit of the party, levels, damages and rewards. `SharesAddUp`
  is about two lists of partial sums, of the weights and of the shares: `A` times the second stays below the pool times
  the first, and each share leaves the two less than `A` apart, `A` being all weights together. `SharesFill` follows with the
  weights being 1 at least and the pool a natural number (the bonus counts a finite set). `BetterShare` is a chain: each quotient, square, clamp and product
  of a weight grows with the level and the damage (`PermilleGrows`, `ScaleGrows`, `ChallengeGrows`, `FitGrows`, `WeighedGrows`), the lowering of
  a far too strong mob included, whose quotient has the level on both sides.
* **Pvp_proof.** `IInv` = `TypeOK`, `LinkMeansFight`, `LinksMutual`, `Together` (two that name each other are in one
  room), `OfflineClean`, `InTick` (pairs that are left are duels). `Together` is why the branch for
  a pair in two rooms is dead code: whoever is linked fights, and a fight keeps it from walking.
  `TakeoverFree` follows per step.
* **Soul_proof.** `IInv` = the types, `Souls` (a connection that plays has an intact
  soul; a character being attached is no member yet), `NoGhostPosition`, `NobodyAbandoned`. The
  last compares the length of a list with the size of a set; `OwnersKept` reduces each step to "one body
  more, one owner more" or its opposite, and the steps show which. `TickGathers` is about the gathering, a recursion over the order
  of the formations. `GatheringDefined` shows that its stages exist, `StagesLeave` that a body is where it was between two
  stages unless a formation in between names it: hence what comes before a formation does not move
  its anchor, and what comes after does not move its bodies. `OrdersList` says that an order lists each formation.
* **Registries_proof, unique items.** `IInv` = `ItemTypeOK`, `NoBodyHoldsTwo`, `AwayIsSaved`. The last says that an
  absent character has what its file says, without which a login could bring back an
  object that was moved elsewhere. `StaysUnique` is an action property: from a state with one
  true entry each step leads to one, but for the three exceptions its property names. `MoveRecorded` and `LoseLeavesNone` treat the commands by what they
  have in common, `NoEntryNoObject` the two sources of new objects that ask the registry (an entry that is free means that
  none is about), `RestartRecorded` the stop.

Induction over numbers is `NaturalsUp` (in `Soul_proof`, `SocialLists_proof`, `Combat_proof` and `Network_proof`): a *set* of numbers that has 0 and every successor has
all, from the theorem of the library that a non-empty set has a least element. The library's own induction
theorems have an operator as parameter, which the provers cannot instantiate; with a set in its place the
property to be proved is written as `{n \in Nat : ...}`.

Some definitions of the models have the form the provers can use, with the same
meaning: pairs of players as `{p, q}` with `p # q` (`Pairs`), the mobs a body remembers by one
operator (`Remember`), loops and folds over a list as recursive functions (`Gathered`, `AddPartyMembers`,
`RemoveEach`, `FreeEach`, `Contributors`, `Sum`, `Used`), the loop of `extract_lines` as as many turns as the
buffer has bytes (`TakeLine`, which changes nothing once no delimiter is left), and `InOrder` by what was heard before a line instead of a filtered list.

Only model-checked are the liveness properties `DisconnectEnds`, `DueIsHandled`, `StayingHearsAll`, `GhostsEnd`: the
prover has no rules for `ENABLED`. The proofs say nothing of UTF-8 decoding, which the model of the lines leaves out.

## 5. Seen while modelling

* `InOrder` needs an interval longer than the loop's lateness: two lines that
  come due in one pass are run in `HashMap` order. The instance respects that; an interval
  of 0 is accepted by `event.rs:85`.
* A line decided on is sent after the lock was given back
  (`script/mod.rs:21104`) and may reach a player one move late. The properties
  are about the decision.
* `remove_call_out_by_name` does not see a call that `process_due` has already
  taken out (`call_out.rs:361`), and a repeating call is lost when the lock
  is taken at the moment it would be added again (`call_out.rs:385`). Hence
  `DueIsHandled` and `RunExcludesRemoval` speak of calls found registered.
* Parties. A 무리 that is applied late, when its actor was taken into another party, parts the two copies (`PartyRace_leaders`); the
  departures that follow may split the party. A follow applied after the cleanup of its actor or of the one to be followed
  leaves entries for a dead token (`broadcaster.rs:316`), and nothing removes them.
* Sessions. A client taken out between the two locks of `bind_player_name` (`broadcaster.rs:330`–`341`) leaves an index
  entry that nobody unbinds, until `find_addr_by_player_name` comes across it and drops it. `NameIndexCurrent`
  says which entries can be of that kind.
* Combat. Keys of templates stay on a standing player when two opponents share one, and 쳐
  then refuses for ever. After a second opponent respawns its fight goes on at one
  end only; the tick repairs it. A companion's name pushed into `mob.targets`
  (`game_loop.rs:1983`) is not removed when the leader flees. `link_party_player_to_mobs` turns corpses
  back to act 1, and 무리합 takes dead members back to a fight. A killed mob's
  successor in one round may be struck with the data of another template (1592, 1605, 1881). Killing one of two mobs
  of a template with a concealed weapon removes the key both share (`ThrowKill`): a player may then fight
  without a key, and the next round stands it up although its opponent still lists it. `take(MAX_PARTY_SIZE)` stands before
  the filter by damage (`game_loop.rs:568`): a contributor beyond the first four opponents in the room
  is unpaid, which `Payees` has and `SlayerIsPaid` excepts. Dead players may walk and cast, since `Body::coma_check` is called by nothing but tests.
* Souls. A character stands twice when somebody logs in as it while it stands beside another
  connection (`client.rs:1766`); the later save wins. `docs/SOUL_BODY_FORMATION.md` limits the whole party
  with all companions to four, but only one soul's companions are counted (`client.rs:5783`,
  `무리.rhai:158`). After a quick relogin a companion may be a member
  without a body until the next login.
* Lines. `\r\n` anywhere is preferred to an earlier `\r\0` (`network/mod.rs:82`), so a peer that mixes
  them has commands joined. A line that is too long drops the finished lines of the same read, and what
  follows of it arrives as a command. A line of exactly the limit passes in one read and is
  refused when `\r` and `\n` come in two; a refusal between them leaves a
  `\n` at the head of the next command.
* Unique items. `README.md:56` of the repository calls a unique item "always managed as unique". It is not
  (`UniqueItems_one`), in these cases, which `NothingElseDoubles` excludes or which leave an entry without an object:
  1. A kill asks the registry and does not tell it (`game_loop.rs:1394`): two mobs killed before the first
     corpse is looted both leave the item.
  2. What a corpse leaves on the floor when it decays has no entry (`world/mod.rs:1133`), so the next
     kill may make another.
  3. A crash between a drop, put, take or loot and the next save of the body loses or doubles the object,
     and an entry may name a holder for ever.
  4. A death in a room full of objects leaves 버림 for an object that was destroyed (`drop_item.rs:451`); an
     event that consumes the item leaves its entry on purpose (`event.rs:996`). 기연정리 and a restart help.
  5. Two objects in one box pass the test of a bulk take together, the second is refused when it is stored and
     lost (`box_commands.rs:1897`).
  6. An event that gives the item looks at the receiver's body only and overwrites the entry (`event.rs:1876`,
     `1032`); whether somebody else has the item is for the text of the event to ask. 생성 asks by itself.
  7. The registry's file is truncated and then written (`oneitem.rs:108`); a stop in between loses all entries.

## 6. Limits of the models

A connection is used once (in `Soul` again after its cleanup), so reuse of a socket address is out.
The send task's queue is unbounded and never drops a message. Panics are not
modelled, a crash only in `UniqueItems`. Command scripts are atomic except where a module says otherwise. Data of
bodies, rooms and items, all texts and the arithmetic of damage are abstracted away.

* `Combat`: no hit points, no fights of soul companions, no third state of a mob's act. Of the throws of 투척 only
  those that kill are steps of their own. Kills by an administrator (`admin_combat.rs:372`) and fights that a mob's
  event script begins or ends (`event.rs:1744`) are left out. One group attack at a time, one unsettled
  thrown death per mob. The last attacked key is not kept apart from the list of keys, and keys have no order.
* `Pvp`: no visions and announcements; fights with mobs are a flag.
* `Soul`: no administrator's summoned users, no exchange of bodies between two connections, no
  unreadable files; the party is a number.
* `UniqueItems`: one item, one floor, one box; no stacks, weights, packing or renaming, no torn writes,
  neither 기연삭제 nor 기연초기화; mobs that carry goods while alive are left out.

Bounds: `MaxCommands` (Session, PartyRace), `MaxTime` (CallOut, RoomDialogue), `MaxMoves` and `MaxLag`
(RoomDialogue), `MaxRequest` (SocialLists), the constraints of `MCSocialGraph` and `MCSocialLists` with `MaxFollowing` and
`MaxPlaces`, `FewAtOnce` of `MCCombat`, `MaxStream`, `MaxRead` and
`MaxTargets` (Algorithms), `MaxCopies` (UniqueItems). `MaxPaid` and `MaxParty` are constants of the code with smaller values.

### Not modelled

* **Movement**: followers that walk with a leader, doors, and the automatic route that goes on
  after a fight. The command queued for the end of a fight runs after the tick gave its lock back
  (`game_loop.rs:2866`), when the player may be fighting again; no module has it.
* **Connection tokens and the adult channel**: a list of addresses that follows login and removal as
  the name index of `Session` does.
* **Guilds**: a file of members against the bodies, one command at a time.
* **Heart beats**: nothing in the program creates the registry. At its limit it refuses an object that is
  already in it like a new one (`heart_beat.rs:69`), which no caller can observe.
* Event scripts, the Rhai runtime, skills and item effects, the parser, the
  administrators' editing, hot reload, loaders, the newbie script, ranks and notes, text utilities: content,
  string functions or single steps of one actor (`PROJECT.json` has the reasons).

## 7. Plan

1. **Movement** — a leader's command moves its followers one after the other in the leader's task, from the
   list it took before it left (`client.rs:4479`, `6961`), while their own tasks and the game loop run commands
   of theirs. Questions: does an undisturbed group arrive together, also when a succession left a follower in two
   lists; does a chain of followers end; is each step of an automatic route run once and in order, although the
   command's own task (`client.rs:5226`) and the end of a fight (`game_loop.rs:2896`) both take from it.
2. **Registry** — connection tokens, address reuse and the adult channel, as a refinement of `Session`'s index.
