# BugfixedHL in TLA+

Models, model-checking runs and proofs for the parts of BugfixedHL where the
order of events decides whether the code is right: a worker thread and its
listeners, a protocol between the server DLL and the client DLL over a lossy
connection, a query over UDP, an answer picked out of the console's text, a list
rewritten in place on a disk, and the entities of the game that refer to each
other while they come and go. Everything below names code by its path under the
repository's `src/` tree.

## Inventory

| component | code | state | operations | what is hard | modelled |
|---|---|---|---|---|---|
| updater | `game_shared/updater/CGameUpdater.cpp`, `cl_dll/CUpdateNotification.cpp` | status (atomic), latest version, changelog, command queue, callback slots | `CheckForUpdates`, the worker's `operator()`, `Frame`, callback registration, destructors | two threads, three ways to synchronise (mutex, atomic, nothing), join on the main thread | all |
| voice server | `game_shared/server/voice_gamemgr.cpp` | mute masks, masks last sent, who wants voice | `ClientConnected`, `ClientCommand` (`vban`, `VModEnable`), `UpdateMasks` | delta compression across reconnections; slots that change hands; early return of `ClientDisconnect` | all |
| voice client | `game_shared/client/voice_status.cpp`, `voice_banmgr.cpp` | mute list, what the server is believed to know | `Frame`, `UpdateServerState`, `HandleVoiceMaskMsg`, `HandleReqStateMsg` | an unreliable packet, repaired by an echo | the protocol |
| HUD timer | `cl_dll/CHudTimer.cpp`, `cl_dll/net.cpp` | request status, received parts, end time | `SyncTimerRemote`, `SyncTimerLocal` | UDP: lost, late, split and duplicated answers | the remote query |
| Steam ids | `cl_dll/svc_messages.cpp`, `cl_dll/vgui_ScorePanel.cpp` | state of the request, an id per slot | `SendStatusRequest`, `SvcPrint` | an answer recognised by its text, matched by name with slots that change hands | the request |
| observer | `dlls/observer.cpp` | target, mode, the physics' copies of both | `FindNextPlayer`, `FindNextSpot`, `CheckTarget`, `SetMode`, `HandleButtons` | targets that leave or observe; functions that fall back on each other | all |
| multiplayer rules | `dlls/multiplay_gamerules.cpp`, `teamplay_gamerules.cpp` | game over, intermission times, map cycle | `Think`, `GoToIntermission`, `ChangeLevel` | limits that fire together; a pointer into a list that changes | the end of a level |
| results | `cl_dll/results.cpp` | the mark of an automatic demo; the list of such demos on the disk | `ResultsStart`, `ResultsStop`, `ResultsFrame`, the purge | commands that are only queued; crashes amid an in-place rewrite | all but names and texts |
| squads | `dlls/squadmonster.cpp`, with `schedule.cpp`, `monsters.cpp`, `hgrunt.cpp` | leader, members, attack slots | `SquadRecruit`, `SquadRemove`, `OccupySlot`, `VacateSlot`, `Killed` | two-ended links and slots over deaths, removals and saved games | squads only, not the AI |
| versions | `game_shared/CGameVersion.cpp`, `external/semver.c` | a version | parse, compare | operators that disagree about development builds | comparisons |
| cvar query | `dlls/CBugfixedServer.cpp` | per-slot version, flags, authentication | `PlayerPostThink`, `CvarValueCallback` | see below | no |
| weapons, movers, triggers, player movement | `dlls/`, `cl_dll/hl/`, `pm_shared/` | entities | think, touch and use callbacks | floating point, geometry, stock SDK code | no |
| user interface, API, launchers | `cl_dll/`, `bugfixedapi*/`, `dedicated/`, `metamod-hl1/` | | | layout, forwarding | no |

How they interact: `CHud::Frame` runs the updater's `Frame` and the HUD timer's
query; `CHalfLifeMultiplay` calls the voice manager from `Think`,
`ClientConnected` and `ClientCommand`; server and client DLL exchange user
messages and commands through the engine, which is not in the repository;
observers watch the players that the rules manage, and the rules' early return in
`ClientDisconnect` during an intermission is felt by the voice manager, the
observers and the map cycle alike; the updater decides with the operators of
`CGameVersion`; the engine's frames drive the results' watchdog in an order that
the client does not know.

What makes each correct: a check answers once, with a status and data that agree;
mutes take hold and belong to the player they were meant for; both ends of a
delta protocol hold the same state; a query is matched with its own answer; an id
is shown for its own player; an observer watches a player who plays; an
intermission lasts and ends, and the next map suits the players; no row of a
list is lost; leaders and members agree about the squad, and an attack slot has
one holder.

## Modules

| module | models |
|---|---|
| `UpdateCheck` | abstract: what a check for updates promises to its users |
| `Versions` | versions and the operators that compare them |
| `Updater` | the two threads of the updater, the queue, the listeners, shutdown; extends `Versions` |
| `VoiceLink` | the engine between the two ends: slots, phases of a connection, wires |
| `VoiceServer` | `CVoiceGameMgr`, and the callbacks of the game DLL round it |
| `VoiceClient` | `CVoiceStatus` and `CVoiceBanMgr` |
| `Voice` | composes the three with players who come, go and change their minds |
| `HudTimer` | the rules query of `CHudTimer`, the server and network it talks to |
| `StatusRequest` | the scoreboard's request for Steam ids and the server that answers it |
| `Observer` | `observer.cpp`, with the players and levels round it |
| `Rules` | the end of a level and the choice of the next |
| `Results` | automatic demos over frames, games, sessions and crashes |
| `Squad` | squads of monsters and the parts of the AI that change them |
| `MC*` | the constants of the runs |
| `*Proofs` | inductive invariants and theorems of the module they extend |

### Updater

The main thread (`mpc`) is in `idle`, between the halves of a frame (`frame`), in
the `join()` of `~CUpdateWorker` (`join`), about to free the worker (`free`) or
past shutdown (`off`). The worker (`wpc`) walks through `operator()`. One action
is one access to something shared: a critical section of `m_CmdQueueMutex` or
`m_ChangelogMutex`, a store to the atomic status, the write of the plain
`m_LatestVersion`, a call of cURL. Several log lines in a row, and a log line next
to a store, are pushed together. A release is a version (a record of `Versions`,
whose operators decide what is new, as the code's do); a tag that does not parse is
`BadTag`; a changelog is the set of releases it describes. `Perform`
stands for `curl_easy_perform` and the parse of its reply: it fails, or yields any
list. The downloader (`UPDATER_WIP_DL`) is not compiled in, so it is not modelled.

`UpdateCheck` keeps two things its users can see: the status and the callbacks
that have run. `Updater` implements it with the identity on both.

### Voice

`VoiceLink` holds what both ends rely on. Messages to a client and its reliable
commands stay in order while the connection lasts and vanish with it; `vban`
packets may be lost; only a human in the game receives. Fake clients (bots)
occupy slots and never answer. `VoiceServer` keeps the globals of
`voice_gamemgr.cpp` (they outlive levels and connections), the set of slots whose
`CBasePlayer` counts as a player (`m_bConnected`, what `UTIL_PlayerByIndex` and
`IsPlayer` see), the rules' verdict of who may hear whom (`hears`), and the
engine's table (`listening`). `ClientDisconnect` returns at once during an
intermission, which leaves the slot in `m_bConnected`. `VoiceClient` keeps one
`CVoiceStatus` per client; it survives reconnections, and only `Relaunch` resets
it. `HandleVoiceMaskMsg` reads a byte that the server never writes; `READ_BYTE` then
gives -1 and the client forgets what it told the server of `voice_modenable`
(`Unknown`), so it says so again. What the client believes is `{}` or a singleton
of BOOLEAN.

### HUD timer

`HudTimer` follows `SyncTimerRemote`: a frame sends a request (`SendRequest`) or
looks at one datagram of the socket (`EchoChallenge`, `StrayChallenge`,
`TakeSingle`, `DropPart`, `AddPart`). `m_szPacketBuffer` keeps, for the place of
each part, the datagram last written there, and is never cleared, as in the code.
A rules answer is an id, how many parts it has, and the two values the timer takes
from it, as numbers of the change of `mp_timelimit` they reflect; `mp_timelimit`
stands in the first part and `mp_timeleft` in the last, so that an answer that is
not whole is noticed. Time is what the code can tell of `m_flNextSyncTime`: it
lies ahead, has come, or is more than three seconds past. The server and the
network are external: a request is answered with a challenge or with the rules, a
datagram is delivered in any order, twice, or never; `faults` counts what goes
astray: a datagram lost, one that stays on its way after it was delivered, a
time-out while something is still on its way. Equal datagrams on their
way count as one. All of this code is compiled for Windows only.

### Steam ids

`StatusRequest` follows `SvcPrint`: one action per state of the request for the
text at the head of the wire (`ReadIdle`, `ReadSent`, `ReadAnswer`, `ReadTable`),
with `processingUserRow` and the comparison of times as written. The scoreboard
sends requests when the VGUI2 board is opened (`FullUpdate`, which asks before it
fetches the players again) and in `ScorePanel::Update` (`Update`). That runs at
every `ScoreInfo` message, while the VGUI1 board is shown, and, if the cvar
`hud_scores` is at least 1, every half second from `CHudScores::Draw`; the model
takes `Update` at any time and the cvar as a constant. Others only fetch players
(`GetPlayerInfo`). The server answers a request with a header, rows that may
be split in two texts, and a footer; what it prints directly comes before the
broadcast changes of its table (`lag`), which end with its frame. `recent` is
whether the last request is less than a second old. `missed` is a history
variable for the one exception that the code makes.

### Observer

Entities are numbered as in the engine, so that the searches run over the real
ranges: 0, the players' slots, the spots. Each function of `observer.cpp` is an
operator from the observer's record (`iuser1`, `iuser2`, mode, target) to the
record it leaves; commands, thoughts and buttons apply them. Whether a player is
dead is left out: `observer.cpp` does not ask. The alternating
calls of `CheckTarget` and `SetMode` are unfolded as far as the code can go.
`ClientPutInServer`, `PreThink` with `InitHUD`, `ClientDisconnect` with its early
return, the intermission and the next level are actions.

### Multiplayer rules

`Think` is one action per frame with the limits as inputs; `items` is the cycle
with the pointer, `turns` counts by how many choices an item was passed over
(history). Times are counted in frames; `ChatTimes` goes beyond both bounds that
`GoToIntermission` clamps to. The key is uninitialised when the rules are made
and any value then.

### Results

A frame executes the queued commands (`Execute`), then makes the client's calls
in any order (`Call`), then ends. The list on the disk is a sequence of pieces of
rows, and the purge moves one row at a time with the code's two positions;
`Quit` may come between any two actions, which is a crash. A row's write is
atomic, and the file can always be written.

### Squads

One action is one call of the AI that reaches `squadmonster.cpp`: `StartMonster`
(with `SquadRecruit`), the end of a schedule (`MaintainSchedule`: `ScheduleChange`,
`GetIdealState` with `SquadMakeEnemy`, and the calls of `OccupySlot` in
`GetSchedule`), `SetSchedule` (the task of that name, without `ScheduleChange`),
`Killed` with or without gibs, the schedule to die, and what the engine does:
`Remove`, `EnemyGone` and `Restore`. An `EHANDLE` to a freed entity reads NULL, so
that `Remove` clears all handles to it. `spoilt` is a history variable: it names
the leaders whose slots the code has mixed up in one of four ways (a saved game,
a recruit who still holds a slot, a holder removed alive, a second slot taken
by `TossGrenadeCover`), so that `SlotsAreHeld` says that there is no fifth.

### Versions

A version is three numbers and a tag, a sequence of identifiers. `compare_prerelease`
compares tags as the loop of `semver.c` does: a version without a tag comes last,
numbers come before words, words are compared by `strncmp` and then by length, and
the first difference decides. What `strtol` makes of an identifier is given with it
(`isnum`, `num`), so that 1 and 01 have different characters and the same number.
The loop itself, with its calls of `strncmp`, is written down as recursive operators
in `MCUpdater`, where TLC compares the two on all tags of one and two of eight
identifiers (`ComparesAsTheLoopDoes`); the definition without recursion is the one
that is proved about. The operators are those of `CGameVersion`, with "dev is always
greater" in `operator>` and `operator>=` only.

## Runs

| run | shows |
|---|---|
| `updater` | type correctness, race freedom of `m_LatestVersion`, completeness of `UPDATE_FOUND`, validity of callback ids, refinement of `UpdateCheck`; every check answers unless it is abandoned, and deleting a worker returns |
| `updater_print` | violation: the notification may print 0.0.0 as the new version |
| `voice` | both ends of the delta protocol agree outside intermissions; what the client can show is what the engine does; mutes take hold, nobody stays blocked by a mute meant for the player who had his slot before, `voice_modenable` arrives |
| `voice_connect` | violation: a new client is not unsquelched |
| `voice_silent` | violation: no update is sent although the client's masks are stale |
| `hud_timer` | rules are parsed from one answer in full, never from parts of two; the query recovers from loss and lateness, and the timer agrees with the server in the end |
| `status` | no slot gets another player's id but in one way, only answers are kept from the console, every id arrives while the HUD lists the scores |
| `observer` | physics follow the target, observers watch players, both directions of the search undo each other, everybody knows the spectators |
| `rules` | intermissions last and end, players are counted, no unlimited map is passed over for ever, chosen maps suit the players |
| `results` | every automatic demo is listed over crashes, the purge leaves none too old, an automatic demo is always marked |
| `squad` | leaders and members agree, slots are neither lost nor shared but in four ways |
| `squad_members` | violation: a killed member stays in his leader's array |

The findings tell the four violations in full. One more divergence is not kept as
a run: `CGameUpdater.cpp:135` says that the worker's destructor flushes the
queue, and it takes one command, because `GameFrame` does.

### Bounds

*Updater:* the game is a development build, 1-dev; lists of up to three tags over
{bad, 1-beta.2, 1, 2} with a changelog limit of two reach every branch of
`LoadReleases` and `GenerateChangeLog`, an error before, at and after the
announcement included; one page and three slots let a page come, go and come
again next to the notification. Restarts are not bounded.

*Voice:* two slots let a slot change hands, a player swap slots and a message find
another client at the end of its wire; one human mutes, the others are bots, which
keeps a level's state space small. In `voice` there are two bots and three joins,
so that a bot who has been muted can leave and the other take his slot: the state in
which the newcomer is still blocked by that mute is reached, without any level
change. Two changes are a mute and its removal (or a restart in between), one level
change an intermission. `MaxEvents` leaves out the combinations of all three: a join
counts for two, a change and a level for one (an intermission for the level it ends
in), and the sum is at most seven, that is two joins with both changes and the
level, or three joins with one of them. In the violations it excludes nothing. A
mute made by a human whose slot another human takes needs a second human and is
beyond the run. `MaxDown`
and `MaxUp` bound the wires; `UpdateMasks` and `Frame` wait while they are full.
A mask only depends on its own client's mutes, so that two humans who mute
each other add nothing to one who does and one who is muted.

*HUD timer:* answers of two parts and of one, two ids (a late answer and the
current one), one change of the limit, one fault (a loss, a duplicate, or a
time-out that comes while something is still on its way), one level change,
disconnection or change of the cvar. Time-outs with nothing on its way are not
bounded. A longer series of faults is covered by the theorem, for safety.

*Steam ids:* two slots and two players, one join after the start, one unrelated
text, one answer that comes late, one level. One player at most comes or goes in
a frame of the server. *Observer:* three slots, two of which may observe, three
spots of two classes interleaved, the modes that differ in the code. *Rules:*
lists of three and four items with and without limits, a map that does not
exist, an empty list, two slots. *Results:* three demos with rows of different
lengths, two days, the watchdog's ten frames as one; a level load takes a frame
at least. *Squads:* three monsters, each spawned once, all in the map's group or
none, one enemy (the squad is split when the leader has none and a member has),
squads of three at most, two slots of one kind and one of the other. Monsters are
symmetric: nothing orders them. The theorems hold for all values.

### Fairness

*Updater:* the worker is scheduled and cURL returns (nothing in the code
forces it: there is no time-out); the engine calls `HUD_Frame` while the game
runs, so frames, `join` and the end of a destructor happen. No user action is fair.
*Voice:* the server's `Think` and the client's `Frame` run, the reliable channel
delivers, a packet that is sent again and again arrives at last (strong fairness
on `Packet`), everyone who connects spawns, and an intermission ends at the latest
after `MAX_INTERMISSION_TIME`. Players need not come, go or press anything.
*HUD timer:* frames are drawn, time passes, the server answers what it receives
and updates `mp_timeleft`, and what the network has not lost arrives. Without a
bound on losses nothing could be promised; the code retries every three seconds
for that reason. *Steam ids:* the HUD's half-second update runs if `hud_scores` is
set, which it is not by default, and `EveryIdArrives` is claimed for that case
only: with the cvar at 0 a request that was put off waits until a `ScoreInfo`
message comes or somebody opens the board, and nothing makes that happen. The
connection delivers, the server answers and ends its frames, time passes;
`Initialize` is the engine's business. The other modules state safety only.

`CHECK_DEADLOCK FALSE` stands in `StatusRequest.cfg` only, where everybody may
have come and gone and every text been read.

## Proofs

Every theorem is proved from the assumptions on constants that the modules name,
which TLC evaluates in the runs.

`UpdaterProofs`: `TypeCorrect`, `LatestVersionIsReadSafely`, `FoundUpdatesAreComplete`,
`CallbackIdsStayValid` and `UpdaterImplementsUpdateCheck`, from
`InvariantHolds`, the inductive invariant `IInv`: none of the safety properties is
inductive, because they speak of the status while the reason lies in where the
worker is. `IInv` says for every place of the worker which statuses are possible
(`StatusInv`), which callbacks were told or are queued (`AnswerInv`, `QueueInv`),
what has been published (`VersionInv`, `ChangeLogInv`), and which places of the
main thread go with a worker at all (`MainInv`). There is one lemma per group of
actions, and the refinement maps each action to `Restart`, `Load`, `Settle`,
`Tell` or a stutter. `CallbackIdsStayValid` has a small invariant of its own.
Its first section is about the versions the updater compares. `<=` is a total
preorder of all versions with tags of any length (`LeqIsATotalPreorder`): the
comparison by the first difference swaps its sign with its arguments
(`FirstDifferenceSwaps`) and is transitive when that of the elements is
(`FirstDifferenceTransitive`), for the characters of a word first and for the
identifiers of a tag after. Only versions that the code counts as one are `<=` each
other, such as 1.0.0-rc.1 and 1.0.0-rc.01. Releases that the check announces are
newer for the changelog and the page too; between versions that are not development
builds the operators agree; and every development build is at once `>=` and less
than the release of its number (`DevBuildsDisagree`), which is a fact of this code
and not a promise.

`VoiceProofs`: `TypeCorrect`, `DeltasStayInStep` (`ClientKnowsWhatWasSent`) and
`ScoreboardTellsTheTruth` (`ClientSeesWhatTheEngineDoes`). The first is not
inductive: it compares the masks last sent with the client's masks after all that
is on the wire, and whether a message reaches the wire depends on who sits in a
slot. `IInv` adds `Seated` (a slot in use has one client, and a client one
slot), `Quiet` (nothing is on the wire to a client that is not in the game),
`Present` (outside an intermission whoever counts as connected is playing; it
fails in an intermission, where `ClientDisconnect` returns early), `Fresh` (a
connecting client has been sent nothing) and `Told` (the engine's table is what
the sent masks say).

`HudTimerProofs`: `TypeCorrect` and `WholeAnswersAreParsed`. The buffer is never
cleared and the size never compared with the parts, so that `IInv` ties the two
together while a query is pending: `NetInv` (the parts of one answer that fly
agree about their number), `MergeInv` (the place of every part received holds
that part of the current answer, or place 0 a challenge; the size received is
at least that of the parts) and `Counted` (the counter is the number of places).

`StatusRequestProofs`: `TypeCorrect`, `OnlyAnswersAreHidden` and
`IdsBelongToOccupants`. No type of the requests under way is inductive without
`AskedInv`: they are bounded by the answers that came too late, and one more after
a recent request. What is hidden depends on the text that is read next, so
`HiddenInv` says which texts follow each other on the wire (`WellFormed`: an
answer is a host name, a map, a header, rows split or whole, an end) and, while
answers are in time, which of them the client's state waits for. The id of a slot
is read from a table that the client fills from rows written earlier, by a server
whose occupants have changed since. `IdInv` follows each slot along the wire, from the
engine's table to the server's: whom a reader at some place of it would take for
the occupant (`Occupies`) can be followed by nobody only, and only once his
leaving has been announced with no row about him after that, or the id shown is
not his, or it was overlooked (`Announced`, `MayFollow`); at the end of the wire
he is the occupant of the server's table, but for the change in `lag`. That the n-th row
belongs to the n-th occupied slot is proved from the sizes of the sets of slots
below (`RanksAreFull`, `NthIsOccupied`).

`ObserverProofs`: `TypeCorrect`, `PhysicsFollow`, `SpectatorsAreKnown`,
`ThinkersWatchPlayers`, `TrackersKeepTracking` (`ObserversWatchPlayers`) and
`ButtonsUndoEachOther` (`PreviousUndoesNext`). The lemmas say of each function of
`observer.cpp` that a record in which mode, target and physics agree (`Good`) stays
one; `ModesSet` names the players whose mode has been set at all. The last two
are about the searches round the table of players and the list of spots: the one
found is the nearest in its direction, so that a search misses nobody, and from
there the nearest in the other direction is the one left behind.

`RulesProofs`: `TypeCorrect`, `UnlimitedMapsHaveTheirTurn`, `PlayersAreCounted`,
`IntermissionIsBounded`, `IntermissionsLast`, `ChosenMapsSuit`. `TurnsInv` says how
often an item can have been passed over by its distance from the pointer;
`KeyCounted` that a key noted during an intermission was pressed in it.
`ValidLinesOK` states as an assumption what type the lines chosen from a file
have (it is true of any constants of the right types, and TLC evaluates it): the
choice is `SelectSeq`, a recursion that no prover can unfold.

`ResultsProofs`: `TypeCorrect`, `AutoDemosAreMarked`, `DemosStayListed` and
`OldDemosArePurged`. `Marked` relates the mark, the frames counted and the queue
of commands; `MarkWaits` says that the watchdog has not been called since a
command was queued for as long as it waits. The list is rewritten in place by a
purge that reads it: `DInv` (the definition in the module) says that the purge
writes behind the place it reads, that every demo on the disk has its row whole
among the lines rewritten or those still to be read, wherever a crash has left
the file, and that nothing old is among the lines rewritten. Rows have any
lengths, and what a crash leaves behind them are pieces of other rows.

`SquadProofs`: `TypeCorrect`, `SquadsStayConsistent` and `SlotsStayHeld`. Because
corpses stay in the array of a leader who has forgotten them, consistency needs
`Linked` (handles lead to entities), `LeadersLead` (who has a leader that lives has
one that leads), and slots need `Fresh` (who has not started holds nothing and
leads nobody) and `CorpsesHoldNone` (a corpse that was recruited holds no slot,
outside `spoilt`).

Every safety property of the passing runs, invariant or action property, has its
theorem. Only model-checked is the liveness (`CheckAnswers`, `DeleteReturns`,
`ModEnableArrives`, `MutesTakeHold`, `NobodyStaysBlocked`, `TimerFollowsServer`,
`EveryIdArrives`): it rests on fairness, hence on `ENABLED`, which is out of the
prover's reach. The violations need no proof. Where an argument wants induction
over numbers, whose library theorems take an operator as a parameter, the proofs
take a least counterexample instead (`Least`, from the well-foundedness of `<`).

## Not modelled

- The client cvar query: one query per connection over the slot's own channel,
  which the engine clears between two occupants, and a record that
  `ClientConnect` resets. What is odd about it is no interleaving: `InitHUD`
  chooses the kind of MOTD (`multiplay_gamerules.cpp:521`) in the player's first
  `PreThink`, before the query is sent in `PlayerPostThink`.
- Of the modelled components: the text of changelogs, logs and commands; the parse
  of a version from a tag, and numbers in one that do not fit an int;
  progress callbacks; talker labels, icons and squelch mode of the voice client,
  and a crash that loses the mutes of a session; `SyncTimerLocal`, custom timers;
  hooks that filter names, sounds and commands, which keep no state; frags and
  teams, `mp_timeleft` and `mp_fragsleft`; names of demos and screenshots; the
  AI outside squads. A squad monster with a target and a targetname that is
  killed before `StartMonster` is woken by it (`monsters.cpp:2139`): targets are
  left out.
- Weapons, movers, triggers, player movement, drawing and layout: floating point
  and geometry, or one step without a second actor.

Most of the repository's lines are vendored libraries (PCRE, lodepng, VGUI2
controls, rapidjson), the stock SDK's entities and user interface; the models are
about the small part in which an order of events decides, and cover little of the
whole by lines.

## Plan

1. The HUD timer's user message and `SyncTimerLocal` next to the remote query:
   three sources for one end time.
2. Doors and platforms (`doors.cpp`, `plats.cpp`) as state machines over think,
   touch, use and blocked, with a team of doors; the weapons' reload and
   holster against client prediction.
3. Voice: talker labels, a pool with more talkers than labels.
4. Proofs: an abstract specification of the mutes (a set of pairs that both ends
   agree on) that the voice managers implement outside intermissions, and one of
   the list of demos that the purge in place implements.
