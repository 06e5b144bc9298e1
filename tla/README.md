# DigitTable in TLA+

DigitTable is a virtual table for scripted role-playing sessions. A room is a
set of Firestore documents; trusted Cloud Functions are their only writers, and
browser tabs send commands and read event partitions and per-viewer
projections. This directory holds TLA+ specifications of the parts of it whose
correctness rests on the order in which things happen, the TLC configurations
that check them, and TLAPS proofs of the properties that matter most.

Paths below are relative to the repository. `functions/` stands for
`apps/functions/src/`, `web/` for `apps/web/src/`, `engine/` for
`packages/engine/src/`, `contracts/` for `packages/contracts/src/`,
`template/` for `templates/eat-the-reich/src/`.

## 1. Inventory

| Component | State it keeps | Operations | Talks to | Hard part | Correct when |
|---|---|---|---|---|---|
| Room command authority (`functions/gameCommandAuthority.ts`, `engine/runCommand.ts`, `engine/platformAuthorization.ts`, `engine/projectViewer.ts`) | `authority/current`, `receipts/*`, `events/*/items/*`, `projections/*` | `submitRoomCommand` | reads the bindings admission writes; calls the template's authorize, decide, reduce, project | at-least-once delivery; seats bound between commands; one sequence for several partitions | each command is decided once and answered alike for ever; the log is one total order; every seated viewer is current |
| Admission (`functions/admissionAuthority.ts`, `engine/admission.ts`) | `bindings/*`, `uidBindings/*`, counters in `authority/current`, `meta/current` | `admitMember`, `claimSeat` | shares `authority/current` and `projections` with commands | races for the last seat and the GM seat; returning to a closed or full room | counters equal occupancy; at most one GM and one table; a seated identity can come back |
| Recovery (`functions/recoverySeatAuthority.ts`) | `recovery/*`, audit entries | `recoverSeat` | rewrites what admission wrote | chained recoveries, recovery by a seated identity, lost reply | the replaced identity is revoked; a code works once |
| Room creation (`functions/createRoomAuthority.ts`, `engine/createRoom.ts`, `engine/roomCode.ts`) | `createRoomReceipts/*`, `roomCodes/*`, a new room's documents | `createRoom` | leaves the room the others start from | retry after a lost reply, colliding codes | one request makes one room; codes are unique |
| Throttles (`functions/throttle.ts`) | fixed-window buckets by identity, address, room | `decideThrottle`, one `consume` per callable | run before the authorities | all-or-nothing across buckets; window boundary | bounded admissions per window; a denial consumes nothing |
| Rules engine (`template/engine.ts` and the modules beside it) | template state inside `authority/current`: sheets, scene, Objectives, Threats, rolls | 22 commands in `decide`, `reduce` | called by `runCommand`; `parseState` loads what it works on | long protocols: roll declared, reviewed, rolled, allocated, injury chosen, voided, while the GM corrects, reassigns and moves on | one open roll per character, fitting the round; thrown dice stand; a void gives back what was charged and leaves the turn untaken; hidden Threats stay hidden |
| Dashboards (`web/player2`, `web/gm2`) | compose form, review cards, scene choice, correction dialog | what a player's and the GM's screen let them send | render projections, dispatch to the client | forms that outlive what they were filled in against; commands without a revision, from projections that are behind | what is offered is accepted; a command acts on what its screen showed; a form changes only what was touched |
| Command client (`web/repository/FirebaseRoomRepository.ts`, `web/repository/commandOutbox.ts`, the sync loop and guard of `web/session/useRoomProjection.ts`) | outbox in localStorage, `waiting` and `sending` in memory | `dispatch`, `send`, `complete`, `reconcilePending` | callable `submitRoomCommand`, receipts | lost replies, reload, two tabs on one storage | a command is never lost once accepted by the outbox; a caller is told the server's answer |
| Event tail and presentation ledger (`web/repository/eventTail.ts`, `web/session/presentationLedger.ts`) | cursors, acknowledged IDs, pending copies | `assembleTailPage`, `ingest`, `acknowledge`, merges | reads event partitions | partitions paged independently; FIFO eviction; tabs merging ledgers | nothing presented twice or skipped |
| Projection sync (`web/session/useRoomProjection.ts`) | latest projection, tail position, back-off | `receive`, `syncTail` | the two above | snapshots and reads out of order | the shown revision never goes back |
| Fixture store (`web/repository/InMemoryRoomRepository.ts`, `web/session/RoomEngineStore.ts`) | an in-memory room | the same operations | stands in for the server | must promise what the server promises | same answers as the authorities |
| Callable wrappers, session client, contracts parsers, secrets, query projection | none of their own | parse, call, hash | around the authorities | none | pure functions and I/O |
| Other screens, access rules, test helpers, scripts | form state; declarative grants | render | everything | none a model checker reaches | not modelled |

All Firestore writers run in serializable transactions, so one call of an
authority is one atomic step: the concurrency of the server is the interleaving
of calls. Throttles commit in a transaction before that of the authority they
guard. The client has no such protection, and its steps interleave at every
`await`.

The hazards of this code, each at its line, are in `PROJECT.json`
(`hazards`); one without a property says why.

## 2. Plan

Order of work, most important behaviour first.

| | Modules | Composes | Abstract specification | State |
|---|---|---|---|---|
| 1 | `RoomAuthority`, `CommandService`, `RoomLog`, `MCRoomAuthority`, `RoomAuthorityProofs` | admission, recovery and commands over one room's documents | `CommandService` for senders, `RoomLog` for readers | done |
| 2 | `RoomCreation`, `Throttle`, with an `MC` and a `Proofs` module each, `SumFacts` | tabs, calls and creators over one code index; concurrent calls over shared buckets | none: their promises are invariants over histories | done |
| 3 | `CommandClient`, `MCCommandClient`, `CommandClientProofs` | outbox, tabs on one storage, reload, against `CommandService` | `CommandService`, which it uses | done |
| 4 | `EatTheReichRules`, `EatTheReich`, `RoundOfTurns`, `MCEatTheReich`, `EatTheReichProofs` | the 22 commands over one template state | `RoundOfTurns` | done |
| 5 | `EventTail`, `PresentationLedger`, `ProjectionSync`, `MCProjectionSync`, `ProjectionSyncProofs` | reader of the log `RoomAuthority` writes: pages, ledger, sync loop, dashboard queue | `RoomLog`, of the room it follows; what the reader promises is over histories | done |
| 6 | `TableScreens`, `MCTableScreens`, `TableScreensProofs` | the dashboards in front of `EatTheReich` | `EatTheReich`, which it uses | done |
| 7 | `FixtureRoom` | the in-memory stand-in against `CommandService` | `CommandService` | planned |

Theorems planned: what section 5 lists as only model-checked and not out of the
prover's reach. No module to be proved about declares a `RECURSIVE` operator.

## 3. Modules

### `RoomAuthority`

One room's documents, one variable per collection, named as the collection is:
`authority` (`authority/current`), `metaGm` (`meta/current.gmMemberId`),
`bindings`, `uidBindings`, `recovery`, `audit`, `receipts`, `events`,
`projections`. Two variables are history that no code keeps: `issued`, every
recovery code handed out, and `answers`, every result returned to a member.

| Action | Code | Notes |
|---|---|---|
| `AdmitMember` | `functions/admissionAuthority.ts` `admitMember`, decided by `engine/admission.ts` `decideAdmitMember` | creates the seat, its index entry, its recovery hash and its first projection, and counts it |
| `ClaimSeat` | `claimSeat`, `decideClaimSeat` | the same for the GM seat, and the `meta/current` mirror |
| `RecoverSeat` | `functions/recoverySeatAuthority.ts` `recoverSeat` | finds the seat by the code, moves its index entry, rotates the code, writes the audit entry |
| `SubmitRoomCommand` | `functions/gameCommandAuthority.ts` `submitRoomCommand` and `engine/runCommand.ts` | three alternatives: replay of the receipt, refusal, acceptance |
| `ArchiveRoom`, `SetAdmission` | external | the repository reads `roomStatus` and `admissionStatus` but nothing in it changes them |

`Init` is the room as `createRoom` leaves it (`ProvisionedRoom`), or a room
without a GM (`UnclaimedRoom`, external): `claimSeat` exists to serve the second
and is unreachable from the first.

Abstractions. A secret is whether it verifies; a recovery code is a value and
its hash is that value. The template's state is the sequence of commands reduced
into it, because `reduce` is a function of the state and the events, and a
viewer's view is that same sequence, because `project` is a function of the
state and the viewer; so a projection is stale exactly when its sequence is
shorter. What the template decides is any of the constant `Batches`: a
non-empty sequence of logical events, each with the set of destinations it is
copied to. `decide` is deterministic in the code, but depends on state the model
leaves out, so any verdict is allowed. A request that reads stale state is one
with an older `expectedRevision`; a request without one is `<<>>`. Member
display documents (`members/*`) and time stamps are left out; throttles have a
module of their own. Event
IDs are left out too: they matter only to the presentation ledger.

A denied or reclaiming call writes nothing, so it is a stuttering step and has
no action. A lost reply is an action whose caller happens to call again.

### `CommandService`

What a room promises to senders, without any document: each request is settled
once, applied at the next position of one log or refused, and everyone who asks
is told that. `RoomAuthority` implements it under the mapping `Service`: the
log is `authority.state`, a request's outcome is read off its receipt, and what
was told is `answers`.

### `RoomLog`

What a room promises the readers of its events, each of whom may read some of the
partitions: a command's copies appear all at once, numbered behind every earlier event
and under the next revision, and none is changed or taken back. `RoomAuthority`
implements it for every set of partitions under the mapping `Log(P)`;
`ProjectionSync`, whose own room is a sequence of events, implements it under `Room`,
for what its viewer may read. So what the reader's model takes for the room is no more
than what the authority's model keeps, but for identifiers (below). Both are theorems;
no run has them.

### `MCRoomAuthority`

The kinds of command and batches of events TLC uses, and the symmetry of
identities, members and codes. It is sound because no property or action
distinguishes two of them, and no symmetric run checks liveness.

### `RoomAuthorityProofs`

The theorems of section 5.

### `CommandClient`

One member's browser: several tabs, each a `FirebaseRoomRepository` with the
sync loop of `useRoomProjection`, over one localStorage, and the server as
`CommandService`, which `RoomAuthority` implements. A step is what the code
runs between two awaits.

| Variable | Code |
|---|---|
| `log`, `outcome`, `told` | the service: receipts and applied commands |
| `seated` | whether `uidBindings` still names this identity for the member |
| `storage` | `CommandOutbox`'s entries in localStorage, shared by the tabs |
| `calls` | per tab, the `sending` set and what each call is waiting for |
| `waiting` | per tab, the `waiting` map, and `dispatching` for ordinary commands |
| `strays` | requests still on their way after their caller gave up or reloaded |
| `sync` | per tab, where `reconcilePending` stands: entries left, the one in hand, its receipt as read |
| `issued`, `learned`, `reloads` | history: saved commands in click order, results taken for final; the reload bound |

| Action | Code |
|---|---|
| `Dispatch` | the screen's guard and `dispatch`: `remember`, then `send` up to the network; a full outbox is reported and sends nothing |
| `ServeCall`, `ServeStray` | `submitRoomCommand`, for a call someone awaits or one nobody does |
| `ReceiveReply`, `LoseReply` | the rest of `send`: a final reply completes the command, an ambiguous one only ends the call |
| `StartSync`, `SkipEntry`, `ReadReceipt`, `UseReceipt`, `EndSync` | `sync` and `reconcilePending`: one step per await; a missing receipt resends and awaits the call |
| `Reload` | memory is lost, `CommandOutbox.read` finds what was saved |
| `LoseSeat` | another identity redeems the member's recovery code |

A command is its ID; a payload matters only by being a Pause or not. The
screen's check and the save are one step because `useRoomProjection.dispatch`
awaits nothing between them and localStorage is synchronous and shared. A
refused click writes nothing, so it has no action.

### `MCCommandClient`, `CommandClientProofs`

The symmetry of tabs and of commands of one kind, used by the safety runs only;
the theorems of section 5.

### `RoomCreation`

The create form in several tabs and `createRoom` over all rooms at once.

| Variable | Code |
|---|---|
| `receipts`, `roomCodes`, `rooms` | `createRoomReceipts/*`, `roomCodes/*`, and the documents of each room, which one transaction writes together, as one record |
| `identity`, `saved` | per tab, the Firebase sign-in and the request ID in sessionStorage |
| `form` | per tab, the state of `CreateSessionScreen`: status, request ID, passphrase field, accepted room |
| `calls`, `strays` | per tab, the call under way; calls nobody awaits any more |
| `minted`, `told`, `reveals` | history: request IDs in use, acceptances returned, how often a room's secrets were |

| Action | Code |
|---|---|
| `OpenForm` | the screen mounts: `getOrMintCreateRequestId` |
| `Submit`, `ReceiveReply` | `handleSubmit` before and after its await |
| `ServeCall`, `ServeStray` | `handleCreateRoom` and the transaction `CreateRoom`: denial of a foreign request, replay, five draws of a code, provision |
| `LoseReply` | any failure of the call: the form shows it as rejected |
| `Leave`, `DuplicateTab`, `ReplaceIdentity` | a reload, which keeps sessionStorage; the browser's duplicate of a tab; a lost sign-in under which `ensureSignedIn` mints another |

Left out: the revision an answer reports (`RoomAuthority` has it), the ownership
record, and leaving the form without a reload while its call is pending.

### `Throttle`

The three throttle trees. A bucket is named by what its path is made of; a call
is an attempt on the set of its buckets with the clock it read. `Arrive` is
`requireThrottle` and its two siblings up to the transaction, `Consume` the
transaction (the three functions differ in their buckets only), `Drop` a call
that dies before it, `Reclaim` Firestore's TTL policy, `Tick` time. `admitted` is
the history of admissions as a bag, `denied` what the latest step denied.

### `EatTheReichRules`, `EatTheReich`

The rules engine. `EatTheReichRules` has the pure part: what a marked injury does
to a stat, the size of a dice pool, which dice are kept, attack dice, what an
allocation does to an Objective or a Threat. The roster, the equipment, the
abilities, the scenes and the faces a die can show are constants. `EatTheReich`
has the state and one action per command, `decide` and `reduce` together.

| Variable | Code |
|---|---|
| `sheet` | per character what play changes: who plays it, Blood, items and their uses, marked boxes, Downed, retired, loot, advances |
| `scene`, `objectives`, `threats` | the scene wrapper with its round and `actedThisRound`, and what is in play |
| `rolls`, `nextRoll` | the rolls, from declaration to resolution; a voided one is deleted |
| `paused`, `missionEnded` | the table's state |
| `disclosed` | the Threats named by the last command's shared event copies |
| `taken`, `directives` | history: what each review charged; the bound on GM directives |

| Action | Code (`template/engine.ts`) |
|---|---|
| `ClaimCharacter`, `ReleaseCharacter`, `HealInjury`, `UseUtilityItem` | a player's own sheet; the hat also closes a pending injury |
| `BeginAction` → `ReviewAction` → `AllocateResults` → `ChooseInjuryCategory` | the life of a roll: `declared`, `awaiting_allocation`, `awaiting_injury_choice`, `resolved` |
| `VoidRoll` | any unresolved roll is deleted and refunded from what the roll record still says was charged |
| `LoadScene`, `NextScene` (AdvanceScene), `EndRound`, `EndMission`, `SetSceneRules`, `RevealThreat` | the GM's procedure |
| `EditScene` with `EditObjective`, `EditThreat`, `AddToScene`, `RemoveFromScene` | one command with four kinds of edit |
| `CorrectCharacter`, `GrantItem`, `UnlockAdvance`, `ReassignCharacter` | the GM's corrections |
| `SetPaused` | PauseTable and ResumeTable |

Between two commands the live store keeps JSON and loads it with `parseState`
(`template/schemas.ts`); `Stored` is what comes back of a roll, and the constant
`Reloads` chooses between the live store and one that keeps the objects, as the
unit tests do. Dice are chosen, not computed; seeds and texts are left out. What
the GM's edits and a scene's cards set is any integer: the parser and `decide`
check no range, so a rating, an Attack or a Challenge may be negative. The parser
takes fractions too; they are left out.

### `RoundOfTurns`

What the round procedure promises: in a round each character takes at most one
turn, a turn goes through its stages one at a time, the GM can take a turn back
until its dice are spent (`Void`), and the next round waits for open turns.
`EatTheReich` implements it under `Round`, where the stage of a character is read
off its open roll and `scene.acted`. One step is there for the code's sake only:
`Forfeit`, a turn taken back while its injury waits, which ends as done. The code's
own comment says otherwise (section 4, `VoidedNeverActs`).

### `MCEatTheReich`, `EatTheReichProofs`

A character with every kind of equipment and ability for short sessions and two
with the hat only for long ones, an ordinary Threat and a hidden elite one, the
symmetry of alike characters; the theorems of section 5.

### `EventTail`, `PresentationLedger`, `ProjectionSync`, `ProjectionSyncProofs`

How a viewer's tabs follow the room's log. `EventTail` is the query of one
partition and the merge of a page (`web/repository/eventTail.ts`): nothing
beyond the last record of a full partition is released. `PresentationLedger` is
the bookkeeping of `web/session/presentationLedger.ts` over records, without
state of its own: opening, ingesting, expiring, acknowledging, and the merge on
saving. It selects and sorts by ranks (`Nth`, `Only`, `InOrder`) and not with
`SelectSeq` and `SortSeq`, which the prover's backends cannot expand.
`ProjectionSync` has the variables and the steps, `ProjectionSyncProofs` the
theorems of section 5.

| Action | Code |
|---|---|
| `Commit`, `ApplySaved` | a command of anybody; the saved command of this viewer, whose reply was lost |
| `Receive` | a snapshot or a read of the projection, of any age |
| `StartSync` | `sync`: the outbox reconciled, the projection read, the ledger opened or its heads asked for |
| `ReadHead`, `StartLedger` | `syncTail` without a ledger: the heads partition by partition, then the baseline |
| `ReadPartition`, `PageArrives` | one query of a page; the page assembled, ingested, saved, and the next one read or the result published |
| `ReadFails`, `Refresh` | a pass ends early; the tab is reloaded and only the saved ledger stays |
| `AcknowledgeNeutral`, `Continue` | the player's dashboard: what needs no attention goes at once, an own resolution when the player continues |

The reads of one page are separate steps, because they are separate requests and
the room may move between them. A tab is modelled as often as `Tabs` says; the
runs have one. `CommandClient` models what dispatching does; here a saved command
waits, or was applied, when the first tab opens.

### `TableScreens`, `MCTableScreens`, `TableScreensProofs`

What the dashboards let their users do, over the variables of `EatTheReich`, with
six of their own.

| Variable | Code |
|---|---|
| `shown` | per screen, the projection it renders (`web/session/useRoomProjection.ts`, `template/engine.ts` `project`): open rolls, declared ones in full for their actor and the GM only, hidden Threats for the GM only |
| `missed` | per screen, the accepted commands it has not rendered; the bound on being behind |
| `compose` | per player, the form of `web/player2/ComposeStep2.tsx` |
| `cards` | the review cards of `web/gm2/PendingActionsPanel.tsx` |
| `choice` | the scene picked in `web/gm2/SceneDirector.tsx` |
| `dialog` | `web/gm2/CorrectionDialog.tsx` |

A screen may be any number of accepted commands behind. `useRoomProjection.dispatch`
sends the command's ID and payload and no `expectedRevision` (line 349), the
repository forwards a revision only if there is one
(`web/repository/FirebaseRoomRepository.ts:259`) and the authority checks it only
then (`functions/gameCommandAuthority.ts:345`). So everything a screen offers comes
from `shown` and its form, and the engine decides the command against the game as
it is. After an accepted command any set of screens renders the new game at once
(`Decided`), the others later (`Receive`); a projection in flight and one not sent
yet are not told apart, since a screen never goes back (line 142).

A form lives as long as its component is mounted: `ComposeFollows` and `CardsFollow`
say for how long that is. An action that sends a command takes the engine's action
and stays disabled where the engine refuses, since a refusal changes nothing; the
correction dialog closes all the same. `OtherClients` has commands no screen sends:
releasing a character, healing, removing an Objective or a Threat. Left out: dice
given their targets on different renders of the panel, and an edit form's numbers
between their loading and their sending (they are those of the rendered record, or
any of `EditValues`).

Two things seen while modelling: a second press of "Advance scene" on a console that
has not rendered the first loads the same scene again, which starts it over; and a
character reassigned with an open roll shows its new player a panel whose every
answer is refused, because `decide` asks for the roll's actor, until the GM voids it.

### `SumFacts`

Facts about finite sets and sums over them, for `ThrottleProofs`,
`EatTheReichProofs` and `ProjectionSyncProofs`: that an image of a finite set is
finite, how the fold of the community modules changes when a set gains an element,
is split, or loses one, and that a larger set or larger weights sum to more.

## 4. Runs

| Run | Instance | Question | Result |
|---|---|---|---|
| `room_seats` | 4 identities, 3 seats, 5 codes, cap 2, one command of another build | Do joins, claims and recoveries in any order keep the index, the counters and the GM mirror right, and does a redeemed code die? | holds |
| `room_commands` | 2 identities, 2 seats, 3 codes, 2 commands (an action, a Pause), batches of one and two events | Is each command applied and answered exactly once, in one permanent order, and is every seated viewer current? Does the room implement `CommandService`? | holds |
| `client_order` | 2 tabs, 2 ordinary commands, 1 reload | Is nothing saved ever lost, is every result taken for final the service's, does no sync pass hang, and are clicks applied in their order? | holds |
| `client_one_tab` | 1 tab, an ordinary command and a Pause, outbox of 1, 1 reload, fair | Is every saved command settled in the end, and does every dispatch get its answer? | holds |
| `creation_retries` | 2 tabs, 2 identities, 2 requests, 2 codes, 2 rooms | Does one request make one room, whose secrets leave once and for its creator only? | holds |
| `throttle_joins` | 2 calls, 1 identity, 2 codes, caps 1, 2 and 2, window and lag of 2, clock to 5 | Do counters tell the admissions exactly, do denials cost nothing, and are bursts below three caps? | holds |
| `tail_player` | 1 tab of a player, 3 events of up to 4 kinds over two partitions, pages of 1, a saved command, 2 faults, fair | Is nothing skipped, shown too early or taken away, and is everything shown at last? | holds |
| `tail_eviction` | 1 tab, 3 resolutions and then 3 notices of one copy each, a lag of 3, a list of 4 acknowledged events, 1 fault | Is an event that fell off the list, in the code's proportion to the lag, ever presented again? | violated |
| `etr_rounds` | 2 alike characters, 1 player, 2 rolls, 3 GM directives, a hidden elite Threat, live store | Does any sequence of legal commands keep one open roll that fits its round, standing dice, secret Threats and open rescues? Does the engine implement `RoundOfTurns`? | holds |
| `etr_screens` | 1 player's and the GM's dashboard, one of them a command behind at times, 1 roll, 2 directives, corrections of one field | Do commands act on the rolls their screens show, are the panels' offers accepted, claims backed, charges covered, and does Advance move on? | holds |
| `etr_void_refund` | 1 character with equipment and Blood, 1 roll, live store | Does a void give back what the review charged? | violated |
| `screens_correction` | the same dashboards, the dialog used on Blood | Does a correction change only what was touched? | violated |

Bounds of the room. There is no artificial counter: a command ID is spent once
per member, a recovery code once per room, so every state space is finite by
itself and no state constraint is used. Deadlock is not excluded by the code's
own rules but does not occur, since admission can always be opened or closed. A
cap of two is reached with the GM and one player, with a table seat as the third
seat, so the limit is met and passed at; four identities let a seat be recovered
by a stranger, by a former holder, and by the holder of another seat, and five
codes give two recoveries after three seats are created. Two commands of two
members give four entries in the log, one accepted and one refused in either
order, each retried at any later time and by a second identity after a recovery.
A batch of two events with three destinations and one gives both a shared
sequence number and a number after it.

Bounds of the client. `MaxPending` stands for the code's 32 and is set to 1
where the limit is to be met. `MaxReloads` is the one counter; a reload resets a
tab to its initial state, so a second one meets what the first met, and the
theorems hold for any number. A command ID is dispatched once, as every click
mints one. Two tabs give every race on the shared storage, and two ordinary
commands the order property its pair. A posted request can be lost at any
point, so any number of resends occurs within these bounds. No action is
excluded from stopping the system: a sync pass can always start or end, so
deadlock is checked and absent. Liveness is checked for one tab, since the graph
of two with a Pause is too large for it; safety is proved for any number.

Bounds of creation and throttles. `MaxAttempts` is 2 for the code's five draws:
the first may collide and the second too. Two codes and two rooms let codes run
out. `creation_retries` may stop, and says so in its cfg: once every tab is
closed and no request ID is left to mint, there is nothing to do. A step of the
throttles' clock is half a window; `MaxLag` bounds how late a clock can be at its
commit, and at most a window is assumed, the time after which a call has been
ended. `MaxTime` gives three windows and the TTL that follows the first. With two
caps in place of three `BurstBounded` is violated, so the run meets the case. One
of the three trees is run: the others differ in the names and number of buckets.

Bounds of the tail. `PageLimit` stands for the code's page: 1 in `tail_player`, so
that pages are full and the watermark cuts, 6 in `tail_eviction`, where nothing
depends on it. `PagesPerSync` is 2, so a pass ends with pages left.
`MaxSequence` bounds the room's events, `MaxBatch` those of one command,
`MaxFaults` failed reads and refreshes together. `MaxAcknowledged`,
`MaxPending` and `MaxSequenceLag` stand for 512, 512 and 300; a lag less than
the list is what the ledger's comment builds on (`LimitsAssumption`).
`tail_player` is small enough for its liveness property, with the resolution, the
injury choice that finishes it, a private declaration and a notice. `tail_eviction`
keeps the proportion of the code: a list longer than the lag and shorter than twice
the lag, and as many events may wait. The room's events come in one order
(`MCNext`), the resolutions first.

Bounds of the engine. `MaxRolls` and `MaxDirectives` bound declarations and GM
commands with lasting effect (loads, edits, corrections, grants, reassignments);
reviews, allocations, rounds and pauses are bounded by those. Two rolls give a
character its second turn before and after a round, a void and a reassignment.
`Faces` is {1, 6} in the engine's runs, a die that is discarded and a critical;
{4, 6} for the screens, where a plain success matters. The characters of
`etr_rounds` throw one die and own the hat, and nothing tells them apart, so they
are a symmetry set; one player may come to hold both by a reassignment. They share
the round, its Objective and their rescues, and one Threat: it starts hidden, is
elite, and Downs with a critical. Corrections are limited by `PatchFields` to
`downed`, the field that collides with a roll. The
screens' run gives the character equipment with a bonus, the hat, a SPECIAL and
a passive ability, two scenes, and lets one correction touch one field
(`MaxTouched`) among those of `Corrected`: a step of Blood either way, the uses of
the item, the boxes of the category that forbids SPECIALs, `downed`. `MaxBehind`
is the number of accepted commands the screens together have not rendered, here 1: every
pair of a command and the next one from a screen that missed it. The run meets an
offered Objective that is gone, Feed on a lone Threat that forbids it and a
forbidden SPECIAL; it does not meet an injury panel whose boxes changed while it
waited, and two missed commands in a row: those the theorems cover, for any
`MaxBehind`. `PickScene` picks in time for the last directive, since an earlier
pick is one for a scene that is left again. `EditValues` is empty in the screens'
runs, so that an edit resends the numbers shown; `etr_rounds` edits to others.

Fairness. The room's and the engine's properties are all safety: they do nothing
unless called. `FairSpec` of the client assumes: every call ends, with a reply or
with the SDK's timeout (weak: an open call stays open until then); the timer
starts every pass and a pass is not suspended for ever (weak: `sync` sets the
timer in its `finally`); and a request that is posted again and again is served
at some time, a receipt that is asked for again and again is read and then used
(strong, because each attempt may end in a failure before it succeeds). Nothing
is assumed of users, of reloads, of strays, or of the loss of the seat, which
the two liveness properties except. `FairSpec` of `ProjectionSync` assumes that
each tab takes steps of its sync loop again and again: one is always enabled,
because the `finally` of `sync` sets the next timer and a read returns or fails,
so this is weak fairness of the loop. Failures are bounded by `MaxFaults`; nothing
is assumed of snapshots or of the player.

Every property of a passing run has a mutant in `PROJECT.json`: a plausible slip
of the code (a dropped delete, an off-by-one cap or sequence, a receipt looked
up only when accepted, a watermark left out, a second open roll let through)
under which TLC finds it violated. Their definitions stand before the definition
each alters and are marked "Mutant".

### Findings

- `etr_void_refund`. `parseRoll` (`template/schemas.ts:608`) does not copy
  `bloodSpent` and `itemIdsCharged`, and the live authority parses the stored
  state before every command (`contracts/room.ts:417`), so `decideVoidRoll`
  finds nothing to refund. `template/state.ts:260` says of them "Charged at
  ReviewAction time; kept on the roll so `VoidRoll` (B04) can refund exactly
  this." The unit test passes because it never reloads the state; with `Reloads`
  FALSE the property holds.
- `screens_correction`. The dialog copies `downed` and `retired` when it opens
  (`web/gm2/CorrectionDialog.tsx:41`) and compares them with the live sheet when it
  applies (line 64). A character Downed by a roll in between is brought back by
  a correction of its Blood. Line 18 says "only the fields the GM actually
  touches are ever included in the patch".
- `tail_eviction`. The header of `web/session/presentationLedger.ts` (lines 13-22)
  says that "any event still re-readable above the cursor was acknowledged fewer than
  `MAX_ACKNOWLEDGED_EVENT_IDS` acknowledgements ago and is therefore still in the
  acknowledged list", because the cursor trails the newest event by 300 at most;
  `docs/reviews/2026-09-18-s06-deepseek-factory-review.md:20` has it that "an evicted
  id can never be re-read above the cursor". Both count newer events only. While a
  waiting resolution holds the cursor just below an acknowledged event, up to 299
  newer ones can be acknowledged, and older ones too, own resolutions that waited
  until the player continued or they expired: up to 299 again. The list forgets after
  512 (line 481), so with at least 213 own resolutions waiting at once a handled event
  is presented again after a refresh: a rare state, but the claim is of every state. TLC
  finds it in the run, with a lag of 3, a list of 4, three resolutions and three
  notices; it found it too with a lag of 7 and a list of 12, and it finds none with a
  list of 5 in place of 4. The list is too short up to twice the lag less two. What
  remains true, and is proved, is `NothingReplayed` of section 5.

### Counterexamples outside the runs

These definitions state what a doc or a comment says and TLC refutes each within
seconds (the last within minutes), under a cfg of the module with the constants of a run and the
definition as its INVARIANT or PROPERTY.

- `SeatsMirrored` (`RoomAuthority`). `recoverSeat` overwrites the redeemer's index
  entry (`functions/recoverySeatAuthority.ts:157`) without reading it. An identity
  that holds seat A and redeems the code of seat B is then in the bindings of
  both; seat A has no index entry, so nobody can act for it until its own code
  is redeemed. `docs/ARCHITECTURE.md:309` says "One authenticated identity holds
  one participant seat/capability per room in v1", and line 289 that
  `uidBindings` is kept in sync with `bindings`. What remains true, and is
  proved, is that the index never authorizes wrongly (`IndexSound`).
- `SafetyAnonymous` (`RoomAuthority`). `submitRoomCommand` gives `runCommand` no
  actor (`functions/gameCommandAuthority.ts:415`), so a Pause is stored with the
  member who pressed it. `engine/runCommand.ts:47` says safety interrupts "must
  never record a member actor".
- `WaitingCallsSettle` with two tabs (`CommandClient`). `complete` forgets the
  entry for all tabs but resolves the promise only of its own
  (`web/repository/FirebaseRoomRepository.ts:297`), and `reconcilePending` walks
  only the shared entries. When a tab's call fails ambiguously and another tab
  reconciles the command, the first tab's promise stays pending, and
  `useRoomProjection`, whose `dispatching` flag is cleared when that promise
  settles, refuses its every later ordinary action until a reload.
  `docs/reviews/2026-09-17-s06-outbox-reconciliation-review.md:12` says receipts
  "settle the original pending promise".
- `DefinitiveOutcome` (`CommandClient`). `AUTH_REQUIRED` counts as a final answer
  (`FirebaseRoomRepository.ts:271`), but the server gives it before it looks for a
  receipt: a receipt read as missing, the lost request applied after all, the
  seat recovered by another identity, and the resend denied; the tab reports an
  applied command as rejected. Lines 199-200 say reconciliation settles a command
  "only after a definitive outcome is known".
- `ShownPassphraseOpens` (`RoomCreation`). After a lost reply the form is open for
  editing and submits under the same request ID. The server replays the room of
  the first submit (`functions/createRoomAuthority.ts:176`), whose passphrase is
  the first one, and the card shows the field
  (`web/landing/CreateSessionScreen.tsx:140`). A GM who changed it in between
  shares a passphrase that opens nothing.
- `ReviewCanBeEdited` (`TableScreens`, with two characters). A Threat the player
  proposed and another character's allocation beats stays on the review card
  (`web/gm2/PendingActionsPanel.tsx:75`) without a checkbox, and every review is
  refused until the GM voids the roll or reloads.
  `docs/ETR_RULES_IMPLEMENTATION_PLAN.md:44` says "GM confirms/edits the player's
  proposed `engagedThreatIds` during review."
- `RecoveredNeverBaselined` (`ProjectionSync`). A recovered command that had no
  receipt is sent again, and its answer carries no first sequence, so the ledger
  starts after its events; so does it when the tab reloads before the ledger is
  saved. `web/session/useRoomProjection.ts:168` says "Never baseline away a
  just-recovered command's own events." What holds is `ReceiptsOutliveFailures`.
- `NothingSkipped` with two tabs (`ProjectionSync`). Two tabs that open without a
  ledger baseline each at the heads they read, and a save takes the larger cursor
  of each partition: an event between the two, a recovered command's say, is
  presented by one tab at most and by none after its reload.
  `web/session/presentationLedger.ts:168` says merging is there "so two tabs sharing
  a key cannot regress each other"; going back is what it prevents, not skipping.
- `VoidedNeverActs` (`EatTheReich`, with the constants of `etr_rounds`). The
  allocation of a roll puts its character into `actedThisRound` even when an injury
  is still to be chosen, and `decideVoidRoll` takes such a roll
  (`template/engine.ts:1443`) and leaves the list alone: claim, load, declare,
  reveal, review, allocate, and the GM voids the roll while its injury waits. Nobody
  is hurt, the dice have done their work, and the character does not act again this
  round. The comment at `template/engine.ts:1863-1864` says "a voided roll never
  counts as having acted"; it is true of rolls voided before their dice are spent.
  `RoundOfTurns` names the step `Forfeit`, so `RefinesRoundOfTurns` says what the
  code does and not what the comment says.
- `NeverReplayed` (`ProjectionSync`), with notices that have two copies, for another
  reason than that of `tail_eviction`, with a lag of 1 and a list of 2 already: if one
  partition of a page was read before more events were committed than the list holds
  and the other after, the copy of the last of them arrives when the list has
  forgotten it.

Read in the code while modelling, without a definition: an event ID the template
builds from a round, a scene or a pause recurs (`template/engine.ts:1266`, `:1115`),
and the second event of it is never presented; for a GM whose first reads of the partitions' heads
lie on either side of such an event, the copy of the next one joins the entry of the
first, which is then shown from the newer revision and disappears until that
projection arrives (`ShownUntilHandled` fails on an instance for the GM with such
events); a rescue completed by dice does not clear
`downed`; a deferred injury choice does not mark the whole
category; `validAllocations` offers Feed on a lone Threat that forbids it and
SPECIALs an injury forbids, which `decide` refuses
(`Forbidden` in `OffersAreAccepted`), and may leave no acceptable target; reassigning
can give a member two characters; a scene loaded after `EndMission` takes no
action; a second fall starts the rescue over.

## 5. Proofs

`RoomAuthorityProofs` proves the following of `Spec` for every value of the
constants, from two assumptions: `ConstantsAssumption` (the kinds, batches and
cap are of their types; no member is called `gm`, `table` or `shared`, which
random UUIDs are not) and `NoneAssumption` (an absent document equals no
document and no code).

| Theorem | Property | Argument |
|---|---|---|
| `TypeCorrect` | `TypeOK` | inductive as it stands |
| `AuthorizationSound` | `IndexSound` | inductive with `TypeOK`: a new seat is one nobody is bound to, and a recovery deletes the entry of the identity it replaces, the only one that can name the seat |
| `RecoveryRevokes` | `OneIdentityPerSeat` | follows from `IndexSound`: both entries name a seat bound to one identity |
| `ViewersSeeTheRoom` | `ProjectionsCurrent` | a pointwise form, one statement per seat and one per projection, is inductive with `TypeOK`: the accept path refreshes all seated viewers in the transaction that moves the revision, a creation writes the newcomer's at the live one |
| `RetriesAgree` | `OneAnswerPerCommand` | too weak to be inductive; `AnswersRecorded`, that every answer given is what the receipt now stored would answer, is, and implies it |
| `ExactlyOnce` | `AppliedExactlyOnce` | inductive with `TypeOK`: only an unanswered command is appended, at the revision its receipt gets |
| `ImplementsService` | `RefinesCommandService` | initial states map to initial states; a replay maps to a stutter because of `AnswersRecorded`, a refusal to `Refuse`, an acceptance to `Apply` at the position that `AppliedExactlyOnce` says is the revision; every other action leaves the mapped variables alone |
| `LogOrdered` | `EventLogOrdered` | not inductive: that the events of a command fit behind the log needs `LogBounded`, that no event is ahead of the counters which number the next ones, and that the state is as long as its revision (`AnswersRecorded`) |
| `HistoryKept` | `HistoryPermanent` | an action property, step by step from the same `LogInv`: a receipt is written only where there was none, and with it the state gains one command at its end |
| `PlatformGuards` | `PlatformHolds` | an action property, from `IndexSound`: the index entry of the caller, which the handler checks, says the capability of the seat the command is applied for |
| `OccupancyCounted` | `OccupancyExact` | inductive in `SeatInv` with finitely many seats taken: an action binds one new member, rebinds one or none, so the cardinality moves with the counter |
| `OneGm` | `GmAgreed` | inductive in `SeatInv`: a GM is seated only by a claim that found none, and the mirror is written in the same transaction |
| `MembersReturn` | `SeatedCanReturn` | of an active room, from `SeatInv`: whoever is in the index is answered before admission status and capacity are looked at; an archived room answers so to everybody |
| `CodesRotate` | `RedemptionRotatesCode` | an action property: a redemption issues a code never issued before (`CodesIssued`) |
| `ReadersSeeALog` | `RefinesRoomLog(P)` | for every set `P` of partitions: initial states map to initial states; an accepted command maps to `Commit`, because by `LogInv` its copies lie behind all others and replace none (`NewEvents`); every other step leaves the mapped variables alone |

`SeatInv` is `TypeOK`, `IndexSound`, a finite `Seated`, `CodesIssued`,
`OccupancyExact` and `GmAgreed`; `LogInv` is `TypeOK`, `IndexSound`,
`AnswersRecorded`, `LogBounded` and `EventLogOrdered`.

`CommandClientProofs` proves the following of `CommandClient`'s `Spec`, without
fairness, for any number of tabs, commands and reloads and any outbox limit,
from `ClientAssumption` (Pauses are commands, the bounds are numbers) and
`NoCallAssumption` (no call is no reply).

| Theorem | Property | Argument |
|---|---|---|
| `TypeCorrect` | `TypeOK` | inductive as it stands; a step changes at most one tab's calls and pass, so it is enough that it keeps that tab's (`OneTab`) |
| `LearnedTrue` | `LearnedIsTrue` | not inductive: replies on their way (`RepliesFinal`) and receipts already read (`ReceiptsFinal`) must be final too, which they stay because decisions do; that what could not be saved is never decided needs `OnlySavedSent`, that every saved, sent, stray or decided command was issued |
| `NothingLost` | `NothingForgotten` | the part `SavedKept` of the same invariant: an entry goes only for a final result |
| `OrderKept` | `AppliedInIssueOrder` | inductive with `EarlierDecided`: while the identity has its seat, all ordinary clicks but the last are decided, by the screen's guard and `SavedKept`; without its seat nothing more is applied |

`RoomCreationProofs` proves every invariant of the passing run, for any number
of tabs, identities, requests, codes, rooms and draws, from `CreationAssumption`
and `NoCreationAssumption` (at least one draw; an absent document equals no
document).

| Theorem | Property | Argument |
|---|---|---|
| `TypeCorrect` | `TypeOK` | a step changes one tab's form and call together, and a saved request ID was minted |
| `EveryRoomAccounted` | `RoomsAccounted` | inductive with the types: every served call creates one room under a free code and an unused request, repeats an answer or changes nothing (`Cases`) |
| `SecretsShownOnce` | `SecretsOnce` | a creation counts one for a room that had none, a replay counts nothing |
| `CreatorAlone` | `OnlyCreatorTold` | an answer is what the receipt says, and receipts are never rewritten |

`ThrottleProofs` proves every property of its run, for any lag, limits and number
of calls.

| Theorem | Property | Argument |
|---|---|---|
| `TypeCorrect` | `TypeOK` | needs that no call has read a clock ahead of the present one |
| `CountersTrue` | `CountsAdmissions` | with the bag of admissions finite, a sum over the window gains what the counter gains; a new window is later than every admission |
| `BurstsBounded` | `BurstBounded` | the bound over any span is not inductive; that every bucket is `Paced` is: it is `Steady`, few enough admissions were committed after the first of its window, of the one before and of the one before that; or, without a document, `Quiet`, as of the present clock |
| `LockoutsBrief` | `LockoutBrief` | a denial takes a full window that is not over; `Steady` says that as many admissions were committed since that window began, and by the lag it began recently |

The inductive invariant `PaceInv` adds to the types that the bag of admissions is
finite and in the past and every bucket `Paced`. The properties count by a fold
over a set of records; `SumFacts` has what the proofs need of it.

`EatTheReichProofs` proves the following of `EatTheReich`'s `Spec`, for any
roster, equipment, abilities, scenes, faces, players and bounds, from
`RulesAssumption` (finite equipment, a die of six faces), `NobodyAssumption`,
`RosterAssumption` (roster and equipment are well formed; edits, granted items and
scene cards have any integers, and a correction touches one of six fields) and `ScenesAssumption` (scenes present well-formed
cards, and no scene's Objective has the ID of a rescue, which the code relies on
and does not check).

| Theorem | Property | Argument |
|---|---|---|
| `RollsOneAtATime` | `OneOpenRoll` | a conjunct of `Inv`, below |
| `RollsFitTheRound` | `OpenRollsFitTheRound` | a conjunct of `Inv`; needed with the other because a declaration is refused for a character that acted or has an open roll, and only together do they say which |
| `DiceStand` | `RolledDiceStand` | from `Inv`: only a declared roll is rewritten with new dice, and numbers grow |
| `ImplementsRounds` | `RefinesRoundOfTurns` | initial states map to initial states; each of the six ways is a step of one character's turn (a void is `Void` or `Forfeit`), a new round, or a stutter |
| `SecretsKept` | `SharedCopiesKeepSecrets` | from the shape of Threats: deltas in shared copies are filtered by what is revealed before or after |
| `TypeCorrect` | `TypeOK` | inductive as it stands, whatever integers the GM sets, with a lemma for what each operator of `EatTheReichRules` does to a sheet, a pool, an allocation, an Objective and a Threat |
| `ReviewsCovered` | `ChargesAreCovered` | an action property, from the types: a review's charge is checked against the sheet in the state that pays it |
| `RescuesStand` | `RescuesOutliveScenes` | an action property, from an invariant of its own (`RescueKinds`): a rescue's ID is a primary Objective's wherever it appears, and a new scene carries those over |

The 22 commands act on rolls and round in six ways (`Declares`, `Reviews`,
`Allocates`, `Answers`, a void, a new round or scene, or not at all), which
`NextIsOneOfSix` shows once; everything else reasons about the six. The inductive
invariant `Inv` is `RollsOK /\ RoundOK /\ OneOpenRoll /\ OpenRollsFitTheRound`:
the first two are the part of the types the others need.

`TableScreensProofs` proves of `TableScreens`' `SSpec`, with the assumptions of
`EatTheReich`, `ConsoleAssumption` (the GM's console is no player's screen),
`MissionAssumption` (a mission is a non-empty list of scenes with distinct IDs),
`StatsAssumption` (there is a stat to choose) and `DialogAssumption` (what the
dialog is used on), for screens that are behind by any number of commands:

| Theorem | Property | Argument |
|---|---|---|
| `ShownRollsStand` | `SeenRollsStand` | not inductive; `Seen` is, with the engine's invariant: of every roll a screen shows, the game's record is the very one, a later one (`Later`, by the rank of its status) or gone for ever, because numbers only grow, a status only advances, and no record changes without its status |
| `OffersTaken` | `OffersAreAccepted` | from `ShownRollsStand` and the types: a roll that still waits is the one shown, with the same kept dice and opposition, so what the panel offers is compared, refusal by refusal, with what `decide` checks, and what differs is a target that went since |
| `ClaimsHold` | `ClaimsAreBacked` | with `FormsBacked`, inductive: a claim goes with the selection it rests on |
| `AdvanceAdvances` | `AdvanceMovesOn` | with `ChoicePicked`, inductive: a pick is a scene of the mission; about the scene the console shows, which may be an old one |
| `TypesAtTheTable` | `TypeOK` | `TableInv`: the engine's types, that what screens show was of those types, what the dialog holds (`DialogHolds`), and the two above |
| `ChargesAtTheTable` | `ChargesAreCovered` | as for the engine, for whatever form and projection the pool was composed on |
| `EngineAtTheTable` | `RefinesRoundOfTurns` | every step of a screen is an `EngineStep`, a command of the engine, a correction by a well-formed patch or an edit to any integers, and the engine's invariant and its step theorems hold of those; the theorem has all of them |

`ProjectionSyncProofs` proves of `ProjectionSync`'s `Spec`, without fairness, for
any viewer, events, page size, passes and limits of the ledger, from
`ViewerAssumption` (the viewer is a player, the GM or the table),
`PageLimitAssumption` and `LimitsAssumption` (pages and limits are positive),
`EventsAssumption` and `NoneAssumption` (what is absent is no session, ledger or
cursor). Three hypotheses stand in the theorems that need them. `OneTab`: the
viewer has one tab, because with two `NothingSkipped` and what rests on it are
false (section 4). `RecurInOnePlace`: an identifier the template uses again has its
copies in one partition. That is so for players and the table, for whom such events
are shared only; a round's end and a scene loaded or edited (`template/engine.ts:1266`,
`:1115`, `:1363`) go to the GM's partition too, and for the GM the theorem fails
(section 4). `ChoicesLieWithin`: an
injury choice is stored where its resolution is, and a resolution does not recur:
the one is shared only, the other shared and private to the GM, under a roll's ID.

| Theorem | Property | Argument |
|---|---|---|
| `PagesNeverRunAhead` | `PagesLeaveNoGap` | for any number of tabs, by `SyncInv`: a session holds stored records only, one entry per event, and its cursor is behind what waits; and of a page under way, each partition's answer is a prefix of what it stores beyond the cursor, or ends at a full page before whatever is committed later (`ReadOK`). A page then releases all that lies below its watermark (`PageReleases`), and ingesting it keeps that (`IngestKeeps`) |
| `EventsNeverSkipped` | `NothingSkipped` | with `ThroughInv`: below a saved cursor everything since the ledger's start was handled, and between that cursor and what the session reads next everything was handled or waits with its copy. Expiry and overflow hand over what they drop, a refresh falls back to the saved cursor |
| `ReceiptsStayAhead` | `ReceiptsOutliveFailures` | with `LedgerInv`: until there is a ledger the tab keeps the first sequence of every command recovered from its receipt, and the ledger starts below all of them |
| `ShownStaysShown` | `ShownUntilHandled` | an action property, for any number of tabs, given `RecurInOnePlace`. By `ShownInv`, what is published is still in the session, with more copies perhaps, or was handled (`KeptIn`), and an entry has one copy of a partition (`OneCopyEach`); `Told` says of the log that revisions ascend and unique events appear once. So a copy that joins an entry is of the revision it was shown from, and projections only advance |
| `ChoicesFollowSummaries` | `ChoicesWaitForSummaries` | given `OneTab` and `ChoicesLieWithin`. Not inductive: with `ChoiceInv`, a choice is published together with its resolution or after that was handled (`QueueOK`), which `ThroughInv` gives for every page; and since revisions ascend, a presented choice has its resolution presented with it, so that nothing held is let go of (`LetGoWhenFree`) |
| `LimitsKept` | `TypeOK` | for any number of tabs. With `SyncInv`, `BoundInv`: every list is without repetition and within its limit, every queue has one entry per event and is within its own. What each operator of the ledger does to a bounded list is a lemma (`AcknowledgeBounded`, `ExpireBounded`, `IngestBounded`, `MergeBounded`) |
| `NothingReplayed` | `NeverReplayed`, which is false in general | given `OneTab`, in every state in which at most `MaxAcknowledged` events were handled, or the room has at most that many. With `HandledInv`: while all that was handled fits in one list, the saved ledger and the open session acknowledge all of it (merging two lists drops nothing as long as their union fits), and what waits is not acknowledged (`Settled`) |
| `FollowsALog` | `RefinesRoomLog` | for any number of tabs: every step commits one batch or none (`LogMoves`), and a batch is a step of `RoomLog` (`CommitIsLogged`) |

`LimitsKept` and `NothingReplayed` rest on lists without repetition: such a list is as
long as its range is large (`InjectiveLength`), and what `newestUnique` drops it drops
from a list that was too long (`NewestBounded`).

The sums over finite sets are proved by a smallest counterexample, not by
induction: no theorem with an operator parameter is instantiated.

Proved without being in a run any more, because the theorem says it for every
instance: `TypeOK` of `RoomAuthority`, `RoomCreation`, `Throttle` and
`ProjectionSync`, `OneIdentityPerSeat`, `OneAnswerPerCommand`,
`AppliedExactlyOnce`, and `RefinesRoomLog` of both modules that have it.

Only model-checked: `SavedCommandsSettle`, `WaitingCallsSettle` and
`EventsGetShown`, which are liveness. Outside the prover's reach: liveness under
fairness and `ENABLED`, induction over data, and anything about `RECURSIVE`
operators.

## 6. Not modelled

`PROJECT.json` (`components`) has a line for each part. Left out for good: the
callable wrappers, parsers and access rules (no state, or evaluated by Firebase;
what `parseState` drops is in `Stored`), hashing and random generation (functions
over bytes), the query projection (a pure read), landing, join and table screens
(one call or none), the test doubles and scripts. Of the command client, a
changed sign-in and corrupt saved entries: both make every operation of the
repository throw before it writes, for as long as they last. Of the dashboards,
the allocation panel's choices before they are confirmed, the edit form's numbers
between loading and sending, and layout. Of the
ledger, roll contexts, which decorate what is shown. Of the engine, the theatre
texts and the explanations of a pool. Firestore itself is taken to be what the
code relies on: a transaction is serializable, and its automatic retries have no
effect but that of the attempt that commits.

The fixture store (`web/repository/InMemoryRoomRepository.ts`) is planned and not
modelled. It differs from the authorities it stands in for where it awaits
between reading and writing: two `createRoom` calls of one request may both make
a room, one recovery code may be redeemed twice, and a replayed dispatch answers
with the current revision instead of the accepted one.

## 7. Running

    tlc -config MCRoomAuthority_commands.cfg MCRoomAuthority.tla
    tlc -config MCCommandClient_order.cfg MCCommandClient.tla
    tlc -config MCRoomCreation_retries.cfg MCRoomCreation.tla
    tlc -config MCThrottle_joins.cfg MCThrottle.tla
    tlc -config MCEatTheReich_rounds.cfg MCEatTheReich.tla
    tlc -config MCProjectionSync_player.cfg MCProjectionSync.tla
    tlc -config MCTableScreens_screens.cfg MCTableScreens.tla
    tlapm RoomAuthorityProofs.tla
    tlapm RoomCreationProofs.tla
    tlapm ThrottleProofs.tla
    tlapm CommandClientProofs.tla
    tlapm EatTheReichProofs.tla
    tlapm TableScreensProofs.tla
    tlapm ProjectionSyncProofs.tla
    tlapm SumFacts.tla
