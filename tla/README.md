# chat-crdt in TLA+

A model of the chat application in this repository: a mobile app (Expo, React
Native) and a NestJS server that share one Yjs document per room over
WebSockets, with optional end-to-end encryption per room. The modules follow the
code, action by action. TLC checks them on small instances and TLAPS proves the
main invariants for every value of the constants.

Paths in this file are relative to `src/`; `server/` stands for
`apps/server/src/`, `mobile/` for `apps/mobile/src/` and `app/` for
`apps/mobile/app/`.

## 1. The system

### Components

| Component | State | Operations | Interacts with |
|---|---|---|---|
| Document (`packages/sync-engine/src/SyncEngine.ts`, yjs) | struct store, delete set, what is parked until its predecessors arrive | send, retract, reinsert, encode, apply | provider and persistence through the doc's `update` event |
| Provider (`WebSocketProvider.ts`) | status, `pendingUpdates`, `retractedIds`, `stateRefused`, `synced`, its awareness | connect, flush, handle a frame, announce presence, reconnect or stop | gateway (frames), `useSync` (callbacks) |
| Gateway (`server/sync/sync.gateway.ts`) | maps `rooms`, `roomInitMap`, `persistTimers`, `epochByDbId`; per socket: room, rate, last refusal, liveness, awareness ids | admit, load, receive, refuse, limit, fan out, persist, unload, raise an epoch, sweep heartbeats | devices, PostgreSQL (`yjsState`, `currentKeyId`), Redis |
| Update gate (`server/sync/e2ee-update-gate.ts`) | none | is every inserted item an envelope? | gateway |
| Room keys (`server/rooms/room-keys.service.ts`, `server/users/users.service.ts`) | `Room.currentKeyId`, `RoomKeyGrant`, `User.publicKey` | claim an epoch, upload and list grants, publish a key | devices over REST; tells the gateway of a claimed epoch |
| Key flows (`mobile/crypto/keyFlows.ts`, `mobile/hooks/useE2ee.ts`, `keyStore.ts`) | identity and room keys in the secure store, the cipher's keys | publish, load grants, serve grants, enable or rotate | room keys service, cipher |
| Room summaries (`mobile/store/rooms.store.ts`, `crypto/roomRefresher.ts`, `roomE2eeState.ts`, `e2eeStickyStore.ts`) | cached list, refresh outcome, sightings, a persisted flag, a retry timer | fetch, refresh, retry, note an epoch | REST, socket status, composer gate |
| Local persistence (`SQLitePersistence.ts`) | the row of a room, a debounce timer, the write under way | load, adopt a legacy row, persist, discard, destroy | engine |
| Client session (`mobile/hooks/useSync.ts`, `store/chat.store.ts`) | engine, provider and persistence of the open room; reinsert stash, restored ids, rejections | mount, rebuild, unmount, callbacks | all of the above |
| Authentication and rooms (`server/auth`, `server/rooms/rooms.service.ts`, `mobile/store/auth.store.ts`, `app/_layout.tsx`) | accounts, tokens, members; the token in memory and in SecureStore | register, log in, log out, create and join a room | gateway (token and membership), screens |
| Presence (`sendAwareness`, awareness handlers, `mobile/hooks/usePresence.ts`) | an awareness entry per client on every side | announce, pass on, expire, clear on disconnect | provider, gateway, heartbeat |
| Room screen (`app/(chat)/[roomId].tsx`, composer) | at-end flag, drag, composer height, pending scrolls | follow, scroll, resize, send | chat store |

### Where it is hard

* **Awaits.** Node and React Native run one callback at a time; between two
  awaits anything may happen. A socket closes while `handleConnection` waits, an
  epoch is claimed between a read and its use, two flows of a device publish at
  once, a room is loaded again while its last write is under way.
* **The network.** Sockets drop with frames under way or stay half-open, frames
  sent before the gateway listens are lost, lists are answered out of order,
  requests succeed and their answers are lost, Redis loses a message.
* **Mixed content.** A room becomes encrypted while devices hold, queue or send
  plaintext; whole updates are refused, and the parties must still converge and
  the text must come back to the composer.
* **Crashes.** The server comes back with an older snapshot, a device between
  two halves of a key flow, an app with nothing but a flag or a token.
* **Timers.** Debounced writes, GC timers that go by a room's name, backoff of
  re-asks, refreshes and reconnects, heartbeats, the expiry of presence.

`PROJECT.json` lists each hazard at its line with the properties that cover it.

### What makes each part correct

* Exchange: a device with nothing under way agrees with the server; only its
  author withdraws a message; no plaintext enters an encrypted room; the
  reject/resync exchange ends.
* Lifecycle: an accepted update reaches the row; a loaded copy knows every
  epoch event; a copy in use is not unloaded; an empty room is.
* Instances: copies differ only by what is on its way or was lost.
* Keys: an epoch has one key; it is never orphaned; every member gets it.
* Summaries: a sighting of encryption is not taken back; the server's word on a
  visit is of that visit; an open room is decided in the end.
* Device: a sent message is somewhere until the server has it or its text is
  back; an account never syncs another's unsent plaintext.
* Session: the session that runs is the one stored; a member's work arrives.
* Presence: what someone does now is never taken for old news; who is gone
  disappears.
* Screen: a reader at the end sees the end, one who left it is left alone.

## 2. Modules

| Module | Models | Built on |
|---|---|---|
| `YDoc` | the shared document as a replicated set of items with per-client clocks | |
| `SharedRoom` | abstract: a room and its copies, which copy from one another in single steps | |
| `RoomSync` | devices, sockets and the gateway's handlers for one room; implements `SharedRoom` | `YDoc`, `SharedRoom` |
| `RoomLifecycle` | admission, loading, saving and unloading of one room on one instance | |
| `InstanceFanout` | one room on several instances, Redis and the row they share | |
| `KeyGrants` | the key services and each device's concurrent flows | |
| `RoomRefresh` | how one device decides whether a room is encrypted | |
| `MessageFate` | abstract: what the app promises about a message | |
| `DeviceStore` | engine, row, refusals and restored text of one room on one device; implements `MessageFate` | `MessageFate` |
| `Session` | sign-in and out, SecureStore, joining a room, the connection and the gateway's limits | |
| `Presence` | awareness entries, their frames, the heartbeat, expiry | |
| `ChatView` | the room's list, composer stack and scrolls | |
| `MC...` | instances for TLC: symmetry sets, accounts, screen sizes | the module of that name |
| `RoomSyncProofs` (with those of `YDoc`), `RoomLifecycleProofs`, `KeyGrantsProofs`, `RoomScreenProofs` (`RoomRefresh` and `ChatView`), `DeviceStoreProofs`, `InstanceFanoutProofs`, `PresenceProofs`, `SessionProofs` | lemmas and theorems | the module of that name, `TLAPS` |

An action is a whole handler: everything it does up to the next await. The
definition's name is that of the code where there is one, and `PROJECT.json`
maps every definition to its lines. The modules divide the system by the state
they follow; each says in its head comment which other module has the detail it
leaves out.

**YDoc.** An item is an inserted message, identified by its author's replica and
clock. A document has the items it has, those parked because an earlier item of
the same author is missing (yjs's pending structs), and deletions, applied or
parked. `EncodeDiff`, `ApplyUpdate` and `Delta` are yjs's as the code uses them; a
deleted item keeps its place without content. The order of the array and the
encoding are not modelled.

**RoomSync.** `up` and `down` are the two FIFO directions of each device's socket.
`SendMessage`, `Open`, `Disconnect`, `Rebuild` and the `Client*` actions are the
provider's and `useSync`'s; `Join`, `AnswerStep1`, `AcceptUpdate`, `RejectUpdate`,
`ResyncTimeout`, `RaiseEpoch`, `Persist` and `Crash` are the gateway's. Opening a
socket and joining the room are two steps, and `LoseEarlyFrame` loses what
arrives between them. A device of an older app (`Stale`) ignores the frames it
does not know. The history variable `unheard` records, per socket, what its own
update let the server integrate without carrying it (`Adopted`): the `update`
event has it, but goes to everybody except that socket (`sync.gateway.ts:492`).

**RoomLifecycle.** Sockets go through the awaits of `handleConnection`; copies of
the room are numbered as they are created, so that what a closure captured and
what a map holds under the room's name can differ. Each close arms a timer of
its own. Writes are issued in order and complete or fail later.

**InstanceFanout.** `copy[i]` is instance i's entry in `rooms`, `queue[i]` what Redis
has for it. A load is three steps, because the room is in the map, and takes
updates, before its row is read (`BeginLoad`, `ReadRow`, `LoadRoomState`). A claim
commits (`ClaimEpoch`) before it is announced (`OnEpochAdvanced`). `WriteLands`
replaces the row by a snapshot taken earlier, whatever the row has by then.

**KeyGrants.** Every flow of a device is a program counter with what it has read
so far. A key pair is a number, a room key is a number, a grant is the key and
the pair it is sealed to. `PutLands`/`SetIdentity` and `ClaimEpoch`/`CacheRoomKey`
are the two halves of a request and what the device does with its answer;
`RequestLost`, `AppCrash` and `Reinstall` come between them. Enabling and rotating
start from the room's banner, which offers only what it can see (`BannerPressed`),
end at once when no member has a key published (`NoRecipients`), and read the list
of rooms when they are done (`FetchRooms`).

**RoomRefresh.** The list's request and each refresher entry's go through flag,
sent and served; answers arrive in any order. `createLatestWins` is the relation
"begun before": a request is too late once a later one was applied. `Restart`
leaves only the persisted flag.

**DeviceStore.** `jobs` are the storage calls under way, in the order SQLite runs
them. An engine is reading, migrating, live, refused or stuck; tearing it down
issues a final write and a rebuild may read before or after other calls. A
refusal either restores the text, stashes it for reinsertion under a cipher, or
finds it was restored already (`claimed`). The row from before rows were per
account may hold anybody's text and is adopted by whoever opens the room.
`Fate` maps all of this to where a message is; `excused` names the events nothing
promises against, and `KeepsItsPromise` is `Promise!Spec` with
`INSTANCE MessageFate WITH fate <- ...`.

**Session.** `jobs` are SecureStore's calls; a login's answer stores the token, and
only its landing signs in (`SetToken`). A frame is the set of messages in it, so
that the size limit and the rate window are the gateway's; closing codes travel
to `HearClose`, where the provider stops or retries. `create` is two writes.

**Presence.** An entry is a clock and a state; `Replaces` is y-protocols' rule.
Sockets of a device are numbered, and an old one may be known to the server
after the device has a new one. `tracked` are the gateway's `awarenessIds`.

**ChatView.** React's commits, the native list and the screen's refs are told
apart: rows and padding are laid out after the event that asks for them, a
scroll runs when they are. Heights are whole points of a small screen.

## 3. What is checked

Passing runs (the bounds are in the cfg files):

| Run | Shows | Bounds |
|---|---|---|
| `room_sync` | `QuietAgreement`, `OnlyAuthorsWithdraw`, `ServerHoldsForeign`, `GateHolds`, the refinement `SharesARoom` | 2 devices, 2 messages, also both of one author, 1 epoch, 1 server crash |
| `room_sync_crash` | `RefusedOnlyForOthers`, and `Settles` under fairness | 1 drop or rebuild and 1 server crash, 1 stale device, 1 message of either device, 1 epoch |
| `room_lifecycle` | `EpochNotLost`, `FirstTailSaved`, `OwnTimerSparesUsers`, and `Unloads` under fairness | 3 sockets, 2 updates, 3 loads, 1 failed write, 1 epoch |
| `key_grants` | `OneKeyPerEpoch` | 2 accounts with a device each, one of which may sign in to the other's, 2 keys, 1 failure |
| `key_served` | `EpochKeyHeld`, `NotStranded`, and `Served` under fairness | 2 accounts, 1 failure, 1 reinstall |
| `room_refresh` | `SavedIsFinal`, `EntryIsConfirmed`, and `Confirmed` under fairness | 2 visits, 1 epoch, 1 failure, 1 restart |
| `device_store` | `RestoredOnce`, `NotAnothersUnsent`, the refinement `KeepsItsPromise`, and `Recovers` under fairness | 2 accounts with 1 message each, 1 message of another member, any legacy row, 1 sign-out, 1 fault |
| `instance_fanout` | `DifferencesAreMissed`, `EpochKnown` | 2 instances, 1 client that moves between them, 2 items, 1 epoch, 3 loads, 1 fault |
| `presence` | `OwnerLeads`, `ServerTracks`, `TypingReaches`, and `GhostsLeave` under fairness | a talker with 2 sockets, an onlooker, 3 clock values |
| `session` | `StoredIsSession`, and `WorkArrives` under fairness | 1 account, 1 message, 2 tokens, 2 faults, 2 storage calls under way, windows of 3 frames |
| `chat_view` | `EndIsShown`, `NeverYanked` | 2 messages, 1 drag, 2 other changes |

Each also checks its module's `TypeOK` where it is listed. The bounds let the
interesting cases happen: two devices are enough for a frame that crosses an
epoch, for a refusal of someone else's message and for two racing claims; one
drop is enough to lose a queue in flight and one crash to go back to an older
snapshot; two visits are enough for a late answer; two overlapping GC timers
need three loads; a client that moves shows what an instance lacks as well as
two would; two sockets are a half-open one and its replacement; two accounts
are enough for one to adopt the other's row; three rows of 60 points do not fit
a list of 100.

Larger bounds pass by hand: the safety properties of `RoomSync` with 2 messages and
a drop or rebuild (1,166,500 states), `QuietAgreement`, `SharesARoom` and `Settles`
with 2 messages, a crash and a stale device (961,020), `RoomLifecycle` with 4
sockets (839,117), the invariants of `KeyGrants` with a sign-in, a failure and a
reinstall (4,262,631), and of `Session` with 2 messages and 2 faults (1,652,752;
`WorkArrives` with 1 fault, 856,912). Every property has a mutant of the code that
the run refutes.

One run finds a comment violated:

| Run | Statement | What the code does |
|---|---|---|
| `publish_race` | `app/_layout.tsx:44`, publishing is idempotent | two flows publish at once; device and server keep different pairs |

The following configurations are for use by hand. Each finds the statement in
the second column violated (`tlc -config X.cfg MCModule`).

| Configuration | Statement | What the code does |
|---|---|---|
| `HistoryIsPermanent` (`MCRoomSync`) | ADR-010:157, mixed history is permanent | a redundant copy of an accepted plaintext message is refused after the epoch, and its author deletes the message for everyone |
| `EverybodyHears` (`MCRoomSync`) | `sync.gateway.ts:484`, a delta reaches all but the one it came from, who has it | after a crash a message is parked at the server until another device brings an earlier one back; that device is not sent the event with both, and misses the parked one until it joins again |
| `RefusalWarranted` (`MCRoomSync`) | a device gives up pushing only for plaintext it shows | the plaintext was parked |
| `OneCopy` (`MCRoomLifecycle`; `-continue` shows both) | ADR-006:12, the debounce never drops the tail (`TailSaved`); `sync.gateway.ts:484`, updates reach all local clients (`OneCopy`) | the final persist is not awaited: a reload reads the row before it lands; an older GC timer removes the new copy from the maps while it is in use |
| `Gauges` (`MCRoomLifecycle`; `-continue` shows both) | the two gauges count what there is | they drift |
| `RowCovers` (`MCInstanceFanout`) | ADR-004:19 and :31, durability lives in Postgres, redundant writes are benign | an instance writes a snapshot taken before another's update reached it, and updates from Redis are not persisted by who receives them |
| `SightingIsFinal` (`MCRoomRefresh`) | `roomE2eeState.ts:42`, any sighting of E2EE is final | the only answer that reported the epoch is dropped as too late, and the room falls back to plaintext offline |
| `CipherBuilt` (`MCRoomRefresh`) | a room known to be encrypted gets its cipher | a stale list lowers the epoch a frame had raised |
| `SignInUnpublished`, `DeletedAreDead` (`MCKeyGrants`) | a signed-in account has its key published; deleted grants were useless | an account's second device, and a second account on a device, lose grants |
| `ComposerOpens` (`MCDeviceStore`) | `[roomId].tsx:146`, the gate recomputes live | a rebuild with an unchanged cipher clears the room's crypto entry, and the composer waits for a key it has |
| `RefusedTextReturns` (`MCDeviceStore`) | `chat.store.ts:136`, nothing typed is lost | own text refused together with another's is marked as restored and is not |
| `PresentIsCounted` (`MCPresence`) | `sync.gateway.ts:253`, counts are correct before the next change | an announcement sent on opening is lost before the gateway listens, or refused as old news after its own removal |
| `SignsOut` (`MCSession`) | ADR-003:24, 4001 logs out, other codes retry | 4029, the rate limit, is in the range taken for authentication: the user is signed out |
| `RoomHasAdmin` (`MCSession`) | a room has an administrator | `rooms.service.ts:51-60` writes the room and its first member in two steps; the second may fail |
| `OversizeLoops` (`MCSession`) | `README.md:100`, queued updates are flushed on reconnect | one update larger than a frame may be closes every socket (1009), for ever |
| `EndIsKept` (`MCChatView`) | `[roomId].tsx:215`, the last bubble stays above the composer | a resize judged while the list had not followed is not made up for |

### Fairness

Weak fairness throughout, of what the runtime does by itself; no user action
is ever assumed.

* `room_sync_crash`: frames are delivered, sockets reopen (the provider retries
  for ever), the gateway joins them, and its resync timer fires.
* `room_lifecycle`: awaits are resolved, timers fire, writes complete.
* `key_served`: requests are answered and flows go on; a member opens the room
  again and again, because the app loads and serves grants at no other time
  (the one exception to the rule above).
* `room_refresh`: the flag is read, requests are answered, the retry timer fires,
  the socket is tried again. The socket need not ever connect.
* `device_store`: storage calls end, an engine goes on when they have, the server
  answers questions about epochs and keys.
* `session`: calls that are not lost are answered, retry timers fire, frames under
  way arrive, closes are heard, screens follow the session. `WorkArrives` lets go
  of who is signed out or told to leave.
* `presence`: the heartbeat's interval and admissions go on, frames are
  delivered, a close the sweep forced is seen, and a device forgets one that is
  gone after 30 s. That the network reports a dead socket is not assumed.

## 4. What is proved

For all values of the constants that satisfy the modules' assumptions (bounds
are naturals, devices, instances and accounts any sets, sockets of
`RoomLifecycle` finitely many):

* `RoomSyncProofs`, of the document: merging updates commutes and is idempotent
  (`MergeCommutes`, `MergeIdempotent`), and two documents with nothing parked agree
  after they have exchanged state vectors and diffs (`HandshakeAgrees`). Of the
  exchange:
  * `TypeCorrect`; `GateAlwaysHolds`, an action property, by cases on what can
    change the server's document.
  * `WithdrawalsAreAuthors`, through `WithdrawInv`: also in every frame, queue and
    snapshot a deletion is one the author made. The invariant must cover them
    because any of them may be applied later.
  * `ServerHoldsAllForeign`, through `HeldInv`: whatever is on its way to a device
    is held by the server, and until it crashes whatever arrived there.
  * `OwnRefusalsAreRepaired`, through `OwnInv`: a device holds every message it
    ever inserted (so they are integrated, whatever is missing of others), what
    it sent says no more than its document does, and a refusal under way to it
    names, of its own, only what it shows or has withdrawn in this session.
    The frames belong to it because a refusal names what a frame carried; a
    rebuild forgets `retractedIds` only together with the socket and its frames.
  * `NothingIsLost` (`QuietAgreement`), on top of `OwnInv`: what a joined device has
    the server has, or a frame on its way brings it, or the device is going to be
    asked for its state (`Told`); what the server shows the device has, or a frame
    on its way brings it, or it is in `unheard` (`Heard`); and before a crash
    nothing is (`NoneUnheard`), because a parked message waits for one that its
    author alone can bring.
  * `RoomIsShared` (`SharesARoom`), the refinement of `SharedRoom`. Applying an update
    is merging copies (`ApplyIsMerge`); what is left is that a frame, built in one
    state and applied in another, still is what the abstract step allows then:
    `OwnInv` says it of frames to the server, `HeldInv` of those from it, also
    across crashes (they take the sockets' frames with them), and `WithdrawInv`
    with `OwnInv` of refusals.
* `RoomLifecycleProofs`: `TypeCorrect`; `EpochNeverLost`; `OwnTimerNeverUnloadsUsers`,
  through `MembersInv` (a connected device is in the client set of its copy);
  `TailAlwaysSaved`, through `CreatedInv` (until the second load everything refers to
  copy 1) and `TailInv` (the last write issued carries all that was accepted unless
  a timer is armed).
* `InstanceFanoutProofs`: `TypeCorrect`; `NothingElseDiffers`, through `Received`
  (nothing is anywhere that was not said) and `Complete` (what was said is in each
  copy, on its way to it or was missed, also while it loads: otherwise an update
  between `BeginLoad` and `LoadRoomState` would be unaccounted for); `EpochIsKnown`,
  through `Reached` (no epoch is anywhere that the room has not reached) and `Known`,
  which says of a copy under way that its row or `epochByDbId` has the epoch.
* `KeyGrantsProofs`: `TypeCorrect`, through `RoomForNext` (an admin's flow works on an
  epoch there is room for); `EpochHasOneKey`, through `KeyInv` (grants on their way
  are sound too, an unreached epoch has no key anywhere, a claim under way
  carries its own). `NobodyIsStranded`, if no two flows of a device publish at
  once, through `PublishesAlone` and `HasKeeper` (while nobody changes accounts, a
  device of the account has the published pair, or has none and its flow is going
  to store that pair or to publish another). `NoOrphanEpoch`, if moreover each
  account has one device that never signs in to another, through `AdminsOpen` (the
  admin's device opens a grant for every epoch reached) and `FlowsReady` (whatever
  grant a flow has in hand for the admin is sealed to the pair the admin's device
  has). With a second device to an account it does not hold: that device's
  publication deletes the account's grants (`server/users/users.service.ts:40`), and
  may do so between a claim and the moment the claimer caches its key.
* `RoomScreenProofs`, of `RoomRefresh`: `TypeCorrect`; `SavedSightingIsFinal`, through `FlagInv` (a saved
  flag is unseen only after a restart and before the first request);
  `VisitIsConfirmed`, through `VisitInv` (entries are new, answers to the current one
  are of this visit). Of `ChatView`: `EndShows` and `ReaderNotYanked`, through
  `ViewInv`. A screen that wrongly takes the reader to be at the end has a scroll
  asked for or under way (`Shows`); that survives the layout of rows and padding
  because rows to come have a scroll waiting (`RowsCome`), a padding to come has one
  to repeat (`PaddingComes`), and fewer rows leave a reader at the end there
  (`FewerRows`). A reader who dragged the list away is not taken to be at its end,
  and what a layout may repeat was asked for already (`Away`).
* `DeviceStoreProofs`: `DeviceTypes`, which needs to know which storage calls may be
  under way at which stage; `TextsReturnOnce`, through `OnceInv` (a text put back is
  claimed); `PlaintextStaysOwn`, through `OwnInv` (rows, calls under way, stashes and
  what is read back hold plaintext of their own account only); `PromiseIsKept`, the
  refinement of `MessageFate`, through `FateInv`: the newest document of an account
  is the engine's while it is live, else the last write issued, else the row, and
  has every message the account typed that is not settled (on the server, back
  in the composer, shown as rejected, or excused). Each of the code's steps then
  maps to a step of the abstract specification or to none.
* `PresenceProofs`: `TypeCorrect`, through `RoomsInv` (which sockets can be in the
  room); `OwnerAlwaysLeads`, through `Leads` (announcements under way to the server
  are not ahead of their owner either); `ServerAlwaysTracks`, on top of it, because
  only a socket of the owner carries the owner's entry (`Silent`); `TypingIsShown`,
  through `ReachInv`: for each talker in the room there is a latest word, nothing is
  newer anywhere, and once the server has it everybody in the room has it or is
  being sent it.
* `SessionProofs`: `TypeCorrect`; `SessionIsStored`, through `StoreInv` (the read at the
  start is the first call, and nobody is signed in until it is over; from then on
  memory and store change together).

Every invariant and action property of the passing runs is thus proved. Only
model-checked: all liveness (`Settles`, `Unloads`, `Served`, `Confirmed`, `Recovers`,
`WorkArrives`, `GhostsLeave`), which is beyond the prover. The statements the other configurations
find violated are not theorems. The inductive invariants were model-checked
before they were proved; `OwnInv`, `Told` and `Heard` also with a drop and a crash
together (11.5 million states), `ReachInv` with 10 million.

## 5. Assumptions worth knowing

* `NotStranded`, `EpochKeyHeld` and `Served` are checked, and the first two proved,
  with `PublishOverlaps = FALSE`: no two flows of a device publish at the same time.
  `publish_race` shows what happens when they do. `NotStranded` speaks of devices
  that keep their account, `EpochKeyHeld` of runs without a reinstall.
* Encryption is perfect: a grant opens for the pair it is sealed to.
* A database load succeeds; writes may fail. A request is served once, in one
  step, between its sending and its answer.
* `InstanceFanout` lets a room be unloaded whenever it has no clients (its GC timers
  are `RoomLifecycle`'s), and a connected client has what its instance has.
* `DeviceStore` knows one epoch: a message is plaintext or an envelope, and a cipher
  that waits for a key throws as one that has a stale epoch does. What
  `KeepsItsPromise` excuses is listed at the property: what was not stored at a
  kill, failed writes, losses of the server, another account's legacy text,
  typing into an engine that is not loaded, a draft the user leaves.
* SQLite and SecureStore run the calls they are given one after another.
* `Session`: a read of the token that fails leaves the user signed out while a token
  is stored (`failed`), and a deletion that fails leaves a signed-out screen's
  token; both are excused by name. An answer to create or join that comes after
  signing out is not modelled.
* `Presence`: time is abstract, an interval may fire between any two steps. One
  mount of the room screen is one device. There is at least one clock value
  (`MaxClock` is positive): an awareness starts by announcing itself.
* `ChatView`: native events are heard at once, rows and padding are laid out
  together and in order, a refusal is slower than a render, the keyboard lifts
  the list in one step, drags come after the list has loaded. `EndIsShown` sets
  apart a drag that cancels a resize's scroll, and a change judged while the
  reader was away and laid out when back (`unfollowed`).

## 6. Plan

1. A room cipher with several epochs: a list older than an epoch frame lowers
   the epoch the cipher expects (`useE2ee.ts:77`), which `RoomRefresh` and
   `DeviceStore` cannot tell apart from a missing key.
2. A load that fails, in `RoomLifecycle` and its proofs (`sync.gateway.ts:470`).
3. Awareness over Redis: presence on two instances.

## 7. Not modelled

The cryptography, a library's; password hashing and profiles; the order of the
room list; metrics beyond the two gauges; the rest of the user interface
(layout, themes, formatting), which shares no state with the parts above;
benchmarks, deployment and end-to-end scripts. The server's own awareness entry
and awareness over Redis. `PROJECT.json` gives the reason for each component.
