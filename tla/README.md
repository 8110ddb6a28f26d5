# A TLA+ model of den-chat

den-chat is a client without a server of its own.  Every account, tab and desktop window is a process; what
they share are Nostr relays (which keep signed, replaceable events) and Blossom servers (which keep
content-addressed blobs).  Nobody serialises anything for the clients, so what holds the system together is
the discipline of its read-modify-write handlers, its version guards and its fail-closed rules.  These modules
model that discipline.  Paths below are relative to the repository; `client/src/` is left out where it is
obvious.

Contents: 1 inventory, 2 plan, 3 what is modelled, 4 runs, 5 fairness, 6 proofs, 7 what the code does against
its own comments, 8 what is not modelled.

## 1. Inventory

### 1.1 The shape of a v2 hub

A private hub is one replaceable event per owner (kind and `d` tag fixed), kept by several relays. Its `m` tag
names an *index blob*; the index names a *spine* and *leaf pages* (the LKH tree: the spine wraps the page root
keys under the hub secret, a page holds one leaf per member), *ban pages* encrypted under the hub secret, and
the *epoch history* (the old secrets, wrapped under the new one).  Its content is encrypted under the hub
secret.  A rotation draws a new secret and raises the `epoch` tag.  A member opens the tree with his own key,
gets the secret, and with it the content, the channels and, through the history, everything older.

### 1.2 Components

| Component | State | Operations | Talks to | Hard behaviour | Correct when |
|---|---|---|---|---|---|
| Membership mutations (`lib/hub/republishV2.ts`, `v2kick.ts`, `buildHubEvent.ts`, `lib/blossom/treeUpdater.ts`, the handlers in `components/hub/*Modal.tsx`) | locals of a handler between its awaits | admit, remove, ban, fix encryption, unban, unban-and-re-add, save roles | lock, store, relays, Blossom | several awaits between the read of the base and the publish; two owner devices; partial failures | no update is lost, pointer, epoch and content key belong together, a kick revokes, bans survive, live blobs are not deleted, the history is complete |
| Mutation lock (`lib/hub/hubMutationGuard.ts`) | `_chains`: hub → tracker promise | `withHubMutationLock`, `acquireHubMutationLock`, `assertIndexUnchanged`, `casCheckIndex` | every mutation | a mutation that throws or never settles; second tab | one at a time, in order, never wedged |
| Hub event subscription (`hooks/useHubEventSubscription.ts`) | `latestTsRef`, debounce timer, in-flight handlers | `processHubEvent`, reconnect | relay pool, store, epoch mark, loader's retry | old versions replayed in any order; handlers overlap at their downloads | converges on the newest version, fails closed, never rolls back |
| Hub loader (`hooks/useHubLoader.ts`) | `loadedRef`, one stream per hub; the cache of hub events on disk | `ingest`, `processHub`, `loadHubSecret`, `decryptAndMergeV2HubContent` | cache, relays, store, Blossom, retries by the user and by aborted mutations | runs next to the subscription on the same store | shows what the owner published; the secret fits the epoch |
| Anti-rollback guards (`lib/hub/epochGuard.ts`, `versionGuard.ts`, `hubCreatorGuard.ts`, `historyGuard.ts`) | `den_hub_max_epoch`, version pins, creator bindings (on disk) | `recordEpochSeen`, `isEpochRollback`, `assertHistoryKept` | subscription, loader, mutations | survive restarts; decide with what a lagging relay said | an epoch that was read is never left for an older one |
| Hub store (`stores/hubStore.ts`) | hubs, secrets, rosters, bans, retry nonces | setters | everything | read before an await and used after it | secret fits the hub that is shown |
| Relay pool (`lib/nostr/relay-pool.ts`) | sockets, health scores, in-flight publishes | `publishWithFailover`, `publishBatchAccepting`, `collectEvents`, `subscribe` | relays | slow, silent or refusing relays; late acceptance | a short answer means an exhausted list; the call returns |
| Blossom client and redundancy (`lib/blossom/*.ts`) | server lists, health, local copies | upload, download, delete, heal | Blossom | fire-and-forget deletion; servers that lose blobs | the newest event's blobs are present |
| Member key recovery (`lib/crypto/lkh.ts`, `lib/blossom/members.ts`, `lib/hub/hubContent.ts`) | none | build, split, update and walk the tree | – | page overflow and splits | exactly the members recover the secret |
| Same-timestamp heal (`lib/hub/hubTieResolve.ts`) | – | republish the winner of a tie | relays | two devices heal at once, without lock or comparison | one winner, no ping-pong |
| Join requests (`lib/hub/v2join.ts`, `joinReadState.ts`, …) | read marks, pending requests | request, resend, rescind, admit, mark seen | relays, mutations | requests resent or rescinded while being admitted | a request is shown until handled, once |
| Messages (`stores/messageStore.ts`, `hooks/useMessages.ts`, `lib/cache/messageCache.ts`, …) | messages of a channel in memory, the encrypted cache on disk, writes under way | send, edit, delete, receive, sweep, hydrate | relays, cache | tombstone before message, edit while a delete is under way, cache after network | a device shows the newest version it was served, and in the end the newest there is |
| Roles and permissions (`lib/hub/permissions.ts`, `lib/mods/*`) | roles, overrides, mod lists | effective permissions, mod bans | store | precedence | as a reference definition says |
| Direct messages (`stores/dm*.ts`, `lib/nostr/nip17.ts`, …) | conversations, marks of processed wraps, the buffer of a subscription's first batch, retries, files that wait | subscribe, restart, unwrap, retry, load older, send | relays, signer | handlers, retries and pages overlap at the signer; a restart in the middle of the first batch | no wrap is marked processed and lost; every message is shown, every file with its message |
| Read state (`lib/notifications/readState.ts`, `stores/notificationStore.ts`, …) | read marks, seen marks, counts; cache; a debounced and a throttled publish | mark read, mark hub read, hydrate, publish | relays, cache | two devices publish over each other; a mark waits in a timer | nothing is un-read, nothing is invented, a change is sent in the end |
| Voice (`stores/voiceStore.ts`, `hooks/useVoicePresence.ts`, `lib/voice/*`) | the call's connection, media keys by epoch, presence beats | join, leave, switch, rotate, rekey, beat | Cloudflare or LiveKit, hub store, relays | a leave or a rotation in the middle of a join; late results of an attempt that timed out | no call is left behind, the key follows the hub, presence settles |
| Groups, wallet, auth, lists, social features, clock, caches, desktop shell | see `PROJECT.json` | | | | |

`PROJECT.json` lists every component with its sources and whether it is modelled.

### 1.3 How they interact

- A *mutation* takes the lock of its hub, reads the store (or the hub captured by its closure), uploads blobs,
  fetches the current event and compares its index with its base, signs, publishes with failover, advances the
  store, sends deletions, releases.
- The *subscription* on every device is told of the new event by some relay, debounces it, downloads the tree,
  and installs secret, roster and content in the store; the *loader* does the same once after a start and
  after a *retry nonce*.  Neither takes the mutation lock, and they do not know of each other: they share only
  the store, the epoch mark and the retry nonce.
- Deletions and late deliveries go on in the background after the lock is released.

The hazards this leaves are listed, line by line, in `PROJECT.json` (`hazards`), each with the properties that
watch it or a note on why none does yet.

## 2. Plan

Stage 1 (on disk): the owner's mutations, the lock, the publish, and a member's device that follows them.

| Order | Module | Purpose | Composes |
|---|---|---|---|
| 1 | `HubMutation` | mutations of the pointer over relays, Blossom and the store | abstraction of the lock and of the publish |
| 2 | `FifoMutex`, `MutationLock` | the promise chain implements a fair FIFO mutex | `MutationLock` ⇒ `FifoMutex` |
| 3 | `Publish`, `PublishFailover` | failover implements what the callers of a publish rely on | `PublishFailover` ⇒ `Publish` |
| 4 | `HubReader` | loader and subscription on a member's device | – |

Stage 2 (on disk): what members do with each other once they are in.

| Order | Module | Purpose | Composes |
|---|---|---|---|
| 5 | `ReadMarks` | read state of one account on several devices | timers, cache, relay |
| 6 | `ChannelMessages` | one message on every member's device, from send to tombstone | store, cache, relay |
| 7 | `VoiceCall` | joining, leaving, keys and presence of a call | store, provider, hook |
| 8 | `DmInbox` | the NIP-17 inbox: what arrives is shown | subscription, retry timers, paging |

Left, in order of what each would add:

| Module | Purpose and abstract specification | Bounds |
|---|---|---|
| `TieResolve` | the same-second heal: two devices, one tie; abstract: one winner, then silence | 2 devices, 2 relays, 3 timestamps |
| `Lkh` | the tree and its pages as recursive functions: the walk recovers the secret exactly for members, also across a page split | 2 pages of 2 leaves |
| `JoinRequests` | the life of a request against owner read marks | 1 requester, 2 owner devices |
| `Permissions`, `CoinSelection`, `ReplaceableList` | pure or one-actor parts | small |
| `HubFollower` | abstract specification of a device that follows a hub; `HubReader` and the reader of `HubMutation` as implementations | as `HubReader` |

Every safety property of the runs is proved, in the scope section 6 gives.  Left to prove, in order of what
each would add: `KickRevokes`, `BannedNotMember` and `BansOnlyLifted` for unbans, re-adds and role saves (with
a hypothesis on the fetch, which may lag); `NoLostUpdate` for two devices whose comparisons see every
acknowledged event; a refinement of an abstract chain of hub versions by one device's mutations.

## 3. What is modelled

### 3.1 `HubMutation`: the owner's mutations

| Variable | Code |
|---|---|
| `relay` | the hub event each relay serves |
| `blossom`, `trash` | blobs held; deletions sent and not waited for (`deleteFromBlossom`) |
| `store` | per device: hub, secret, roster and bans in the hub store, `latestTsRef`, epoch mark |
| `reader` | per device: the debounce timer and the subscription handler |
| `chain` | per device: the queue behind the lock, its head holds it (justified by `MutationLock`) |
| `op` | per mutation: the handler's locals and where it waits |
| `uploads` | counter from which fresh blob names and keys are taken |

One action per stretch of code between awaits that matter: `Click` (the render's closure is captured, the
handler queues), `TakeTurn` (it reads the store again, or uses the closure: `ClosureKinds`), `ReadBans` /
`NothingToDo`, one `Build…` per kind (download, build, upload), then `Republish` for handlers that fetch and
compare and clone what they compared, or `Sign` and `CheckIndex` for those that rebuild the event and compare
afterwards (`RebuildKinds`), then `Deliver` (a relay stores the event, perhaps late), `Commit`, `GiveUp`,
`Conflict`, `Abort` (a download or signature that fails, or a guard such as that of a fix against an empty
roster, `HubSettingsModal.tsx:3259`), `SwallowError`; `Delete` for Blossom; and `ReaderPick`, `Resubscribe`,
`ReaderRefuse`, `ReaderLoad`, `ReaderSkip`, `ReaderInstall` for the owner device's subscription.

A hash names its blob, so an index hash is the index record (unique by its `id`); a key is known by the number
of the upload that drew it.  `lineage` is bookkeeping for the properties: which indexes an index descends
from.

Two specifications: `Spec`, and `InTimeSpec`, which leaves out the steps with which the device's own
subscription would apply an event older than what the device shows.  The code does not exclude these
(section 7); what depends on it says so.

Left out: several leaf pages (the tree is one blob), the struct-blob format, trees of encrypted groups
(`HasGroups` keeps only what they change in the role save's control), v1 hubs, the full reload after a lost
secret, `hubTieResolve`.  The owner's leaf is implicit.  Each mutation is started at most once, on one user.

### 3.2 `MutationLock` and `FifoMutex`

`MutationLock` is `hubMutationGuard.ts` promise by promise: `chains` is `_chains` of each JavaScript context,
`mine` and `prev` the trackers a caller left and found, `settled` the settled promises. `Call` is the
synchronous part of both lock functions, `Start` the continuation of `prev.then` / `await prev.catch`,
`Finish` the end of the mutation (or of the imperative holder, whose `finally` releases), `Settle` the
tracker's reaction to either outcome. `FifoMutex` says what callers may rely on: a caller runs when everybody
who asked before it has finished. `HubMutation`'s `chain` is that mutex.

### 3.3 `PublishFailover` and `Publish`

`PublishFailover` is `publishWithFailover` with `publishBatchAccepting`: batches of "still needed plus two", a
batch that is left as soon as enough relays accepted or all settled, other relays publishing in the
background, counted even later (the `accepted` set is shared).  Candidates are numbered in trial order
(deduplication and the health sort are done before the loop).  The hard cap of a batch is one second after the
longest timeout of its relays, so it finds every promise settled and is not an action. `Publish` is what the
callers use: it stores the event somewhere and reports relays that hold it; others may store it before or
after. `HubMutation`'s `Deliver`, `Commit` and `GiveUp` are `Publish`'s `Store` and `Report`.

### 3.4 `HubReader`: a member's device

| Variable | Code |
|---|---|
| `history` | versions the owner has published: epoch, index, whether the user has a leaf |
| `hub`, `secret`, `resolved` | the hub in the store, its secret, `hubSecretsResolved` |
| `attempted` | `loadedRef` has the hub (a retry nonce removes it) |
| `latestTs`, `pending` | `latestTsRef` and the debounce timer |
| `handler` | subscription handlers past their snapshot of the store |
| `loader` | the loader's stream: newest known, in progress, last one done, queued |
| `mark` | the epoch mark on disk |

Relays may hand any version published so far to `Receive` (subscription) or `Ingest` (loader), any number of
times; `Ingest` also stands for the hub event cache, which may hold any version the device ever received,
since `putHubEvent` reads and writes it in two transactions.  A handler is `Fire` (timer and snapshot),
`Refuse` (epoch below the mark), `Begin`, `Load` or `LoadFails` (the download of tree and secret), `Install`
(content and the stale-secret guard).  The loader is `LoaderStart`, `Process` (up to its download),
`LoaderLoad` or `LoaderMiss`, `Merge`, `LoaderEnd`; `RetryHub` is "Try again" and the reload an aborted
mutation asks for.  `Restart` forgets all but the disk.

Left out: bans, roster, history, tombstones, facilitated users, encrypted groups, v1; one loader stream at a
time; `setHubSecret` and `recordEpochSeen` are one step (no await between them that another pass could use); a
loader stream stays open until it has installed a version.

### 3.5 `ReadMarks`: what an account has read

| Variable | Code |
|---|---|
| `domain` | the read state at hand, fixed in `Init`: hubs, direct messages, public chats, join requests |
| `clock`, `phase`, `opens` | seconds; whether the app is closed, preloading or initialised; how often it was opened |
| `live`, `seen` | marks and the hub-wide seen mark in the notification store |
| `cache`, `draft` | the draft on disk; the draft a start-up goes on with while it asks the relays |
| `timer`, `throttled`, `sending` | the debounce, the minute of the throttle, what a publish under way has read of the store |
| `published`, `other` | read states that relays hold; the account's other devices |
| `readAt`, `owed` | bookkeeping: how far the user has really read; a change no publish accounts for |

`MarkRead`, `MarkHubRead` and `AdvanceRead` are the user reading (the last one for messages that land in the
open conversation), `CountUnread` the entry a counted message creates, `Open` / `Begin` / `Hydrate` a start
from preload to the merge with what relays answered, `Fire`, `Throttle`, `Publish`, `SignFails`,
`ThrottleEnds` the way of a change to the relays, `Close` the app being closed or reloaded anywhere in
between; `Other…` the account's other devices.  The domains differ in code and in what holds (`Merged`,
`MergedSeen`), so the module draws one of them. Left out: publishes of one device that overlap, several hubs,
mutes, the compaction's size cap, and a logout or account switch without a reload (`resetSession.ts:98`,
`:127`), which clears store and drafts but keeps timers and throttle and goes on without a preload; so no
property, `NeverUnread` among them, says anything about it.

### 3.6 `ChannelMessages`: one message on every member's device

`store` and `cache` are the version of the message in memory (`messageStore.ts`) and on disk
(`messageCache.ts`), `writes` the cache writes that wait for their signature check and transaction, `op` the
edit or deletion under way on each device of the author, `sender` and `failed` the publish of the message
itself, `made` and `served` the versions published and those relays hold, `requested` and `erased` whether
there is a deletion request and whether the relays have carried it out, `recent` whether the message is still among
the newest ones that a connect fetches (`INITIAL_LIMIT`; `Crowd` ends it); `loaded` says whether a device has
read its cache since its start.  `Send` shows and caches the message before any relay has it; `SendFails`
takes it back; `Edit`, `CommitEdit`, `Delete`, `Request`, `CommitDelete` are the two operations on either side
of their signing and publishing; `Receive` is the subscription, a hint's fetch or a reconnect, with the cache
writes it starts (`One`, `Bulk`) and `Persist` when they end, in any order; `Sweep` the effect that offers
what is shown to the cache again once a key was loaded (a pending write on a reader's device; on the author's it
ends at once, which is a bound: section 7); `LoadCache` and `Restart`. Left out: eviction, expiry,
proof of work, reactions, counts and notifications.

### 3.7 `VoiceCall`: a client's calls

| Variable | Code |
|---|---|
| `conn`, `provider`, `session`, `here`, `joining`, `downgrade` | the voice store |
| `live`, `sending`, `vad` | providers that are really connected, those the microphone goes to, and whose microphone the voice-activity loop holds |
| `join`, `stage`, `old`, `hosted`, `arg` | `joinChannel` between its awaits and its locals |
| `rotation`, `epoch`, `secret` | the hub's rotations and the two halves of them the hub store has |
| `key`, `baseline`, `rekeys`, `deriving` | the media key, what the re-keying effect has seen, re-keyings that have still to read the secret, and derivations of those that have |
| `beat`, `early`, `ran`, `seen` | keepalive, its early timers, and what others last saw |
| `cancelled`, `abandoned` | bookkeeping: calls left during their join; connections whose join timed out |

`Click` starts or switches a call; `TearDown`, `Identify`, `Connect`, `Microphone`, `Finish` are `joinChannel`
from await to await, with `NoIdentity` and `ConnectFails`; `Reports`, `ConnectsLate`, `Drops`,
`DowngradeFires` the provider's callbacks and the timer of a worse state; `Leave`; `Rotate`, `EpochArrives`,
`SecretArrives`, `SecretGone` the hub store; `Watch` is the effect, `Rekey` what it starts up to its reading
of the secret, `Derived` and `DerivationFails` the end of the derivation; `Keepalive`, `Beat`, `EarlyBeat`,
`Fade` presence. Abstractions: joins do not overlap; at most `MaxDerive` derivations are under way; signing
takes no time; "failed" stands for "reconnecting" too; one early timer per start of the keepalive.  Left out:
groups, video, spatial audio, other participants.

### 3.8 `DmInbox`: the NIP-17 inbox

| Variable | Code |
|---|---|
| `sub`, `reach`, `initial`, `given`, `since`, `buffer` | the subscriptions of a session: what the last one will be given (the `INITIAL_LIMIT` newest stamps and what is published later, any set of wraps), those before EOSE (`initialPhase`), what each was handed, the library's filter, `dmBuffer` |
| `handling`, `inflight`, `page` | handlers at their unwrap, `inflightWrapIds`, what is left of a page of older messages |
| `processed`, `attempts`, `timers`, `retrying` | `processedWrapIds`, `failedWraps`, `retryTimers`, retries at their unwrap |
| `shown`, `attached`, `waiting` | the conversation, the files of its messages, `pendingFileAttachments` |
| `gaveUp`, `failures` | bookkeeping: wraps retried in vain; the bound on failures |

`Start` is the first subscription and the restart when the account's relay lists are known; it clears the
retries, but not the buffer of the closure it replaces.  `Receive` and `Unwrapped` / `UnwrapFails` are a
handler on either side of the signer, `Eose` the flush, `Fire`, `Retried`, `RetryFails` a retry, `LoadOlder`,
`OlderUnwrapped`, `OlderFails` a page, `Reissue` the reconnect inside the relay library. Three facts are the
library's, read off its use: it hands a wrap to a subscription once, it reports EOSE when a subscription is
closed, and it re-issues subscriptions with a `since`. Left out: the account's own messages and their copies,
wraps of other kinds (marked processed at once), unread counts, the cap of a conversation, `hasMore`, account
switch.

## 4. Runs

| Run | Question | Instance | Distinct states |
|---|---|---|---|
| `HubMutationTwoDevices` | do pointers stay decryptable and do kicks revoke when two owner devices mutate at once? | 2 devices (one with a connected subscription), 2 relays, 2 users, one of admit / remove / fix each, late delivery | 350,269 |
| `HubMutationOneDevice` | is an update lost, a live blob deleted, a secret missing from the history? is `InTimeIInv` true? | 1 device, 2 relays, 1 member, three of admit / remove, subscription on and in time, late delivery | 871,744 |
| `HubMutationBans` | is a banned user left in the tree, a ban lifted by anything but an unban? does every mutation end if the signer answers? | 1 device, 1 relay, 2 users, one banned at the start; three of ban / unban / re-add / save roles, encrypted groups, no subscription | 544,441 |
| `MutationLock` | is the promise chain a fair FIFO mutex? | 4 callers of one hub, 3 in one tab | 7,465 |
| `PublishFailover` | does failover implement `Publish`, return, and answer short only when exhausted? | 5 candidates, 2 acceptances wanted | 3,428 |
| `HubReader` | does a member's device converge, fail closed and never roll back? | 3 versions, 1 restart, 1 handler in flight next to the loader | 679,897 |
| `ReadMarks` | does a merge or restart un-read anything, or read for the user? is every change sent? | each domain; 1 conversation, 3 seconds, 2 starts, 1 publish of either side | 204,836 |
| `ChannelMessages` | do screens and caches only move forward, does a failed send leave nothing, do screens converge while a connect fetches the message? | author and 1 reader, 3 versions, 1 restart, 2 cache writes of the reader under way | 1,020,654 |
| `VoiceCall` | is anything connected or sent to that is not the call? do others end up seeing where the client is? | 2 calls, a secret that vanishes and returns, no rotation; a derivation ends before the next step (`KeyAtOnce`) | 654,790 |
| `VoiceKey` | does a call follow the hub's secret? | 1 call, 3 epochs, 2 derivations under way, without presence | 315,186 |
| `DmInbox` | is a wrap marked processed and lost, a file left waiting? is everything shown in the end that the last subscription reaches? | a text and its file, 2 subscriptions, each reaching any of them, 1 retry, the text's unwrap failing up to twice | 830,323 |
| `HubMutationAdmitKeepsBans` | counterexample, see section 7 | | |

Why the bounds are enough:

- *Two mutations on two devices.*  Every hazard of the compare-and-swap is a race of one mutation with one
  other.  Two users let the mutations concern the same or different users, and both be kicked.
- *Three mutations on one device*: a mutation with a predecessor and a successor, so that the base of the last
  one can be older than what was published in between, a rotation can follow one that the history has to
  remember, and a deletion can hit what a later index still names.  One device's mutations are alike, so the
  action constraint `InOrder` has them clicked in the order of their numbers; this loses nothing, since they
  differ in nothing but the number.  It also lets their event ids only rise or only fall with that number: of
  two events with one `created_at` the earlier always loses, or always wins.  Both are choices of a step that
  is taken, so no fair step is ruled out and `EveryMutationEnds`, conditional on the signer, is checked under
  the same fairness.
- *Two relays* are one that is ahead and one that lags; a fetch is answered by any non-empty subset of them.
  Relays are symmetric (`RelaySymmetry`), users are not (one is a member or banned at the start, and `fix`
  names one of them).
- *Two event ids* (two devices) give both outcomes of the lower-id rule at equal `created_at`.
- *Four callers*: two predecessors for a waiting one, so that a tracker which settles too early lets somebody
  overtake, and one in another tab, whom the lock does not exclude.
- *Five candidates, two wanted*: a first batch of four, one relay left for a second one.
- *Three versions*: two rotations, or a rotation and an edit of the index or the content; an old one, a newer
  one and one replayed in between.  With two handlers in flight and two versions all four properties hold as
  well; the instance was tried once and is not among the runs.
- *One conversation, three seconds* (`ReadMarks`): a mark is older than, equal to or newer than another, and
  two starts let a mark cross a restart before or after its publish.  More conversations only matter to the
  seen mark of a hub, which the module carries next to the one.
- *Three versions* (`ChannelMessages`): a message, an edit and a tombstone, or two that tie; two writes of the
  reader's cache can pass each other; the restart comes between any two steps.
- *Two calls* (`VoiceCall`): the old one and the one switched to; a third would find what the second found.
  *Three epochs* (`VoiceKey`): a secret that rotates again before the re-keying for the first rotation ends,
  and, with two derivations, one re-keying that overtakes another.  Two calls with rotations are past what TLC
  can enumerate; that calls end and rotations do not disturb it is proved (`CallsEnd`).
- *A text and its file, two subscriptions* (`DmInbox`): the file before the message and after it, either one
  by any of the ways; the code restarts at most once.  One retry and two failures give up a wrap; two failures
  around the restart also show it not given up.

Every property has a mutant: a definition changed the way a plausible bug would change it (the `X_Variant`
operator before `X`), under which TLC finds the property violated in the same instance.

What the properties say is in the comment above each.  Three guards deserve a word.  `NoneGivenUp`: a mutation
that gave up its publish may still be stored by a relay later (`Publish` allows it, and so does
`publishWithFailover`), after which blob, ban and update guarantees cannot hold; the properties about those
speak of executions in which nobody gave up.  `alone` in `HubReader`: a handler or pass that shares the store
with an overlapping one makes no promise on its own; what then holds is `Converges`, and section 7 says what
does not.  `HubMutation` runs do not check deadlock because the owner may have done everything they wanted;
`MutationLock` and `PublishFailover` stop when all callers have ended, `ReadMarks`, `ChannelMessages` and
`DmInbox` at their bounds.  In `VoiceCall` the calls a user left during their join (`cancelled`) and the
connections of a join that timed out (`abandoned`) are exempted where a property says so: section 7 says what
happens to them.

## 5. Fairness

- `HubMutation`: weak fairness of each mutation's next step, but not where it waits for the owner's signer
  (`AtSigner`).  Downloads, fetches and publishes have timeouts, so a handler that holds the lock moves on there.
  Signing has none (`signerGuard.ts:12` says "signEvent is NOT guarded"; `:32-40` tells what silence does;
  `bunker.ts:139-151`), and uploads are signed too, so a remote signer that never answers holds the lock until a
  reload.  `EveryMutationEnds` therefore has the hypothesis `SignerAnswers`; relays, Blossom and the owner owe
  nothing.
- `MutationLock`: promise reactions run and mutations settle.  That they do is the lock's contract with its
  callers; a mutation behind a silent signer is outside it.
- `PublishFailover`: the loop goes on and each relay's timer fires.  No relay has to answer.
- `HubReader`: handlers and loader move on (their downloads time out); the keepalive reconnects (every five
  minutes, longer than the debounce); some relay that has the newest version answers the loader and each new
  subscription; and, again and again, it answers when no handler is in flight and after the others, so the
  timer fires with the newest version.  The last two are strong fairness and are an assumption on relays: a
  relay that always answers last with an old version, at every reconnect, prevents convergence.

- `ReadMarks`: timers fire and a publish ends, well or not, if no change comes for as long as the debounce
  lasts (a device that keeps reading postpones it for ever, section 7).  The app may be closed at any time,
  and nothing has to be opened again.  That a publish ends presumes a signer that answers or refuses.
- `ChannelMessages`: as long as the message is among those a connect fetches (`recent`), each device is served,
  again and again, the newest version relays hold (a reconnect fetches at least every five minutes); and a
  started device reads its cache.  Once fifty newer events of the hubs on that relay have followed, nothing is
  assumed: the fetch has a limit (`useHubSubscriptions.ts:1150-1158`), the live subscription a `since` of now
  (`:1304`), and an edit is stamped a second after what it edits.  `Converges` says so with its `recent`.
- `VoiceCall`: effects run after a render, re-keyings and derivations end, well or not (`KeyFairness`);
  intervals and timers fire, and presence fades after its time (`PresenceFairness`).  `VoiceKey` leaves the
  presence steps out (`KeySpec`).  The effect lives in the channel list, so this assumes that the hub's view
  is mounted again, and that a keepalive gets through to some relay.
- `DmInbox`: a single weak fairness of everything pending.  Each pending thing (a subscription's start,
  delivery of what is in `reach` and EOSE, an unwrap, a timer) happens finitely often, so that one of them
  goes on is enough for all to happen.  The last subscription owes only the wraps in `reach`, which may be
  none; the user owes no page, the library no reconnect.

## 6. Proofs

`tlapm` checks the eight proof modules for every value of the constants.

**`HubMutation_proof`.**  Assumption: `ConstantsAssumption` (types of the constants; the starting members are
not banned).

- `TypeCorrect`: `Spec => []TypeOK`.  It needs `LockHeld`: a mutation that ends pops the queue, which is typed
  only because the queue is not empty when it does.
- `Inductive`: `Spec => []IInv`.  `IInv` is, for any mutations by any devices, `TypeOK`, `LockHeld`, `Placed`,
  `Forest` and `Single`; `Traced` unless a role save may swallow its error; `Coherent`, `Sealed` and `Timed`
  unless the owner uses a handler of `RebuildKinds` (unban, re-add, save roles); `Listed` unless the owner uses
  one of `ClosureKinds` (those and fix).  Each condition is where the code breaks the part (section 7).
- `EventsFit` (`EventConsistent`) and `KicksRevoke` (`KickRevokes`): admit, remove, ban and fix, from any
  number of devices.
- `ShownWasPublished` (`StorePublished`): anything but a role save with encrypted groups.
- `HistoryIsComplete` (`HistoryComplete`): admit, remove and ban, from any number of devices.
- `InTimeInductive`: `InTimeSpec => []InTimeIInv`, which adds to `IInv`, for one device, admit, remove and ban,
  and as long as nobody gave up a publish, `Chained`, `LiveBlobs` and `Rostered`.
- `NothingLost` (`NoLostUpdate`), `NewestIsWhole` (`NewestBlobsPresent`) and `NobodyBannedIsIn`
  (`BannedNotMember`) under these conditions; `BansAreKept` (`BansOnlyLifted`) if nobody is admitted either,
  since an admission drops the bans (the run that is expected to fail shows it).

None of these bounds the number of mutations, users or relays, or when a relay stores an event.  For
`BansAreKept` no kind is left that may lift a ban, so it says that bans never disappear; that nothing but an
unban lifts one is checked by `HubMutationBans`.

*Coherence.*  `EventConsistent` alone is not inductive, since the event a relay will store is made from an index
that was built before the current event was fetched.  `Coherent` adds that an index which is built but not yet
published *fits* its base (a rotation raises the base's epoch by one and everything else keeps its secret and
epoch; a new tree is made only where there was one), and that every event sent is consistent. `Republish`
compares the fetched event's index with the base and, for a rotation, decrypts its content with the old secret;
so the clone of a consistent event with a fitting index is consistent.  With `RebuildKinds` this fails, because
the content is sealed with the store's secret of that moment.

*Traces.*  A device gets an index from its own commit or from its subscription, which gets it from a relay,
which got it from a mutation's event.  `Traced` says so of all three places, and that a mutation's event names
the index it built and that it does not build again once it has sent, so that the witness is never overwritten.

*Descent.*  `Placed` says that only indexes that were made are anywhere, `Forest` that a lineage is closed under
descent and made of numbers up to the index's own, `Single` that no two mutations make one index.  Every
statement about what a relay serves *instead of* something else rests on these three.

*Kicks.*  `Sealed` dates keys: a tree and a secret are numbered no later than their index, secrets never decrease
along descent, and a rotation's is the index's own number.  So whatever descends from a kick is sealed with a
secret at least as new as the kick.  `Sealed` also says that the user is in no descendant of the kick unless he
was put back, so every leaf of his was in an index before it, with an older secret.  `Coherent` says that the
content is sealed with the secret of the tree.

*History.*  `HistoryAfter` adds to the list that the handler read the secret that the store had; `Listed` needs
both to be of one index, which `TreeReadable` (the base's tree opens with that secret) gives.

*The chain of one device.*  `Timed` says that an index is served and shown under the stamp it was sent with and
that relays only replace an event by a newer one.  `Chained` says that stamps and descent agree: of two events
sent, the later one descends from the earlier.  It needs, of the mutation that is under way, that nothing was
sent with a later stamp than its base has, and that in turn needs the store never to fall behind a completed
mutation: `InTime`.  The lock leaves one mutation active, and `Republish` stamps past what it compared with.
`LiveBlobs` follows the deletions: an index that is or may yet be published and that no completed mutation
supersedes has its blobs; a commit deletes only what it replaced, and no index that is alive shares it.
`Rostered` says that the roster a handler goes by holds everybody in the tree it works from, so that nobody it
should kick is merely banned, and that bans grow along descent where nobody is admitted.  The roster may be
ahead of the tree while a publish is under way (the subscription installs the new roster first), hence its
condition on `publishing`.

**`MutationLock_proof`.**  Assumption: `LockAssumption`.  `AlwaysOrderly` proves the inductive invariant
`Orderly`: trackers are numbered as they are made (`Numbered`), the map names the last one of its slot
(`Chained`), a caller found the one just before its own (`Linked`), and whoever has started finds everybody
before them settled (`InOrder`).  `LockExcludes` derives `MutualExclusion`: of two running callers one asked
first, so its tracker is settled, so it has ended.  `Implements` is the refinement `Spec => ImplementsFifo`:
the abstract queue of a slot is its unsettled callers, so the end of a mutation is a stutter and the settling
of its tracker is the step with which the caller leaves `FifoMutex`.

**`PublishFailover_proof`.**  Assumption: `FailoverAssumption`.  `AlwaysAccounted` proves `Accounted`:
`accepted` is the set of relays that said OK and they hold the event (`Told`); between two batches either
enough relays have accepted or all that were asked have settled, and a batch asks for what those before it
left open (`Batched`); a relay past the first batch is asked only when one of that batch failed (`Extended`);
and a short result means that nobody is left (`Answered`). From it follow `ExhaustedIfShort`,
`ReserveOnlyOnFailure` and the refinement `Implements`: `Spec => ImplementsPublish`.

**`HubReader_proof`.**  Assumption: `ReaderAssumption`.  `ReaderInvariant` proves `IInv`: types; passes
concern published versions and leave nothing behind (`Placed`); and, as long as a handler is alone, nothing
else is in flight and, once it has passed the check, its version is not below the mark (`Undisturbed`).
`NeverBack` derives `NoRollback`: a version that was not below the mark when it was checked is not below it
when it is installed, since only an overlapping handler or loader pass could have raised the mark.  That such
an overlap does break it is why the property says `alone`.  `SecretOpensHub` derives `FailsClosed`: the secret in
the store is still the one of the handler's snapshot, so at each of its exits the handler has either cleared it,
or replaced it by the one it decrypted, or found that it opens the content it installs.

**`ReadMarks_proof`.**  Assumptions: `DomainAssumption`, `ClockAssumption`, `BoundAssumption`.  `Invariance`
proves `IInv`: types; every mark in store, cache, draft, event or on another device is one the user made and
none is ahead of the clock (`Justified`); and while the app runs the draft on disk agrees with the store on
where the user has read to (`DraftCurrent`).  `NothingIsInvented` follows: a merge can only choose among marks
that exist, and `Clamped` cuts off those that the sender of a message dated ahead.  `ReadStaysRead` and
`SeenMarkMovesForward` are action properties: each action takes the greater mark, or hydrates from a cache
that equals what the device last held.

**`ChannelMessages_proof`.**  Assumption: `MessagesAssumption`.  The invariant speaks of one device at a time
(`Fit`, `First`) and of the relays (`Globals`): versions on a device were made, what waits to be cached is not
newer than the screen, and as long as no relay has the message only its author's device has it.  `KeptIsShown`
needs that last clause of the first: without it a late cache write could run ahead of the screen.
`NothingLeftOfFailure` needs the second; `ScreenMovesForward` and `CacheMovesForward` are action properties
whose only hard case is the bulk write.

**`VoiceCall_proof`.**  Assumption: `VoiceAssumption`.  `Torn` says for each stage of a join what may be
connected and what may hear the microphone, which is what makes `NoCallLeftBehind` inductive: the old call is
only gone once its teardown has been awaited.  `Seen` says that the effect's baseline is never ahead of the
hub; since secrets only advance, whatever `Rekey` reads is at least the baseline, and a call in step stays
in step (`KeysStayInStep`), unless a derivation throws or one is begun while another is under way, whose order
of completion nothing fixes.

**`DmInbox_proof`.**  Assumption: `InboxAssumption`.  `NothingLost` and `FilesFound` are inductive together
with the types.  Two lemmas carry it: `Adding` (taking wraps into the conversation keeps what was taken, and
leaves no file waiting for a message that is there) and `Failing` (a failed unwrap marks nothing processed
that it does not give up); every handler, retry and page is one of the two.  The restart keeps it because the
closed subscription stays in `initial` until its EOSE.

The inductive invariants of `HubMutation` (`InTimeIInv`, which contains `IInv`), `PublishFailover`,
`HubReader`, `ReadMarks`, `ChannelMessages` and `VoiceCall` are invariants of their runs too; the one of
`DmInbox` adds only types to two invariants of its run, and `Orderly` of `MutationLock` is proved only.

Only model-checked: all liveness (`EveryMutationEnds`, `EveryCallerRuns`, `Returns`, `ChangesAreSent`, the
`Converges` of both modules that have one, `PresenceSettles`, `KeyFollows`, `EveryMessageShown`; the prover
has no support for fairness and ENABLED), and what the theorems about `HubMutation` exclude: bans under unbans,
re-adds and role saves (`HubMutationBans`).
Neither kind of result rests on anything about ciphers or relays beyond what section 3 says.

## 7. What the code does against its own comments

The first has a run that shows it, `HubMutationAdmitKeepsBans`, and an entry in `PROJECT.json`.  The other
four were found with TLC in the same way (a property that states the comment, on a small instance); the
properties of the runs are stated so that they hold next to them.

1. `handleAddMembersV2` builds its new index from an `existingIndexData` without `banPages`: an admission
   drops every ban (`JoinRequestsModal.tsx:528`).
2. With encrypted groups a role save that no relay accepted is swallowed, and the store advances to an index
   nobody has (`HubSettingsModal.tsx:6906`).
3. `rebuildTreeV2` rotates although it could not read the index, and the history starts afresh
   (`v2kick.ts:385`).
4. The loader first processes an old version, then a newer one that yields no secret: the new epoch is shown
   with the old secret in the store (`useHubLoader.ts:1395`; `epochGuard.ts:8` warns that a client "would then
   encrypt new messages under a key a just-kicked member still holds").
5. The retry that a handler asks for when it clears the secret is filtered out by the loader, because the hub
   already counts as resolved (`useHubLoader.ts:1075`; `useHubEventSubscription.ts:343` says "the loader
   re-derives and the guard clears").

Met while modelling, without a run of their own:

- Two tabs of one browser have two chains; only the compare-and-swap, which is not atomic with the publish,
  stands between them.
- A relay that lags serves an event whose blobs a later mutation has deleted (`NewestBlobsPresent` is only
  about the newest one).
- An unban, re-add or role save queued behind a rotation works from its closure; if a lagging relay lets it
  pass the comparison, it seals the content with the new secret under the old epoch.
- An unban whose read of the index fails publishes an index that names neither tree nor history.
- A device's own rotations do not raise its epoch mark; only what it decrypts as a reader does.  So an event
  that waits in the debounce timer (`useHubEventSubscription.ts:172`) is applied even if the device has
  published a later one meanwhile, and the next mutation starts from the old index, although the comment above
  it says that "a lagging relay replaying a SUPERSEDED version can't revert us".  With three mutations TLC finds
  `NoLostUpdate` and `NewestBlobsPresent` violated under `Spec`; `InTime` excludes this step.
- `rebuildTreeV2` builds the new tree for the roster in the store.  When the subscription has just installed an
  older one, a fix puts a kicked user back; `KickRevokes` counts that as a readmission.
- A ban decides by the roster in the store whether to kick; when that is behind the tree the user is banned
  and keeps the leaf.  TLC finds it for one device with three mutations and a subscription that applies an old
  event; `NobodyBannedIsIn` shows that, for
  admissions, removals and bans, it takes such an event or a second device.
- A remote signer that never answers keeps the lock of a hub, and with it every later mutation, until a reload:
  encrypt and decrypt requests time out after 20 seconds, signatures never do (`signerGuard.ts:12`).
- A mutation that finds the index changed asks for a reload (`retryHub`, `hubMutationGuard.ts:78`), but the
  loader skips hubs that are resolved (`useHubLoader.ts:1075`), so the "fresh" state that the comment promises
  (`hubMutationGuard.ts:71-77`) comes only with the subscription's next event.  A `Conflict` therefore changes
  nothing else in `HubMutation`, and `RetryHub` in `HubReader` moves only a hub that is not resolved.
- Two overlapping handlers, or a handler and the loader, can leave the secret of one version with the hub of
  another until the next event.

Messages:

- The deletion request (`useMessages.ts:1162`) names the address, so relays that honour NIP-09 drop the
  tombstone with the message.  Members who were offline keep rendering it, although `docs/NIP-CHAT.md:1620`
  says "the client MUST NOT render the message"; no client subscribes to the requests themselves.
- A connect fetches the 50 newest events over all channels of up to 50 hubs of a relay
  (`useHubSubscriptions.ts:1150-1158`), and the live subscription starts at now (`:1304`), while an edit or a
  tombstone is stamped a second after what it replaces: a member who missed it and its hint is not sent that of
  an older message again.
- The author's sweep looks at the screen and writes two awaits later (`useMessages.ts:651-660`): a message whose
  send fails in between is written back to the cache and shown after the next start.
- An edit and a tombstone of two devices may tie: the store keeps the first it saw, the cache the last
  written, relays the lowest id.
- The commit of an edit overwrites a newer version that arrived while it was being signed, until the next
  reconnect that fetches the message.
- An edit nobody accepted is not rolled back; one made while the message's own publish is failing stays in the
  cache.
- A deletion overtaken by a newer edit of another device marks that edit deleted on the deleting device only;
  the results of its publish are ignored.
- Eviction followed by an edit rings as a new message, and the global eviction of `addMessages` restores the
  first of two channels it evicts.  `messageStore.ts:9` calls the cap oldest-cached, but it is by creation
  time.
- A backfill before the cache load counts its redelivery as a replacement, so the channel is not shown unread;
  a backfill and an increment under way may count a message twice.

Read state:

- The seen mark of a hub does not cover a channel with an older mark of its own (`notificationStore.ts:613`),
  although `readState.ts:40` says that it "truly covers every channel".  `NeverUnread` exempts hubs with such
  a mark.
- The debounce has no longest wait, so a busy open channel postpones the publish for as long as messages come.
- A publish that no relay took returns like one that succeeded and stamps the throttle (`readState.ts:392`); a
  failed one, or one pending when the app is closed, is not taken up again before the next change.
- The join requests' hydrate does not push a merge that is newer than the relays' state
  (`joinReadState.ts:145`).
- Public chats replace their marks at start-up, which may un-read (`notificationStore.ts:690`; exempt from
  `NeverUnread`); unpublished mutes are replaced likewise.
- A mark of the relays that is newer than the local one resets a count that was made after it
  (`notificationStore.ts:626`).

Voice:

- `VoiceChannelView.tsx:816` calls its button "a cancel to abort the attempt", but `leaveChannel` finds no
  provider yet, and the join goes on to publish the microphone.
- A Cloudflare join that times out does not close its peer connection (`cloudflare-provider.ts:1360`), which
  may connect later and then shows "connected" without a call, or cancels the downgrade of another.
- A second click before "connecting" is shown starts a second join and orphans the first one's provider.
- The key is derived at `Identify` and the effect takes its baseline later; a rotation in between is never
  noticed.
- Two re-keyings that overlap set their keys in the order their derivations end, and one that throws is only
  logged (`voiceStore.ts:1509-1512`): the call goes on with an older key until the next rotation.
- A secret that goes and comes back between two renders is never seen; one that is gone when `Rekey` runs
  makes it leave the call.
- `e2ee-crypto.ts` says in its header that an active call keeps its old key; it is re-keyed.
- A failed `publishTrack` leaves the raw microphone open; a downgrade timer of the last call may fire during a
  slow switch; after a failed connect the session id stays and the next early "connected" restarts its
  keepalive.

Direct messages:

- `relay-pool.ts:8` says that reconnected subscriptions are re-issued "with `since = last seen + 1`";
  `dmStore.ts:283` calls it critical for NIP-17 that there is no `since`, as stamps are randomised into the
  past.  After a reconnect such messages are not delivered until the next start (`Reissue`, `Beyond`).
- The inbox asks for the 50 newest stamps (`dmStore.ts:327`; `:165` calls it "the coverage tradeoff"), and a
  restart clears the retries (`:301`): a wrap outside those fifty that was waiting for its retry is not
  delivered again, and paging, which starts below the oldest message shown, may pass it by (`reach`,
  `Beyond`).
- Nothing in `dmStore.ts` flushes the buffer of the subscription that a restart closes; that no message is
  lost rests on the library reporting EOSE on close.
- A message with several files shows one: of those that came first only the first is merged, later ones
  replace it.
- The account's own file-only messages within ten seconds of each other are taken for duplicates, as their
  text is empty, and dropped with their files.
- Paging asks for what is strictly older than the oldest wrap, so wraps with an equal stamp are skipped; a
  page without a message of the conversation leaves the cursor where it is; a short answer, of relays that
  timed out too, ends paging for good.
- A self copy that is being retried can be cleared by the timer of the send, and its failure is then not
  shown, although it "stays pinned" (`dmStore.ts:156`).
- A retry and a redelivery of one wrap both count as attempts; an unwrap under way at an account switch adds
  to the next account's store.

## 8. What is not modelled

Ciphers, key derivation and signatures (a key is an opaque number and opens what it sealed); the encoding of
events and blobs; rendering; v1 hubs. Planned but not on disk: the same-second heal, page splits of the tree,
the life of a join request, permissions (section 2). Of the modelled parts: what section 3 leaves out under
each module; in particular encrypted groups outside the role save, sending of direct messages, the NIP-04 and
MDM inboxes, notifications and reactions.  Groups share the tree code of the hub and would need `Lkh` first;
the pages of settings, profile, discovery and login are forms over these stores and keep no state that
outlives them. Wallet network calls, media and profile caches, signers, the updater and the desktop shell are
I/O around one-shot calls, with no state of their own worth a module.
