------------------------------ MODULE HubMutation ------------------------------
(***************************************************************************)
(* The owner's membership mutations of a v2 hub.                           *)
(*                                                                         *)
(* A hub is one pointer: a replaceable Nostr event kept by several relays, *)
(* whose "m" tag names an index blob on Blossom; the index names the tree  *)
(* (spine and leaf page), the ban pages and the epoch history.  Every      *)
(* mutation is a read-modify-write of that pointer: wait for the device's  *)
(* per-hub lock, read the base, build and upload new blobs, fetch the      *)
(* current event and compare its index with the base, sign a successor,    *)
(* publish it, advance the local store, delete superseded blobs, release.  *)
(*                                                                         *)
(* Blobs are content-addressed and freshly keyed, so an index hash is the  *)
(* index record itself (its id makes it unique) and what Blossom holds is  *)
(* a set of blob names.  Bound: the hub has one leaf page, so an index has *)
(* one tree.  The owner's own leaf is in every tree and is left implicit.  *)
(***************************************************************************)
EXTENDS Integers, Sequences

CONSTANTS
    Devices,       \* JavaScript contexts signed in as the owner
    Relays,        \* the hub's relays
    Members,       \* everybody but the owner
    Ops,           \* mutations the owner may start, each at most once
    DeviceOf,      \* the device on which each mutation is started
    Kinds,         \* the kinds of mutation the owner uses
    EventIds,      \* ids (hashes) signed events may get
    InitMembers,   \* members of the hub at the start
    InitBans,      \* banned pubkeys at the start
    HasGroups,     \* the hub has encrypted groups (groupedRoles)
    Online,        \* the devices whose subscription is connected
    LateDelivery   \* a relay may store an event after the publisher moved on

AllKinds == {"admit", "remove", "ban", "fix", "unban", "readd", "roles"}

\* Handlers that work from the hub captured when the button was rendered; the
\* others read the store again once they hold the lock.
ClosureKinds == {"fix", "unban", "readd", "roles"}

\* Handlers that sign a rebuilt event before they compare the pointer; the
\* others clone the event they fetched and compared.
RebuildKinds == {"unban", "readd", "roles"}

ASSUME ConstantsAssumption ==
    /\ DeviceOf \in [Ops -> Devices]
    /\ Kinds \subseteq AllKinds
    /\ EventIds \subseteq Nat \ {0}
    /\ Members # {}
    /\ InitMembers \subseteq Members
    /\ InitBans \subseteq Members
    /\ InitMembers \cap InitBans = {}
    /\ Online \subseteq Devices
    /\ HasGroups \in BOOLEAN
    /\ LateDelivery \in BOOLEAN

VARIABLES
    relay,     \* the hub event each relay serves
    blossom,   \* the names of the blobs the Blossom servers hold
    trash,     \* deletions sent to Blossom that nobody waits for
    store,     \* each device's hub store and anti-rollback marks
    reader,    \* each device's hub event handler
    chain,     \* each device's queue of mutations, the head holds the lock
    op,        \* each mutation's local variables
    uploads    \* how many indexes were ever uploaded

vars == <<relay, blossom, trash, store, reader, chain, op, uploads>>

-----------------------------------------------------------------------------
(* Blobs, events and what a device knows.                                   *)

\* tree = 0: the index names no spine.  secret is the one the spine wraps, of
\* that epoch; banKey encrypts the ban pages; hist are the secrets the history
\* blob lists.  lineage is bookkeeping: the indexes it descends from, itself too.
Index == [id : Nat, tree : Nat, secret : Nat, epoch : Nat,
          members : SUBSET Members, bans : SUBSET Members, banKey : Nat,
          hist : SUBSET Nat, lineage : SUBSET Nat]

\* key is the secret under which the content is encrypted, for that epoch.
Event == [index : Index, epoch : Nat, key : Nat, created : Nat, id : Nat]

HubView == [index : Index, epoch : Nat, created : Nat]

\* secret 0: the device holds none.  latest is latestTsRef, mark the highest
\* epoch seen.
Store == [hub : HubView, secret : Nat, members : SUBSET Members,
          bans : SUBSET Members, latest : Nat, mark : Nat]

Reader == [phase : {"idle", "pending", "loaded"}, event : Event, secret : Nat]

Final == {"done", "noop", "conflict", "failed", "swallowed"}

Phases == {"idle", "queued", "read", "listed", "built", "signed", "publishing"} \cup Final

\* seen, seenSecret and roster are captured by the render, hub is the base.
Op == [pc : Phases, kind : AllKinds, who : Members,
       seen : HubView, seenSecret : Nat, roster : SUBSET Members,
       hub : HubView, bans : SUBSET Members, oldSecret : Nat,
       new : Index, event : Event, sent : BOOLEAN, reached : SUBSET Relays]

BlobName == {"index", "tree"} \X Nat

TypeOK ==
    /\ relay \in [Relays -> Event]
    /\ blossom \subseteq BlobName
    /\ trash \subseteq BlobName
    /\ store \in [Devices -> Store]
    /\ reader \in [Devices -> Reader]
    /\ chain \in [Devices -> Seq(Ops)]
    /\ op \in [Ops -> Op]
    /\ uploads \in Nat

\* A hub that already keeps a history and, perhaps, bans.
Genesis == [id |-> 1, tree |-> 1, secret |-> 1, epoch |-> 1,
            members |-> InitMembers, bans |-> InitBans, banKey |-> 1,
            hist |-> {1}, lineage |-> {1}]

GenesisEvent == [index |-> Genesis, epoch |-> 1, key |-> 1, created |-> 1, id |-> 0]

ViewOf(e) == [index |-> e.index, epoch |-> e.epoch, created |-> e.created]

\* NIP-01: of two versions of a replaceable event, the newer created_at wins,
\* then the lower id.
Supersedes(e, f) == \/ e.created > f.created
                    \/ e.created = f.created /\ e.id < f.id

Larger(i, j) == IF i < j THEN j ELSE i

BansReadable(idx, secret) == idx.bans = {} \/ idx.banKey = secret

Named(idx) == {<<"index", idx.id>>} \cup (IF idx.tree = 0 THEN {} ELSE {<<"tree", idx.tree>>})

-----------------------------------------------------------------------------
Init ==
    /\ relay = [r \in Relays |-> GenesisEvent]
    /\ blossom = Named(Genesis)
    /\ trash = {}
    /\ store = [d \in Devices |->
                   [hub |-> ViewOf(GenesisEvent), secret |-> 1,
                    members |-> InitMembers, bans |-> InitBans,
                    latest |-> 1, mark |-> 1]]
    /\ reader = [d \in Devices |->
                    [phase |-> "idle", event |-> GenesisEvent, secret |-> 0]]
    /\ chain = [d \in Devices |-> <<>>]
    /\ op = [o \in Ops |->
                [pc |-> "idle", kind |-> "fix", who |-> CHOOSE m \in Members : TRUE,
                 seen |-> ViewOf(GenesisEvent), seenSecret |-> 0, roster |-> {},
                 hub |-> ViewOf(GenesisEvent), bans |-> {}, oldSecret |-> 0,
                 new |-> Genesis, event |-> GenesisEvent,
                 sent |-> FALSE, reached |-> {}]]
    /\ uploads = 1

-----------------------------------------------------------------------------
(* The lock and the read of the base.                                       *)

Here(o) == store[DeviceOf[o]]

HasLock_Ignored(o) == TRUE

HasLock(o) == chain[DeviceOf[o]] # <<>> /\ Head(chain[DeviceOf[o]]) = o

Release_Forgotten(o) == chain' = chain

Release(o) == chain' = [chain EXCEPT ![DeviceOf[o]] = Tail(@)]

End(o, result) ==
    /\ op' = [op EXCEPT ![o].pc = result]
    /\ Release(o)

\* What the screens let the owner ask for, given what the device shows.
Offered(kind, m, s) ==
    CASE kind = "admit" -> m \notin s.members
      [] kind \in {"remove", "roles"} -> m \in s.members
      [] kind = "ban" -> m \notin s.bans
      [] kind \in {"unban", "readd"} -> m \in s.bans
      [] kind = "fix" -> m = CHOOSE x \in Members : TRUE

\* The owner presses a button: the handler captures the hub, the secret and
\* the roster of the last render and queues for the lock.
Click(o) ==
    /\ op[o].pc = "idle"
    /\ \E kind \in Kinds, m \in Members :
          /\ Offered(kind, m, Here(o))
          /\ op' = [op EXCEPT ![o] = [@ EXCEPT !.pc = "queued", !.kind = kind, !.who = m,
                                               !.seen = Here(o).hub,
                                               !.seenSecret = Here(o).secret,
                                               !.roster = Here(o).members]]
    /\ chain' = [chain EXCEPT ![DeviceOf[o]] = Append(@, o)]
    /\ UNCHANGED <<relay, blossom, trash, store, reader, uploads>>

\* The handler's turn: it takes its base from the store, or from its closure.
TakeTurn(o) ==
    /\ op[o].pc = "queued" /\ HasLock(o)
    /\ op' = [op EXCEPT ![o] = [@ EXCEPT !.pc = "read",
                 !.hub = IF op[o].kind \in ClosureKinds THEN op[o].seen ELSE Here(o).hub]]
    /\ UNCHANGED <<relay, blossom, trash, store, reader, chain, uploads>>

\* Remove and ban first download the ban list, and fail closed without it.
ListsBans(o) ==
    /\ op[o].pc = "read" /\ op[o].kind \in {"remove", "ban"}
    /\ <<"index", op[o].hub.index.id>> \in blossom
    /\ Here(o).secret # 0
    /\ BansReadable(op[o].hub.index, Here(o).secret)

\* Nothing to do: the user is banned already, or a removed user is no member.
Needless(o) ==
    IF op[o].kind = "ban" THEN op[o].who \in op[o].hub.index.bans
                          ELSE op[o].who \notin Here(o).members

NothingToDo(o) ==
    /\ ListsBans(o)
    /\ Needless(o)
    /\ End(o, "noop")
    /\ UNCHANGED <<relay, blossom, trash, store, reader, uploads>>

\* A ban adds to the downloaded list, a removal carries it over.
EffectiveBans_StartsAfresh(o) == IF op[o].kind = "ban" THEN {op[o].who} ELSE {}

EffectiveBans(o) == op[o].hub.index.bans \cup (IF op[o].kind = "ban" THEN {op[o].who} ELSE {})

\* The new ban list is shown at once; the roster snapshot decides below whether
\* the user is kicked or only banned.
ReadBans(o) ==
    /\ ListsBans(o)
    /\ ~Needless(o)
    /\ LET bans == EffectiveBans(o)
       IN /\ op' = [op EXCEPT ![o] = [@ EXCEPT !.pc = "listed", !.bans = bans,
                                               !.roster = Here(o).members]]
          /\ store' = IF op[o].kind = "ban" THEN [store EXCEPT ![DeviceOf[o]].bans = bans]
                                            ELSE store
    /\ UNCHANGED <<relay, blossom, trash, reader, chain, uploads>>

-----------------------------------------------------------------------------
(* Building and uploading the new blobs.                                    *)

Fresh == uploads + 1

\* A removal, a ban of somebody on the roster and a fix rotate the secret.
Kicks_OnlyRemovals(o) == op[o].kind = "remove"

Kicks(o) == \/ op[o].kind = "remove"
            \/ op[o].kind = "ban" /\ op[o].who \in op[o].roster

Rotates(o) == op[o].kind = "fix" \/ Kicks(o)

\* The spine opens with the right secret only.
TreeReadable(idx, secret) ==
    /\ idx.tree # 0 /\ Named(idx) \subseteq blossom
    /\ secret # 0 /\ secret = idx.secret

Descendant(idx) == [idx EXCEPT !.id = Fresh, !.lineage = @ \cup {Fresh}]

Rotated_SameSecret(idx, p) ==
    [Descendant(idx) EXCEPT !.tree = Fresh, !.banKey = Fresh, !.epoch = p.hub.epoch + 1]

Rotated_SameEpoch(idx, p) ==
    [Descendant(idx) EXCEPT !.tree = Fresh, !.secret = Fresh, !.banKey = Fresh]

Rotated(idx, p) == [Descendant(idx) EXCEPT !.tree = Fresh, !.secret = Fresh, !.banKey = Fresh,
                                           !.epoch = p.hub.epoch + 1]

Built(o, new, oldSecret) ==
    /\ op' = [op EXCEPT ![o] = [@ EXCEPT !.pc = "built", !.new = new, !.oldSecret = oldSecret]]
    /\ blossom' = blossom \cup (Named(new) \cap ({"index", "tree"} \X {Fresh}))
    /\ uploads' = Fresh
    /\ UNCHANGED <<relay, trash, store, reader, chain>>

\* Admission: ban re-check, leaf into the page, new spine under the same
\* secret.  existingIndexData carries no ban pages to the new index.
BuildAdmit(o) ==
    LET idx == op[o].hub.index
    IN /\ op[o].pc = "read" /\ op[o].kind = "admit"
       /\ TreeReadable(idx, Here(o).secret)
       /\ BansReadable(idx, Here(o).secret) /\ op[o].who \notin idx.bans
       /\ Built(o, [Descendant(idx) EXCEPT !.tree = Fresh, !.bans = {},
                                           !.members = @ \cup {op[o].who}], 0)

\* A ban of somebody who is not on the roster rewrites only the ban pages.
BuildBan(o) ==
    LET idx == op[o].hub.index
    IN /\ op[o].pc = "listed" /\ op[o].kind = "ban" /\ ~Kicks(o)
       /\ <<"index", idx.id>> \in blossom /\ Here(o).secret # 0
       /\ Built(o, [Descendant(idx) EXCEPT !.bans = op[o].bans, !.banKey = Here(o).secret], 0)

\* Two lines go to the history: the secret rotated out and the new one.
HistoryAfter_StartsAfresh(hist, secret) == {secret, Fresh}

HistoryAfter(hist, secret) == hist \cup {secret, Fresh}

\* kickMemberV2: the leaf goes, everything is rotated, the history gets a line.
BuildKick(o) ==
    LET idx == op[o].hub.index
    IN /\ op[o].pc = "listed" /\ Kicks(o)
       /\ TreeReadable(idx, Here(o).secret) /\ op[o].who \in idx.members
       /\ Built(o, [Rotated(idx, op[o]) EXCEPT !.bans = op[o].bans,
                        !.members = @ \ {op[o].who},
                        !.hist = HistoryAfter(@, Here(o).secret)], Here(o).secret)

\* rebuildTreeV2: a new tree for the roster of the store.  When its own read of
\* the index fails (~reread) the history starts afresh.  An empty roster beside leaf
\* pages would mean that it was never loaded (the owner's own line is always on a
\* loaded one): the handler then stops, which is Abort.
BuildFix(o) ==
    LET idx == op[o].hub.index
        secret == op[o].seenSecret
    IN /\ op[o].pc = "read" /\ op[o].kind = "fix" /\ secret # 0
       /\ <<"index", idx.id>> \in blossom /\ BansReadable(idx, secret)
       /\ \E reread \in BOOLEAN :
             /\ reread => secret = idx.secret
             /\ Built(o, [Rotated(idx, op[o]) EXCEPT !.members = Here(o).members,
                              !.hist = HistoryAfter(IF reread THEN @ ELSE {}, secret)], secret)

\* What the index of an unban keeps of the old one: everything or, when its
\* download failed and the handler went on (~got), nothing.
Kept(idx, got) ==
    IF got THEN Descendant(idx)
           ELSE [Descendant(idx) EXCEPT !.tree = 0, !.secret = 0, !.members = {}, !.hist = {}]

\* Unban: the ban list is read again and fails closed.
BuildUnban(o) ==
    LET idx == op[o].hub.index
    IN /\ op[o].pc = "read" /\ op[o].kind = "unban"
       /\ <<"index", idx.id>> \in blossom
       /\ Here(o).secret # 0 /\ BansReadable(idx, Here(o).secret)
       /\ \E got \in BOOLEAN :
             Built(o, [Kept(idx, got) EXCEPT !.bans = idx.bans \ {op[o].who},
                                             !.banKey = Here(o).secret], 0)

\* Unban and re-add: a leaf that cannot be added is logged and left out.
BuildReadd(o) ==
    LET idx == op[o].hub.index
    IN /\ op[o].pc = "read" /\ op[o].kind = "readd"
       /\ <<"index", idx.id>> \in blossom
       /\ Here(o).secret # 0 /\ BansReadable(idx, Here(o).secret)
       /\ \E got, added \in BOOLEAN :
             /\ got => idx.tree = 0 \/ TreeReadable(idx, Here(o).secret)
             /\ Built(o, [Kept(idx, got) EXCEPT
                              !.bans = idx.bans \ {op[o].who}, !.banKey = Here(o).secret,
                              !.tree = IF @ = 0 THEN 0 ELSE Fresh,
                              !.members = IF got /\ idx.tree # 0 /\ added
                                          THEN @ \cup {op[o].who} ELSE @], 0)

\* Saving roles: same keys, same bans, new pages and spine.
BuildRoles(o) ==
    LET idx == op[o].hub.index
    IN /\ op[o].pc = "read" /\ op[o].kind = "roles"
       /\ TreeReadable(idx, Here(o).secret)
       /\ Built(o, [Descendant(idx) EXCEPT !.tree = Fresh], 0)

-----------------------------------------------------------------------------
(* Compare, sign and publish.                                               *)

\* A query answered by the relays in R: the newest of what they hold.
Fetched(R, e) == /\ R # {}
                 /\ \E r \in R : e = relay[r]
                 /\ \A r \in R : ~Supersedes(relay[r], e)

\* assertIndexUnchanged.
SameBase_Unchecked(o, e) == TRUE

SameBase(o, e) == e.index = op[o].hub.index

UnusedIds == EventIds \ {op[p].event.id : p \in Ops}

\* A copy of the fetched event that names the new index; a rotation opens the
\* content with the old key and seals it with the new one.
Successor(o, current, id) ==
    [index |-> op[o].new, id |-> id, created |-> current.created + 1,
     epoch |-> IF Rotates(o) THEN op[o].hub.epoch + 1 ELSE current.epoch,
     key |-> IF Rotates(o) THEN op[o].new.secret ELSE current.key]

\* republishV2HubIndex and republishV2HubRotate up to the publish.
Republish(o) ==
    /\ op[o].pc = "built" /\ op[o].kind \notin RebuildKinds
    /\ \E R \in SUBSET Relays, r \in Relays, id \in UnusedIds :
          LET current == relay[r]
          IN /\ Fetched(R, current)
             /\ SameBase(o, current)
             /\ Rotates(o) => current.key = op[o].oldSecret /\ current.epoch = op[o].hub.epoch
             /\ op' = [op EXCEPT ![o] = [@ EXCEPT !.pc = "publishing", !.sent = TRUE,
                                                  !.event = Successor(o, current, id)]]
    /\ UNCHANGED <<relay, blossom, trash, store, reader, chain, uploads>>

\* signHubEventForPublish: the event is rebuilt from the captured hub, its
\* content sealed with the secret the store holds now.
Sign(o) ==
    /\ op[o].pc = "built" /\ op[o].kind \in RebuildKinds
    /\ Here(o).secret # 0
    /\ \E id \in UnusedIds :
          op' = [op EXCEPT ![o] = [@ EXCEPT !.pc = "signed",
                    !.event = [index |-> op[o].new, epoch |-> op[o].hub.epoch,
                               key |-> Here(o).secret, created |-> op[o].hub.created + 1,
                               id |-> id]]]
    /\ UNCHANGED <<relay, blossom, trash, store, reader, chain, uploads>>

\* casCheckIndex, after the signature.
CheckIndex(o) ==
    /\ op[o].pc = "signed"
    /\ \E R \in SUBSET Relays, r \in Relays :
          Fetched(R, relay[r]) /\ SameBase(o, relay[r])
    /\ op' = [op EXCEPT ![o] = [@ EXCEPT !.pc = "publishing", !.sent = TRUE]]
    /\ UNCHANGED <<relay, blossom, trash, store, reader, chain, uploads>>

\* HubConcurrencyError: the pointer the relays serve is not the base.  The reload
\* that assertIndexUnchanged asks for (retryHub) leaves the hub as it is: the loader
\* only loads hubs that are missing or not yet resolved.
Conflict(o) ==
    /\ \/ op[o].pc = "built" /\ op[o].kind \notin RebuildKinds
       \/ op[o].pc = "signed"
    /\ \E R \in SUBSET Relays, r \in Relays :
          Fetched(R, relay[r]) /\ ~SameBase(o, relay[r])
    /\ End(o, "conflict")
    /\ UNCHANGED <<relay, blossom, trash, store, reader, uploads>>

\* A relay stores the event and says so, unless it holds a newer one.
Deliver(o, r) ==
    /\ op[o].sent /\ r \notin op[o].reached
    /\ LateDelivery \/ op[o].pc = "publishing"
    /\ Supersedes(op[o].event, relay[r])
    /\ relay' = [relay EXCEPT ![r] = op[o].event]
    /\ op' = [op EXCEPT ![o].reached = @ \cup {r}]
    /\ UNCHANGED <<blossom, trash, store, reader, chain, uploads>>

-----------------------------------------------------------------------------
(* The end of a mutation.                                                   *)

\* The store the handler leaves, its hub stamped with that created_at.
Advanced(o, created) ==
    LET p == op[o]
    IN [Here(o) EXCEPT
          !.hub = [index |-> p.new, created |-> created,
                   epoch |-> IF Rotates(o) THEN p.hub.epoch + 1 ELSE p.hub.epoch],
          !.secret = IF Rotates(o) THEN p.new.secret ELSE @,
          !.members = CASE p.kind = "admit" -> @ \cup {p.who}
                        [] p.kind = "readd" -> @ \cup (p.new.members \ p.hub.index.members)
                        [] p.kind = "roles" -> p.roster
                        [] Kicks(o) -> p.roster \ {p.who}
                        [] OTHER -> @,
          !.bans = IF p.kind \in {"unban", "readd"} THEN p.new.bans ELSE @]

\* The blobs the handler deletes once its event is out; a role save deletes some
\* only when it changed the tree of an encrypted group.
Superseded(o, groupsChanged) ==
    LET p == op[o]
    IN CASE p.kind = "admit" -> {<<"index", p.seen.index.id>>, <<"tree", p.hub.index.tree>>}
         [] p.kind = "readd" -> {<<"index", p.hub.index.id>>}
                                \cup (IF p.new.tree = 0 THEN {} ELSE {<<"tree", p.hub.index.tree>>})
         [] p.kind = "roles" /\ HasGroups /\ groupsChanged -> {<<"index", p.hub.index.id>>}
         [] OTHER -> {}

Accepted_Assumed(o) == TRUE

Accepted(o) == op[o].reached # {}

\* Some relay accepted: advance the store, delete, release.
Commit(o) ==
    /\ op[o].pc = "publishing" /\ Accepted(o)
    /\ store' = [store EXCEPT ![DeviceOf[o]] = Advanced(o, op[o].event.created)]
    /\ \E groupsChanged \in BOOLEAN : trash' = trash \cup Superseded(o, groupsChanged)
    /\ End(o, "done")
    /\ UNCHANGED <<relay, blossom, reader, uploads>>

\* With encrypted groups the role save signs and publishes inside a catch that
\* lets only HubConcurrencyError through, the one error casCheckIndex throws.
Swallows(o) == op[o].kind = "roles" /\ HasGroups

SwallowError(o) ==
    /\ Swallows(o)
    /\ \/ op[o].pc = "built"
       \/ op[o].pc = "publishing" /\ ~Accepted(o)
    /\ store' = [store EXCEPT ![DeviceOf[o]] = Advanced(o, op[o].hub.created)]
    /\ End(o, "swallowed")
    /\ UNCHANGED <<relay, blossom, trash, reader, uploads>>

\* No relay accepted in time.
GiveUp(o) ==
    /\ op[o].pc = "publishing" /\ ~Accepted(o) /\ ~Swallows(o)
    /\ End(o, "failed")
    /\ UNCHANGED <<relay, blossom, trash, store, reader, uploads>>

\* A download, an upload, a signature or a precondition failed, or no relay answered
\* the comparison: the error is shown and finally releases the lock.
Abort(o) ==
    /\ \/ op[o].pc \in {"read", "listed", "signed"}
       \/ op[o].pc = "built" /\ ~Swallows(o)
    /\ End(o, "failed")
    /\ UNCHANGED <<relay, blossom, trash, store, reader, uploads>>

\* A Blossom server gets round to a deletion.
Delete(b) ==
    /\ b \in trash
    /\ blossom' = blossom \ {b} /\ trash' = trash \ {b}
    /\ UNCHANGED <<relay, store, reader, chain, op, uploads>>

-----------------------------------------------------------------------------
(* The subscription handler of a device.  Bounds: one handler runs at a time,  *)
(* and the full reload that a lost secret asks for is not modelled.            *)

\* Newer by created_at, a rotation, or another index not older than the applied.
Accepts(s, e) == \/ e.created > s.latest
                 \/ e.epoch > s.hub.epoch
                 \/ e.index # s.hub.index /\ e.created >= s.hub.created

\* An event arrives and (re)starts the debounce timer.
ReaderPick(d, r) ==
    /\ reader[d].phase # "loaded"
    /\ Accepts(store[d], relay[r])
    /\ store' = [store EXCEPT ![d].latest = Larger(@, relay[r].created)]
    /\ reader' = [reader EXCEPT ![d].phase = "pending", ![d].event = relay[r]]
    /\ UNCHANGED <<relay, blossom, trash, chain, op, uploads>>

\* A reconnect seeds latestTsRef with the version the store holds.
Resubscribe(d) ==
    /\ store[d].latest # store[d].hub.created
    /\ store' = [store EXCEPT ![d].latest = store[d].hub.created]
    /\ reader' = [reader EXCEPT ![d].phase = IF @ = "pending" THEN "idle" ELSE @]
    /\ UNCHANGED <<relay, blossom, trash, chain, op, uploads>>

\* The timer fires, but the epoch is below the mark.
ReaderRefuse(d) ==
    /\ reader[d].phase = "pending" /\ reader[d].event.epoch < store[d].mark
    /\ reader' = [reader EXCEPT ![d].phase = "idle"]
    /\ UNCHANGED <<relay, blossom, trash, store, chain, op, uploads>>

\* loadHubSecret: the owner's leaf yields the secret, roster and bans.
ReaderLoad(d) ==
    LET e == reader[d].event
    IN /\ reader[d].phase = "pending" /\ e.epoch >= store[d].mark
       /\ e.index # store[d].hub.index
       /\ TreeReadable(e.index, e.index.secret)
       /\ store' = [store EXCEPT ![d] =
             [store[d] EXCEPT !.secret = e.index.secret, !.mark = Larger(@, e.epoch),
                              !.members = e.index.members,
                              !.bans = IF BansReadable(e.index, e.index.secret)
                                       THEN e.index.bans ELSE @]]
       /\ reader' = [reader EXCEPT ![d].phase = "loaded", ![d].secret = e.index.secret]
       /\ UNCHANGED <<relay, blossom, trash, chain, op, uploads>>

\* The index is the one applied already, or its download fails: go on with the
\* secret the store has.
ReaderSkip(d) ==
    /\ reader[d].phase = "pending" /\ reader[d].event.epoch >= store[d].mark
    /\ reader' = [reader EXCEPT ![d].phase = "loaded", ![d].secret = store[d].secret]
    /\ UNCHANGED <<relay, blossom, trash, store, chain, op, uploads>>

\* setHubData; a secret that does not open the content is dropped.
ReaderInstall(d) ==
    LET e == reader[d].event
    IN /\ reader[d].phase = "loaded"
       /\ store' = [store EXCEPT ![d] =
             [store[d] EXCEPT !.hub = ViewOf(e),
                              !.secret = IF reader[d].secret \in {0, e.key} THEN @ ELSE 0]]
       /\ reader' = [reader EXCEPT ![d].phase = "idle"]
       /\ UNCHANGED <<relay, blossom, trash, chain, op, uploads>>

-----------------------------------------------------------------------------
Step(o) ==
    \/ TakeTurn(o) \/ NothingToDo(o) \/ ReadBans(o)
    \/ BuildAdmit(o) \/ BuildBan(o) \/ BuildKick(o) \/ BuildFix(o)
    \/ BuildUnban(o) \/ BuildReadd(o) \/ BuildRoles(o)
    \/ Republish(o) \/ Sign(o) \/ CheckIndex(o) \/ Conflict(o)
    \/ Commit(o) \/ SwallowError(o) \/ GiveUp(o) \/ Abort(o)

Listen(d) ==
    \/ \E r \in Relays : ReaderPick(d, r)
    \/ Resubscribe(d) \/ ReaderRefuse(d)
    \/ ReaderLoad(d) \/ ReaderSkip(d) \/ ReaderInstall(d)

Next ==
    \/ \E o \in Ops : Click(o) \/ Step(o)
    \/ \E o \in Ops, r \in Relays : Deliver(o, r)
    \/ \E d \in Online : Listen(d)
    \/ \E b \in trash : Delete(b)

Spec == Init /\ [][Next]_vars

\* The subscription keeps up with the device's own mutations: what its timer and
\* its download have held back is not older than the version the store has come to.
\* Nothing in the code compares the two once the timer runs; without this the base
\* of the next mutation may be one that the device itself has replaced.
InTime == \A d \in Devices :
    reader[d].phase = "loaded" => reader[d].event.created >= store[d].hub.created

InTimeSpec == Init /\ [][Next /\ InTime']_vars

\* From the first upload to the signature the handler asks the owner's signer: for
\* the authorization of every upload, for the new leaves, for the event itself.  Those
\* calls have no timeout ("signEvent is NOT guarded").
AtSigner(o) == \/ op[o].pc \in {"listed", "built"}
               \/ op[o].pc = "read" /\ op[o].kind \notin {"remove", "ban"}

\* Fetches, downloads and publishes time out, so a mutation whose turn has come keeps
\* moving unless it waits for the signer, which may never answer.
Fairness == \A o \in Ops : WF_vars(~AtSigner(o) /\ Step(o))

FairSpec == Spec /\ Fairness

-----------------------------------------------------------------------------
(* Properties.                                                              *)

Consistent(e) == /\ e.index.tree # 0 => e.key = e.index.secret
                 /\ e.epoch = e.index.epoch

\* Whatever the interleaving of mutations and relays, the epoch, the content key
\* and the tree of a hub event on a relay belong together, so that a member who
\* opens the tree can read the content (republishV2HubRotate: otherwise "the hub
\* is undecryptable for everyone").
EventConsistent == \A r \in Relays : Consistent(relay[r])

Published(o) == op[o].reached # {}

Backed(idx) == idx = Genesis \/ \E o \in Ops : op[o].new = idx /\ Published(o)

\* A device never shows an index that no relay accepted: the store advances only
\* after a publish that reached some relay.
StorePublished == \A d \in Devices : Backed(store[d].hub.index)

\* A mutation that ended without a relay's answer, whose event a relay may yet
\* store.
GivenUp(o) == op[o].pc \in {"failed", "swallowed"} /\ op[o].sent

NoneGivenUp == \A o \in Ops : ~GivenUp(o)

\* A completed mutation is never overwritten: a relay that serves its event or
\* a later one serves a descendant of its index.
NoLostUpdate ==
    NoneGivenUp =>
       \A o \in Ops, r \in Relays :
          op[o].pc = "done" /\ relay[r].created >= op[o].event.created
             => op[o].new.id \in relay[r].index.lineage

\* Nobody is both banned and a member of the tree that is served.
BannedNotMember ==
    NoneGivenUp => \A r \in Relays : relay[r].index.members \cap relay[r].index.bans = {}

AllIndexes == {Genesis} \cup {op[o].new : o \in {p \in Ops : Published(p)}}

Ancestors(idx) == {i \in AllIndexes : i.id \in idx.lineage}

\* Every secret a user could open with a leaf of his own up to that index.
Known(m, idx) == {i.secret : i \in {j \in Ancestors(idx) : m \in j.members}}

\* He was admitted, or a fix found him on the roster of its device: it builds the
\* new tree for whoever is on it, and a roster may be older than the tree.
ReadmittedSince(m, id, idx) ==
    \E p \in Ops : /\ \/ op[p].kind \in {"admit", "readd"} /\ op[p].who = m
                      \/ op[p].kind = "fix" /\ m \in op[p].new.members
                   /\ op[p].new.id \in idx.lineage /\ op[p].new.id > id

\* After a kick the user is off the tree, and neither the tree nor the content is
\* sealed with a secret he ever had, until he is admitted or put back.
KickRevokes ==
    \A o \in Ops, r \in Relays :
       LET idx == relay[r].index
           m == op[o].who
       IN (op[o].pc = "done" /\ Kicks(o) /\ op[o].new.id \in idx.lineage
             /\ ~ReadmittedSince(m, op[o].new.id, idx))
          => m \notin idx.members /\ {idx.secret, relay[r].key} \cap Known(m, idx) = {}

\* The newest event on the relays names blobs that Blossom still holds, or is
\* about to: deletions only ever reach superseded blobs.
NewestBlobsPresent ==
    NoneGivenUp =>
       \A r \in Relays : (\A q \in Relays : ~Supersedes(relay[q], relay[r]))
                            => Named(relay[r].index) \subseteq blossom \ trash

\* The history of a served index lists the secret of every epoch before it.
HistoryComplete ==
    \A r \in Relays :
       relay[r].index.hist = {i.secret : i \in Ancestors(relay[r].index)}

\* A ban disappears from a relay only because the owner lifted that ban.
BansOnlyLifted ==
    [][NoneGivenUp' =>
          \A r \in Relays : \A m \in relay[r].index.bans \ relay'[r].index.bans :
          \E o \in Ops : /\ op[o].kind \in {"unban", "readd"} /\ op[o].who = m
                         /\ op[o].new.id \in relay'[r].index.lineage]_vars

\* The signer answers, if only with an error, every mutation of that device.
SignerAnswers(d) == \A o \in Ops : DeviceOf[o] = d => []<>~AtSigner(o)

\* Every mutation that queues for the lock gets it and ends, whatever fails in the
\* mutations before it, unless the signer never answers one of the device.
EveryMutationEnds ==
    \A o \in Ops : SignerAnswers(DeviceOf[o]) => (op[o].pc = "queued" ~> op[o].pc \in Final)

-----------------------------------------------------------------------------
(* Why they hold: the inductive invariants.                                 *)

\* A mutation that has been given its turn and has not ended.
Active == {"read", "listed", "built", "signed", "publishing"}

\* Only the head of a device's queue is active.
LockHeld == \A o \in Ops : op[o].pc \in Active => HasLock(o)

\* The new index fits the event it will be put into: a rotation brings its own
\* epoch, everything else keeps the secret and the epoch of the base.
Fits(o) ==
    /\ Rotates(o) => op[o].new.epoch = op[o].hub.epoch + 1
    /\ ~Rotates(o) => /\ op[o].new.secret = op[o].hub.index.secret
                      /\ op[o].new.epoch = op[o].hub.index.epoch
                      /\ op[o].new.tree # 0 => op[o].hub.index.tree # 0

\* For the handlers that clone the event they compared: what is built but not yet
\* sent fits its base, so that the clone is consistent again.
Coherent ==
    /\ EventConsistent
    /\ \A o \in Ops : /\ op[o].sent => Consistent(op[o].event)
                      /\ op[o].pc # "idle" => op[o].kind \in Kinds
                      /\ op[o].pc # "signed"
                      /\ op[o].pc = "built" => Fits(o)

\* Whatever is served, shown or about to be shown was published, and a mutation
\* sends the index it built, which it builds only once.
Traced ==
    /\ StorePublished
    /\ \A r \in Relays : Backed(relay[r].index)
    /\ \A d \in Devices : Backed(reader[d].event.index)
    /\ \A o \in Ops :
          /\ Backed(op[o].seen.index) /\ Backed(op[o].hub.index)
          /\ Published(o) => op[o].sent
          /\ op[o].sent => op[o].pc \in {"publishing"} \cup Final
          /\ op[o].sent \/ op[o].pc = "signed" => op[o].event.index = op[o].new
          /\ op[o].pc # "idle" => op[o].kind \in Kinds

Made == {Genesis} \cup {op[o].new : o \in Ops}

\* Only indexes that were made are anywhere.
Placed ==
    /\ \A r \in Relays : relay[r].index \in Made
    /\ \A d \in Devices : store[d].hub.index \in Made /\ reader[d].event.index \in Made
    /\ \A o \in Ops : /\ op[o].seen.index \in Made /\ op[o].hub.index \in Made
                      /\ op[o].event.index \in Made

\* Descent is a forest, numbered as it grows.
Forest ==
    /\ \A i \in Made : {1, i.id} \subseteq i.lineage /\ i.lineage \subseteq 1..i.id
                       /\ i.id <= uploads
    /\ \A i, j \in Made : i.id \in j.lineage => i.lineage = j.lineage \cap 1..i.id

\* A mutation makes one index, out of its base.
Descends(o) ==
    /\ op[o].new.id > 1 /\ op[o].hub.index.id < op[o].new.id
    /\ op[o].new.lineage = op[o].hub.index.lineage \cup {op[o].new.id}

HasBuilt(o) == op[o].new # Genesis

Single ==
    /\ \A o \in Ops : /\ HasBuilt(o) => Descends(o)
                      /\ op[o].pc \in {"idle", "queued", "read", "listed"} => ~HasBuilt(o)
                      /\ op[o].pc \in {"built", "signed", "publishing"} => HasBuilt(o)
    /\ \A o, p \in Ops : HasBuilt(o) /\ op[o].new.id = op[p].new.id => o = p

\* Secrets and trees are as old as the index that drew or built them, and a user who
\* was kicked is in no later index unless he was put back.
Sealed ==
    /\ \A i \in Made : i.tree \in 1..i.id /\ i.secret \in 1..i.id
    /\ \A i, j \in Made : i.id \in j.lineage => i.secret <= j.secret
    /\ \A o \in Ops :
          HasBuilt(o) =>
             /\ Rotates(o) => op[o].new.secret = op[o].new.id
             /\ op[o].kind = "admit" => op[o].new.tree = op[o].new.id
             /\ Kicks(o) => \A j \in Made :
                   op[o].new.id \in j.lineage /\ op[o].who \in j.members
                      => ReadmittedSince(op[o].who, op[o].new.id, j)

\* For the handlers that read the store again: the history lists the secrets of the
\* ancestors, and those were published.
Listed ==
    \A j \in Made :
       /\ j.hist = {i.secret : i \in {k \in Made : k.id \in j.lineage}}
       /\ \A i \in Made : i.id \in j.lineage /\ i # j => Backed(i)

\* An index is served and shown under the created_at with which it was sent.
Genuine(idx, created) ==
    \/ idx = Genesis /\ created = 1
    \/ \E o \in Ops : op[o].sent /\ op[o].new = idx /\ op[o].event.created = created

\* Relays only replace an event by a newer one, and a mutation is done when one of
\* them has its event.
Timed ==
    /\ \A r \in Relays : Genuine(relay[r].index, relay[r].created)
    /\ \A d \in Devices : /\ Genuine(store[d].hub.index, store[d].hub.created)
                          /\ Genuine(reader[d].event.index, reader[d].event.created)
    /\ \A o \in Ops :
          /\ Genuine(op[o].seen.index, op[o].seen.created)
          /\ Genuine(op[o].hub.index, op[o].hub.created)
          /\ op[o].sent => HasBuilt(o) /\ op[o].event.created > 1
          /\ op[o].pc = "publishing" => op[o].sent
          /\ op[o].pc = "done" => op[o].sent /\ Published(o)
          /\ \A r \in op[o].reached : relay[r].created >= op[o].event.created

Cloning == Kinds \cap RebuildKinds = {}

Rereading == Kinds \cap ClosureKinds = {}

NoSwallow == ~(HasGroups /\ "roles" \in Kinds)

\* A role save that may swallow its error is excluded from Traced, handlers that
\* rebuild the event from Coherent, Sealed and Timed, those that work from their
\* closure from Listed.
IInv ==
    /\ TypeOK /\ LockHeld /\ Placed /\ Forest /\ Single
    /\ NoSwallow => Traced
    /\ Cloning => Coherent /\ Sealed /\ Timed
    /\ Rereading => Listed

OneDevice == \A o, p \in Ops : DeviceOf[o] = DeviceOf[p]

\* The mutations of one device that all got through descend from each other in the
\* order of their events, and none that is under way works from an older base.
Chained ==
    /\ \A o, p \in Ops : op[o].sent /\ op[p].sent /\ op[p].event.created <= op[o].event.created
                            => op[p].new.id \in op[o].new.lineage
    /\ \A o \in Ops :
          /\ op[o].pc = "queued" => op[o].seen.created <= Here(o).hub.created
          /\ op[o].pc \in Active => op[o].seen.created <= op[o].hub.created
          /\ op[o].pc \in {"read", "listed", "built"} =>
                \A p \in Ops : op[p].sent => op[p].event.created <= op[o].hub.created
          /\ op[o].pc = "publishing" =>
                \A p \in Ops : op[p].sent => op[p].event.created <= op[o].event.created
          /\ op[o].sent /\ op[o].pc # "publishing" =>
                op[o].event.created <= Here(o).hub.created

\* The indexes that are or may yet be published.
Alive(idx) == idx = Genesis \/ \E o \in Ops : /\ op[o].new = idx
                                              /\ op[o].sent \/ op[o].pc = "built"

\* Deletions only reach what a completed mutation has superseded, never what is yet
\* to be uploaded.
LiveBlobs ==
    /\ \A b \in trash : b[2] <= uploads
    /\ \A i \in Made :
          Alive(i) /\ (\A o \in Ops : op[o].pc = "done" /\ i.id \in op[o].new.lineage
                                         => op[o].new = i)
             => Named(i) \subseteq blossom \ trash

\* The roster that an admission, a removal or a ban leaves on its device.
LeavesRoster(o) == IF Kicks(o) THEN op[o].roster \ {op[o].who}
                   ELSE Here(o).members \cup (IF op[o].kind = "admit" THEN {op[o].who} ELSE {})

\* A device knows everybody in the tree it works from, so it does not mistake a kick
\* for a ban of somebody who is not on the roster; and only an admission drops bans.
Rostered ==
    /\ \A i \in Made : i.members \cap i.bans = {}
    /\ "admit" \notin Kinds =>
          \A i, j \in Made : i.id \in j.lineage => i.bans \subseteq j.bans
    /\ (\A o \in Ops : op[o].pc # "publishing") =>
          \A o \in Ops : Here(o).hub.index.members \subseteq Here(o).members
    /\ \A o \in Ops :
          /\ op[o].pc \in {"read", "listed", "built"} => op[o].hub.index = Here(o).hub.index
          /\ op[o].pc = "listed" => /\ op[o].hub.index.members \subseteq op[o].roster
                                    /\ op[o].bans = EffectiveBans(o)
          /\ op[o].pc \in {"built", "publishing"} => op[o].new.members \subseteq LeavesRoster(o)

InTimeIInv ==
    /\ IInv /\ InTime
    /\ OneDevice /\ Rereading /\ NoneGivenUp => Chained /\ LiveBlobs /\ Rostered

=============================================================================
