---------------------------- MODULE ChannelMessages ----------------------------
(***************************************************************************)
(* One message of a hub channel: its author sends, edits and deletes it,    *)
(* from any of the author's devices, and every device of the hub shows it   *)
(* from its message store, which useHubSubscriptions fills from the relays  *)
(* and, after a start, from the message cache on disk.                      *)
(*                                                                         *)
(* All versions of the message share one address (d tag and author); each   *)
(* is an event with a created_at (ts), an id and perhaps the deleted tag.   *)
(* The relays store a version late or never; each keeps the newest it has   *)
(* been given, so any version some relay ever stored may be served again,   *)
(* until they have carried out a NIP-09 deletion request.  Bounds: a device  *)
(* works on one edit or deletion at a time; the author's cache writes end    *)
(* with the step that starts them, while those of received events, which    *)
(* wait for a signature check, may end later in any order; what the store   *)
(* evicts, messages that expire, proof of work and reactions are left out.  *)
(***************************************************************************)
EXTENDS Integers, FiniteSets

CONSTANTS
    Author,         \* the author's devices
    Reader,         \* devices of other members
    MaxVersion,     \* versions of the message
    MaxRestart,     \* restarts, of all devices together
    MaxWrites,      \* cache writes of a device that have not ended
    None

Device == Author \cup Reader

Version == [ts : 1..MaxVersion, id : 1..MaxVersion, gone : BOOLEAN]

\* What a device does to its message, and the version it began from.
Operation == [what : {"edit", "request", "commit"}, base : Version, tombstone : Version \cup {None}]

ASSUME MessagesAssumption ==
    /\ Author \cap Reader = {}
    /\ MaxVersion \in Nat \ {0}
    /\ MaxRestart \in Nat /\ MaxWrites \in [Device -> Nat]
    /\ None \notin Version \cup Operation \cup Device

VARIABLES
    store,      \* the version each device shows
    cache,      \* the versions each device keeps on disk
    writes,     \* cache writes of received versions that have not ended
    loaded,     \* the devices that have read their cache since they started
    op,         \* the edit or deletion of each device of the author
    sender,     \* the device whose publish of the message has not ended
    failed,     \* whether that publish reported that no relay took it
    made,       \* every version published
    served,     \* the versions some relay has stored
    requested,  \* whether a deletion request has been published
    erased,     \* whether every relay has carried it out
    recent,     \* whether the fetch after a connect reaches the message
    restarts

local == <<store, cache, writes, loaded>>
relays == <<served, requested, erased>>
vars == <<local, op, sender, failed, relays, made, recent, restarts>>

TypeOK ==
    /\ store \in [Device -> Version \cup {None}]
    /\ cache \in [Device -> SUBSET Version]
    /\ writes \in [Device -> SUBSET Version]
    /\ loaded \in SUBSET Device
    /\ op \in [Author -> Operation \cup {None}]
    /\ sender \in Author \cup {None} /\ failed \in BOOLEAN
    /\ made \in SUBSET Version /\ served \in SUBSET made
    /\ requested \in BOOLEAN /\ erased \in BOOLEAN
    /\ recent \in BOOLEAN
    /\ restarts \in Nat

Init ==
    /\ store = [d \in Device |-> None] /\ cache = [d \in Device |-> {}]
    /\ writes = [d \in Device |-> {}] /\ loaded = {}
    /\ op = [d \in Author |-> None] /\ sender = None /\ failed = FALSE
    /\ made = {} /\ served = {} /\ requested = FALSE /\ erased = FALSE
    /\ recent = TRUE /\ restarts = 0

-----------------------------------------------------------------------------
(* The message store: addMessage, addMessages.                              *)

Merged_TakesAny(entry, v) == v

Merged_KeepsFirst(entry, v) == IF entry = None THEN v ELSE entry

Merged(entry, v) == IF entry = None THEN v
                    ELSE IF v.ts > entry.ts THEN v ELSE entry

-----------------------------------------------------------------------------
(* The message cache, keyed by event id.                                    *)

Without(c, v) == {e \in c : e.id # v.id}

Put(c, v) == Without(c, v) \cup {v}

Stale(c, v) == {e \in Without(c, v) : e.ts <= v.ts}

\* cacheMessagesWithDedup.
Bulk(c, v) == Put(c \ Stale(c, v), v)

\* What cacheMessageWithDedup may leave: it goes through the other entries in the
\* order of their ids, deletes what is no newer, and gives up at a newer one.
One_Blind(c, v) == {{v}}

One(c, v) ==
    IF \A e \in Without(c, v) : e.ts <= v.ts THEN {Bulk(c, v)}
    ELSE {c \ stale : stale \in SUBSET Stale(c, v)}

\* The entries loadCachedMessagesForHub may keep: of the newest, that with the first id.
Picked(c) == {e \in c : \A f \in c : e.ts >= f.ts}

-----------------------------------------------------------------------------
(* The author.                                                              *)

NextId == CHOOSE i \in 1..MaxVersion : \A m \in made : m.id # i

\* A new version with this created_at, and whether the bounds allow one.
New(ts, gone) == [ts |-> ts, id |-> NextId, gone |-> gone]

CanMake(ts) == ts <= MaxVersion /\ \E i \in 1..MaxVersion : \A m \in made : m.id # i

Shows(d) == store[d] # None /\ ~store[d].gone

\* sendMessage shows and caches the message before it publishes it.
Send(d) ==
    /\ made = {}
    /\ made' = {New(1, FALSE)}
    /\ store' = [store EXCEPT ![d] = New(1, FALSE)]
    /\ cache' = [cache EXCEPT ![d] = {New(1, FALSE)}]
    /\ sender' = d
    /\ UNCHANGED <<writes, loaded, op, failed, relays, recent, restarts>>

Sent(c) == {e \in c : e.ts = 1}

\* No relay acknowledged the message: store and cache forget it.
Forgotten_Shown(c) == c

Forgotten(c) == c \ Sent(c)

SendFails ==
    /\ sender # None
    /\ store' = [store EXCEPT ![sender] = None]
    /\ cache' = [cache EXCEPT ![sender] = Forgotten(@)]
    /\ sender' = None /\ failed' = TRUE
    /\ UNCHANGED <<writes, loaded, op, relays, made, recent, restarts>>

SendEnds ==
    /\ sender # None
    /\ sender' = None
    /\ UNCHANGED <<local, op, failed, relays, made, recent, restarts>>

\* editMessage reads the version it replaces, and signs.
Edit(d) ==
    /\ op[d] = None /\ Shows(d)
    /\ op' = [op EXCEPT ![d] = [what |-> "edit", base |-> store[d], tombstone |-> None]]
    /\ UNCHANGED <<local, sender, failed, relays, made, recent, restarts>>

\* updateMessageContent replaces whatever entry there is, and keeps its flag.
Edited(entry, v) == IF entry = None THEN None ELSE [v EXCEPT !.gone = entry.gone]

\* replaceCachedMessage.
Replaced(c, base, v) == Put(Without(c, base), v)

\* The edit is shown and cached, whatever arrived while it was signed.
CommitEdit(d) ==
    /\ op[d] # None /\ op[d].what = "edit" /\ CanMake(op[d].base.ts + 1)
    /\ LET v == New(op[d].base.ts + 1, FALSE)
       IN /\ store' = [store EXCEPT ![d] = Edited(@, v)]
          /\ cache' = [cache EXCEPT ![d] = Replaced(@, op[d].base, v)]
          /\ made' = made \cup {v}
    /\ op' = [op EXCEPT ![d] = None]
    /\ UNCHANGED <<writes, loaded, sender, failed, relays, recent, restarts>>

\* deleteMessage publishes the tombstone first; what the relays answer is not looked at.
Delete(d) ==
    /\ op[d] = None /\ Shows(d) /\ CanMake(store[d].ts + 1)
    /\ LET v == New(store[d].ts + 1, TRUE)
       IN /\ op' = [op EXCEPT ![d] = [what |-> "request", base |-> store[d], tombstone |-> v]]
          /\ made' = made \cup {v}
    /\ UNCHANGED <<local, sender, failed, relays, recent, restarts>>

\* Then the NIP-09 request, which names the address, and so the tombstone as well.
Request(d) ==
    /\ op[d] # None /\ op[d].what = "request"
    /\ requested' = TRUE
    /\ op' = [op EXCEPT ![d].what = "commit"]
    /\ UNCHANGED <<local, sender, failed, served, erased, made, recent, restarts>>

\* markDeleted, and the tombstone takes the place of the message in the cache.
CommitDelete(d) ==
    /\ op[d] # None /\ op[d].what = "commit"
    /\ store' = [store EXCEPT ![d] = IF @ = None THEN None ELSE [@ EXCEPT !.gone = TRUE]]
    /\ \E c \in One(Without(cache[d], op[d].base), op[d].tombstone) :
          cache' = [cache EXCEPT ![d] = c]
    /\ op' = [op EXCEPT ![d] = None]
    /\ UNCHANGED <<writes, loaded, sender, failed, relays, made, recent, restarts>>

-----------------------------------------------------------------------------
(* The relays.                                                              *)

Deliver(v) ==
    /\ v \in made \ served /\ ~erased
    /\ served' = served \cup {v}
    /\ UNCHANGED <<local, op, sender, failed, requested, erased, made, recent, restarts>>

\* The request names the address: whatever it holds goes, and is refused from then on.
Erase ==
    /\ requested /\ ~erased
    /\ erased' = TRUE /\ recent' = FALSE
    /\ UNCHANGED <<local, op, sender, failed, served, requested, made, restarts>>

\* Newer messages of this and other channels and hubs leave the message out of the
\* INITIAL_LIMIT newest that a connect asks for; an edit or a tombstone does not bring it
\* back, being stamped one second after what it replaces.
Crowd ==
    /\ recent
    /\ recent' = FALSE
    /\ UNCHANGED <<local, op, sender, failed, relays, made, restarts>>

-----------------------------------------------------------------------------
(* Every device.                                                            *)

\* A relay's event, from the live subscription, the fetch after a connect or that of
\* an edit hint; it is cached if isMessageCacheable finds the channel's key and the
\* signature good.
Receive(d, v, cacheable) ==
    /\ v \in served /\ ~erased
    /\ store' = [store EXCEPT ![d] = Merged(@, v)]
    /\ writes' = [writes EXCEPT ![d] = IF cacheable THEN @ \cup {v} ELSE @]
    /\ cacheable => Cardinality(writes'[d]) <= MaxWrites[d]
    /\ UNCHANGED <<cache, loaded, op, sender, failed, relays, made, recent, restarts>>

\* Live events and hints are cached one by one, those of a connect in bulk at its end.
Persist(d, v) ==
    /\ v \in writes[d]
    /\ \E c \in One(cache[d], v) \cup {Bulk(cache[d], v)} : cache' = [cache EXCEPT ![d] = c]
    /\ writes' = [writes EXCEPT ![d] = @ \ {v}]
    /\ UNCHANGED <<store, loaded, op, sender, failed, relays, made, recent, restarts>>

\* A key was loaded: what the channel shows is offered to the cache again.  A sweep that
\* is still verifying when the channel changes is dropped; from then on it is one more
\* write under way.
Sweep(d) ==
    /\ store[d] # None
    /\ IF d \in Author
       THEN cache' = [cache EXCEPT ![d] = Bulk(@, store[d])] /\ UNCHANGED writes
       ELSE /\ writes' = [writes EXCEPT ![d] = @ \cup {store[d]}]
            /\ Cardinality(writes'[d]) <= MaxWrites[d]
            /\ UNCHANGED cache
    /\ UNCHANGED <<store, loaded, op, sender, failed, relays, made, recent, restarts>>

\* Once after a start; the other entries are pruned.
LoadCache(d) ==
    /\ d \notin loaded
    /\ loaded' = loaded \cup {d}
    /\ IF cache[d] = {} THEN UNCHANGED <<store, cache>>
       ELSE \E e \in Picked(cache[d]) :
                /\ store' = [store EXCEPT ![d] = Merged(@, e)]
                /\ cache' = [cache EXCEPT ![d] = {e}]
    /\ UNCHANGED <<writes, op, sender, failed, relays, made, recent, restarts>>

Restart(d) ==
    /\ restarts < MaxRestart
    /\ restarts' = restarts + 1
    /\ store' = [store EXCEPT ![d] = None]
    /\ writes' = [writes EXCEPT ![d] = {}] /\ loaded' = loaded \ {d}
    /\ op' = [e \in Author |-> IF e = d THEN None ELSE op[e]]
    /\ sender' = IF sender = d THEN None ELSE sender
    /\ UNCHANGED <<cache, failed, relays, made, recent>>

-----------------------------------------------------------------------------
Take(d, v) == \E cacheable \in BOOLEAN : Receive(d, v, cacheable)

Newest(v) == \A w \in served : w.ts <= v.ts

AuthorStep(d) ==
    Send(d) \/ Edit(d) \/ CommitEdit(d) \/ Delete(d) \/ Request(d) \/ CommitDelete(d)

DeviceStep(d) ==
    \/ \E v \in served : Take(d, v)
    \/ \E v \in writes[d] : Persist(d, v)
    \/ Sweep(d) \/ LoadCache(d) \/ Restart(d)

RelayStep == Crowd \/ Erase \/ \E v \in made : Deliver(v)

Next == SendFails \/ SendEnds \/ RelayStep
        \/ (\E d \in Author : AuthorStep(d)) \/ \E d \in Device : DeviceStep(d)

Spec == Init /\ [][Next]_vars

\* A device reconnects every five minutes, and while the message is among the newest its
\* fetch asks for, the relay that holds the newest version serves it; nothing serves an
\* older message again.  A started device reads its cache.
ReaderFairness(d) ==
    /\ WF_vars(recent /\ \E v \in served : Newest(v) /\ Take(d, v))
    /\ WF_vars(LoadCache(d))

FairSpec == Spec /\ \A d \in Device : ReaderFairness(d)

-----------------------------------------------------------------------------
(* Properties.                                                              *)

\* What a member's device has shown is replaced by a strictly newer version only,
\* in whatever order the relays and the cache answer; only a restart empties the
\* screen.  On the author's devices only their own edits and deletions differ.
StoreForward ==
    [][\A d \in Device : store[d] # None /\ store'[d] # store[d] =>
          \/ restarts' > restarts
          \/ d \in Author /\ (op'[d] # op[d] \/ sender' # sender)
          \/ store'[d] # None /\ store'[d].ts > store[d].ts]_vars

\* What the cache of a member's device holds never falls behind: for each entry
\* it later holds one at least as new, whichever write ends last.
CacheForward ==
    [][\A d \in Reader : \A e \in cache[d] : \E f \in cache'[d] : f.ts >= e.ts]_vars

\* A member's device that has read its cache shows nothing older than the cache
\* holds: a deletion or an edit it once kept does not come undone by a restart.
ShowsWhatItKept ==
    \A d \in Reader \cap loaded : \A e \in cache[d] : store[d] # None /\ store[d].ts >= e.ts

\* A message that was reported as failed, and that no relay got to store after all, is
\* neither shown nor kept (removeMessage and deleteCachedMessage in sendMessage).
NoPhantom ==
    failed => \A m \in Sent(made) \ served, d \in Device : m # store[d] /\ m \notin cache[d]

\* While the message is among the newest that a device's connect asks for, the device ends
\* up showing a version as new as any the relays hold, whatever lagging relays, its cache
\* and its own edits put there in between.  (Of an older message an edit or a deletion
\* that was missed live need never be seen.)
Converges ==
    \A d \in Device :
        <>[](recent => \A v \in served : store[d] # None /\ store[d].ts >= v.ts)

-----------------------------------------------------------------------------
(* What the properties rest on.                                             *)

Known(v) == \E m \in made : m.id = v.id /\ m.ts = v.ts

\* An id and the first created_at belong to one version each; a tombstone is made
\* when its deletion starts.
Made ==
    /\ made = {} => ~failed /\ sender = None
    /\ \A v, w \in made : (v.id = w.id \/ (v.ts = 1 /\ w.ts = 1)) => v = w
    /\ \A d \in Author : op[d] # None /\ op[d].what # "edit" =>
          op[d].tombstone \in made /\ op[d].tombstone.ts > 1

\* A member's device shows and keeps what relays served, an author's device at least
\* versions that exist, and no pending write is ahead of what a member's device shows.
Held ==
    /\ \A d \in Device : /\ store[d] # None => Known(store[d])
                         /\ \A e \in cache[d] : Known(e)
                         /\ writes[d] \subseteq served
    /\ \A d \in Reader : /\ store[d] # None => store[d] \in served
                         /\ cache[d] \subseteq served
                         /\ \A v \in writes[d] : store[d] # None /\ store[d].ts >= v.ts

HoldsFirst(d) == (store[d] # None /\ store[d].ts = 1) \/ \E e \in cache[d] : e.ts = 1

\* While no relay has stored the message, only the device that sends it holds it.
OnlySenderHolds ==
    Sent(made) \ served # {} =>
        \A d \in Device : HoldsFirst(d) => ~failed /\ sender \in {None, d}

IInv == TypeOK /\ Made /\ Held /\ OnlySenderHolds /\ ShowsWhatItKept

=============================================================================
