------------------------------ MODULE ReadMarks ------------------------------
(***************************************************************************)
(* Read marks of one account on a device: the live marks of the            *)
(* notification store, the plaintext draft of them in localStorage, and    *)
(* the replaceable events on the relays that carry them between devices.   *)
(* The account's other devices run the same code; they are one machine     *)
(* `other` at a coarser grain, which may read, publish and start up anew   *)
(* at any time.                                                            *)
(*                                                                         *)
(* A behaviour is about one domain, drawn in Init, as the domains differ   *)
(* in how they save and merge:                                             *)
(*   "hub"   one hub: a key per channel and the hub-wide seen mark         *)
(*   "dm"    a key per conversation                                        *)
(*   "pc"    a key per public-chat topic                                   *)
(*   "join"  a key per hub: join requests seen by its creator              *)
(* A mark is the second at which the user read the key; all devices take   *)
(* it from the offset-corrected clock.                                     *)
(***************************************************************************)
EXTENDS Integers, FiniteSets

CONSTANTS
    Key,
    Domain,     \* the domains that occur
    MaxClock,   \* bound: the last second
    MaxPublish, \* bound: how many events the relays take
    MaxOpen,    \* bound: how often the device is started
    None

ASSUME DomainAssumption == Domain \subseteq {"hub", "dm", "pc", "join"}

ASSUME ClockAssumption == MaxClock \in Nat \ {0}

ASSUME BoundAssumption == MaxPublish \in Nat /\ MaxOpen \in Nat

VARIABLES
    domain,     \* the domain this behaviour is about
    clock,      \* seconds
    phase,      \* how far the start-up has come
    opens,      \* how often the device was started
    live,       \* key -> lastRead of the store, NoMark without an entry
    seen,       \* the hub-wide seen mark of the store
    cache,      \* the draft in localStorage
    draft,      \* the draft init() goes on with while it asks the relays
    timer,      \* a publish is scheduled
    throttled,  \* the device published less than a minute ago
    sending,    \* what a publish under way has read of the store
    owed,       \* a change that no finished publish accounts for (history variable)
    other,      \* marks and seen mark of the other devices' store
    published,  \* the read-state events some relay has stored
    readAt      \* key -> when the user last read it, on any device (history variable)

vars == <<domain, clock, phase, opens, live, seen, cache, draft, timer, throttled,
          sending, owed, other, published, readAt>>

start == <<phase, opens, draft>>

sync == <<timer, throttled, sending, owed, published>>

-----------------------------------------------------------------------------
NoMark == -1

Time == 0..MaxClock

Mark == Time \cup {NoMark}

Marks == [Key -> Mark]

Content == [marks : Marks, seen : Time]

\* An event, or a draft, which is kept in the form of one. A draft that was
\* never saved has created = NoMark.
Event == [marks : Marks, seen : Time, created : Mark]

NoMarks == [k \in Key |-> NoMark]

Blank == [marks |-> NoMarks, seen |-> 0, created |-> NoMark]

Larger(x, y) == IF x >= y THEN x ELSE y

\* Newer-wins, key by key; a key only one side has keeps its mark.
Newest(m, n) == [k \in Key |-> Larger(m[k], n[k])]

Running == phase # "closed"

TypeOK ==
    /\ domain \in Domain
    /\ clock \in Time
    /\ phase \in {"closed", "open", "fetching", "ready"}
    /\ opens \in 0..MaxOpen
    /\ live \in Marks
    /\ seen \in Time
    /\ cache \in Event
    /\ draft \in Event
    /\ timer \in BOOLEAN
    /\ throttled \in BOOLEAN
    /\ sending \in Content \cup {None}
    /\ owed \in BOOLEAN
    /\ other \in Content
    /\ published \subseteq Event
    /\ readAt \in [Key -> Time]

-----------------------------------------------------------------------------
(***************************************************************************)
(* Saving. Channels that sit at the seen mark are left out of the draft    *)
(* and inherit the mark when it is read back.                              *)
(***************************************************************************)

\* Where the user has read to: the key's own mark, else the seen mark.
Effective(marks, s, k) == IF marks[k] > 0 THEN marks[k] ELSE s

Serialised(marks, s) ==
    [marks |-> [k \in Key |-> IF domain = "hub" /\ marks[k] = s THEN NoMark ELSE marks[k]],
     seen |-> s]

At(content, t) == [marks |-> content.marks, seen |-> content.seen, created |-> t]

\* A hub's draft is saved, and its publish scheduled, only when its content
\* changes.
Unchanged(content) ==
    /\ domain = "hub"
    /\ cache.created # NoMark
    /\ At(content, cache.created) = cache

\* The store changes to these marks and the draft follows.
Becomes(marks, s) ==
    LET content == Serialised(marks, s) IN
    /\ live' = marks
    /\ seen' = s
    /\ cache' = IF Unchanged(content) THEN cache ELSE At(content, clock)

Scheduled(marks, s) ==
    LET again == Unchanged(Serialised(marks, s)) IN
    /\ timer' = (timer \/ ~again)
    /\ owed' = (owed \/ ~again)

-----------------------------------------------------------------------------
(***************************************************************************)
(* Reading.                                                                *)
(***************************************************************************)

Tick ==
    /\ clock < MaxClock
    /\ clock' = clock + 1
    /\ UNCHANGED <<domain, start, live, seen, cache, sync, other, readAt>>

\* The user opens a channel, conversation or topic, or the join requests of a
\* hub. Those cannot be opened before the hydration has read the draft: the
\* hub list is loaded after it.
MarkRead(k) ==
    LET marks == [live EXCEPT ![k] = clock] IN
    /\ Running
    /\ domain = "join" => phase # "open"
    /\ live[k] # clock   \* bound: again in the same second only saves once more
    /\ Becomes(marks, seen)
    /\ Scheduled(marks, seen)
    /\ readAt' = [readAt EXCEPT ![k] = clock]
    /\ UNCHANGED <<domain, clock, start, throttled, sending, other, published>>

\* "Mark all read" of a hub raises its seen mark and every entry it has.
MarkHubRead ==
    LET marks == [k \in Key |-> IF live[k] = NoMark THEN NoMark ELSE clock] IN
    /\ domain = "hub"
    /\ Running
    /\ Becomes(marks, clock)
    /\ Scheduled(marks, clock)
    /\ readAt' = [k \in Key |-> clock]
    /\ UNCHANGED <<domain, clock, start, throttled, sending, other, published>>

\* The date of a message, which is its sender's, clamped to now.
Clamped_Trusting(t) == t

Clamped(t) == IF t <= clock THEN t ELSE clock

\* A message dated t lands in the channel on screen. An entry that does not
\* move is rewritten only to clear its count; the store is saved anyway.
AdvanceRead(k, t) ==
    LET old == Effective(live, seen, k)
        ts == Larger(old, Clamped(t))
    IN
    \E marks \in {live, [live EXCEPT ![k] = ts]} :
    /\ domain = "hub"
    /\ Running
    /\ marks = live => ts = old
    /\ marks # live => ts # old \/ live[k] = 0
    /\ Becomes(marks, seen)
    /\ Scheduled(marks, seen)
    /\ readAt' = [readAt EXCEPT ![k] = clock]
    /\ UNCHANGED <<domain, clock, start, throttled, sending, other, published>>

\* A first unread message makes an entry whose mark is 0. The live count
\* leaves it in memory, the recount of a hub at start-up saves it.
CountUnread(k) ==
    LET marks == [live EXCEPT ![k] = 0] IN
    /\ domain \in {"hub", "dm"}
    /\ Running
    /\ live[k] = NoMark
    /\ \/ /\ live' = marks
          /\ UNCHANGED <<seen, cache, timer, owed>>
       \/ /\ domain = "hub"
          /\ Becomes(marks, seen)
          /\ Scheduled(marks, seen)
    /\ UNCHANGED <<domain, clock, start, throttled, sending, other, published, readAt>>

-----------------------------------------------------------------------------
(***************************************************************************)
(* Start-up: preload from the draft, then the draft against the relays.    *)
(***************************************************************************)

Open ==
    /\ phase = "closed"
    /\ opens < MaxOpen
    /\ phase' = "open"
    /\ opens' = opens + 1
    /\ live' = IF domain = "join" THEN NoMarks ELSE cache.marks
    /\ seen' = cache.seen
    /\ UNCHANGED <<domain, clock, cache, draft, sync, other, readAt>>

\* The app is closed or dies: store, timer, publish and throttle are gone.  (A logout
\* without a reload is another thing, and not modelled: reset() empties the store, while
\* timer and throttle live on, the cached events go, and init() finds no preload.)
Close ==
    /\ Running
    /\ phase' = "closed"
    /\ draft' = Blank
    /\ live' = NoMarks
    /\ seen' = 0
    /\ timer' = FALSE
    /\ throttled' = FALSE
    /\ sending' = None
    /\ owed' = FALSE
    /\ UNCHANGED <<domain, clock, opens, cache, other, published, readAt>>

\* init() reads the draft and asks the relays. The join marks take the draft
\* into the store at once.
Begin ==
    /\ phase = "open"
    /\ phase' = "fetching"
    /\ draft' = cache
    /\ live' = IF domain = "join" THEN Newest(live, cache.marks) ELSE live
    /\ UNCHANGED <<domain, clock, opens, seen, cache, sync, other, readAt>>

\* The newer of draft and answer wins as a whole; the join marks read both.
Preferred(own, e) ==
    IF domain = "join" THEN [e EXCEPT !.marks = Newest(own.marks, e.marks)]
    ELSE IF e.created > own.created THEN e ELSE own

\* What was read is merged with what the store holds by now. Topics are
\* replaced, everything else is merged newer-wins; the seen mark never falls.
Merged_Replaces(own, read) == read

Merged(own, read) == IF domain = "pc" THEN read ELSE Newest(own, read)

MergedSeen_Replaces(own, read) == read

MergedSeen(own, read) == Larger(own, read)

\* The relays answer with a version one of them holds, not always the newest,
\* or not at all. As any version that was ever stored can be the answer, the
\* answer is drawn when it is merged.
Hydrate ==
    \E e \in published \cup {Blank} :
    LET read == Preferred(draft, e)
        marks == Merged(live, read.marks)
        s == MergedSeen(seen, read.seen)
    IN
    /\ phase = "fetching"
    /\ phase' = "ready"
    /\ draft' = Blank
    /\ Becomes(marks, s)
    /\ IF domain = "join" THEN UNCHANGED <<timer, owed>> ELSE Scheduled(marks, s)
    /\ UNCHANGED <<domain, clock, opens, throttled, sending, other, published, readAt>>

-----------------------------------------------------------------------------
(***************************************************************************)
(* Publishing: a debounce timer, a slow encryption, the throttle. A        *)
(* publish that overlaps the next one is not modelled: the throttle of the *)
(* first to end stops the other.                                           *)
(***************************************************************************)

\* The timer fires and the store is read; the encryption is then awaited.
Fire ==
    /\ timer
    /\ sending = None
    /\ timer' = FALSE
    /\ sending' = Serialised(live, seen)
    /\ UNCHANGED <<domain, clock, start, live, seen, cache, throttled, owed, other, published, readAt>>

\* A publish that ends settles what was owed, unless a later change is scheduled.
Settled ==
    /\ sending' = None
    /\ owed' = timer
    /\ UNCHANGED timer

\* Inside the minute nothing is sent and the publish is scheduled again.
Retry_Dropped ==
    /\ timer' = timer
    /\ sending' = None
    /\ UNCHANGED owed

Retry ==
    /\ timer' = TRUE
    /\ sending' = None
    /\ UNCHANGED owed

Throttle ==
    /\ sending # None
    /\ throttled
    /\ Retry
    /\ UNCHANGED <<domain, clock, start, live, seen, cache, throttled, other, published, readAt>>

\* The event carries what was read when the timer fired, under the time at
\* which it is built. No relay may take it, which is not noticed.
Publish ==
    /\ sending # None
    /\ ~throttled
    /\ throttled' = TRUE
    /\ Settled
    /\ \/ /\ Cardinality(published) < MaxPublish
          /\ published' = published \cup {At(sending, clock)}
       \/ UNCHANGED published
    /\ UNCHANGED <<domain, clock, start, live, seen, cache, other, readAt>>

\* The signer fails and nothing is sent. Inside the minute a failed encryption
\* is taken for a throttled publish; otherwise nothing is scheduled.
SignFails ==
    /\ sending # None
    /\ \/ Settled
       \/ throttled /\ domain \in {"hub", "dm"} /\ Retry
    /\ UNCHANGED <<domain, clock, start, live, seen, cache, throttled, other, published, readAt>>

ThrottleEnds ==
    /\ throttled
    /\ throttled' = FALSE
    /\ UNCHANGED <<domain, clock, start, live, seen, cache, timer, sending, owed, other, published, readAt>>

-----------------------------------------------------------------------------
(***************************************************************************)
(* The other devices.                                                      *)
(***************************************************************************)

OtherReads(k) ==
    /\ other' = [other EXCEPT !.marks[k] = clock]
    /\ readAt' = [readAt EXCEPT ![k] = clock]
    /\ UNCHANGED <<domain, clock, start, live, seen, cache, sync>>

OtherReadsHub ==
    /\ domain = "hub"
    /\ other' = [marks |-> [k \in Key |-> IF other.marks[k] = NoMark THEN NoMark ELSE clock],
                 seen |-> clock]
    /\ readAt' = [k \in Key |-> clock]
    /\ UNCHANGED <<domain, clock, start, live, seen, cache, sync>>

OtherPublishes ==
    /\ Cardinality(published) < MaxPublish
    /\ published' = published \cup {At(Serialised(other.marks, other.seen), clock)}
    /\ UNCHANGED <<domain, clock, start, live, seen, cache, timer, throttled, sending, owed, other, readAt>>

OtherStarts ==
    LET own == Serialised(other.marks, other.seen) IN
    /\ \E e \in published :
          other' = [marks |-> Merged(own.marks, e.marks), seen |-> MergedSeen(own.seen, e.seen)]
    /\ UNCHANGED <<domain, clock, start, live, seen, cache, sync, readAt>>

-----------------------------------------------------------------------------
Init ==
    /\ domain \in Domain
    /\ clock = 1
    /\ phase = "closed"
    /\ opens = 0
    /\ live = NoMarks
    /\ seen = 0
    /\ cache = Blank
    /\ draft = Blank
    /\ timer = FALSE
    /\ throttled = FALSE
    /\ sending = None
    /\ owed = FALSE
    /\ other = [marks |-> NoMarks, seen |-> 0]
    /\ published = {}
    /\ readAt = [k \in Key |-> 0]

Next ==
    \/ Tick
    \/ Open \/ Close \/ Begin \/ Hydrate
    \/ MarkHubRead
    \/ \E k \in Key :
          \/ MarkRead(k)
          \/ CountUnread(k)
          \/ OtherReads(k)
          \/ \E t \in Time : AdvanceRead(k, t)
    \/ Fire \/ Throttle \/ Publish \/ SignFails \/ ThrottleEnds
    \/ OtherReadsHub \/ OtherPublishes \/ OtherStarts

Spec == Init /\ [][Next]_vars

\* Timers fire, encryptions and publishes end, which presumes a signer that
\* answers or refuses, and the minute of the throttle passes. The debounce timer is armed anew by every change: that it fires
\* says that the changes pause for its fifteen seconds.
Fairness ==
    /\ WF_vars(Fire)
    /\ WF_vars(Throttle \/ Publish \/ SignFails)
    /\ WF_vars(ThrottleEnds)

FairSpec == Spec /\ Fairness

-----------------------------------------------------------------------------
(***************************************************************************)
(* Properties.                                                             *)
(***************************************************************************)

\* Where the user has read to on the device, by its store or, before the
\* store has it, by its draft.
ReadTo(k) ==
    IF phase = "closed" \/ (domain = "join" /\ phase = "open")
    THEN Effective(cache.marks, cache.seen, k)
    ELSE Effective(live, seen, k)

SeenMark == IF Running THEN seen ELSE cache.seen

\* Some device has marked the hub read as a whole.
SeenMarkUsed == cache.seen > 0 \/ other.seen > 0

\* What was read on a device stays read there, whatever it merges and however
\* often it is closed, for conversations, join requests and the channels of a
\* hub that was never marked read as a whole (loadReadState, init, hydrate).
NeverUnread ==
    [][domain = "pc" \/ SeenMarkUsed \/ SeenMarkUsed' \/ \A k \in Key : ReadTo(k)' >= ReadTo(k)]_vars

\* The seen mark of a hub only moves forward on a device, over start-ups that
\* find any version on the relays.
SeenMarkForward == [][SeenMark' >= SeenMark]_vars

\* No store, draft or event holds a mark beyond what the user read: merging and
\* inheriting the seen mark never hide an unread message.
NothingInvented ==
    \A k \in Key :
        /\ Effective(live, seen, k) <= readAt[k]
        /\ Effective(cache.marks, cache.seen, k) <= readAt[k]
        /\ \A e \in published : Effective(e.marks, e.seen, k) <= readAt[k]

\* The user has read what this content says. Only hubs have a seen mark.
Justified(c) ==
    /\ \A k \in Key : c.marks[k] <= readAt[k] /\ c.seen <= readAt[k]
    /\ c.seen <= clock
    /\ domain # "hub" => c.seen = 0

\* The store and the draft agree on where the user has read to; the join marks
\* are not in the store before it asks the relays.
DraftCurrent ==
    Running =>
       /\ cache.seen = seen
       /\ \/ domain = "join" /\ phase = "open" /\ live = NoMarks
          \/ \A k \in Key : Effective(cache.marks, cache.seen, k) = Effective(live, seen, k)

\* The inductive invariant: the types, the marks of stores, drafts and events
\* are what the user read, none lies ahead of the clock, and the draft keeps
\* up with the store (_saveHubToLocalStorage and its siblings).
IInv ==
    /\ TypeOK
    /\ \A k \in Key : readAt[k] <= clock
    /\ Justified([marks |-> live, seen |-> seen])
    /\ Justified(cache)
    /\ Justified(draft)
    /\ Justified(other)
    /\ sending # None => Justified(sending)
    /\ \A e \in published : Justified(e)
    /\ DraftCurrent

\* A change is not dropped by the throttle: it is handed to the relays in the
\* end, unless the device is closed or the publish fails.
ChangesAreSent == owed ~> ~owed
=============================================================================
