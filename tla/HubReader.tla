------------------------------- MODULE HubReader -------------------------------
(***************************************************************************)
(* A member's device follows a v2 hub: useHubEventSubscription and          *)
(* useHubLoader, which share the hub store and know nothing of each other.  *)
(*                                                                         *)
(* The owner publishes versions of the hub event, numbered by created_at;   *)
(* relays may serve any version published so far, late or again.  The       *)
(* subscription debounces what it accepts and runs a handler for it;        *)
(* handlers await downloads, so several may be in flight.  After a start    *)
(* the loader processes the newest version it has been given, one at a      *)
(* time.  Bounds: the hub is private (v2), the user has no facilitator, one *)
(* loader stream runs at a time, and bans, roster and history are left out. *)
(***************************************************************************)
EXTENDS Integers, Sequences, FiniteSets

CONSTANTS
    MaxVersions,    \* how many versions the owner publishes
    MaxRestarts,    \* how often the application is restarted
    Handlers        \* subscription handlers that may be in flight at once

ASSUME ReaderAssumption == MaxVersions \in Nat \ {0} /\ MaxRestarts \in Nat

VARIABLES
    history,    \* the versions published so far
    hub,        \* the version in the hub store, 0 for none
    secret,     \* the epoch whose secret the store holds, 0 for none
    resolved,   \* hubSecretsResolved
    attempted,  \* loadedRef has the hub
    latestTs,   \* latestTsRef
    pending,    \* the version in the debounce timer, 0 for none
    handler,    \* the handlers in flight
    loader,     \* the loader's stream and the version it processes
    mark,       \* den_hub_max_epoch: the highest epoch decrypted, kept on disk
    restarts

stored == <<hub, secret, resolved>>

vars == <<history, stored, attempted, latestTs, pending, handler, loader, mark, restarts>>

\* index names the index blob; member says whether its tree has the user's leaf.
\* Every epoch has a secret of its own, known by the epoch.
Version == [epoch : Nat \ {0}, index : Nat \ {0}, member : BOOLEAN]

\* What a pass over a version knows: the hub and the secret it saw when it began
\* (current, secret), and whether it has been the only one ever since.
Handler == [phase : {"idle", "fired", "loading", "loaded"}, version : Nat,
            current : Nat, secret : Nat, alone : BOOLEAN]

\* The newest version the stream brought, the one it processes and the one it is
\* through with.
Loader == [phase : {"off", "idle", "loading", "merging"}, known : Nat, doing : Nat,
           done : Nat, queued : BOOLEAN]

TypeOK ==
    /\ history \in Seq(Version)
    /\ hub \in 0..Len(history) /\ secret \in 0..mark
    /\ resolved \in BOOLEAN /\ attempted \in BOOLEAN
    /\ latestTs \in 0..Len(history) /\ pending \in 0..Len(history)
    /\ handler \in [Handlers -> Handler]
    /\ loader \in Loader
    /\ mark \in Nat
    /\ restarts \in 0..MaxRestarts

NoHandler == [phase |-> "idle", version |-> 0, current |-> 0, secret |-> 0, alone |-> FALSE]

NoLoader == [phase |-> "off", known |-> 0, doing |-> 0, done |-> 0, queued |-> FALSE]

Init ==
    /\ history \in {<<[epoch |-> 1, index |-> 1, member |-> m]>> : m \in BOOLEAN}
    /\ hub = 0 /\ secret = 0 /\ resolved = FALSE /\ attempted = FALSE
    /\ latestTs = 0 /\ pending = 0
    /\ handler = [h \in Handlers |-> NoHandler]
    /\ loader = NoLoader
    /\ mark = 0 /\ restarts = 0

Newest == Len(history)

Epoch(v) == history[v].epoch

Larger(i, j) == IF i < j THEN j ELSE i

-----------------------------------------------------------------------------
(* The owner.                                                               *)

\* Any new version moves the index unless it only edits the content; a rotation
\* raises the epoch, and it takes one to remove a leaf.
Follows(v, w) ==
    /\ w.index - v.index \in {0, 1} /\ w.epoch - v.epoch \in {0, 1}
    /\ w.index = v.index => w = v
    /\ v.member /\ ~w.member => w.epoch > v.epoch
    /\ w.member /\ ~v.member => w.epoch = v.epoch

Publish ==
    /\ Len(history) < MaxVersions
    /\ \E e, i \in 1..MaxVersions, m \in BOOLEAN :
          LET w == [epoch |-> e, index |-> i, member |-> m]
          IN Follows(history[Newest], w) /\ history' = Append(history, w)
    /\ UNCHANGED <<stored, attempted, latestTs, pending, handler, loader, mark, restarts>>

-----------------------------------------------------------------------------
(* The subscription.                                                        *)

InFlight(h) == handler[h].phase # "idle"

LoaderBusy == loader.phase \in {"loading", "merging"}

\* Newer state overrides the created_at order.
Accepts_AnyIndex(v) == v > latestTs \/ history[v].index # history[hub].index

Accepts(v) ==
    \/ v > latestTs
    \/ Epoch(v) > Epoch(hub)
    \/ history[v].index # history[hub].index /\ v >= hub

\* processHubEvent: an event that is accepted (re)starts the debounce timer.
Receive(v) ==
    /\ hub # 0
    /\ IF Accepts(v) THEN latestTs' = Larger(latestTs, v) /\ pending' = v
                     ELSE UNCHANGED <<latestTs, pending>>
    /\ UNCHANGED <<history, stored, attempted, handler, loader, mark, restarts>>

\* A reconnect drops the timer and starts from the version the store holds.
Resubscribe ==
    /\ hub # 0
    /\ latestTs' = hub /\ pending' = 0
    /\ UNCHANGED <<history, stored, attempted, handler, loader, mark, restarts>>

\* The timer fires and the handler takes its snapshot of the store.
Fire(h) ==
    /\ pending # 0 /\ ~InFlight(h)
    /\ pending' = 0
    /\ handler' = [g \in Handlers |->
          IF g = h THEN [phase |-> "fired", version |-> pending, current |-> hub,
                         secret |-> secret,
                         alone |-> ~LoaderBusy /\ \A f \in Handlers : ~InFlight(f)]
                   ELSE [handler[g] EXCEPT !.alone = FALSE]]
    /\ UNCHANGED <<history, stored, attempted, latestTs, loader, mark, restarts>>

End(h) == handler' = [handler EXCEPT ![h] = NoHandler]

IndexChanged(h) == history[handler[h].version].index # history[handler[h].current].index

EpochMoved(h) == Epoch(handler[h].version) # Epoch(handler[h].current)

\* recordEpochSeen and isEpochRollback.
Recorded_Never(epoch) == mark

Recorded(epoch) == Larger(mark, epoch)

Rollback_Never(v) == FALSE

Rollback(v) == Epoch(v) < mark

Refuse(h) ==
    /\ handler[h].phase = "fired" /\ Rollback(handler[h].version)
    /\ End(h)
    /\ UNCHANGED <<history, stored, attempted, latestTs, pending, loader, mark, restarts>>

\* A new index is loaded; with an old one the handler goes on with its snapshot.
Begin(h) ==
    /\ handler[h].phase = "fired" /\ ~Rollback(handler[h].version)
    /\ handler' = [handler EXCEPT ![h].phase = IF IndexChanged(h) THEN "loading" ELSE "loaded"]
    /\ UNCHANGED <<history, stored, attempted, latestTs, pending, loader, mark, restarts>>

\* loadHubSecret yields the secret, which is stored and raises the mark.
Load(h) ==
    LET v == handler[h].version
    IN /\ handler[h].phase = "loading" /\ history[v].member
       /\ secret' = Epoch(v) /\ mark' = Recorded(Epoch(v))
       /\ handler' = [handler EXCEPT ![h].phase = "loaded", ![h].secret = Epoch(v)]
       /\ UNCHANGED <<history, hub, resolved, attempted, latestTs, pending, loader, restarts>>

\* The store forgets the secret and asks the loader to try again.
Clear == secret' = 0 /\ attempted' = FALSE

Keep == UNCHANGED <<secret, attempted>>

\* It yields nothing, or fails.  On a rotation that means removal: a secret the
\* snapshot held is cleared and the metadata is installed, all in one go; and so
\* it is without a secret.  Otherwise the handler goes on with its snapshot.
Removed(h) == Epoch(handler[h].version) > Epoch(handler[h].current)

LoadFails(h) ==
    /\ handler[h].phase = "loading"
    /\ IF Removed(h) \/ handler[h].secret = 0
       THEN /\ IF handler[h].secret # 0 THEN Clear ELSE Keep
            /\ hub' = handler[h].version
            /\ End(h)
       ELSE /\ handler' = [handler EXCEPT ![h].phase = "loaded"]
            /\ Keep /\ UNCHANGED hub
    /\ UNCHANGED <<history, resolved, latestTs, pending, loader, mark, restarts>>

\* The secret in hand opens the content of the version.
Opens(h) == handler[h].secret = Epoch(handler[h].version)

\* A secret that does not open the content is stale: fail closed.
Stale_Ignored(h) == FALSE

Stale(h) == handler[h].secret # 0 /\ ~Opens(h)

\* The whole event is installed, or its metadata when the content could not be
\* had and the index or the epoch has moved.
Install(h) ==
    /\ handler[h].phase = "loaded"
    /\ IF Stale(h) THEN Clear ELSE Keep
    /\ \E full \in BOOLEAN :
          /\ full => Opens(h)
          /\ hub' = IF full \/ IndexChanged(h) \/ EpochMoved(h) THEN handler[h].version ELSE hub
    /\ End(h)
    /\ UNCHANGED <<history, resolved, latestTs, pending, loader, mark, restarts>>

-----------------------------------------------------------------------------
(* The loader.                                                              *)

\* A hub is loaded when the store has none or has never resolved its secrets.
NeedsLoad == hub = 0 \/ ~resolved

LoaderStart ==
    /\ loader.phase = "off" /\ ~attempted /\ NeedsLoad
    /\ attempted' = TRUE
    /\ loader' = [NoLoader EXCEPT !.phase = "idle"]
    /\ UNCHANGED <<history, stored, latestTs, pending, handler, mark, restarts>>

\* A relay's answer or what the hub event cache holds, which may be any version that
\* was ever received (putHubEvent reads and writes in two transactions).  The newest
\* one is queued unless the stream is through with it; if a version is being processed,
\* that is seen to afterwards.
Ingest(v) ==
    /\ loader.phase # "off"
    /\ LET known == Larger(loader.known, v)
       IN loader' = [loader EXCEPT !.known = known,
                                   !.queued = @ \/ (~LoaderBusy /\ known # loader.done)]
    /\ loader' # loader
    /\ UNCHANGED <<history, stored, attempted, latestTs, pending, handler, mark, restarts>>

\* What becomes of the loader when it is through with v: a newer version that
\* arrived meanwhile is taken up if the owner's key is confirmed, which happens
\* together with the first mark.
Through(v, confirmed) ==
    [loader EXCEPT !.phase = "idle", !.doing = 0, !.done = v,
                   !.queued = confirmed /\ loader.known # v]

\* processHub up to the download: an older epoch is refused, the event installed.
\* The first one makes the subscription start.  The secret that the effect saw when it
\* began would spare the download; the only stream begins without one.
Process ==
    /\ loader.phase = "idle" /\ loader.queued
    /\ IF Rollback(loader.known)
       THEN loader' = Through(loader.known, TRUE) /\ UNCHANGED <<hub, handler>>
       ELSE /\ hub' = loader.known
            /\ loader' = [loader EXCEPT !.phase = "loading", !.doing = loader.known,
                                        !.queued = FALSE]
            /\ handler' = [h \in Handlers |-> [handler[h] EXCEPT !.alone = FALSE]]
    /\ latestTs' = IF hub = 0 THEN hub' ELSE latestTs
    /\ UNCHANGED <<history, secret, resolved, attempted, pending, mark, restarts>>

LoaderLoad ==
    /\ loader.phase = "loading" /\ history[loader.doing].member
    /\ secret' = Epoch(loader.doing) /\ mark' = Recorded(Epoch(loader.doing))
    /\ loader' = [loader EXCEPT !.phase = "merging"]
    /\ UNCHANGED <<history, hub, resolved, attempted, latestTs, pending, handler, restarts>>

\* No leaf, or a download failed: the hub counts as resolved all the same.
LoaderMiss ==
    /\ loader.phase = "loading"
    /\ resolved' = TRUE
    /\ loader' = Through(loader.doing, mark # 0)
    /\ UNCHANGED <<history, hub, secret, attempted, latestTs, pending, handler, mark, restarts>>

\* decryptAndMergeV2HubContent installs the version again, or fails.
Merge ==
    /\ loader.phase = "merging"
    /\ hub' \in {hub, loader.doing}
    /\ resolved' = TRUE
    /\ loader' = Through(loader.doing, TRUE)
    /\ UNCHANGED <<history, secret, attempted, latestTs, pending, handler, mark, restarts>>

\* "Try again" and every aborted mutation ask for a reload: the loader forgets that it
\* has attempted the hub, which moves it only while the hub is not resolved.
RetryHub ==
    /\ attempted /\ attempted' = FALSE
    /\ UNCHANGED <<history, stored, latestTs, pending, handler, loader, mark, restarts>>

\* The stream has closed and what it brought has been processed.  Bound: it does not close
\* before a version was installed (with nothing but refused versions the hub is not shown
\* until the next start).
LoaderEnd ==
    /\ loader.phase = "idle" /\ ~loader.queued
    /\ hub # 0
    /\ loader' = NoLoader
    /\ UNCHANGED <<history, stored, attempted, latestTs, pending, handler, mark, restarts>>

\* A reload of the page: of what is modelled only the mark survives.
Restart ==
    /\ restarts < MaxRestarts /\ restarts' = restarts + 1
    /\ hub' = 0 /\ secret' = 0 /\ resolved' = FALSE /\ attempted' = FALSE
    /\ latestTs' = 0 /\ pending' = 0
    /\ handler' = [h \in Handlers |-> NoHandler]
    /\ loader' = NoLoader
    /\ UNCHANGED <<history, mark>>

-----------------------------------------------------------------------------
Handle(h) == Refuse(h) \/ Begin(h) \/ Load(h) \/ LoadFails(h) \/ Install(h)

LoaderStep == LoaderStart \/ Process \/ LoaderLoad \/ LoaderMiss \/ Merge \/ LoaderEnd

Next ==
    \/ Publish \/ Resubscribe \/ RetryHub \/ Restart
    \/ \E v \in 1..Newest : Receive(v) \/ Ingest(v)
    \/ \E h \in Handlers : Fire(h) \/ Handle(h)
    \/ LoaderStep

Spec == Init /\ [][Next]_vars

\* Downloads time out; the keepalive timer reconnects, at intervals longer than
\* the debounce; some relay has the newest event and answers the loader and every
\* new subscription; and now and then it answers when no handler is in flight and
\* after all others, so that no older event takes the newest one's place.
Fairness ==
    /\ \A h \in Handlers : WF_vars(Handle(h))
    /\ SF_vars(pending = Newest /\ \E h \in Handlers : Fire(h))
    /\ WF_vars(LoaderStep)
    /\ WF_vars(Resubscribe)
    /\ SF_vars(Receive(Newest) /\ \A h \in Handlers : ~InFlight(h))
    /\ WF_vars(Ingest(Newest))

FairSpec == Spec /\ Fairness

-----------------------------------------------------------------------------
(* Properties.                                                              *)

Ends(h) == /\ handler[h].phase \in {"loading", "loaded"} /\ handler'[h] = NoHandler
           /\ restarts' = restarts

\* A handler that ran undisturbed leaves no secret that does not open the version
\* it installed, whatever was there before: "fail closed", and no message is sent
\* with "old secret under the new epoch tag".
FailsClosed ==
    [][\A h \in Handlers :
          Ends(h) /\ handler[h].alone /\ hub' = handler[h].version
             => secret' \in {0, Epoch(hub')}]_vars

\* Once a device has decrypted an epoch, no undisturbed pass over an event brings
\* back an older one, in this session or after a restart.
NoRollback ==
    [][/\ \A h \in Handlers : handler[h].alone /\ Ends(h) /\ hub' # hub => Epoch(hub') >= mark
       /\ hub = 0 /\ hub' # 0 => Epoch(hub') >= mark]_vars

\* The versions of the hub converge: when the owner has published the last one,
\* every device ends up with its index and epoch, whatever order the relays
\* replay old versions in, and however handlers and loader overlap.
Shows(v) == hub # 0 /\ history[hub].index = history[v].index /\ Epoch(hub) = Epoch(v)

Converges == <>[]Shows(Newest)

-----------------------------------------------------------------------------
(* Why NoRollback and FailsClosed hold: the inductive invariant.            *)

\* Passes begin with a version that was published, and only while a hub is shown;
\* the end of a pass leaves nothing behind.
Placed ==
    /\ \A h \in Handlers :
          IF InFlight(h)
          THEN /\ handler[h].version \in 1..Newest /\ handler[h].current \in 1..Newest
               /\ hub # 0
          ELSE handler[h] = NoHandler
    /\ pending # 0 => hub # 0
    /\ loader.known <= Newest /\ loader.doing <= Newest
    /\ loader.queued => loader.known # 0
    /\ LoaderBusy => loader.doing # 0 /\ loader.known # 0 /\ hub # 0

\* While a handler is alone, nobody else raises the mark or changes the secret: the
\* version that it found not to be a rollback is none when it is installed, and the
\* secret it tests the content with is the one the store keeps.
Undisturbed ==
    \A h \in Handlers : InFlight(h) /\ handler[h].alone =>
       /\ ~LoaderBusy /\ \A g \in Handlers : InFlight(g) => g = h
       /\ handler[h].phase # "fired" => Epoch(handler[h].version) >= mark
       /\ handler[h].secret = secret

IInv == TypeOK /\ Placed /\ Undisturbed

=============================================================================
