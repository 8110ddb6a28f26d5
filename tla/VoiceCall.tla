------------------------------- MODULE VoiceCall -------------------------------
(***************************************************************************)
(* The voice call of one client: joinChannel, switchHost and leaveChannel   *)
(* of the voice store, the frame key that follows the rotations of the      *)
(* hub's secret, and the presence event by which others see the client.     *)
(*                                                                         *)
(* Each run of joinChannel makes a provider of its own, a connection to the  *)
(* media server; join and provider have the same number.  The store learns  *)
(* of a provider only when its join ends, and the user may leave meanwhile.  *)
(* Bounds: MaxCall joins, no two at a time; MaxEpoch epochs of the secret;   *)
(* each start of the keepalive has one early timer; MaxDerive keys are being *)
(* derived.  Left out: channels of a group, video and screen, other          *)
(* participants, volumes and positions, and the time a presence event takes *)
(* to be signed.                                                            *)
(***************************************************************************)
EXTENDS Integers, FiniteSets

CONSTANTS
    MaxCall,        \* runs of joinChannel
    MaxEpoch,       \* epochs of the hub's secret
    MaxDerive       \* keys that are being derived at a time

ASSUME VoiceAssumption == MaxCall \in Nat \ {0} /\ MaxEpoch \in Nat \ {0} /\ MaxDerive \in Nat

Call == 1..MaxCall

NoCall == 0

\* What a frame key is derived from; secret 0 is none.
Key == [epoch : 0..MaxEpoch, secret : 0..MaxEpoch]

NoKey == [epoch |-> 0, secret |-> 0]

\* A key on its way to the provider it was derived for.
Derivation == [of : Call, key : [epoch : 1..MaxEpoch, secret : 1..MaxEpoch]]

Stage == {"idle", "teardown", "identity", "connect", "microphone", "finish"}

\* "failed" is "reconnecting" too, which the code treats alike.
ConnectionState == {"disconnected", "connecting", "connected", "failed"}

VARIABLES
    conn,       \* connectionState
    provider,   \* the provider in the store
    session,    \* currentSessionId, by the provider it is of
    here,       \* whether a current hub and channel are set
    joining,    \* _joinInProgress
    downgrade,  \* the state _connDowngradeTimer will set, or "none"
    join,       \* the last run of joinChannel
    stage,      \* and how far it is
    old,        \* the provider it found in the store
    hosted,     \* whether switchHost made it
    arg,        \* the secret it was given when it was clicked
    live,       \* providers connected to their media server
    sending,    \* providers to which the microphone is published
    vad,        \* whose microphone _vadCleanup stops
    key,        \* the frame key of each provider
    baseline,   \* _lastVoiceKeyState
    rekeys,     \* providers of the rekeyE2EEForRotation that have not read the secret yet
    deriving,   \* what those that have read it derive
    rotation,   \* the last rotation of the hub's secret the client has begun to take over
    epoch, secret,  \* of the hub, in the hub store
    beat,       \* the session the keepalive interval publishes
    early,      \* sessions with an early timer of the keepalive
    ran,        \* the session the keepalive's effect last saw a connection of
    seen,       \* the session others see the client in
    cancelled,  \* joins the user left before they ended
    abandoned   \* joins that waited too long for their connection, which stays open

store == <<conn, provider, session, here, joining, downgrade>>
joins == <<join, stage, old, hosted, arg>>
media == <<live, sending, vad>>
keys == <<key, baseline, rekeys, deriving>>
hub == <<rotation, epoch, secret>>
presence == <<beat, early, ran, seen>>
ends == <<cancelled, abandoned>>
vars == <<store, joins, media, keys, hub, presence, ends>>

TypeOK ==
    /\ conn \in ConnectionState /\ provider \in Call \cup {NoCall}
    /\ session \in Call \cup {NoCall} /\ here \in BOOLEAN /\ joining \in BOOLEAN
    /\ downgrade \in ConnectionState \cup {"none"}
    /\ join \in Call \cup {NoCall} /\ stage \in Stage /\ old \in Call \cup {NoCall}
    /\ hosted \in BOOLEAN /\ arg \in 0..MaxEpoch
    /\ live \in SUBSET Call /\ sending \in SUBSET Call /\ vad \in Call \cup {NoCall}
    /\ key \in [Call -> Key] /\ baseline \in Key /\ rekeys \in SUBSET Call
    /\ deriving \in SUBSET Derivation
    /\ rotation \in 1..MaxEpoch /\ epoch \in 1..MaxEpoch /\ secret \in 0..MaxEpoch
    /\ beat \in Call \cup {NoCall} /\ early \in SUBSET Call /\ ran \in Call \cup {NoCall}
    /\ seen \in Call \cup {NoCall}
    /\ cancelled \in SUBSET Call /\ abandoned \in SUBSET Call

Init ==
    /\ conn = "disconnected" /\ provider = NoCall /\ session = NoCall
    /\ here = FALSE /\ joining = FALSE /\ downgrade = "none"
    /\ join = NoCall /\ stage = "idle" /\ old = NoCall /\ hosted = FALSE /\ arg = 0
    /\ live = {} /\ sending = {} /\ vad = NoCall
    /\ key = [j \in Call |-> NoKey] /\ baseline = NoKey /\ rekeys = {} /\ deriving = {}
    /\ rotation = 1 /\ epoch = 1 /\ secret = 1
    /\ beat = NoCall /\ early = {} /\ ran = NoCall /\ seen = NoCall
    /\ cancelled = {} /\ abandoned = {}

InProgress == IF stage = "idle" THEN {} ELSE {join}

Current == [epoch |-> epoch, secret |-> secret]

-----------------------------------------------------------------------------
(* What the actions share.                                                  *)

\* onConnectionStateChanged, with a state worse than "connected": suppressed during a
\* join, and held back for two seconds otherwise.
Worse(state) == IF joining THEN downgrade ELSE state

StopsMicrophone_Keeps == UNCHANGED <<sending, vad>>

StopsMicrophone == sending' = sending \ {vad} /\ vad' = NoCall

\* _stopBroadcast clears the interval; the early timers stay.
StopsBroadcast == beat' = NoCall

Disconnects_NotAwaited(p) == live' = live /\ downgrade' = Worse("disconnected")

\* provider.disconnect, which reports it.
Disconnects(p) == live' = live \ {p} /\ downgrade' = Worse("disconnected")

\* leaveChannel: a join that has not ended goes on.  "left" may reach nobody.
Leaves ==
    /\ StopsMicrophone /\ StopsBroadcast
    /\ IF provider = NoCall THEN UNCHANGED <<live, downgrade>> ELSE Disconnects(provider)
    /\ provider' = NoCall /\ session' = NoCall /\ here' = FALSE /\ conn' = "disconnected"
    /\ (seen' = seen \/ (here /\ seen' = NoCall))
    /\ cancelled' = cancelled \cup InProgress
    /\ UNCHANGED <<joining, joins, baseline, hub, early, ran, abandoned>>

-----------------------------------------------------------------------------
(* The user.                                                                *)

\* joinChannel, or switchHost, which shows "connecting" first.
Click(switching) ==
    /\ stage = "idle" /\ join < MaxCall
    /\ switching => here /\ conn = "connected"
    /\ join' = join + 1 /\ old' = provider /\ hosted' = switching /\ arg' = secret
    /\ stage' = IF provider # NoCall THEN "teardown" ELSE "identity"
    /\ conn' = IF switching THEN "connecting" ELSE conn
    /\ UNCHANGED <<provider, session, here, joining, downgrade, media, keys, hub, presence, ends>>

\* The buttons that end or cancel a call, and the reset of the session.
Leave ==
    /\ conn # "disconnected"
    /\ Leaves
    /\ UNCHANGED <<key, rekeys, deriving>>

-----------------------------------------------------------------------------
(* joinChannel, up to each of its awaits.                                   *)

\* "left" was published for the channel of the old call, if a relay took it, and unless a
\* keepalive went out since.  Then the old call is ended.
TearDown ==
    /\ stage = "teardown" /\ stage' = "identity"
    /\ StopsMicrophone /\ StopsBroadcast /\ Disconnects(old)
    /\ seen' \in {seen, NoCall}
    /\ UNCHANGED <<conn, provider, session, here, joining, join, old, hosted, arg, keys, hub,
                   early, ran, ends>>

\* The identity is known; the provider is made and given a key derived from the secret
\* of the click and the epoch of now.
Identify ==
    /\ stage = "identity" /\ stage' = "connect"
    /\ conn' = "connecting" /\ here' = TRUE /\ joining' = TRUE
    /\ key' = [key EXCEPT ![join] = IF arg = 0 THEN NoKey ELSE [epoch |-> epoch, secret |-> arg]]
    /\ UNCHANGED <<provider, session, downgrade, join, old, hosted, arg, media, baseline, rekeys,
                   deriving, hub, presence, ends>>

\* joinChannel returns; what it held is gone.
Returns == stage' = "idle" /\ old' = NoCall /\ hosted' = FALSE /\ arg' = 0 /\ UNCHANGED join

\* joinChannel throws; switchHost catches it.
Throws == Returns /\ joining' = FALSE /\ conn' = IF hosted THEN "failed" ELSE "disconnected"

NoIdentity ==
    /\ stage = "identity"
    /\ Throws
    /\ UNCHANGED <<provider, session, here, downgrade, media, keys, hub, presence, ends>>

\* The provider reports "connected" while it connects.
Connect ==
    /\ stage = "connect" /\ stage' = "microphone"
    /\ live' = live \cup {join}
    /\ conn' = "connected" /\ downgrade' = "none"
    /\ UNCHANGED <<provider, session, here, joining, join, old, hosted, arg, sending, vad, keys,
                   hub, presence, ends>>

ConnectFails ==
    /\ stage = "connect"
    /\ Throws /\ provider' = NoCall /\ here' = FALSE
    /\ abandoned' \in {abandoned, abandoned \cup {join}}
    /\ UNCHANGED <<session, downgrade, media, keys, hub, presence, cancelled>>

\* The microphone is published, or none can be had and the call goes on without.
Microphone ==
    /\ stage = "microphone" /\ stage' = "finish"
    /\ \/ join \in live /\ sending' = sending \cup {join} /\ vad' = join
       \/ UNCHANGED <<sending, vad>>
    /\ UNCHANGED <<store, join, old, hosted, arg, live, keys, hub, presence, ends>>

\* The store learns of the provider.
Finish ==
    /\ stage = "finish"
    /\ Returns
    /\ provider' = join /\ session' = join /\ here' = TRUE /\ conn' = "connected" /\ joining' = FALSE
    /\ UNCHANGED <<downgrade, media, keys, hub, presence, ends>>

-----------------------------------------------------------------------------
(* The connection.                                                          *)

Reports(p) ==
    /\ p \in live
    /\ \/ conn' = "connected" /\ downgrade' = "none"
       \/ downgrade' = Worse("failed") /\ UNCHANGED conn
    /\ UNCHANGED <<provider, session, here, joining, joins, media, keys, hub, presence, ends>>

\* The connection joinChannel gave up is there after all, and nobody closes it.
ConnectsLate(p) ==
    /\ p \in abandoned \ live
    /\ live' = live \cup {p}
    /\ conn' = "connected" /\ downgrade' = "none"
    /\ UNCHANGED <<provider, session, here, joining, joins, sending, vad, keys, hub, presence, ends>>

Drops(p) ==
    /\ p \in live
    /\ live' = live \ {p}
    /\ \E state \in {"disconnected", "failed"} : downgrade' = Worse(state)
    /\ UNCHANGED <<conn, provider, session, here, joining, joins, sending, vad, keys, hub, presence, ends>>

DowngradeFires ==
    /\ downgrade # "none"
    /\ downgrade' = "none"
    /\ conn' = IF provider = NoCall THEN conn ELSE downgrade
    /\ UNCHANGED <<provider, session, here, joining, joins, media, keys, hub, presence, ends>>

-----------------------------------------------------------------------------
(* The secret of the hub, and the key that follows it.                      *)

\* Epoch and secret of a rotation reach the store together or one after the other.
Rotate ==
    /\ rotation = epoch /\ rotation < MaxEpoch
    /\ rotation' = rotation + 1
    /\ epoch' \in {epoch, rotation'} /\ secret' \in {secret, rotation'}
    /\ UNCHANGED <<store, joins, media, keys, presence, ends>>

EpochArrives ==
    /\ epoch # rotation
    /\ epoch' = rotation
    /\ UNCHANGED <<rotation, secret, store, joins, media, keys, presence, ends>>

SecretArrives ==
    /\ secret # rotation
    /\ secret' = rotation
    /\ UNCHANGED <<rotation, epoch, store, joins, media, keys, presence, ends>>

\* The user was removed, or the client lost the secret for a while.
SecretGone ==
    /\ secret # 0
    /\ secret' = 0
    /\ UNCHANGED <<rotation, epoch, store, joins, media, keys, presence, ends>>

Changed_Epoch == baseline.epoch # epoch

Changed == baseline # Current

First_AtEachMount == TRUE

First == baseline = NoKey

\* The first look only takes the baseline; later ones re-key the call in the store.
Watch ==
    /\ conn = "connected" /\ here /\ Changed
    /\ baseline' = Current
    /\ rekeys' = IF ~First /\ provider # NoCall THEN rekeys \cup {provider} ELSE rekeys
    /\ UNCHANGED <<store, joins, media, key, deriving, hub, presence, ends>>

Derivations(p) == {d \in deriving : d.of = p}

\* Secret and epoch are read; without a secret the client leaves.
Rekey(p) ==
    /\ p \in rekeys
    /\ rekeys' = rekeys \ {p}
    /\ \/ /\ secret # 0
          /\ deriving' = deriving \cup {[of |-> p, key |-> Current]}
          /\ Cardinality(deriving') <= MaxDerive
          /\ UNCHANGED <<store, joins, media, key, baseline, hub, presence, ends>>
       \/ secret = 0 /\ Leaves /\ UNCHANGED <<key, deriving>>

\* setEncryptionKey.  Nothing orders two that are under way.  A call that began without a
\* key stays without.
Derived(d) ==
    /\ d \in deriving
    /\ deriving' = deriving \ {d}
    /\ key' = [key EXCEPT ![d.of] = IF @ = NoKey THEN NoKey ELSE d.key]
    /\ UNCHANGED <<store, joins, media, baseline, rekeys, hub, presence, ends>>

\* The derivation throws: a warning, and the old key stays.
DerivationFails(d) ==
    /\ d \in deriving
    /\ deriving' = deriving \ {d}
    /\ UNCHANGED <<store, joins, media, key, baseline, rekeys, hub, presence, ends>>

-----------------------------------------------------------------------------
(* Presence.                                                                *)

\* What the effect that restarts the keepalive looks at.
Connected_AnySession == IF conn = "connected" /\ here /\ session # NoCall THEN 1 ELSE NoCall

Connected == IF conn = "connected" /\ here THEN session ELSE NoCall

Keepalive ==
    /\ Connected # ran
    /\ ran' = Connected
    /\ IF Connected # NoCall
       THEN beat' = session /\ early' = early \cup {session}
       ELSE UNCHANGED <<beat, early>>
    /\ UNCHANGED <<store, joins, media, keys, hub, seen, ends>>

\* publishKeepalive, for the session it was started with; relays keep the newest event.
Publishes(s) == seen' = IF conn = "connected" THEN s ELSE seen

Beat ==
    /\ beat # NoCall
    /\ Publishes(beat)
    /\ UNCHANGED <<store, joins, media, keys, hub, beat, early, ran, ends>>

EarlyBeat(s) ==
    /\ s \in early
    /\ early' = early \ {s}
    /\ Publishes(s)
    /\ UNCHANGED <<store, joins, media, keys, hub, beat, ran, ends>>

\* A minute without a keepalive: isPresenceStale.
Stale_Never == FALSE

Stale == seen # NoCall /\ ~(conn = "connected" /\ beat = seen)

Fade ==
    /\ Stale
    /\ seen' = NoCall
    /\ UNCHANGED <<store, joins, media, keys, hub, beat, early, ran, ends>>

-----------------------------------------------------------------------------
JoinStep == TearDown \/ Identify \/ NoIdentity \/ Connect \/ ConnectFails \/ Microphone \/ Finish

CallStep ==
    \/ \E switching \in BOOLEAN : Click(switching)
    \/ Leave \/ JoinStep
    \/ \E p \in Call : Reports(p) \/ ConnectsLate(p) \/ Drops(p) \/ Rekey(p)
    \/ \E d \in deriving : Derived(d) \/ DerivationFails(d)
    \/ DowngradeFires \/ Rotate \/ EpochArrives \/ SecretArrives \/ SecretGone \/ Watch

PresenceStep == Keepalive \/ Beat \/ Fade \/ \E p \in Call : EarlyBeat(p)

Next == CallStep \/ PresenceStep

Spec == Init /\ [][Next]_vars

\* Effects run after the render, and a re-keying ends.
KeyFairness ==
    /\ WF_vars(Watch)
    /\ \A p \in Call : WF_vars(Rekey(p))
    /\ WF_vars(\E d \in deriving : Derived(d) \/ DerivationFails(d))

\* Timers fire and keepalives get through.
PresenceFairness ==
    /\ WF_vars(Keepalive) /\ WF_vars(Beat) /\ WF_vars(Fade)
    /\ \A p \in Call : WF_vars(EarlyBeat(p))

FairSpec == Spec /\ KeyFairness /\ PresenceFairness

\* Without the presence, at which no other step looks.
KeySpec == Init /\ [][CallStep]_vars /\ KeyFairness

-----------------------------------------------------------------------------
(* Properties.                                                              *)

\* What is connected or hears the microphone, by how far the join is.
Torn ==
    /\ vad \in 0..join /\ provider \in 0..join
    /\ live \cup sending \subseteq 1..join
    /\ sending \subseteq {vad} \cup cancelled
    /\ stage = "teardown" => provider \in {old, NoCall}
    /\ stage \in {"teardown", "identity", "connect"} =>
           join \notin live \cup sending /\ provider # join
    /\ stage \notin {"idle", "teardown"} =>
           live \cup sending \subseteq {join} \cup cancelled \cup abandoned
    /\ stage # "idle" => join \in Call /\ join \notin abandoned
    /\ abandoned \subseteq 1..join /\ abandoned \cap sending = {}

\* Secrets are only replaced by newer ones, and the effect has seen none that is not.
Seen ==
    /\ baseline.epoch <= epoch /\ epoch <= rotation
    /\ baseline.secret <= rotation /\ secret <= rotation
    /\ secret = 0 \/ baseline.secret <= secret

\* Whatever is connected or hears the microphone is the call in the store or one that is
\* being set up: switching, failing and leaving leave no call behind, unless the user left
\* while it was being set up.  A connection that came too late does not hear the microphone.
NoCallLeftBehind ==
    \A p \in live \cup sending :
        p = provider \/ p \in InProgress \/ p \in cancelled \/ p \in abandoned \ sending

\* The inductive invariant: types, and what keeps calls from being left behind and keys
\* from falling behind.
IInv == TypeOK /\ Torn /\ Seen /\ NoCallLeftBehind

NotOlder(k) == k.epoch >= baseline.epoch /\ k.secret >= baseline.secret

\* The key of p is no older than what the re-keying effect last saw, or is being replaced
\* by one that is not.
InStep(p) ==
    /\ baseline # NoKey /\ key[p] # NoKey
    /\ \/ p \in rekeys
       \/ Derivations(p) = {} /\ NotOlder(key[p])
       \/ \E d \in deriving : Derivations(p) = {d} /\ NotOlder(d.key)

\* A re-keying of p reads the secret before an earlier one has set its key.
Overtakes(p) == p \in rekeys /\ Rekey(p) /\ Derivations(p) # {}

\* No sequence of rotations, lost secrets, blips and effects takes a call that is in step
\* with the hub's secret out of step, but a derivation that throws or two that overlap.
StaysInStep ==
    [][\A p \in Call :
          provider = p /\ InStep(p) /\ provider' = p =>
              InStep(p)' \/ Overtakes(p) \/ \E d \in Derivations(p) : DerivationFails(d)]_vars

\* A call that is in step ends up with the key of the hub's present secret, so that a
\* member who was removed no longer hears it.
KeyFollows ==
    \A p \in Call :
        <>[](provider = p /\ conn = "connected" /\ InStep(p) /\ secret # 0)
            => <>[](key[p] = Current)

\* Others end up seeing a client in the call it stays in, whatever keepalives of earlier
\* calls are still on their way, and in none when it stays out.
PresenceSettles ==
    /\ \A p \in Call : <>[](provider = p /\ conn = "connected" /\ InProgress = {}) => <>[](seen = p)
    /\ <>[](conn # "connected" /\ InProgress = {}) => <>[](seen = NoCall)

=============================================================================
