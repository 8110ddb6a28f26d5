---------------------------- MODULE VoiceCall_proof ----------------------------
(***************************************************************************)
(* Proofs about VoiceCall, for every number of joins and of epochs.        *)
(***************************************************************************)
EXTENDS VoiceCall, TLAPS

LEMMA CallNumbers == NoCall \notin Call /\ NoCall \in Nat /\ Call \subseteq Nat
  BY VoiceAssumption DEF Call, NoCall

LEMMA NoKeyType == NoKey \in Key
  BY VoiceAssumption DEF NoKey, Key

LEMMA CurrentType == TypeOK => Current \in Key
  BY VoiceAssumption DEF TypeOK, Key, Current

LEMMA DerivationType == \A d \in Derivation : d.of \in Call /\ d.key \in Key /\ d.key # NoKey
  BY VoiceAssumption DEF Derivation, Key, NoKey

LEMMA BaselineNumbers == TypeOK => baseline.epoch \in Nat /\ baseline.secret \in Nat
<1> SUFFICES ASSUME baseline \in Key PROVE baseline.epoch \in Nat /\ baseline.secret \in Nat
  BY DEF TypeOK
<1> QED BY VoiceAssumption DEF Key

-----------------------------------------------------------------------------
(* Types.                                                                   *)

LEMMA TypeInit == Init => TypeOK
<1> SUFFICES ASSUME Init PROVE TypeOK
  OBVIOUS
<1>1. key \in [Call -> Key] /\ baseline \in Key
  BY NoKeyType DEF Init
<1>2. rotation \in 1..MaxEpoch /\ epoch \in 1..MaxEpoch /\ secret \in 0..MaxEpoch /\ arg \in 0..MaxEpoch
  BY VoiceAssumption DEF Init
<1> QED BY <1>1, <1>2 DEF Init, TypeOK, ConnectionState, Stage

LEMMA TypeLeaves ==
    ASSUME TypeOK, Torn, Leaves, key' = key, rekeys' \in SUBSET Call, deriving' = deriving
    PROVE  TypeOK'
<1>1. sending' \in SUBSET Call /\ vad' = NoCall /\ beat' = NoCall /\ live' \in SUBSET Call
  BY DEF TypeOK, Leaves, StopsMicrophone, StopsBroadcast, Disconnects
<1>2. downgrade' \in ConnectionState \cup {"none"} /\ conn' \in ConnectionState
  BY DEF TypeOK, Leaves, Disconnects, Worse, ConnectionState
<1>3. cancelled' \in SUBSET Call /\ seen' \in Call \cup {NoCall}
  BY DEF TypeOK, Torn, Leaves, InProgress
<1> QED BY <1>1, <1>2, <1>3 DEF TypeOK, Leaves, joins, hub

LEMMA TypeReturns ==
    ASSUME TypeOK, Returns
    PROVE  /\ join' \in Call \cup {NoCall} /\ stage' \in Stage /\ old' \in Call \cup {NoCall}
           /\ hosted' \in BOOLEAN /\ arg' \in 0..MaxEpoch
<1>1. 0 \in 0..MaxEpoch
  BY VoiceAssumption
<1> QED BY <1>1 DEF TypeOK, Returns, Stage

LEMMA TypeJoinStep ==
    ASSUME TypeOK, Torn, JoinStep
    PROVE  TypeOK'
<1>1. CASE TearDown
  BY <1>1 DEF TearDown, StopsMicrophone, StopsBroadcast, Disconnects, Worse, TypeOK, keys, hub,
              ends, ConnectionState, Stage
<1>2. CASE Identify
  <2>1. (IF arg = 0 THEN NoKey ELSE [epoch |-> epoch, secret |-> arg]) \in Key
    BY NoKeyType, VoiceAssumption DEF TypeOK, Key
  <2>2. key' \in [Call -> Key]
    BY <1>2, <2>1 DEF Identify, TypeOK
  <2> QED BY <1>2, <2>2 DEF Identify, TypeOK, media, hub, presence, ends, ConnectionState, Stage
<1>3. CASE NoIdentity
  <2>1. conn' \in ConnectionState /\ joining' = FALSE
    BY <1>3 DEF NoIdentity, Throws, ConnectionState
  <2> QED BY <1>3, <2>1, TypeReturns, ZenonT(40)
     DEF NoIdentity, Throws, TypeOK, media, keys, hub, presence, ends, ConnectionState, Stage
<1>4. CASE Connect
  BY <1>4 DEF Connect, TypeOK, Torn, keys, hub, presence, ends, ConnectionState, Stage
<1>5. CASE ConnectFails
  BY <1>5, TypeReturns, ZenonT(40)
     DEF ConnectFails, Throws, TypeOK, Torn, media, keys, hub, presence, ends, ConnectionState, Stage
<1>6. CASE Microphone
  <2>1. /\ stage' \in Stage /\ join \in Call
        /\ sending' \in SUBSET Call /\ vad' \in Call \cup {NoCall}
    BY <1>6 DEF Microphone, TypeOK, Torn, Stage
  <2>2. UNCHANGED <<store, join, old, hosted, arg, live, keys, hub, presence, ends>>
    BY <1>6 DEF Microphone
  <2> QED BY <2>1, <2>2 DEF TypeOK, store, keys, hub, presence, ends
<1>7. CASE Finish
  BY <1>7, TypeReturns
     DEF Finish, TypeOK, Torn, media, keys, hub, presence, ends, ConnectionState, Stage
<1> QED BY <1>1, <1>2, <1>3, <1>4, <1>5, <1>6, <1>7 DEF JoinStep

LEMMA TypeNext ==
    ASSUME TypeOK, Torn, [Next]_vars
    PROVE  TypeOK'
<1>1. ASSUME NEW w \in BOOLEAN, Click(w) PROVE TypeOK'
  <2>1. join' \in Call
    BY <1>1, VoiceAssumption DEF Click, TypeOK, Call, NoCall
  <2> QED BY <1>1, <2>1 DEF Click, TypeOK, media, keys, hub, presence, ends, ConnectionState, Stage
<1>2. CASE Leave
  BY <1>2, TypeLeaves DEF Leave, TypeOK
<1>3. CASE JoinStep
  BY <1>3, TypeJoinStep
<1>4. ASSUME NEW p \in Call, Reports(p) \/ ConnectsLate(p) \/ Drops(p) PROVE TypeOK'
  BY <1>4 DEF Reports, ConnectsLate, Drops, Worse, TypeOK, joins, media, keys, hub, presence, ends, ConnectionState
<1>5. ASSUME NEW p \in Call, Rekey(p) PROVE TypeOK'
  <2>1. CASE Leaves /\ UNCHANGED <<key, deriving>>
    BY <1>5, <2>1, TypeLeaves DEF Rekey, TypeOK
  <2>2. CASE UNCHANGED <<store, joins, media, key, baseline, hub, presence, ends>>
             /\ secret # 0 /\ deriving' = deriving \cup {[of |-> p, key |-> Current]}
    <3>1. deriving' \in SUBSET Derivation
      BY <2>2 DEF TypeOK, Derivation, Current
    <3> QED BY <1>5, <2>2, <3>1 DEF Rekey, TypeOK, store, joins, media, hub, presence, ends
  <2> QED BY <1>5, <2>1, <2>2 DEF Rekey
<1>6. ASSUME NEW p \in Call, EarlyBeat(p) PROVE TypeOK'
  BY <1>6 DEF EarlyBeat, Publishes, TypeOK, store, joins, media, keys, hub, ends
<1>7. CASE DowngradeFires
  BY <1>7 DEF DowngradeFires, TypeOK, joins, media, keys, hub, presence, ends, ConnectionState
<1>8. CASE Rotate \/ EpochArrives \/ SecretArrives \/ SecretGone
  <2>1. rotation' \in 1..MaxEpoch /\ epoch' \in 1..MaxEpoch /\ secret' \in 0..MaxEpoch
    BY <1>8, VoiceAssumption DEF Rotate, EpochArrives, SecretArrives, SecretGone, TypeOK
  <2> QED BY <1>8, <2>1 DEF Rotate, EpochArrives, SecretArrives, SecretGone, TypeOK, store, joins, media, keys, presence, ends
<1>9. CASE Watch
  <2>1. rekeys' \in SUBSET Call
    BY <1>9 DEF Watch, TypeOK
  <2> QED BY <1>9, <2>1, CurrentType DEF Watch, TypeOK, store, joins, media, hub, presence, ends
<1>10. CASE Keepalive \/ Beat \/ Fade
  BY <1>10 DEF Keepalive, Connected, Beat, Publishes, Fade, TypeOK, store, joins, media, keys, hub, ends
<1>11. ASSUME NEW d \in deriving, Derived(d) \/ DerivationFails(d) PROVE TypeOK'
  <2>1. key' \in [Call -> Key]
    BY <1>11, NoKeyType, DerivationType DEF Derived, DerivationFails, TypeOK
  <2>2. deriving' \in SUBSET Derivation
    BY <1>11 DEF Derived, DerivationFails, TypeOK
  <2> QED BY <1>11, <2>1, <2>2 DEF Derived, DerivationFails, TypeOK, store, joins, media, hub, presence, ends
<1>12. CASE UNCHANGED vars
  BY <1>12 DEF vars, TypeOK, store, joins, media, keys, hub, presence, ends
<1> QED BY <1>1, <1>2, <1>3, <1>4, <1>5, <1>6, <1>7, <1>8, <1>9, <1>10, <1>11, <1>12 DEF Next, CallStep, PresenceStep

-----------------------------------------------------------------------------
(* No call is left behind.                                                  *)

LEMMA TornInit == Init => Torn /\ NoCallLeftBehind
  BY VoiceAssumption, CallNumbers DEF Init, Torn, NoCallLeftBehind

\* Leaving disconnects the call in the store; what else is live is being set up.
LEMMA TornLeaves ==
    ASSUME TypeOK, Torn, NoCallLeftBehind, Leaves
    PROVE  Torn' /\ NoCallLeftBehind'
<1>1. live' \subseteq live /\ sending' \subseteq sending /\ vad' = NoCall /\ provider' = NoCall
  BY DEF Leaves, StopsMicrophone, Disconnects
<1>2. InProgress' = InProgress /\ join' = join /\ stage' = stage /\ old' = old
  BY DEF Leaves, joins, InProgress
<1>3. sending' \subseteq cancelled
  BY DEF Leaves, StopsMicrophone, Torn
<1>4. \A p \in live' : p \in InProgress \/ p \in cancelled \/ p \in abandoned \ sending
  BY <1>1, CallNumbers DEF Leaves, Disconnects, NoCallLeftBehind, TypeOK
<1>5. cancelled' = cancelled \cup InProgress /\ abandoned' = abandoned
  BY DEF Leaves
<1>6. NoCallLeftBehind'
  BY <1>1, <1>2, <1>3, <1>4, <1>5 DEF NoCallLeftBehind
<1>7. Torn'
  BY <1>1, <1>2, <1>3, <1>5, VoiceAssumption DEF Torn, TypeOK, Call, NoCall
<1> QED BY <1>6, <1>7

LEMMA TornClick ==
    ASSUME TypeOK, Torn, NoCallLeftBehind, NEW w \in BOOLEAN, Click(w)
    PROVE  Torn' /\ NoCallLeftBehind'
<1>1. UNCHANGED <<live, sending, vad, provider, cancelled, abandoned>> /\ join' = join + 1 /\ old' = provider
  BY DEF Click, media, ends
<1>2. join \in Nat /\ join' \in Call /\ provider # join'
  BY VoiceAssumption DEF Click, TypeOK, Torn, Call, NoCall
<1>3. join' \notin live \cup sending /\ live \cup sending \subseteq 1..join'
  BY <1>1, <1>2 DEF Torn
<1>4. \A p \in live \cup sending : p = provider \/ p \in cancelled \/ p \in abandoned \ sending
  BY DEF NoCallLeftBehind, InProgress, Click
<1>5. NoCallLeftBehind'
  BY <1>1, <1>4 DEF NoCallLeftBehind
<1>6. stage' = "identity" => live \cup sending \subseteq cancelled \cup abandoned
  BY <1>4, CallNumbers DEF Click, TypeOK
<1>7. stage' \in {"teardown", "identity"} /\ (stage' = "teardown" => old' = provider)
  BY DEF Click
<1>8. vad \in 0..join' /\ provider \in 0..join'
  BY <1>1, <1>2 DEF Torn
<1>9. abandoned \subseteq 1..join' /\ join' \notin abandoned /\ abandoned \cap sending = {}
  BY <1>1, <1>2 DEF Torn
<1> QED BY <1>1, <1>2, <1>3, <1>5, <1>6, <1>7, <1>8, <1>9 DEF Torn

LEMMA TornJoinStep ==
    ASSUME TypeOK, Torn, NoCallLeftBehind, JoinStep
    PROVE  Torn' /\ NoCallLeftBehind'
<1>1. CASE TearDown
  <2>1. UNCHANGED <<provider, join, old, cancelled, abandoned>> /\ vad' = NoCall /\ stage' = "identity"
    BY <1>1 DEF TearDown, StopsMicrophone, ends
  <2>2. live' \subseteq live /\ sending' \subseteq sending /\ sending' \subseteq cancelled
    BY <1>1 DEF TearDown, Disconnects, StopsMicrophone, Torn
  <2>3. live' \subseteq {join} \cup cancelled \cup abandoned
    BY <1>1, CallNumbers DEF TearDown, Disconnects, Torn, NoCallLeftBehind, InProgress, TypeOK
  <2>4. NoCallLeftBehind'
    BY <2>1, <2>2, <2>3 DEF NoCallLeftBehind, InProgress
  <2> QED BY <1>1, <2>1, <2>2, <2>3, <2>4, VoiceAssumption DEF Torn, TearDown, TypeOK, Call, NoCall
<1>2. CASE Identify
  BY <1>2 DEF Identify, Torn, NoCallLeftBehind, InProgress, media, ends
<1>3. CASE NoIdentity \/ ConnectFails
  <2>1. UNCHANGED <<live, sending, vad, join, cancelled>> /\ stage' = "idle"
         /\ abandoned' \in {abandoned, abandoned \cup {join}} /\ join \in 1..join /\ join \notin sending
         /\ provider' \in {provider, NoCall}
    BY <1>3 DEF NoIdentity, ConnectFails, Throws, Returns, media, ends, Torn, Call
  <2>2. live \cup sending \subseteq cancelled \cup abandoned
    BY <1>3 DEF NoIdentity, ConnectFails, Torn
  <2> QED BY <2>1, <2>2, VoiceAssumption DEF Torn, NoCallLeftBehind, InProgress, TypeOK, Call, NoCall
<1>4. CASE Connect
  <2>1. join \in 1..join
    BY <1>4 DEF Connect, Torn, Call
  <2> QED BY <1>4, <2>1 DEF Connect, Torn, NoCallLeftBehind, InProgress, ends
<1>5. CASE Microphone
  <2>1. join \in 1..join
    BY <1>5 DEF Microphone, Torn, Call
  <2>2. UNCHANGED <<live, join, provider, cancelled, abandoned>> /\ stage' = "finish" /\ stage = "microphone"
    BY <1>5 DEF Microphone, store, ends
  <2>3. CASE sending' = sending \cup {join} /\ vad' = join
    BY <2>1, <2>2, <2>3 DEF Torn, NoCallLeftBehind, InProgress
  <2>4. CASE UNCHANGED <<sending, vad>>
    BY <2>2, <2>4 DEF Torn, NoCallLeftBehind, InProgress
  <2> QED BY <1>5, <2>3, <2>4 DEF Microphone
<1>6. CASE Finish
  <2>1. join \in 0..join
    BY <1>6 DEF Finish, Torn, Call
  <2> QED BY <1>6, <2>1 DEF Finish, Returns, Torn, NoCallLeftBehind, InProgress, media, ends
<1> QED BY <1>1, <1>2, <1>3, <1>4, <1>5, <1>6 DEF JoinStep

LEMMA TornNext ==
    ASSUME TypeOK, Torn, NoCallLeftBehind, [Next]_vars
    PROVE  Torn' /\ NoCallLeftBehind'
<1>1. ASSUME NEW w \in BOOLEAN, Click(w) PROVE Torn' /\ NoCallLeftBehind'
  BY <1>1, TornClick
<1>2. CASE Leave
  BY <1>2, TornLeaves DEF Leave
<1>3. CASE JoinStep
  BY <1>3, TornJoinStep
<1>4. ASSUME NEW p \in Call, Drops(p) \/ ConnectsLate(p) PROVE Torn' /\ NoCallLeftBehind'
  BY <1>4 DEF Drops, ConnectsLate, ends, Torn, NoCallLeftBehind, InProgress, joins
<1>5. CASE UNCHANGED <<live, sending, vad, joins, provider, ends>>
  BY <1>5 DEF Torn, NoCallLeftBehind, InProgress, joins, ends
<1>6. ASSUME NEW p \in Call, Rekey(p) PROVE Torn' /\ NoCallLeftBehind'
  BY <1>5, <1>6, TornLeaves DEF Rekey, store, media
<1>7. ASSUME NEW p \in Call, Reports(p) \/ EarlyBeat(p) PROVE Torn' /\ NoCallLeftBehind'
  BY <1>5, <1>7 DEF Reports, EarlyBeat, store, media
<1>8. CASE DowngradeFires \/ Rotate \/ EpochArrives \/ SecretArrives \/ SecretGone \/ Watch
  BY <1>5, <1>8 DEF DowngradeFires, Rotate, EpochArrives, SecretArrives, SecretGone, Watch, store, media
<1>9. CASE Keepalive \/ Beat \/ Fade \/ UNCHANGED vars
  BY <1>5, <1>9 DEF Keepalive, Beat, Fade, vars, store, media
<1>10. ASSUME NEW d \in deriving, Derived(d) \/ DerivationFails(d) PROVE Torn' /\ NoCallLeftBehind'
  BY <1>5, <1>10 DEF Derived, DerivationFails, store, media
<1> QED BY <1>1, <1>2, <1>3, <1>4, <1>6, <1>7, <1>8, <1>9, <1>10 DEF Next, CallStep, PresenceStep

-----------------------------------------------------------------------------
(* What the re-keying effect has seen.                                      *)

LEMMA SeenInit == Init => Seen
  BY DEF Init, Seen, NoKey

LEMMA SeenNext ==
    ASSUME TypeOK, Seen, [Next]_vars
    PROVE  Seen'
<1>1. rotation \in Nat /\ epoch \in Nat /\ secret \in Nat /\ baseline.epoch \in Nat /\ baseline.secret \in Nat
  BY BaselineNumbers, VoiceAssumption DEF TypeOK
<1>2. CASE Rotate \/ EpochArrives \/ SecretArrives \/ SecretGone
  BY <1>1, <1>2 DEF Rotate, EpochArrives, SecretArrives, SecretGone, keys, Seen
<1>3. CASE Watch
  BY <1>1, <1>3 DEF Watch, hub, Seen, Current
<1>4. CASE UNCHANGED <<rotation, epoch, secret, baseline>>
  BY <1>4 DEF Seen
<1>5. ASSUME NEW w \in BOOLEAN, Click(w) PROVE Seen'
  BY <1>4, <1>5 DEF Click, hub, keys
<1>6. CASE Leave \/ JoinStep
  BY <1>4, <1>6 DEF Leave, Leaves, JoinStep, TearDown, Identify, NoIdentity, Connect, ConnectFails,
                   Microphone, Finish, hub, keys
<1>7. ASSUME NEW p \in Call, Reports(p) \/ ConnectsLate(p) \/ Drops(p) \/ Rekey(p) \/ EarlyBeat(p) PROVE Seen'
  BY <1>4, <1>7 DEF Reports, ConnectsLate, Drops, Rekey, Leaves, EarlyBeat, hub, keys
<1>8. CASE DowngradeFires \/ Keepalive \/ Beat \/ Fade \/ UNCHANGED vars
  BY <1>4, <1>8 DEF DowngradeFires, Keepalive, Beat, Fade, vars, hub, keys
<1>9. ASSUME NEW d \in deriving, Derived(d) \/ DerivationFails(d) PROVE Seen'
  BY <1>4, <1>9 DEF Derived, DerivationFails, hub
<1> QED BY <1>2, <1>3, <1>5, <1>6, <1>7, <1>8, <1>9 DEF Next, CallStep, PresenceStep

-----------------------------------------------------------------------------
(* A call in step stays in step.                                            *)

\* What a step may do to the key of p: the three ways of StaysInStep.
Kept(p) ==
    InStep(p)' \/ Overtakes(p) \/ \E d \in Derivations(p) : DerivationFails(d)

\* Where the key of p, the baseline and the pending re-keyings are left alone.
LEMMA InStepKept ==
    ASSUME NEW p, InStep(p), baseline' = baseline, key'[p] = key[p], p \in rekeys => p \in rekeys',
           Derivations(p)' = Derivations(p)
    PROVE  Kept(p)
<1>1. \A k : NotOlder(k) => NotOlder(k)'
  BY DEF NotOlder
<1>2. CASE p \in rekeys
  BY <1>2 DEF InStep, Kept
<1>3. CASE Derivations(p) = {} /\ NotOlder(key[p])
  BY <1>1, <1>3 DEF InStep, Kept, NotOlder
<1>4. CASE \E d \in deriving : Derivations(p) = {d} /\ NotOlder(d.key)
  <2>1. PICK d \in deriving : Derivations(p) = {d} /\ NotOlder(d.key)
    BY <1>4
  <2>2. d \in deriving'
    BY <2>1 DEF Derivations
  <2>3. Derivations(p)' = {d} /\ d.key.epoch >= baseline'.epoch /\ d.key.secret >= baseline'.secret
    BY <2>1 DEF NotOlder
  <2> QED BY <2>2, <2>3 DEF InStep, Kept, NotOlder
<1> QED BY <1>2, <1>3, <1>4 DEF InStep

LEMMA InStepRekey ==
    ASSUME TypeOK, Seen, NEW p \in Call, provider = p, InStep(p), provider' = p,
           NEW q \in Call, Rekey(q)
    PROVE  Kept(p)
<1> DEFINE new == [of |-> q, key |-> Current]
<1>1. /\ secret # 0 /\ baseline' = baseline /\ key' = key /\ rekeys' = rekeys \ {q}
      /\ deriving' = deriving \cup {new}
  BY CallNumbers DEF Rekey, Leaves, TypeOK
<1>2. CASE q # p
  <2>1. Derivations(p)' = Derivations(p)
    BY <1>1, <1>2 DEF Derivations
  <2> QED BY <1>1, <1>2, <2>1, InStepKept
<1>3. CASE q = p /\ Derivations(p) # {}
  BY <1>3 DEF Kept, Overtakes, Rekey
<1>4. CASE q = p /\ Derivations(p) = {}
  <2>1. Derivations(p)' = {new} /\ new \in deriving'
    BY <1>1, <1>4 DEF Derivations
  <2>2. new.key = Current /\ Current.epoch = epoch /\ Current.secret = secret
    BY DEF Current
  <2>3. epoch >= baseline.epoch /\ secret >= baseline.secret
    BY <1>1, BaselineNumbers, VoiceAssumption DEF Seen, TypeOK
  <2>4. new.key.epoch >= baseline'.epoch /\ new.key.secret >= baseline'.secret
    BY <1>1, <2>2, <2>3
  <2>5. baseline' # NoKey /\ key'[p] # NoKey
    BY <1>1 DEF InStep
  <2>6. new.key = Current
    OBVIOUS
  <2> HIDE DEF new
  <2> QED BY <2>1, <2>4, <2>5 DEF InStep, Kept, NotOlder
<1> QED BY <1>2, <1>3, <1>4

LEMMA InStepDerived ==
    ASSUME TypeOK, NEW p \in Call, InStep(p), NEW d \in deriving, Derived(d) \/ DerivationFails(d)
    PROVE  Kept(p)
<1>1. /\ baseline' = baseline /\ rekeys' = rekeys /\ deriving' = deriving \ {d}
      /\ d \in Derivation /\ d.key # NoKey
  BY DerivationType DEF Derived, DerivationFails, TypeOK
<1>2. CASE d.of # p
  <2>1. Derivations(p)' = Derivations(p)
    BY <1>1, <1>2 DEF Derivations
  <2>2. key'[p] = key[p]
    BY <1>2, DerivationType, <1>1 DEF Derived, DerivationFails, TypeOK
  <2> QED BY <1>1, <2>1, <2>2, InStepKept
<1>3. CASE d.of = p /\ DerivationFails(d)
  BY <1>3 DEF Kept, Derivations
<1>4. CASE d.of = p /\ Derived(d)
  <2>1. key[p] # NoKey /\ baseline # NoKey
    BY DEF InStep
  <2>2. key'[p] = d.key
    BY <1>4, <2>1 DEF Derived, TypeOK
  <2>3. CASE p \in rekeys
    BY <1>1, <2>1, <2>2, <2>3 DEF InStep, Kept
  <2>4. CASE p \notin rekeys
    <3>1. d \in Derivations(p)
      BY <1>4 DEF Derivations
    <3>2. Derivations(p) = {d} /\ NotOlder(d.key)
      BY <2>4, <3>1 DEF InStep
    <3>3. Derivations(p)' = {}
      BY <1>1, <3>2 DEF Derivations
    <3>4. key'[p].epoch >= baseline'.epoch /\ key'[p].secret >= baseline'.secret
      BY <1>1, <2>2, <3>2 DEF NotOlder
    <3> QED BY <1>1, <2>1, <2>2, <3>3, <3>4 DEF InStep, Kept, NotOlder
  <2> QED BY <2>3, <2>4
<1> QED BY <1>2, <1>3, <1>4

LEMMA InStepNext ==
    ASSUME TypeOK, Torn, Seen, [Next]_vars, NEW p \in Call, provider = p, InStep(p), provider' = p
    PROVE  Kept(p)
<1>1. CASE UNCHANGED keys
  <2>1. Derivations(p)' = Derivations(p)
    BY <1>1 DEF keys, Derivations
  <2> QED BY <1>1, <2>1, InStepKept DEF keys
<1>2. ASSUME NEW w \in BOOLEAN, Click(w) PROVE Kept(p)
  BY <1>1, <1>2 DEF Click
<1>3. CASE Leave
  BY <1>3, CallNumbers DEF Leave, Leaves
<1>4. CASE JoinStep
  <2>1. CASE Identify
    <3>1. p # join
      BY <2>1 DEF Identify, Torn
    <3>2. key'[p] = key[p] /\ baseline' = baseline /\ rekeys' = rekeys
      BY <2>1, <3>1 DEF Identify, TypeOK
    <3>3. Derivations(p)' = Derivations(p)
      BY <2>1 DEF Identify, Derivations
    <3> QED BY <3>2, <3>3, InStepKept
  <2> QED BY <1>1, <1>4, <2>1 DEF JoinStep, TearDown, NoIdentity, Connect, ConnectFails, Microphone,
                                  Finish, keys
<1>5. ASSUME NEW q \in Call, Rekey(q) PROVE Kept(p)
  BY <1>5, InStepRekey
<1>6. CASE Watch
  <2>1. p \in rekeys' /\ key'[p] = key[p] /\ baseline' = Current
    BY <1>6, CallNumbers DEF Watch, First, InStep
  <2>2. Current # NoKey /\ key[p] # NoKey
    BY VoiceAssumption DEF Current, NoKey, TypeOK, InStep
  <2> QED BY <2>1, <2>2 DEF InStep, Kept
<1>7. ASSUME NEW q \in Call, Reports(q) \/ ConnectsLate(q) \/ Drops(q) \/ EarlyBeat(q) PROVE Kept(p)
  BY <1>1, <1>7 DEF Reports, ConnectsLate, Drops, EarlyBeat
<1>8. CASE DowngradeFires \/ Rotate \/ EpochArrives \/ SecretArrives \/ SecretGone \/ Keepalive \/ Beat \/ Fade
  BY <1>1, <1>8 DEF DowngradeFires, Rotate, EpochArrives, SecretArrives, SecretGone, Keepalive, Beat, Fade
<1>9. CASE UNCHANGED vars
  BY <1>1, <1>9 DEF vars
<1>10. ASSUME NEW d \in deriving, Derived(d) \/ DerivationFails(d) PROVE Kept(p)
  BY <1>10, InStepDerived
<1> QED BY <1>2, <1>3, <1>4, <1>5, <1>6, <1>7, <1>8, <1>9, <1>10 DEF Next, CallStep, PresenceStep

-----------------------------------------------------------------------------
(* The theorems.                                                            *)

\* Of every behaviour of the client: its state has its types, a join in progress has the
\* media server to itself, and the effect has seen no secret newer than the hub's.
THEOREM Invariant == Spec => []IInv
<1>1. Init => IInv
  BY TypeInit, TornInit, SeenInit DEF IInv
<1>2. IInv /\ [Next]_vars => IInv'
  BY TypeNext, TornNext, SeenNext DEF IInv
<1> QED BY <1>1, <1>2, PTL DEF Spec

\* Whatever is connected or hears the microphone is the call in the store or one that is
\* being set up, unless the user left while joinChannel was setting it up.
THEOREM CallsEnd == Spec => []NoCallLeftBehind
<1>1. IInv => NoCallLeftBehind
  BY DEF IInv
<1> QED BY <1>1, Invariant, PTL

\* No step of the store, the hub or the effects takes a call in step with the hub's secret
\* out of step, for any number of rotations, but a derivation that throws (voiceStore's
\* rekeyE2EEForRotation only warns) or one that begins before an earlier one has ended.
THEOREM KeysStayInStep == Spec => StaysInStep
<1>1. IInv /\ [Next]_vars =>
         [\A p \in Call : provider = p /\ InStep(p) /\ provider' = p => Kept(p)]_vars
  BY InStepNext DEF IInv
<1>2. [][\A p \in Call : provider = p /\ InStep(p) /\ provider' = p => Kept(p)]_vars => StaysInStep
  BY PTL DEF Kept, StaysInStep
<1> QED BY <1>1, <1>2, Invariant, PTL DEF Spec

=============================================================================
