--------------------------- MODULE HubMutation_proof ---------------------------
(***************************************************************************)
(* What the mutations of a hub keep true, for any devices, relays, members  *)
(* and mutations: types and the lock, the coherence of published events,    *)
(* the descent, secrets, stamps and history of indexes and, for one device, *)
(* the chain of its mutations and the blobs that it may delete.             *)
(***************************************************************************)
EXTENDS HubMutation, TLAPS

USE DEF Final, Phases, AllKinds, BlobName, Active

-----------------------------------------------------------------------------
(* Types.                                                                   *)

LEMMA NamedType == \A idx \in Index : Named(idx) \subseteq BlobName
  BY DEF Named, Index

LEMMA GenesisType == /\ Genesis \in Index
                     /\ GenesisEvent \in Event
                     /\ ViewOf(GenesisEvent) \in HubView
  BY ConstantsAssumption DEF Genesis, GenesisEvent, ViewOf, Index, Event, HubView

LEMMA ViewType == \A e \in Event : ViewOf(e) \in HubView
  BY DEF ViewOf, Event, HubView

LEMMA SomeMember == (CHOOSE m \in Members : TRUE) \in Members
  BY ConstantsAssumption

LEMMA InitType == Init => TypeOK
<1> SUFFICES ASSUME Init PROVE TypeOK
  OBVIOUS
<1> USE GenesisType, NamedType, SomeMember, ConstantsAssumption
<1>1. relay \in [Relays -> Event] /\ blossom \subseteq BlobName /\ trash \subseteq BlobName
  BY DEF Init
<1>2. store \in [Devices -> Store]
  BY DEF Init, Store
<1>3. reader \in [Devices -> Reader]
  BY DEF Init, Reader
<1>4. chain \in [Devices -> Seq(Ops)] /\ uploads \in Nat
  BY DEF Init
<1>5. op \in [Ops -> Op]
  BY DEF Init, Op
<1> QED BY <1>1, <1>2, <1>3, <1>4, <1>5 DEF TypeOK

\* What a step of one mutation may do to the queue of its device.
LEMMA HereType == ASSUME TypeOK, NEW o \in Ops
                  PROVE  /\ DeviceOf[o] \in Devices /\ Here(o) \in Store
                         /\ op[o] \in Op /\ op[o].hub \in HubView
                         /\ op[o].hub.index \in Index
  BY ConstantsAssumption DEF TypeOK, Here, Op, HubView

LEMMA ReleaseType ==
  ASSUME TypeOK, LockHeld, NEW o \in Ops, op[o].pc \in Active, Release(o)
  PROVE  chain' \in [Devices -> Seq(Ops)]
<1>1. chain[DeviceOf[o]] \in Seq(Ops) /\ chain[DeviceOf[o]] # <<>>
  BY HereType DEF TypeOK, LockHeld, HasLock
<1>2. Tail(chain[DeviceOf[o]]) \in Seq(Ops)
  BY <1>1
<1> QED BY <1>2, HereType DEF Release, TypeOK

LEMMA EndType ==
  ASSUME TypeOK, LockHeld, NEW o \in Ops, op[o].pc \in Active,
         NEW result \in Final, End(o, result)
  PROVE  op' \in [Ops -> Op] /\ chain' \in [Devices -> Seq(Ops)]
<1>1. [op[o] EXCEPT !.pc = result] \in Op
  BY HereType DEF Op
<1> QED BY <1>1, ReleaseType DEF End, TypeOK

LEMMA ClickType == ASSUME TypeOK, NEW o \in Ops, Click(o) PROVE TypeOK'
<1>1. PICK kind \in Kinds, m \in Members :
         op' = [op EXCEPT ![o] = [@ EXCEPT !.pc = "queued", !.kind = kind, !.who = m,
                   !.seen = Here(o).hub, !.seenSecret = Here(o).secret, !.roster = Here(o).members]]
  BY DEF Click
<1>2. [op[o] EXCEPT !.pc = "queued", !.kind = kind, !.who = m, !.seen = Here(o).hub,
                    !.seenSecret = Here(o).secret, !.roster = Here(o).members] \in Op
  <2>1. kind \in AllKinds /\ op[o] \in Op
    BY HereType, ConstantsAssumption
  <2>2. Here(o).hub \in HubView /\ Here(o).secret \in Nat /\ Here(o).members \in SUBSET Members
    BY HereType DEF Store
  <2> QED BY <2>1, <2>2 DEF Op
<1>3. chain' \in [Devices -> Seq(Ops)]
  BY HereType DEF Click, TypeOK
<1> QED BY <1>1, <1>2, <1>3 DEF Click, TypeOK

LEMMA TakeTurnType == ASSUME TypeOK, NEW o \in Ops, TakeTurn(o) PROVE TypeOK'
<1>1. [op[o] EXCEPT !.pc = "read",
          !.hub = IF op[o].kind \in ClosureKinds THEN op[o].seen ELSE Here(o).hub] \in Op
  <2>1. op[o] \in Op /\ op[o].seen \in HubView /\ Here(o).hub \in HubView
    BY HereType DEF Op, Store
  <2> QED BY <2>1 DEF Op
<1> QED BY <1>1 DEF TakeTurn, TypeOK

LEMMA ReadBansType == ASSUME TypeOK, NEW o \in Ops, ReadBans(o) PROVE TypeOK'
<1>1. EffectiveBans(o) \in SUBSET Members
  BY HereType DEF EffectiveBans, Op, Index
<1>2. [op[o] EXCEPT !.pc = "listed", !.bans = EffectiveBans(o), !.roster = Here(o).members] \in Op
  BY <1>1, HereType, ZenonT(40) DEF Op, Store
<1>3. [store[DeviceOf[o]] EXCEPT !.bans = EffectiveBans(o)] \in Store
  BY <1>1, HereType DEF Here, Store
<1> QED BY <1>1, <1>2, <1>3, HereType DEF ReadBans, TypeOK

LEMMA FreshType == TypeOK => Fresh \in Nat
  BY DEF TypeOK, Fresh

LEMMA DescendantType ==
  ASSUME TypeOK, NEW idx \in Index
  PROVE  Descendant(idx) \in Index
  BY FreshType DEF Descendant, Index

LEMMA RotatedType ==
  ASSUME TypeOK, NEW idx \in Index, NEW o \in Ops
  PROVE  Rotated(idx, op[o]) \in Index
<1>1. Fresh \in Nat /\ op[o].hub.epoch + 1 \in Nat /\ Descendant(idx) \in Index
  BY FreshType, DescendantType, HereType DEF HubView
<1> QED BY <1>1 DEF Rotated, Index

LEMMA KeptType ==
  ASSUME TypeOK, NEW idx \in Index, NEW got \in BOOLEAN
  PROVE  Kept(idx, got) \in Index
  BY DescendantType DEF Kept, Index

LEMMA BuiltType ==
  ASSUME TypeOK, NEW o \in Ops, NEW new \in Index, NEW oldSecret \in Nat,
         Built(o, new, oldSecret)
  PROVE  TypeOK'
<1>1. [op[o] EXCEPT !.pc = "built", !.new = new, !.oldSecret = oldSecret] \in Op
  BY HereType, ZenonT(40) DEF Op
<1>2. blossom' \subseteq BlobName
  BY NamedType DEF Built, TypeOK
<1> QED BY <1>1, <1>2, FreshType DEF Built, TypeOK

LEMMA BuildAdmitType == ASSUME TypeOK, NEW o \in Ops, BuildAdmit(o) PROVE TypeOK'
<1> DEFINE idx == op[o].hub.index
           new == [Descendant(idx) EXCEPT !.tree = Fresh, !.bans = {},
                                          !.members = @ \cup {op[o].who}]
<1>1. Descendant(idx) \in Index /\ Fresh \in Nat /\ op[o].who \in Members
  BY HereType, DescendantType, FreshType DEF Op
<1>2. new \in Index
  BY <1>1 DEF Index
<1>3. Built(o, new, 0)
  BY DEF BuildAdmit
<1> QED BY <1>2, <1>3, BuiltType

LEMMA BuildBanType == ASSUME TypeOK, NEW o \in Ops, BuildBan(o) PROVE TypeOK'
<1> DEFINE idx == op[o].hub.index
           new == [Descendant(idx) EXCEPT !.bans = op[o].bans, !.banKey = Here(o).secret]
<1>1. Descendant(idx) \in Index /\ op[o].bans \in SUBSET Members /\ Here(o).secret \in Nat
  BY HereType, DescendantType DEF Op, Store
<1>2. new \in Index
  BY <1>1 DEF Index
<1>3. Built(o, new, 0)
  BY DEF BuildBan
<1> QED BY <1>2, <1>3, BuiltType

LEMMA BuildKickType == ASSUME TypeOK, NEW o \in Ops, BuildKick(o) PROVE TypeOK'
<1> DEFINE idx == op[o].hub.index
           new == [Rotated(idx, op[o]) EXCEPT !.bans = op[o].bans, !.members = @ \ {op[o].who},
                       !.hist = HistoryAfter(@, Here(o).secret)]
<1>1. /\ Rotated(idx, op[o]) \in Index /\ op[o].bans \in SUBSET Members
      /\ Here(o).secret \in Nat /\ Fresh \in Nat
  BY HereType, RotatedType, FreshType DEF Op, Store
<1>2. new \in Index
  BY <1>1 DEF Index, HistoryAfter
<1>3. Built(o, new, Here(o).secret)
  BY DEF BuildKick
<1> QED BY <1>1, <1>2, <1>3, BuiltType

LEMMA BuildFixType == ASSUME TypeOK, NEW o \in Ops, BuildFix(o) PROVE TypeOK'
<1> DEFINE idx == op[o].hub.index
           secret == op[o].seenSecret
           new(reread) == [Rotated(idx, op[o]) EXCEPT !.members = Here(o).members,
                               !.hist = HistoryAfter(IF reread THEN @ ELSE {}, secret)]
<1>1. /\ Rotated(idx, op[o]) \in Index /\ secret \in Nat /\ Fresh \in Nat
      /\ Here(o).members \in SUBSET Members
  BY HereType, RotatedType, FreshType DEF Op, Store
<1>2. \A reread \in BOOLEAN : new(reread) \in Index
  BY <1>1 DEF Index, HistoryAfter
<1>3. PICK reread \in BOOLEAN : Built(o, new(reread), secret)
  BY DEF BuildFix
<1> QED BY <1>1, <1>2, <1>3, BuiltType

LEMMA BuildUnbanType == ASSUME TypeOK, NEW o \in Ops, BuildUnban(o) PROVE TypeOK'
<1> DEFINE idx == op[o].hub.index
           new(got) == [Kept(idx, got) EXCEPT !.bans = idx.bans \ {op[o].who},
                                              !.banKey = Here(o).secret]
<1>1. /\ idx \in Index /\ Here(o).secret \in Nat
      /\ \A got \in BOOLEAN : Kept(idx, got) \in Index
  BY HereType, KeptType DEF Store
<1>2. \A got \in BOOLEAN : new(got) \in Index
  BY <1>1 DEF Index
<1>3. PICK got \in BOOLEAN : Built(o, new(got), 0)
  BY DEF BuildUnban
<1> QED BY <1>2, <1>3, BuiltType

LEMMA BuildReaddType == ASSUME TypeOK, NEW o \in Ops, BuildReadd(o) PROVE TypeOK'
<1> DEFINE idx == op[o].hub.index
           new(got, added) == [Kept(idx, got) EXCEPT
                !.bans = idx.bans \ {op[o].who}, !.banKey = Here(o).secret,
                !.tree = IF @ = 0 THEN 0 ELSE Fresh,
                !.members = IF got /\ idx.tree # 0 /\ added THEN @ \cup {op[o].who} ELSE @]
<1>1. /\ idx \in Index /\ Here(o).secret \in Nat /\ Fresh \in Nat /\ op[o].who \in Members
      /\ \A got \in BOOLEAN : Kept(idx, got) \in Index
  BY HereType, KeptType, FreshType DEF Store, Op
<1>2. ASSUME NEW got \in BOOLEAN, NEW added \in BOOLEAN
      PROVE  new(got, added) \in Index
  <2> DEFINE k == Kept(idx, got)
             members == IF got /\ idx.tree # 0 /\ added THEN k.members \cup {op[o].who}
                                                       ELSE k.members
             tree == IF k.tree = 0 THEN 0 ELSE Fresh
             bans == idx.bans \ {op[o].who}
  <2>1. k \in Index
    BY <1>1
  <2>2. members \in SUBSET Members
    BY <1>1, <2>1 DEF Index
  <2>3. tree \in Nat
    BY <1>1
  <2>4. bans \in SUBSET Members
    BY <1>1 DEF Index
  <2>5. new(got, added) = [k EXCEPT !.bans = bans, !.banKey = Here(o).secret,
                                    !.tree = tree, !.members = members]
    OBVIOUS
  <2> HIDE DEF k, members, tree, bans, new
  <2> QED BY <1>1, <2>1, <2>2, <2>3, <2>4, <2>5 DEF Index
<1>3. PICK got \in BOOLEAN, added \in BOOLEAN : Built(o, new(got, added), 0)
  BY DEF BuildReadd
<1> QED BY <1>2, <1>3, BuiltType

LEMMA BuildRolesType == ASSUME TypeOK, NEW o \in Ops, BuildRoles(o) PROVE TypeOK'
<1> DEFINE new == [Descendant(op[o].hub.index) EXCEPT !.tree = Fresh]
<1>1. new \in Index
  BY HereType, DescendantType, FreshType DEF Index
<1>2. Built(o, new, 0)
  BY DEF BuildRoles
<1> QED BY <1>1, <1>2, BuiltType

-----------------------------------------------------------------------------
(* Compare, sign, publish and the end.                                      *)

LEMMA PublishedType ==
  ASSUME TypeOK, NEW o \in Ops, NEW e \in Event, NEW phase \in {"signed", "publishing"},
         NEW sent \in BOOLEAN
  PROVE  [op[o] EXCEPT !.pc = phase, !.sent = sent, !.event = e] \in Op
  BY HereType, ZenonT(40) DEF Op

LEMMA SuccessorType ==
  ASSUME TypeOK, NEW o \in Ops, NEW current \in Event, NEW id \in EventIds
  PROVE  Successor(o, current, id) \in Event
<1>1. /\ op[o].new \in Index /\ op[o].new.secret \in Nat /\ op[o].hub.epoch + 1 \in Nat
      /\ id \in Nat /\ current.created + 1 \in Nat
  BY HereType, ConstantsAssumption DEF Op, Index, Event, HubView
<1> QED BY <1>1 DEF Successor, Event

LEMMA RepublishType == ASSUME TypeOK, NEW o \in Ops, Republish(o) PROVE TypeOK'
<1>1. PICK r \in Relays, id \in UnusedIds :
         op' = [op EXCEPT ![o] = [@ EXCEPT !.pc = "publishing", !.sent = TRUE,
                                           !.event = Successor(o, relay[r], id)]]
  BY DEF Republish
<1>2. Successor(o, relay[r], id) \in Event
  BY SuccessorType DEF UnusedIds, TypeOK
<1>3. [op[o] EXCEPT !.pc = "publishing", !.sent = TRUE,
                    !.event = Successor(o, relay[r], id)] \in Op
  BY <1>2, PublishedType
<1> QED BY <1>1, <1>3 DEF Republish, TypeOK

LEMMA SignType == ASSUME TypeOK, NEW o \in Ops, Sign(o) PROVE TypeOK'
<1> DEFINE e(id) == [index |-> op[o].new, epoch |-> op[o].hub.epoch, key |-> Here(o).secret,
                     created |-> op[o].hub.created + 1, id |-> id]
<1>1. PICK id \in UnusedIds :
         op' = [op EXCEPT ![o] = [@ EXCEPT !.pc = "signed", !.event = e(id)]]
  BY DEF Sign
<1>2. e(id) \in Event
  BY HereType, ConstantsAssumption DEF UnusedIds, Event, Op, HubView, Store
<1>3. [op[o] EXCEPT !.pc = "signed", !.event = e(id)] \in Op
  BY <1>2, HereType, ZenonT(40) DEF Op
<1> QED BY <1>1, <1>3 DEF Sign, TypeOK

LEMMA CheckIndexType == ASSUME TypeOK, NEW o \in Ops, CheckIndex(o) PROVE TypeOK'
<1>1. [op[o] EXCEPT !.pc = "publishing", !.sent = TRUE] \in Op
  BY HereType, ZenonT(40) DEF Op
<1> QED BY <1>1 DEF CheckIndex, TypeOK

LEMMA DeliverType ==
  ASSUME TypeOK, NEW o \in Ops, NEW r \in Relays, Deliver(o, r)
  PROVE  TypeOK'
<1>1. op[o].event \in Event /\ [op[o] EXCEPT !.reached = @ \cup {r}] \in Op
  BY HereType DEF Op
<1> QED BY <1>1 DEF Deliver, TypeOK

\* The store a mutation leaves.
LEMMA AdvancedType ==
  ASSUME TypeOK, NEW o \in Ops, NEW created \in Nat
  PROVE  Advanced(o, created) \in Store
<1> DEFINE p == op[o]
           hub == [index |-> p.new, created |-> created,
                   epoch |-> IF Rotates(o) THEN p.hub.epoch + 1 ELSE p.hub.epoch]
           secret == IF Rotates(o) THEN p.new.secret ELSE Here(o).secret
           members == CASE p.kind = "admit" -> Here(o).members \cup {p.who}
                        [] p.kind = "readd" -> Here(o).members \cup (p.new.members \ p.hub.index.members)
                        [] p.kind = "roles" -> p.roster
                        [] Kicks(o) -> p.roster \ {p.who}
                        [] OTHER -> Here(o).members
           bans == IF p.kind \in {"unban", "readd"} THEN p.new.bans ELSE Here(o).bans
<1>1. /\ p.new \in Index /\ p.hub.epoch \in Nat /\ Here(o) \in Store
      /\ p.who \in Members /\ p.roster \in SUBSET Members
  BY HereType DEF Op, HubView
<1>2. p.new.secret \in Nat /\ p.new.members \in SUBSET Members /\ p.new.bans \in SUBSET Members
  BY <1>1 DEF Index
<1>3. hub \in HubView
  BY <1>1 DEF HubView
<1>4. secret \in Nat
  BY <1>1, <1>2 DEF Store
<1>5. members \in SUBSET Members
  BY <1>1, <1>2 DEF Store
<1>6. bans \in SUBSET Members
  BY <1>1, <1>2 DEF Store
<1>7. Advanced(o, created) = [Here(o) EXCEPT !.hub = hub, !.secret = secret,
                                             !.members = members, !.bans = bans]
  BY DEF Advanced
<1> QED BY <1>1, <1>3, <1>4, <1>5, <1>6, <1>7 DEF Store

LEMMA SupersededType ==
  ASSUME TypeOK, NEW o \in Ops, NEW g \in BOOLEAN
  PROVE  Superseded(o, g) \subseteq BlobName
  BY HereType DEF Superseded, Op, HubView, Index

LEMMA CommitType == ASSUME TypeOK, LockHeld, NEW o \in Ops, Commit(o) PROVE TypeOK'
<1>1. op[o].event.created \in Nat
  BY HereType DEF Op, Event
<1>2. Advanced(o, op[o].event.created) \in Store
  BY <1>1, AdvancedType
<1> QED BY <1>2, SupersededType, EndType, HereType DEF Commit, TypeOK

LEMMA SwallowErrorType == ASSUME TypeOK, LockHeld, NEW o \in Ops, SwallowError(o) PROVE TypeOK'
<1>1. Advanced(o, op[o].hub.created) \in Store
  BY AdvancedType, HereType DEF HubView
<1> QED BY <1>1, EndType DEF SwallowError, TypeOK

\* The ends that leave the store alone.
LEMMA QuietEndType ==
  ASSUME TypeOK, LockHeld, NEW o \in Ops,
         NothingToDo(o) \/ Conflict(o) \/ GiveUp(o) \/ Abort(o)
  PROVE  TypeOK'
<1>1. /\ op[o].pc \in Active
      /\ \E result \in Final : End(o, result)
      /\ UNCHANGED <<relay, blossom, trash, store, reader, uploads>>
  BY DEF NothingToDo, ListsBans, Conflict, GiveUp, Abort
<1> QED BY <1>1, EndType DEF TypeOK

LEMMA DeleteType == ASSUME TypeOK, NEW b, Delete(b) PROVE TypeOK'
  BY DEF Delete, TypeOK

-----------------------------------------------------------------------------
(* The subscription handler.                                                *)

LEMMA ReaderFieldType ==
  ASSUME TypeOK, NEW d \in Devices
  PROVE  /\ store[d] \in Store /\ reader[d] \in Reader
         /\ reader[d].event \in Event /\ reader[d].event.index \in Index
  BY DEF TypeOK, Reader, Event

LEMMA ReaderPickType ==
  ASSUME TypeOK, NEW d \in Devices, NEW r \in Relays, ReaderPick(d, r)
  PROVE  TypeOK'
<1>1. relay[r] \in Event /\ Larger(store[d].latest, relay[r].created) \in Nat
  BY ReaderFieldType DEF TypeOK, Event, Store, Larger
<1>2. [store[d] EXCEPT !.latest = Larger(@, relay[r].created)] \in Store
  BY <1>1, ReaderFieldType DEF Store
<1>3. [reader[d] EXCEPT !.phase = "pending", !.event = relay[r]] \in Reader
  BY <1>1, ReaderFieldType DEF Reader
<1>4. /\ store' = [store EXCEPT ![d] = [store[d] EXCEPT !.latest = Larger(@, relay[r].created)]]
      /\ reader' = [reader EXCEPT ![d] = [reader[d] EXCEPT !.phase = "pending", !.event = relay[r]]]
  BY DEF ReaderPick, TypeOK
<1> QED BY <1>2, <1>3, <1>4 DEF ReaderPick, TypeOK

LEMMA ResubscribeType == ASSUME TypeOK, NEW d \in Devices, Resubscribe(d) PROVE TypeOK'
<1>1. [store[d] EXCEPT !.latest = store[d].hub.created] \in Store
  BY ReaderFieldType DEF Store, HubView
<1>2. [reader[d] EXCEPT !.phase = IF @ = "pending" THEN "idle" ELSE @] \in Reader
  BY ReaderFieldType DEF Reader
<1> QED BY <1>1, <1>2 DEF Resubscribe, TypeOK

LEMMA ReaderRefuseType == ASSUME TypeOK, NEW d \in Devices, ReaderRefuse(d) PROVE TypeOK'
<1>1. [reader[d] EXCEPT !.phase = "idle"] \in Reader
  BY ReaderFieldType DEF Reader
<1> QED BY <1>1 DEF ReaderRefuse, TypeOK

LEMMA ReaderLoadType == ASSUME TypeOK, NEW d \in Devices, ReaderLoad(d) PROVE TypeOK'
<1> DEFINE e == reader[d].event
           bans == IF BansReadable(e.index, e.index.secret) THEN e.index.bans ELSE store[d].bans
           loaded == [store[d] EXCEPT !.secret = e.index.secret, !.mark = Larger(@, e.epoch),
                                      !.members = e.index.members, !.bans = bans]
<1>1. /\ e.index.secret \in Nat /\ Larger(store[d].mark, e.epoch) \in Nat
      /\ e.index.members \in SUBSET Members /\ bans \in SUBSET Members
  BY ReaderFieldType DEF Index, Event, Store, Larger
<1>2. loaded \in Store
  BY <1>1, ReaderFieldType DEF Store
<1>3. [reader[d] EXCEPT !.phase = "loaded", !.secret = e.index.secret] \in Reader
  BY <1>1, ReaderFieldType DEF Reader
<1>4. /\ store' = [store EXCEPT ![d] = loaded]
      /\ UNCHANGED <<relay, blossom, trash, chain, op, uploads>>
  BY DEF ReaderLoad
<1>5. reader' = [reader EXCEPT ![d] = [reader[d] EXCEPT !.phase = "loaded",
                                                        !.secret = e.index.secret]]
  BY DEF ReaderLoad, TypeOK
<1> HIDE DEF loaded
<1> QED BY <1>2, <1>3, <1>4, <1>5 DEF TypeOK

LEMMA ReaderSkipType == ASSUME TypeOK, NEW d \in Devices, ReaderSkip(d) PROVE TypeOK'
<1>1. [reader[d] EXCEPT !.phase = "loaded", !.secret = store[d].secret] \in Reader
  BY ReaderFieldType DEF Reader, Store
<1>2. reader' = [reader EXCEPT ![d] = [reader[d] EXCEPT !.phase = "loaded",
                                                        !.secret = store[d].secret]]
  BY DEF ReaderSkip, TypeOK
<1> QED BY <1>1, <1>2 DEF ReaderSkip, TypeOK

LEMMA ReaderInstallType == ASSUME TypeOK, NEW d \in Devices, ReaderInstall(d) PROVE TypeOK'
<1> DEFINE e == reader[d].event
           installed == [store[d] EXCEPT !.hub = ViewOf(e),
                            !.secret = IF reader[d].secret \in {0, e.key} THEN @ ELSE 0]
<1>1. installed \in Store
  BY ReaderFieldType, ViewType DEF Store
<1>2. [reader[d] EXCEPT !.phase = "idle"] \in Reader
  BY ReaderFieldType DEF Reader
<1>3. /\ store' = [store EXCEPT ![d] = installed]
      /\ UNCHANGED <<relay, blossom, trash, chain, op, uploads>>
  BY DEF ReaderInstall
<1>4. reader' = [reader EXCEPT ![d] = [reader[d] EXCEPT !.phase = "idle"]]
  BY DEF ReaderInstall, TypeOK
<1> HIDE DEF installed
<1> QED BY <1>1, <1>2, <1>3, <1>4 DEF TypeOK

LEMMA StepType == TypeOK /\ LockHeld /\ [Next]_vars => TypeOK'
<1> SUFFICES ASSUME TypeOK, LockHeld, [Next]_vars PROVE TypeOK'
  OBVIOUS
<1>1. CASE UNCHANGED vars
  BY <1>1 DEF vars, TypeOK
<1>2. ASSUME NEW o \in Ops, Click(o) \/ Step(o) PROVE TypeOK'
  BY <1>2, ClickType, TakeTurnType, ReadBansType, BuildAdmitType, BuildBanType, BuildKickType,
     BuildFixType, BuildUnbanType, BuildReaddType, BuildRolesType, RepublishType, SignType,
     CheckIndexType, CommitType, SwallowErrorType, QuietEndType DEF Step
<1>3. ASSUME NEW o \in Ops, NEW r \in Relays, Deliver(o, r) PROVE TypeOK'
  BY <1>3, DeliverType
<1>4. ASSUME NEW d \in Online, Listen(d) PROVE TypeOK'
  BY <1>4, ConstantsAssumption, ReaderPickType, ResubscribeType, ReaderRefuseType,
     ReaderLoadType, ReaderSkipType, ReaderInstallType DEF Listen
<1>5. ASSUME NEW b \in trash, Delete(b) PROVE TypeOK'
  BY <1>5, DeleteType
<1> QED BY <1>1, <1>2, <1>3, <1>4, <1>5 DEF Next

-----------------------------------------------------------------------------
(* The lock: on one device at most one mutation is active, the head of the  *)
(* queue.                                                                    *)

LEMMA InitLockHeld == Init => LockHeld
  BY DEF Init, LockHeld

\* A step of the active mutation that keeps the lock.
LEMMA KeepLock ==
  ASSUME TypeOK, LockHeld, NEW o \in Ops, HasLock(o), UNCHANGED chain,
         \A p \in Ops : p # o => op'[p].pc = op[p].pc
  PROVE  LockHeld'
  BY DEF LockHeld, HasLock

\* The step that ends the mutation releases the lock: nobody else was active.
LEMMA ReleaseLock ==
  ASSUME TypeOK, LockHeld, NEW o \in Ops, op[o].pc \in Active,
         NEW result \in Final, End(o, result)
  PROVE  LockHeld'
<1> SUFFICES ASSUME NEW p \in Ops, op'[p].pc \in Active
             PROVE  HasLock(p)'
  BY DEF LockHeld
<1>1. op'[o].pc = result /\ \A q \in Ops : q # o => op'[q].pc = op[q].pc
  BY HereType DEF End, TypeOK, Op
<1>2. p # o /\ op[p].pc \in Active
  BY <1>1
<1>3. DeviceOf[p] # DeviceOf[o]
  BY <1>2 DEF LockHeld, HasLock
<1>4. chain'[DeviceOf[p]] = chain[DeviceOf[p]]
  BY <1>3, HereType DEF End, Release, TypeOK
<1> QED BY <1>2, <1>4 DEF LockHeld, HasLock

LEMMA ClickLock == ASSUME TypeOK, LockHeld, NEW o \in Ops, Click(o) PROVE LockHeld'
<1> SUFFICES ASSUME NEW p \in Ops, op'[p].pc \in Active
             PROVE  HasLock(p)'
  BY DEF LockHeld
<1>1. op'[o].pc = "queued" /\ \A q \in Ops : q # o => op'[q].pc = op[q].pc
  BY DEF Click, TypeOK, Op
<1>2. HasLock(p)
  BY <1>1 DEF LockHeld
<1>3. /\ chain[DeviceOf[p]] \in Seq(Ops) /\ chain[DeviceOf[p]] # <<>>
      /\ \/ chain'[DeviceOf[p]] = chain[DeviceOf[p]]
         \/ chain'[DeviceOf[p]] = Append(chain[DeviceOf[p]], o)
  BY <1>2, HereType DEF Click, TypeOK, HasLock
<1> QED BY <1>2, <1>3 DEF HasLock

LEMMA StepLockHeld == TypeOK /\ LockHeld /\ [Next]_vars => LockHeld'
<1> SUFFICES ASSUME TypeOK, LockHeld, [Next]_vars PROVE LockHeld'
  OBVIOUS
<1>1. CASE UNCHANGED vars
  BY <1>1 DEF vars, LockHeld, HasLock
<1>2. ASSUME NEW o \in Ops, Click(o) PROVE LockHeld'
  BY <1>2, ClickLock
<1>3. ASSUME NEW o \in Ops,
             \/ TakeTurn(o) \/ ReadBans(o)
             \/ BuildAdmit(o) \/ BuildBan(o) \/ BuildKick(o) \/ BuildFix(o)
             \/ BuildUnban(o) \/ BuildReadd(o) \/ BuildRoles(o)
             \/ Republish(o) \/ Sign(o) \/ CheckIndex(o)
      PROVE  LockHeld'
  <2>1. UNCHANGED chain /\ \A p \in Ops : p # o => op'[p].pc = op[p].pc
    BY <1>3 DEF TypeOK, TakeTurn, ReadBans, BuildAdmit, BuildBan, BuildKick, BuildFix,
                BuildUnban, BuildReadd, BuildRoles, Built, Republish, Sign, CheckIndex
  <2>2. HasLock(o)
    <3>1. CASE TakeTurn(o)
      BY <3>1 DEF TakeTurn
    <3>2. CASE ~TakeTurn(o)
      <4>1. op[o].pc \in Active
        BY <1>3, <3>2 DEF ReadBans, ListsBans, BuildAdmit, BuildBan, BuildKick, BuildFix,
                   BuildUnban, BuildReadd, BuildRoles, Republish, Sign, CheckIndex
      <4> QED BY <4>1 DEF LockHeld
    <3> QED BY <3>1, <3>2
  <2> QED BY <2>1, <2>2, KeepLock
<1>4. ASSUME NEW o \in Ops,
             \/ NothingToDo(o) \/ Conflict(o) \/ Commit(o) \/ SwallowError(o)
             \/ GiveUp(o) \/ Abort(o)
      PROVE  LockHeld'
  <2>1. op[o].pc \in Active /\ \E result \in Final : End(o, result)
    BY <1>4 DEF NothingToDo, ListsBans, Conflict, Commit, SwallowError, GiveUp, Abort
  <2> QED BY <2>1, ReleaseLock
<1>5. ASSUME NEW o \in Ops, NEW r \in Relays, Deliver(o, r) PROVE LockHeld'
  <2>1. UNCHANGED chain /\ \A p \in Ops : op'[p].pc = op[p].pc
    BY <1>5 DEF Deliver, TypeOK, Op
  <2> QED BY <2>1 DEF LockHeld, HasLock
<1>6. ASSUME NEW d \in Online, Listen(d) PROVE LockHeld'
  <2>1. UNCHANGED <<chain, op>>
    BY <1>6 DEF Listen, ReaderPick, Resubscribe, ReaderRefuse, ReaderLoad, ReaderSkip,
                ReaderInstall
  <2> QED BY <2>1 DEF LockHeld, HasLock
<1>7. ASSUME NEW b \in trash, Delete(b) PROVE LockHeld'
  BY <1>7 DEF Delete, LockHeld, HasLock
<1> QED BY <1>1, <1>2, <1>3, <1>4, <1>5, <1>6, <1>7 DEF Next, Step

LEMMA TypeAndLock == Spec => [](TypeOK /\ LockHeld)
<1>1. Init => TypeOK /\ LockHeld
  BY InitType, InitLockHeld
<1>2. TypeOK /\ LockHeld /\ [Next]_vars => (TypeOK /\ LockHeld)'
  BY StepType, StepLockHeld
<1> QED BY <1>1, <1>2, PTL DEF Spec

\* Every variable keeps its type: no handler reads a field that nobody wrote, and
\* no handler releases a lock that it does not hold (hubMutationGuard.ts).
THEOREM TypeCorrect == Spec => []TypeOK
  BY TypeAndLock, PTL

-----------------------------------------------------------------------------
(* What a step changes, field by field.                                     *)

Others(o) == \A p \in Ops : p # o => op'[p] = op[p]

\* The mutation goes on with the base, the index or the event that it had.
KeepsBase(o) == /\ op'[o].kind = op[o].kind /\ op'[o].who = op[o].who
                /\ op'[o].seen = op[o].seen /\ op'[o].hub = op[o].hub

KeepsNew(o) == op'[o].new = op[o].new /\ op'[o].roster = op[o].roster

KeepsEvent(o) == /\ op'[o].event = op[o].event /\ op'[o].sent = op[o].sent
                 /\ op'[o].reached = op[o].reached

Builds(o) == \/ BuildAdmit(o) \/ BuildBan(o) \/ BuildKick(o) \/ BuildFix(o)
             \/ BuildUnban(o) \/ BuildReadd(o) \/ BuildRoles(o)

Sends(o) == Republish(o) \/ Sign(o) \/ CheckIndex(o)

Drops(o) == NothingToDo(o) \/ Conflict(o) \/ GiveUp(o) \/ Abort(o)

LEMMA StepKinds ==
  ASSUME NEW o \in Ops
  PROVE  Step(o) <=> \/ TakeTurn(o) \/ ReadBans(o) \/ Builds(o) \/ Sends(o) \/ Drops(o)
                     \/ Commit(o) \/ SwallowError(o)
  BY DEF Step, Builds, Sends, Drops

LEMMA ClickEffect ==
  ASSUME TypeOK, NEW o \in Ops, Click(o)
  PROVE  /\ op[o].pc = "idle" /\ op'[o].pc = "queued" /\ Others(o)
         /\ op'[o].seen = Here(o).hub /\ op'[o].hub = op[o].hub /\ op'[o].new = op[o].new
         /\ op'[o].kind \in Kinds /\ KeepsEvent(o)
         /\ UNCHANGED <<relay, blossom, trash, store, reader, uploads>>
<1>1. PICK kind \in Kinds, m \in Members :
         op' = [op EXCEPT ![o] = [@ EXCEPT !.pc = "queued", !.kind = kind, !.who = m,
                   !.seen = Here(o).hub, !.seenSecret = Here(o).secret, !.roster = Here(o).members]]
  BY DEF Click
<1> QED BY <1>1 DEF TypeOK, Op, Others, KeepsEvent, Click

LEMMA TurnEffect ==
  ASSUME TypeOK, NEW o \in Ops, TakeTurn(o)
  PROVE  /\ op[o].pc = "queued" /\ op'[o].pc = "read" /\ Others(o)
         /\ op'[o].kind = op[o].kind /\ op'[o].who = op[o].who /\ op'[o].seen = op[o].seen
         /\ op'[o].hub = (IF op[o].kind \in ClosureKinds THEN op[o].seen ELSE Here(o).hub)
         /\ KeepsNew(o) /\ KeepsEvent(o)
         /\ UNCHANGED <<relay, blossom, trash, store, reader, uploads>>
  BY DEF TakeTurn, TypeOK, Op, Others, KeepsNew, KeepsEvent

LEMMA ListEffect ==
  ASSUME TypeOK, NEW o \in Ops, ReadBans(o)
  PROVE  /\ op[o].pc = "read" /\ op'[o].pc = "listed" /\ Others(o)
         /\ KeepsBase(o) /\ KeepsEvent(o) /\ op'[o].new = op[o].new
         /\ \A d \in Devices : store'[d].hub = store[d].hub
         /\ UNCHANGED <<relay, blossom, trash, reader, uploads>>
<1>1. \A d \in Devices : store'[d].hub = store[d].hub
  BY DEF ReadBans, TypeOK, Store
<1>2. /\ op'[o].pc = "listed" /\ Others(o) /\ KeepsBase(o) /\ KeepsEvent(o)
      /\ op'[o].new = op[o].new
  BY DEF ReadBans, TypeOK, Op, Others, KeepsBase, KeepsEvent
<1> QED BY <1>1, <1>2 DEF ReadBans, ListsBans

\* Building: the new index descends from the base and names blobs just uploaded.
LEMMA BuiltEffect ==
  ASSUME TypeOK, NEW o \in Ops, NEW new, NEW oldSecret, Built(o, new, oldSecret)
  PROVE  /\ op'[o].pc = "built" /\ Others(o) /\ op'[o].new = new
         /\ KeepsBase(o) /\ op'[o].roster = op[o].roster /\ KeepsEvent(o)
         /\ uploads' = Fresh
         /\ blossom' = blossom \cup (Named(new) \cap ({"index", "tree"} \X {Fresh}))
         /\ UNCHANGED <<relay, trash, store, reader>>
  BY DEF Built, TypeOK, Op, Others, KeepsBase, KeepsEvent

\* Whichever handler builds.
LEMMA BuildEffect ==
  ASSUME TypeOK, NEW o \in Ops, Builds(o)
  PROVE  /\ op[o].pc \in {"read", "listed"}
         /\ op'[o].pc = "built" /\ Others(o)
         /\ op'[o].new.id = Fresh
         /\ op'[o].new.lineage = op[o].hub.index.lineage \cup {Fresh}
         /\ KeepsBase(o) /\ op'[o].roster = op[o].roster /\ KeepsEvent(o)
         /\ uploads' = Fresh
         /\ blossom' = blossom \cup (Named(op'[o].new) \cap ({"index", "tree"} \X {Fresh}))
         /\ UNCHANGED <<relay, trash, store, reader>>
<1> DEFINE idx == op[o].hub.index
<1>1. idx \in Index
  BY HereType
<1>2. PICK new, oldSecret : /\ Built(o, new, oldSecret)
                            /\ new.id = Fresh /\ new.lineage = idx.lineage \cup {Fresh}
  <2>1. CASE BuildAdmit(o)
    <3> DEFINE new == [Descendant(idx) EXCEPT !.tree = Fresh, !.bans = {},
                                              !.members = @ \cup {op[o].who}]
    <3>1. Built(o, new, 0)
      BY <2>1 DEF BuildAdmit
    <3>2. new.id = Fresh /\ new.lineage = idx.lineage \cup {Fresh}
      BY <1>1 DEF Rotated, Descendant, Index
    <3> HIDE DEF new
    <3> QED BY <3>1, <3>2
  <2>2. CASE BuildBan(o)
    <3> DEFINE new == [Descendant(idx) EXCEPT !.bans = op[o].bans, !.banKey = Here(o).secret]
    <3>1. Built(o, new, 0)
      BY <2>2 DEF BuildBan
    <3>2. new.id = Fresh /\ new.lineage = idx.lineage \cup {Fresh}
      BY <1>1 DEF Rotated, Descendant, Index
    <3> HIDE DEF new
    <3> QED BY <3>1, <3>2
  <2>3. CASE BuildKick(o)
    <3> DEFINE new == [Rotated(idx, op[o]) EXCEPT !.bans = op[o].bans, !.members = @ \ {op[o].who},
                           !.hist = HistoryAfter(@, Here(o).secret)]
    <3>1. Built(o, new, Here(o).secret)
      BY <2>3 DEF BuildKick
    <3>2. new.id = Fresh /\ new.lineage = idx.lineage \cup {Fresh}
      BY <1>1 DEF Rotated, Descendant, Index
    <3> HIDE DEF new
    <3> QED BY <3>1, <3>2
  <2>4. CASE BuildFix(o)
    <3> DEFINE new(reread) == [Rotated(idx, op[o]) EXCEPT !.members = Here(o).members,
                   !.hist = HistoryAfter(IF reread THEN @ ELSE {}, op[o].seenSecret)]
    <3>1. PICK reread \in BOOLEAN : Built(o, new(reread), op[o].seenSecret)
      BY <2>4 DEF BuildFix
    <3>2. new(reread).id = Fresh /\ new(reread).lineage = idx.lineage \cup {Fresh}
      BY <1>1 DEF Rotated, Descendant, Index
    <3> HIDE DEF new
    <3> QED BY <3>1, <3>2
  <2>5. CASE BuildUnban(o)
    <3> DEFINE new(got) == [Kept(idx, got) EXCEPT !.bans = idx.bans \ {op[o].who},
                                                  !.banKey = Here(o).secret]
    <3>1. PICK got \in BOOLEAN : Built(o, new(got), 0)
      BY <2>5 DEF BuildUnban
    <3>2. new(got).id = Fresh /\ new(got).lineage = idx.lineage \cup {Fresh}
      BY <1>1 DEF Kept, Descendant, Index
    <3> HIDE DEF new
    <3> QED BY <3>1, <3>2
  <2>6. CASE BuildReadd(o)
    <3> DEFINE new(got, added) == [Kept(idx, got) EXCEPT
                              !.bans = idx.bans \ {op[o].who}, !.banKey = Here(o).secret,
                              !.tree = IF @ = 0 THEN 0 ELSE Fresh,
                              !.members = IF got /\ idx.tree # 0 /\ added
                                          THEN @ \cup {op[o].who} ELSE @]
    <3>1. PICK got \in BOOLEAN, added \in BOOLEAN : Built(o, new(got, added), 0)
      BY <2>6 DEF BuildReadd
    <3>2. new(got, added).id = Fresh /\ new(got, added).lineage = idx.lineage \cup {Fresh}
      BY <1>1 DEF Kept, Descendant, Index
    <3> HIDE DEF new
    <3> QED BY <3>1, <3>2
  <2>7. CASE BuildRoles(o)
    <3> DEFINE new == [Descendant(idx) EXCEPT !.tree = Fresh]
    <3>1. Built(o, new, 0)
      BY <2>7 DEF BuildRoles
    <3>2. new.id = Fresh /\ new.lineage = idx.lineage \cup {Fresh}
      BY <1>1 DEF Rotated, Descendant, Index
    <3> HIDE DEF new
    <3> QED BY <3>1, <3>2
  <2> QED BY <2>1, <2>2, <2>3, <2>4, <2>5, <2>6, <2>7 DEF Builds
<1>3. op[o].pc \in {"read", "listed"}
  BY DEF Builds, BuildAdmit, BuildBan, BuildKick, BuildFix, BuildUnban, BuildReadd, BuildRoles
<1> QED BY <1>2, <1>3, BuiltEffect

\* What the handlers that clone make of a base, by kind.
LEMMA CloningBuild ==
  ASSUME TypeOK, NEW o \in Ops, Builds(o), op[o].kind \notin RebuildKinds
  PROVE  LET idx == op[o].hub.index
             new == op'[o].new
         IN \/ /\ op[o].kind = "admit" /\ op[o].pc = "read"
               /\ new.tree = Fresh /\ new.secret = idx.secret /\ new.hist = idx.hist
               /\ new.members = idx.members \cup {op[o].who} /\ new.bans = {}
            \/ /\ op[o].kind = "ban" /\ ~Kicks(o) /\ op[o].pc = "listed" /\ new.bans = op[o].bans
               /\ new.tree = idx.tree /\ new.secret = idx.secret /\ new.hist = idx.hist
               /\ new.members = idx.members
            \/ /\ Kicks(o) /\ op[o].kind # "admit" /\ op[o].pc = "listed" /\ new.bans = op[o].bans
               /\ new.tree = Fresh /\ new.secret = Fresh
               /\ new.hist = idx.hist \cup {idx.secret, Fresh}
               /\ new.members = idx.members \ {op[o].who}
            \/ /\ op[o].kind = "fix" /\ ~Kicks(o) /\ new.tree = Fresh /\ new.secret = Fresh
<1> DEFINE idx == op[o].hub.index
<1>1. idx \in Index
  BY HereType
<1>2. CASE BuildAdmit(o)
  <2> DEFINE new == [Descendant(idx) EXCEPT !.tree = Fresh, !.bans = {},
                                            !.members = @ \cup {op[o].who}]
  <2>1. op'[o].new = new /\ op[o].kind = "admit" /\ op[o].pc = "read"
    BY <1>2, BuiltEffect DEF BuildAdmit
  <2>2. /\ new.tree = Fresh /\ new.secret = idx.secret /\ new.hist = idx.hist
        /\ new.members = idx.members \cup {op[o].who} /\ new.bans = {}
    BY <1>1 DEF Descendant, Index
  <2> HIDE DEF new
  <2> QED BY <2>1, <2>2
<1>3. CASE BuildBan(o)
  <2> DEFINE new == [Descendant(idx) EXCEPT !.bans = op[o].bans, !.banKey = Here(o).secret]
  <2>1. op'[o].new = new /\ op[o].kind = "ban" /\ ~Kicks(o) /\ op[o].pc = "listed"
    BY <1>3, BuiltEffect DEF BuildBan
  <2>2. /\ new.tree = idx.tree /\ new.secret = idx.secret /\ new.hist = idx.hist
        /\ new.members = idx.members /\ new.bans = op[o].bans
    BY <1>1 DEF Descendant, Index
  <2> HIDE DEF new
  <2> QED BY <2>1, <2>2
<1>4. CASE BuildKick(o)
  <2> DEFINE new == [Rotated(idx, op[o]) EXCEPT !.bans = op[o].bans, !.members = @ \ {op[o].who},
                         !.hist = HistoryAfter(@, Here(o).secret)]
  <2>1. op'[o].new = new /\ Kicks(o) /\ Here(o).secret = idx.secret /\ op[o].pc = "listed"
    BY <1>4, BuiltEffect DEF BuildKick, TreeReadable
  <2>2. /\ new.tree = Fresh /\ new.secret = Fresh
        /\ new.hist = idx.hist \cup {Here(o).secret, Fresh}
        /\ new.members = idx.members \ {op[o].who} /\ new.bans = op[o].bans
    BY <1>1 DEF Rotated, Descendant, Index, HistoryAfter
  <2>3. op[o].kind # "admit"
    BY <2>1 DEF Kicks
  <2> HIDE DEF new
  <2> QED BY <2>1, <2>2, <2>3
<1>5. CASE BuildFix(o)
  <2> DEFINE new(reread) == [Rotated(idx, op[o]) EXCEPT !.members = Here(o).members,
                 !.hist = HistoryAfter(IF reread THEN @ ELSE {}, op[o].seenSecret)]
  <2>1. PICK reread \in BOOLEAN : Built(o, new(reread), op[o].seenSecret)
    BY <1>5 DEF BuildFix
  <2>2. new(reread).tree = Fresh /\ new(reread).secret = Fresh
    BY <1>1 DEF Rotated, Descendant, Index
  <2>3. op[o].kind = "fix" /\ ~Kicks(o)
    BY <1>5 DEF BuildFix, Kicks
  <2> HIDE DEF new
  <2> QED BY <2>1, <2>2, <2>3, BuiltEffect
<1>6. ~BuildUnban(o) /\ ~BuildReadd(o) /\ ~BuildRoles(o)
  BY DEF BuildUnban, BuildReadd, BuildRoles, RebuildKinds
<1> QED BY <1>2, <1>3, <1>4, <1>5, <1>6 DEF Builds

LEMMA RepublishEffect ==
  ASSUME TypeOK, NEW o \in Ops, Republish(o)
  PROVE  /\ op[o].pc = "built" /\ op'[o].pc = "publishing" /\ Others(o)
         /\ KeepsBase(o) /\ KeepsNew(o) /\ op'[o].reached = op[o].reached
         /\ op'[o].sent = TRUE
         /\ \E r \in Relays : /\ relay[r].index = op[o].hub.index
                              /\ op'[o].event.index = op[o].new
                              /\ op'[o].event.created = relay[r].created + 1
         /\ UNCHANGED <<relay, blossom, trash, store, reader, uploads>>
<1>1. PICK r \in Relays, id \in UnusedIds :
         /\ SameBase(o, relay[r])
         /\ op' = [op EXCEPT ![o] = [@ EXCEPT !.pc = "publishing", !.sent = TRUE,
                                              !.event = Successor(o, relay[r], id)]]
  BY DEF Republish
<1> DEFINE e == Successor(o, relay[r], id)
<1>2. e.index = op[o].new /\ e.created = relay[r].created + 1
  BY DEF Successor
<1>3. op'[o].event = e
  BY <1>1 DEF TypeOK, Op
<1>4. /\ op'[o].pc = "publishing" /\ Others(o) /\ KeepsBase(o) /\ KeepsNew(o)
      /\ op'[o].sent = TRUE /\ op'[o].reached = op[o].reached
  BY <1>1 DEF TypeOK, Op, Others, KeepsBase, KeepsNew
<1> HIDE DEF e
<1> QED BY <1>1, <1>2, <1>3, <1>4 DEF Republish, SameBase

LEMMA SendEffect ==
  ASSUME TypeOK, NEW o \in Ops, Sends(o)
  PROVE  /\ op[o].pc \in {"built", "signed"} /\ op'[o].pc \in {"signed", "publishing"} /\ Others(o)
         /\ KeepsBase(o) /\ KeepsNew(o) /\ op'[o].reached = op[o].reached
         /\ op'[o].event.index \in {op[o].new, op[o].event.index}
         /\ UNCHANGED <<relay, blossom, trash, store, reader, uploads>>
<1>1. CASE Republish(o)
  BY <1>1, RepublishEffect
<1>2. CASE Sign(o)
  <2> DEFINE e(id) == [index |-> op[o].new, epoch |-> op[o].hub.epoch,
                       key |-> Here(o).secret, created |-> op[o].hub.created + 1, id |-> id]
  <2>1. PICK id \in UnusedIds :
           op' = [op EXCEPT ![o] = [@ EXCEPT !.pc = "signed", !.event = e(id)]]
    BY <1>2 DEF Sign
  <2>2. e(id).index = op[o].new
    OBVIOUS
  <2> HIDE DEF e
  <2> QED BY <1>2, <2>1, <2>2 DEF TypeOK, Op, Others, KeepsBase, KeepsNew, Sign
<1>3. CASE CheckIndex(o)
  BY <1>3 DEF CheckIndex, TypeOK, Op, Others, KeepsBase, KeepsNew
<1> QED BY <1>1, <1>2, <1>3 DEF Sends

\* An end changes nothing of the mutation but where it is.
LEMMA EndEffect ==
  ASSUME TypeOK, NEW o \in Ops, NEW result \in Final, End(o, result)
  PROVE  op'[o].pc = result /\ Others(o) /\ KeepsBase(o) /\ KeepsNew(o) /\ KeepsEvent(o)
  BY DEF End, TypeOK, Op, Others, KeepsBase, KeepsNew, KeepsEvent

LEMMA DropEffect ==
  ASSUME TypeOK, NEW o \in Ops, Drops(o)
  PROVE  /\ op[o].pc \in Active /\ op'[o].pc \in Final \ {"done"} /\ Others(o)
         /\ KeepsBase(o) /\ KeepsNew(o) /\ KeepsEvent(o)
         /\ op[o].pc = "publishing" => op'[o].pc = "failed"
         /\ UNCHANGED <<relay, blossom, trash, store, reader, uploads>>
<1>1. CASE NothingToDo(o)
  <2>1. End(o, "noop") /\ op[o].pc = "read"
    BY <1>1 DEF NothingToDo, ListsBans
  <2> QED BY <1>1, <2>1, EndEffect DEF NothingToDo
<1>2. CASE Conflict(o)
  <2>1. End(o, "conflict") /\ op[o].pc \in {"built", "signed"}
    BY <1>2 DEF Conflict
  <2> QED BY <1>2, <2>1, EndEffect DEF Conflict
<1>3. CASE GiveUp(o)
  <2>1. End(o, "failed") /\ op[o].pc = "publishing"
    BY <1>3 DEF GiveUp
  <2> QED BY <1>3, <2>1, EndEffect DEF GiveUp
<1>4. CASE Abort(o)
  <2>1. End(o, "failed") /\ op[o].pc \in Active
    BY <1>4 DEF Abort
  <2> QED BY <1>4, <2>1, EndEffect DEF Abort
<1> QED BY <1>1, <1>2, <1>3, <1>4 DEF Drops

\* The store that a commit leaves.
LEMMA AdvancedFacts ==
  ASSUME TypeOK, NEW o \in Ops, NEW created,
         store' = [store EXCEPT ![DeviceOf[o]] = Advanced(o, created)]
  PROVE  /\ store'[DeviceOf[o]].hub.index = op[o].new
         /\ store'[DeviceOf[o]].hub.created = created
         /\ \A d \in Devices : d # DeviceOf[o] => store'[d] = store[d]
<1>1. Advanced(o, created).hub.index = op[o].new /\ Advanced(o, created).hub.created = created
  BY HereType DEF Advanced, Store
<1> QED BY <1>1, HereType DEF TypeOK

LEMMA CommitEffect ==
  ASSUME TypeOK, NEW o \in Ops, Commit(o)
  PROVE  /\ op[o].pc = "publishing" /\ op'[o].pc = "done" /\ Others(o) /\ Published(o)
         /\ KeepsBase(o) /\ KeepsNew(o) /\ KeepsEvent(o)
         /\ store'[DeviceOf[o]].hub.index = op[o].new
         /\ store'[DeviceOf[o]].hub.created = op[o].event.created
         /\ \A d \in Devices : d # DeviceOf[o] => store'[d] = store[d]
         /\ \E g \in BOOLEAN : trash' = trash \cup Superseded(o, g)
         /\ UNCHANGED <<relay, blossom, reader, uploads>>
  BY EndEffect, AdvancedFacts DEF Commit, Accepted, Published

LEMMA SwallowEffect ==
  ASSUME TypeOK, NEW o \in Ops, SwallowError(o)
  PROVE  /\ op[o].pc \in Active /\ op'[o].pc = "swallowed" /\ Others(o) /\ op[o].kind = "roles"
         /\ op[o].pc \notin {"read", "listed"}
         /\ KeepsBase(o) /\ KeepsNew(o) /\ KeepsEvent(o)
         /\ store'[DeviceOf[o]].hub.index = op[o].new
         /\ \A d \in Devices : d # DeviceOf[o] => store'[d] = store[d]
         /\ UNCHANGED <<relay, blossom, trash, reader, uploads>>
  BY EndEffect, AdvancedFacts DEF SwallowError, Swallows

LEMMA DeliverEffect ==
  ASSUME TypeOK, NEW o \in Ops, NEW r \in Relays, Deliver(o, r)
  PROVE  /\ op[o].sent /\ op'[o].pc = op[o].pc /\ Others(o) /\ KeepsBase(o) /\ KeepsNew(o)
         /\ op'[o].event = op[o].event /\ op'[o].sent = op[o].sent
         /\ op'[o].reached = op[o].reached \cup {r}
         /\ relay'[r] = op[o].event /\ relay[r].created <= op[o].event.created
         /\ \A q \in Relays : q # r => relay'[q] = relay[q]
         /\ UNCHANGED <<blossom, trash, store, reader, uploads>>
<1>1. /\ op[o].sent /\ op'[o].pc = op[o].pc /\ Others(o) /\ KeepsBase(o) /\ KeepsNew(o)
      /\ op'[o].event = op[o].event /\ op'[o].sent = op[o].sent
      /\ op'[o].reached = op[o].reached \cup {r}
  BY DEF Deliver, TypeOK, Op, Others, KeepsBase, KeepsNew
<1>2. /\ relay'[r] = op[o].event /\ \A q \in Relays : q # r => relay'[q] = relay[q]
  BY DEF Deliver, TypeOK
<1>3. relay[r].created <= op[o].event.created
  BY DEF Deliver, Supersedes, TypeOK, Op, Event
<1> QED BY <1>1, <1>2, <1>3 DEF Deliver

\* The subscription takes an event of a relay, shows what it took, or changes nothing
\* that the mutations see of a hub.
LEMMA ListenEffect ==
  ASSUME TypeOK, NEW d \in Devices, Listen(d)
  PROVE  /\ UNCHANGED <<relay, blossom, trash, op, uploads>>
         /\ \A e \in Devices :
               \/ reader'[e].event = reader[e].event
               \/ \E r \in Relays : reader'[e].event = relay[r]
         /\ \A e \in Devices :
               \/ store'[e].hub = store[e].hub
               \/ /\ reader[e].phase = "loaded"
                  /\ store'[e].hub.index = reader[e].event.index
                  /\ store'[e].hub.created = reader[e].event.created
<1>1. CASE \E r \in Relays : ReaderPick(d, r)
  BY <1>1 DEF ReaderPick, TypeOK, Reader, Store
<1>2. CASE Resubscribe(d)
  BY <1>2 DEF Resubscribe, TypeOK, Reader, Store
<1>3. CASE ReaderRefuse(d)
  BY <1>3 DEF ReaderRefuse, TypeOK, Reader
<1>4. CASE ReaderLoad(d)
  <2>1. reader' = [reader EXCEPT ![d].phase = "loaded", ![d].secret = reader[d].event.index.secret]
    BY <1>4 DEF ReaderLoad
  <2>2. \A e \in Devices : reader'[e].event = reader[e].event
    BY <2>1 DEF TypeOK, Reader
  <2>3. \A e \in Devices : store'[e].hub = store[e].hub
    BY <1>4 DEF ReaderLoad, TypeOK, Store
  <2> QED BY <1>4, <2>2, <2>3 DEF ReaderLoad
<1>5. CASE ReaderSkip(d)
  BY <1>5 DEF ReaderSkip, TypeOK, Reader
<1>6. CASE ReaderInstall(d)
  <2>1. \A e \in Devices : reader'[e].event = reader[e].event
    BY <1>6 DEF ReaderInstall, TypeOK, Reader
  <2>2. \A e \in Devices : e # d => store'[e] = store[e]
    BY <1>6 DEF ReaderInstall, TypeOK
  <2>3. store'[d].hub = ViewOf(reader[d].event) /\ reader[d].phase = "loaded"
    BY <1>6 DEF ReaderInstall, TypeOK, Store
  <2> QED BY <1>6, <2>1, <2>2, <2>3 DEF ReaderInstall, ViewOf
<1> QED BY <1>1, <1>2, <1>3, <1>4, <1>5, <1>6 DEF Listen

LEMMA DeleteEffect ==
  ASSUME NEW b, Delete(b)
  PROVE  /\ blossom' \ trash' = (blossom \ trash) \ {b} /\ b \in trash /\ trash' \subseteq trash
         /\ UNCHANGED <<relay, store, reader, op, uploads>>
  BY DEF Delete

\* No step but the building of an index touches an index.
Settled == \A o \in Ops : op'[o].new = op[o].new

LEMMA OneMoves ==
  ASSUME NEW o \in Ops, Others(o), op'[o].new = op[o].new
  PROVE  Settled
  BY DEF Others, Settled

LEMMA StepSplit ==
  ASSUME TypeOK, [Next]_vars
  PROVE  \/ \E o \in Ops : Builds(o)
         \/ Settled /\ UNCHANGED uploads
<1>1. ASSUME NEW o \in Ops, Click(o) \/ Step(o), ~Builds(o) PROVE Settled /\ UNCHANGED uploads
  <2>1. CASE Click(o)
    BY <2>1, ClickEffect, OneMoves
  <2>2. CASE TakeTurn(o)
    BY <2>2, TurnEffect, OneMoves DEF KeepsNew
  <2>3. CASE ReadBans(o)
    BY <2>3, ListEffect, OneMoves
  <2>4. CASE Sends(o)
    BY <2>4, SendEffect, OneMoves DEF KeepsNew
  <2>5. CASE Drops(o)
    BY <2>5, DropEffect, OneMoves DEF KeepsNew
  <2>6. CASE Commit(o)
    BY <2>6, CommitEffect, OneMoves DEF KeepsNew
  <2>7. CASE SwallowError(o)
    BY <2>7, SwallowEffect, OneMoves DEF KeepsNew
  <2> QED BY <1>1, <2>1, <2>2, <2>3, <2>4, <2>5, <2>6, <2>7, StepKinds
<1>2. ASSUME NEW o \in Ops, NEW r \in Relays, Deliver(o, r) PROVE Settled /\ UNCHANGED uploads
  BY <1>2, DeliverEffect, OneMoves DEF KeepsNew
<1>3. ASSUME NEW d \in Online, Listen(d) PROVE Settled /\ UNCHANGED uploads
  BY <1>3, ListenEffect, ConstantsAssumption DEF Settled
<1>4. ASSUME NEW b \in trash, Delete(b) PROVE Settled /\ UNCHANGED uploads
  BY <1>4, DeleteEffect DEF Settled
<1>5. CASE UNCHANGED vars
  BY <1>5 DEF vars, Settled
<1> QED BY <1>1, <1>2, <1>3, <1>4, <1>5 DEF Next

-----------------------------------------------------------------------------
(* Coherence of the events of the handlers that clone what they compared.    *)

\* What Coherent asks of one mutation.
Sound(o) == /\ op[o].sent => Consistent(op[o].event)
            /\ op[o].pc # "idle" => op[o].kind \in Kinds
            /\ op[o].pc # "signed"
            /\ op[o].pc = "built" => Fits(o)

LEMMA CoherentParts == Coherent <=> EventConsistent /\ \A o \in Ops : Sound(o)
  BY DEF Coherent, Sound

LEMMA CoherentPartsNext == Coherent' <=> EventConsistent' /\ \A o \in Ops : Sound(o)'
  BY DEF Coherent, Sound

LEMMA InitCoherent == Init => Coherent
  BY DEF Init, Coherent, EventConsistent, Consistent, GenesisEvent, Genesis

\* A step of one mutation that leaves the relays alone.
LEMMA OneSteps ==
  ASSUME Coherent, NEW o \in Ops, UNCHANGED relay, Sound(o)',
         \A p \in Ops : p # o => op'[p] = op[p]
  PROVE  Coherent'
<1>1. EventConsistent'
  BY DEF Coherent, EventConsistent
<1>2. \A p \in Ops : p # o => Sound(p)'
  BY CoherentParts DEF Sound, Fits, Rotates, Kicks
<1> QED BY <1>1, <1>2, CoherentPartsNext

\* Such a step of a mutation that was started, whose event is what it was.
LEMMA Advances ==
  ASSUME TypeOK, Coherent, NEW o \in Ops, op[o].pc # "idle", UNCHANGED relay,
         \A p \in Ops : p # o => op'[p] = op[p],
         op'[o].sent = op[o].sent, op'[o].event = op[o].event, op'[o].kind = op[o].kind,
         op'[o].pc # "signed", op'[o].pc = "built" => Fits(o)'
  PROVE  Coherent'
<1>1. Sound(o)'
  BY CoherentParts DEF Sound
<1> QED BY <1>1, OneSteps

LEMMA BuiltCoherent ==
  ASSUME TypeOK, Coherent, NEW o \in Ops, op[o].pc # "idle", NEW new, NEW oldSecret,
         Built(o, new, oldSecret),
         Rotates(o) => new.epoch = op[o].hub.epoch + 1,
         ~Rotates(o) => /\ new.secret = op[o].hub.index.secret
                        /\ new.epoch = op[o].hub.index.epoch
                        /\ new.tree # 0 => op[o].hub.index.tree # 0
  PROVE  Coherent'
<1>1. /\ op'[o].new = new /\ op'[o].pc = "built"
      /\ op'[o].sent = op[o].sent /\ op'[o].event = op[o].event /\ op'[o].kind = op[o].kind
      /\ op'[o].hub = op[o].hub /\ op'[o].roster = op[o].roster /\ op'[o].who = op[o].who
      /\ \A p \in Ops : p # o => op'[p] = op[p]
  BY DEF Built, TypeOK, Op
<1>2. Fits(o)'
  <2>1. Rotates(o)' <=> Rotates(o)
    BY <1>1 DEF Rotates, Kicks
  <2> QED BY <1>1, <2>1 DEF Fits
<1> QED BY <1>1, <1>2, Advances DEF Built

LEMMA BuildCoherent ==
  ASSUME TypeOK, Coherent, Cloning, NEW o \in Ops,
         \/ BuildAdmit(o) \/ BuildBan(o) \/ BuildKick(o) \/ BuildFix(o)
         \/ BuildUnban(o) \/ BuildReadd(o) \/ BuildRoles(o)
  PROVE  Coherent'
<1> DEFINE idx == op[o].hub.index
<1> USE HereType
<1>1. op[o].kind \notin RebuildKinds
  BY CoherentParts DEF Sound, Cloning, BuildAdmit, BuildBan, BuildKick, BuildFix,
                       BuildUnban, BuildReadd, BuildRoles
<1>2. /\ Descendant(idx).secret = idx.secret /\ Descendant(idx).epoch = idx.epoch
      /\ Descendant(idx).tree = idx.tree /\ Descendant(idx) \in Index
  BY DescendantType DEF Descendant, Index
<1>3. Rotated(idx, op[o]).epoch = op[o].hub.epoch + 1 /\ Rotated(idx, op[o]) \in Index
  BY RotatedType, DescendantType DEF Rotated, Index
<1>4. CASE BuildAdmit(o)
  <2> DEFINE new == [Descendant(idx) EXCEPT !.tree = Fresh, !.bans = {},
                                            !.members = @ \cup {op[o].who}]
  <2>1. new.secret = idx.secret /\ new.epoch = idx.epoch /\ idx.tree # 0 /\ Built(o, new, 0)
    BY <1>2, <1>4 DEF BuildAdmit, TreeReadable, Index
  <2>2. ~Rotates(o) /\ op[o].pc # "idle"
    BY <1>4 DEF BuildAdmit, Rotates, Kicks
  <2> HIDE DEF new
  <2> QED BY <2>1, <2>2, BuiltCoherent
<1>5. CASE BuildBan(o)
  <2> DEFINE new == [Descendant(idx) EXCEPT !.bans = op[o].bans, !.banKey = Here(o).secret]
  <2>1. /\ new.secret = idx.secret /\ new.epoch = idx.epoch /\ new.tree = idx.tree
        /\ Built(o, new, 0)
    BY <1>2, <1>5 DEF BuildBan, Index
  <2>2. ~Rotates(o) /\ op[o].pc # "idle"
    BY <1>5 DEF BuildBan, Rotates
  <2> HIDE DEF new
  <2> QED BY <2>1, <2>2, BuiltCoherent
<1>6. CASE BuildKick(o)
  <2> DEFINE new == [Rotated(idx, op[o]) EXCEPT !.bans = op[o].bans, !.members = @ \ {op[o].who},
                         !.hist = HistoryAfter(@, Here(o).secret)]
  <2>1. new.epoch = op[o].hub.epoch + 1 /\ Built(o, new, Here(o).secret)
    BY <1>3, <1>6 DEF BuildKick, Index
  <2>2. Rotates(o) /\ op[o].pc # "idle"
    BY <1>6 DEF BuildKick, Rotates
  <2> HIDE DEF new
  <2> QED BY <2>1, <2>2, BuiltCoherent
<1>7. CASE BuildFix(o)
  <2> DEFINE new(reread) == [Rotated(idx, op[o]) EXCEPT !.members = Here(o).members,
                 !.hist = HistoryAfter(IF reread THEN @ ELSE {}, op[o].seenSecret)]
  <2>1. PICK reread \in BOOLEAN : Built(o, new(reread), op[o].seenSecret)
    BY <1>7 DEF BuildFix
  <2>2. new(reread).epoch = op[o].hub.epoch + 1
    BY <1>3 DEF Index
  <2>3. Rotates(o) /\ op[o].pc # "idle"
    BY <1>7 DEF BuildFix, Rotates
  <2> HIDE DEF new
  <2> QED BY <2>1, <2>2, <2>3, BuiltCoherent
<1>8. ~BuildUnban(o) /\ ~BuildReadd(o) /\ ~BuildRoles(o)
  BY <1>1 DEF BuildUnban, BuildReadd, BuildRoles, RebuildKinds
<1> QED BY <1>4, <1>5, <1>6, <1>7, <1>8

\* The clone of an event whose index is the base, with an index that fits.
LEMMA SuccessorConsistent ==
  ASSUME TypeOK, NEW o \in Ops, Fits(o), NEW current \in Event, Consistent(current),
         current.index = op[o].hub.index, NEW id
  PROVE  Consistent(Successor(o, current, id))
  BY HereType DEF Fits, Consistent, Successor, Event, Index

LEMMA RepublishCoherent == ASSUME TypeOK, Coherent, NEW o \in Ops, Republish(o) PROVE Coherent'
<1>1. PICK r \in Relays, id \in UnusedIds :
         /\ SameBase(o, relay[r])
         /\ op' = [op EXCEPT ![o] = [@ EXCEPT !.pc = "publishing", !.sent = TRUE,
                                              !.event = Successor(o, relay[r], id)]]
  BY DEF Republish
<1>2. Consistent(Successor(o, relay[r], id))
  <2>1. Fits(o) /\ relay[r] \in Event /\ Consistent(relay[r])
    BY CoherentParts DEF Sound, Republish, TypeOK, EventConsistent
  <2> QED BY <1>1, <2>1, SuccessorConsistent DEF SameBase
<1>3. /\ op'[o].event = Successor(o, relay[r], id) /\ op'[o].pc = "publishing"
      /\ op'[o].kind = op[o].kind /\ \A p \in Ops : p # o => op'[p] = op[p]
  BY <1>1 DEF TypeOK, Op
<1>4. Sound(o)'
  <2>1. op[o].kind \in Kinds
    BY CoherentParts DEF Sound, Republish
  <2> QED BY <1>2, <1>3, <2>1 DEF Sound, Consistent
<1> QED BY <1>3, <1>4, OneSteps DEF Republish

LEMMA DeliverCoherent ==
  ASSUME TypeOK, Coherent, NEW o \in Ops, NEW r \in Relays, Deliver(o, r)
  PROVE  Coherent'
<1>1. EventConsistent'
  BY CoherentParts DEF Deliver, Sound, EventConsistent, TypeOK, Consistent
<1>2. \A p \in Ops : /\ op'[p].pc = op[p].pc /\ op'[p].kind = op[p].kind /\ op'[p].hub = op[p].hub
                     /\ op'[p].new = op[p].new /\ op'[p].sent = op[p].sent
                     /\ op'[p].event = op[p].event /\ op'[p].roster = op[p].roster
                     /\ op'[p].who = op[p].who
  BY DEF Deliver, TypeOK, Op
<1>3. \A p \in Ops : Sound(p)'
  <2> SUFFICES ASSUME NEW p \in Ops PROVE Sound(p)'
    OBVIOUS
  <2>1. Rotates(p)' <=> Rotates(p)
    BY <1>2 DEF Rotates, Kicks
  <2>2. Fits(p)' <=> Fits(p)
    BY <1>2, <2>1 DEF Fits
  <2>3. Consistent(op'[p].event) <=> Consistent(op[p].event)
    BY <1>2
  <2> QED BY <1>2, <2>2, <2>3, CoherentParts DEF Sound
<1> QED BY <1>1, <1>3, CoherentPartsNext

\* The remaining steps of a mutation: none of them builds, signs or publishes.
LEMMA OtherStepCoherent ==
  ASSUME TypeOK, Coherent, NEW o \in Ops,
         \/ Click(o) \/ TakeTurn(o) \/ NothingToDo(o) \/ ReadBans(o) \/ Conflict(o)
         \/ Commit(o) \/ SwallowError(o) \/ GiveUp(o) \/ Abort(o)
  PROVE  Coherent'
<1>1. CASE Click(o)
  <2>1. PICK kind \in Kinds, m \in Members :
           op' = [op EXCEPT ![o] = [@ EXCEPT !.pc = "queued", !.kind = kind, !.who = m,
                     !.seen = Here(o).hub, !.seenSecret = Here(o).secret, !.roster = Here(o).members]]
    BY <1>1 DEF Click
  <2>2. /\ op'[o].pc = "queued" /\ op'[o].kind = kind /\ op'[o].sent = op[o].sent
        /\ op'[o].event = op[o].event /\ \A p \in Ops : p # o => op'[p] = op[p]
    BY <2>1 DEF TypeOK, Op
  <2>3. Sound(o)'
    BY <2>2, CoherentParts DEF Sound
  <2> QED BY <1>1, <2>2, <2>3, OneSteps DEF Click
<1>2. CASE TakeTurn(o) \/ ReadBans(o)
  <2>1. op[o].pc # "idle" /\ UNCHANGED relay
    BY <1>2 DEF TakeTurn, ReadBans, ListsBans
  <2>2. \A p \in Ops : p # o => op'[p] = op[p]
    BY <1>2 DEF TakeTurn, ReadBans, TypeOK
  <2>3. CASE TakeTurn(o)
    <3>1. /\ op'[o].pc = "read" /\ op'[o].sent = op[o].sent
          /\ op'[o].event = op[o].event /\ op'[o].kind = op[o].kind
      BY <2>3 DEF TakeTurn, TypeOK, Op
    <3> QED BY <2>1, <2>2, <3>1, Advances
  <2>4. CASE ReadBans(o)
    <3>1. /\ op'[o].pc = "listed" /\ op'[o].sent = op[o].sent
          /\ op'[o].event = op[o].event /\ op'[o].kind = op[o].kind
      BY <2>4 DEF ReadBans, TypeOK, Op
    <3> QED BY <2>1, <2>2, <3>1, Advances
  <2> QED BY <1>2, <2>3, <2>4
<1>3. CASE ~Click(o) /\ ~TakeTurn(o) /\ ~ReadBans(o)
  <2>1. /\ op[o].pc # "idle" /\ UNCHANGED relay
        /\ \E result \in Final : op' = [op EXCEPT ![o].pc = result]
    BY <1>3 DEF NothingToDo, ListsBans, Conflict, Commit, SwallowError, GiveUp, Abort, End
  <2>2. /\ op'[o].pc \in Final /\ op'[o].sent = op[o].sent
        /\ op'[o].event = op[o].event /\ op'[o].kind = op[o].kind
        /\ \A p \in Ops : p # o => op'[p] = op[p]
    BY <2>1 DEF TypeOK, Op
  <2> QED BY <2>1, <2>2, Advances
<1> QED BY <1>1, <1>2, <1>3

LEMMA StepCoherent == TypeOK /\ Coherent /\ Cloning /\ [Next]_vars => Coherent'
<1> SUFFICES ASSUME TypeOK, Coherent, Cloning, [Next]_vars PROVE Coherent'
  OBVIOUS
<1>1. ASSUME UNCHANGED <<relay, op>> PROVE Coherent'
  BY <1>1 DEF Coherent, EventConsistent, Fits, Rotates, Kicks
<1>2. ASSUME NEW o \in Ops, Click(o) \/ Step(o) PROVE Coherent'
  <2>1. ~Sign(o) /\ ~CheckIndex(o)
    BY CoherentParts DEF Sound, Cloning, Sign, CheckIndex
  <2> QED BY <1>2, <2>1, BuildCoherent, RepublishCoherent, OtherStepCoherent DEF Step
<1>3. ASSUME NEW o \in Ops, NEW r \in Relays, Deliver(o, r) PROVE Coherent'
  BY <1>3, DeliverCoherent
<1>4. ASSUME NEW d \in Online, Listen(d) PROVE Coherent'
  BY <1>1, <1>4 DEF Listen, ReaderPick, Resubscribe, ReaderRefuse, ReaderLoad, ReaderSkip,
                    ReaderInstall
<1>5. ASSUME NEW b \in trash, Delete(b) PROVE Coherent'
  BY <1>1, <1>5 DEF Delete
<1>6. CASE UNCHANGED vars
  BY <1>1, <1>6 DEF vars
<1> QED BY <1>2, <1>3, <1>4, <1>5, <1>6 DEF Next

-----------------------------------------------------------------------------
(* What a device shows was published.                                       *)

\* Backed, for the state after a step.
StillBacked(idx) == idx = Genesis \/ \E o \in Ops : op'[o].new = idx /\ op'[o].reached # {}

\* What Traced asks of the locals of one mutation.
Carried(p) == /\ p.reached # {} => p.sent
              /\ p.sent => p.pc \in {"publishing"} \cup Final
              /\ p.sent \/ p.pc = "signed" => p.event.index = p.new
              /\ p.pc # "idle" => p.kind \in Kinds

LEMMA TracedParts ==
  Traced <=> /\ \A d \in Devices : Backed(store[d].hub.index)
             /\ \A r \in Relays : Backed(relay[r].index)
             /\ \A d \in Devices : Backed(reader[d].event.index)
             /\ \A o \in Ops : /\ Backed(op[o].seen.index) /\ Backed(op[o].hub.index)
                               /\ Carried(op[o])
  BY DEF Traced, StorePublished, Carried, Published

LEMMA TracedNext ==
  ASSUME \A d \in Devices : StillBacked(store'[d].hub.index),
         \A r \in Relays : StillBacked(relay'[r].index),
         \A d \in Devices : StillBacked(reader'[d].event.index),
         \A o \in Ops : /\ StillBacked(op'[o].seen.index) /\ StillBacked(op'[o].hub.index)
                        /\ Carried(op'[o])
  PROVE  Traced'
<1>1. StorePublished'
  BY DEF StorePublished, Backed, StillBacked, Published
<1>2. (\A r \in Relays : Backed(relay[r].index))'
  BY DEF Backed, StillBacked, Published
<1>3. (\A d \in Devices : Backed(reader[d].event.index))'
  BY DEF Backed, StillBacked, Published
<1>4. (\A o \in Ops : Backed(op[o].seen.index) /\ Backed(op[o].hub.index))'
  BY DEF Backed, StillBacked, Published
<1> QED BY <1>1, <1>2, <1>3, <1>4 DEF Traced, Carried, Published

\* A published index stays with its mutation.
LEMMA BackedKept ==
  ASSUME \A o \in Ops : Published(o) => op'[o].new = op[o].new /\ op'[o].reached # {},
         NEW idx, Backed(idx)
  PROVE  StillBacked(idx)
  BY DEF Backed, StillBacked, Published

\* A step of one mutation that leaves the pointers alone.
LEMMA LocalStep ==
  ASSUME Traced, NEW o \in Ops,
         \A p \in Ops : p # o => op'[p] = op[p],
         Published(o) => op'[o].new = op[o].new, op'[o].reached = op[o].reached,
         Carried(op'[o]), UNCHANGED <<relay, reader>>,
         Backed(op'[o].seen.index), Backed(op'[o].hub.index),
         \A d \in Devices : store'[d].hub = store[d].hub
  PROVE  Traced'
<1>1. \A p \in Ops : Published(p) => op'[p].new = op[p].new /\ op'[p].reached # {}
  BY DEF Published
<1>2. \A idx : Backed(idx) => StillBacked(idx)
  BY <1>1, BackedKept
<1>3. \A p \in Ops : /\ Carried(op'[p])
                     /\ Backed(op'[p].seen.index) /\ Backed(op'[p].hub.index)
  BY TracedParts
<1> QED BY <1>2, <1>3, TracedParts, TracedNext

\* A step that leaves the locals of all mutations alone.
LEMMA PointerStep ==
  ASSUME Traced, UNCHANGED op,
         \A d \in Devices : Backed(store'[d].hub.index),
         \A r \in Relays : Backed(relay'[r].index),
         \A d \in Devices : Backed(reader'[d].event.index)
  PROVE  Traced'
<1>1. \A idx : Backed(idx) => StillBacked(idx)
  BY DEF Backed, StillBacked, Published
<1> QED BY <1>1, TracedParts, TracedNext

LEMMA InitTraced == Init => Traced
  BY DEF Init, Traced, StorePublished, Backed, GenesisEvent, ViewOf, Published

LEMMA ClickTraced == ASSUME TypeOK, Traced, NEW o \in Ops, Click(o) PROVE Traced'
<1>1. PICK kind \in Kinds, m \in Members :
         op' = [op EXCEPT ![o] = [@ EXCEPT !.pc = "queued", !.kind = kind, !.who = m,
                   !.seen = Here(o).hub, !.seenSecret = Here(o).secret, !.roster = Here(o).members]]
  BY DEF Click
<1>2. /\ op'[o].pc = "queued" /\ op'[o].kind = kind /\ op'[o].sent = op[o].sent
      /\ op'[o].new = op[o].new /\ op'[o].reached = op[o].reached
      /\ op'[o].seen = Here(o).hub /\ op'[o].hub = op[o].hub
      /\ \A p \in Ops : p # o => op'[p] = op[p]
  BY <1>1 DEF TypeOK, Op
<1>3. Carried(op'[o])
  BY <1>2, TracedParts DEF Carried, Click
<1>4. Backed(op'[o].seen.index) /\ Backed(op'[o].hub.index)
  BY <1>2, HereType, TracedParts DEF Here
<1> QED BY <1>2, <1>3, <1>4, LocalStep DEF Click

\* Reading the base and the bans.
LEMMA ReadTraced ==
  ASSUME TypeOK, Traced, NEW o \in Ops, TakeTurn(o) \/ ReadBans(o)
  PROVE  Traced'
<1>1. op[o].pc \in {"queued", "read"} /\ UNCHANGED <<relay, reader>>
  BY DEF TakeTurn, ReadBans, ListsBans
<1>2. \A d \in Devices : store'[d].hub = store[d].hub
  <2>1. CASE UNCHANGED store
    BY <2>1
  <2>2. CASE store' = [store EXCEPT ![DeviceOf[o]].bans = EffectiveBans(o)]
    BY <2>2 DEF TypeOK, Store
  <2> QED BY <2>1, <2>2 DEF TakeTurn, ReadBans
<1>3. /\ op'[o].pc \in {"read", "listed"} /\ op'[o].kind = op[o].kind /\ op'[o].sent = op[o].sent
      /\ op'[o].new = op[o].new /\ op'[o].reached = op[o].reached
      /\ op'[o].seen = op[o].seen /\ op'[o].hub \in {op[o].hub, op[o].seen, Here(o).hub}
      /\ \A p \in Ops : p # o => op'[p] = op[p]
  <2>1. CASE TakeTurn(o)
    BY <2>1 DEF TakeTurn, TypeOK, Op
  <2>2. CASE ReadBans(o)
    BY <2>2 DEF ReadBans, TypeOK, Op
  <2> QED BY <2>1, <2>2
<1>4. Carried(op'[o])
  BY <1>1, <1>3, TracedParts DEF Carried
<1>5. Backed(op'[o].seen.index) /\ Backed(op'[o].hub.index)
  BY <1>3, HereType, TracedParts DEF Here
<1> QED BY <1>1, <1>2, <1>3, <1>4, <1>5, LocalStep

\* A mutation builds its index before it sends anything.
LEMMA BuildTraced ==
  ASSUME TypeOK, Traced, NEW o \in Ops,
         \/ BuildAdmit(o) \/ BuildBan(o) \/ BuildKick(o) \/ BuildFix(o)
         \/ BuildUnban(o) \/ BuildReadd(o) \/ BuildRoles(o)
  PROVE  Traced'
<1>1. op[o].pc \in {"read", "listed"} /\ \E new, oldSecret : Built(o, new, oldSecret)
  BY DEF BuildAdmit, BuildBan, BuildKick, BuildFix, BuildUnban, BuildReadd, BuildRoles
<1>2. PICK new, oldSecret : Built(o, new, oldSecret)
  BY <1>1
<1>3. /\ op'[o].pc = "built" /\ op'[o].kind = op[o].kind /\ op'[o].sent = op[o].sent
      /\ op'[o].reached = op[o].reached /\ \A p \in Ops : p # o => op'[p] = op[p]
      /\ op'[o].seen = op[o].seen /\ op'[o].hub = op[o].hub
  BY <1>2 DEF Built, TypeOK, Op
<1>4. ~Published(o) /\ Carried(op'[o])
  BY <1>1, <1>3, TracedParts DEF Carried, Published
<1> QED BY <1>2, <1>3, <1>4, TracedParts, LocalStep DEF Built

\* A signed or sent event names the new index.
LEMMA SignTraced ==
  ASSUME TypeOK, Traced, NEW o \in Ops, Republish(o) \/ Sign(o) \/ CheckIndex(o)
  PROVE  Traced'
<1>1. UNCHANGED <<relay, reader, store>> /\ op[o].pc \in {"built", "signed"}
  BY DEF Republish, Sign, CheckIndex
<1>2. /\ op'[o].event.index = op[o].new /\ op'[o].pc \in {"signed", "publishing"}
      /\ op'[o].pc = "signed" => op'[o].sent = op[o].sent
      /\ op'[o].kind = op[o].kind /\ op'[o].new = op[o].new /\ op'[o].reached = op[o].reached
      /\ op'[o].seen = op[o].seen /\ op'[o].hub = op[o].hub
      /\ \A p \in Ops : p # o => op'[p] = op[p]
  <2>1. CASE Republish(o)
    <3>1. PICK r \in Relays, id \in UnusedIds :
             op' = [op EXCEPT ![o] = [@ EXCEPT !.pc = "publishing", !.sent = TRUE,
                                               !.event = Successor(o, relay[r], id)]]
      BY <2>1 DEF Republish
    <3>2. Successor(o, relay[r], id).index = op[o].new
      BY DEF Successor
    <3> QED BY <3>1, <3>2 DEF TypeOK, Op
  <2>2. CASE Sign(o)
    <3> DEFINE e(id) == [index |-> op[o].new, epoch |-> op[o].hub.epoch,
                         key |-> Here(o).secret, created |-> op[o].hub.created + 1, id |-> id]
    <3>1. PICK id \in UnusedIds :
             op' = [op EXCEPT ![o] = [@ EXCEPT !.pc = "signed", !.event = e(id)]]
      BY <2>2 DEF Sign
    <3>2. e(id).index = op[o].new
      OBVIOUS
    <3> HIDE DEF e
    <3> QED BY <3>1, <3>2 DEF TypeOK, Op
  <2>3. CASE CheckIndex(o)
    <3>1. op[o].event.index = op[o].new
      BY <2>3, TracedParts DEF Carried, CheckIndex
    <3> QED BY <2>3, <3>1 DEF CheckIndex, TypeOK, Op
  <2> QED BY <2>1, <2>2, <2>3
<1>3. Carried(op'[o])
  BY <1>1, <1>2, TracedParts DEF Carried
<1> QED BY <1>1, <1>2, <1>3, TracedParts, LocalStep

\* An end that leaves the store alone.
LEMMA QuietEndTraced ==
  ASSUME TypeOK, Traced, NEW o \in Ops,
         NothingToDo(o) \/ Conflict(o) \/ GiveUp(o) \/ Abort(o)
  PROVE  Traced'
<1>1. /\ op[o].pc \in Active /\ UNCHANGED <<relay, reader, store>>
      /\ \E result \in Final : op' = [op EXCEPT ![o].pc = result]
  BY DEF NothingToDo, ListsBans, Conflict, GiveUp, Abort, End
<1>2. /\ op'[o].pc \in Final /\ op'[o].kind = op[o].kind /\ op'[o].sent = op[o].sent
      /\ op'[o].new = op[o].new /\ op'[o].reached = op[o].reached
      /\ op'[o].event = op[o].event /\ \A p \in Ops : p # o => op'[p] = op[p]
      /\ op'[o].seen = op[o].seen /\ op'[o].hub = op[o].hub
  BY <1>1 DEF TypeOK, Op
<1>3. Carried(op'[o])
  BY <1>1, <1>2, TracedParts DEF Carried
<1> QED BY <1>1, <1>2, <1>3, TracedParts, LocalStep

\* The store advances to an index that some relay accepted.
LEMMA CommitTraced == ASSUME TypeOK, Traced, NEW o \in Ops, Commit(o) PROVE Traced'
<1>1. /\ op'[o].pc = "done" /\ op'[o].kind = op[o].kind /\ op'[o].sent = op[o].sent
      /\ op'[o].new = op[o].new /\ op'[o].reached = op[o].reached
      /\ op'[o].event = op[o].event /\ \A p \in Ops : p # o => op'[p] = op[p]
      /\ op'[o].seen = op[o].seen /\ op'[o].hub = op[o].hub
  BY DEF Commit, End, TypeOK, Op
<1>2. \A p \in Ops : Carried(op'[p])
  BY <1>1, TracedParts DEF Carried, Commit
<1>3. \A idx : Backed(idx) => StillBacked(idx)
  BY <1>1 DEF Backed, StillBacked, Published
<1>4. StillBacked(op[o].new)
  BY <1>1 DEF Commit, Accepted, StillBacked
<1>5. \A d \in Devices : StillBacked(store'[d].hub.index)
  <2> SUFFICES ASSUME NEW d \in Devices PROVE StillBacked(store'[d].hub.index)
    OBVIOUS
  <2>1. CASE d = DeviceOf[o]
    <3>1. store'[d].hub.index = op[o].new
      BY <2>1, HereType DEF Commit, Advanced, TypeOK, Store
    <3> QED BY <1>4, <3>1
  <2>2. CASE d # DeviceOf[o]
    <3>1. store'[d] = store[d]
      BY <2>2 DEF Commit, TypeOK
    <3> QED BY <1>3, <3>1, TracedParts
  <2> QED BY <2>1, <2>2
<1>6. \A p \in Ops : op'[p].seen = op[p].seen /\ op'[p].hub = op[p].hub
  BY <1>1
<1> QED BY <1>2, <1>3, <1>5, <1>6, TracedParts, TracedNext DEF Commit

\* A relay that stores an event makes its index a published one.
LEMMA DeliverTraced ==
  ASSUME TypeOK, Traced, NEW o \in Ops, NEW r \in Relays, Deliver(o, r)
  PROVE  Traced'
<1>1. /\ op'[o].pc = op[o].pc /\ op'[o].kind = op[o].kind /\ op'[o].sent = op[o].sent
      /\ op'[o].new = op[o].new /\ op'[o].reached = op[o].reached \cup {r}
      /\ op'[o].event = op[o].event /\ \A p \in Ops : p # o => op'[p] = op[p]
      /\ op'[o].seen = op[o].seen /\ op'[o].hub = op[o].hub
  BY DEF Deliver, TypeOK, Op
<1>2. \A p \in Ops : Carried(op'[p])
  BY <1>1, TracedParts DEF Carried, Deliver
<1>3. \A idx : Backed(idx) => StillBacked(idx)
  BY <1>1 DEF Backed, StillBacked, Published
<1>4. op[o].event.index = op[o].new /\ StillBacked(op[o].new)
  BY <1>1, TracedParts DEF Carried, Deliver, StillBacked
<1>5. \A q \in Relays : StillBacked(relay'[q].index)
  <2> SUFFICES ASSUME NEW q \in Relays PROVE StillBacked(relay'[q].index)
    OBVIOUS
  <2>1. relay'[q] = IF q = r THEN op[o].event ELSE relay[q]
    BY DEF Deliver, TypeOK
  <2> QED BY <1>3, <1>4, <2>1, TracedParts
<1>6. \A p \in Ops : op'[p].seen = op[p].seen /\ op'[p].hub = op[p].hub
  BY <1>1
<1> QED BY <1>2, <1>3, <1>5, <1>6, TracedParts, TracedNext DEF Deliver

\* The subscription handler takes what a relay serves and shows what it took.
LEMMA ListenTraced ==
  ASSUME TypeOK, Traced, NEW d \in Devices, Listen(d)
  PROVE  Traced'
  BY ListenEffect, TracedParts, PointerStep

LEMMA StepTraced == TypeOK /\ Traced /\ NoSwallow /\ [Next]_vars => Traced'
<1> SUFFICES ASSUME TypeOK, Traced, NoSwallow, [Next]_vars PROVE Traced'
  OBVIOUS
<1>1. ASSUME NEW o \in Ops, Click(o) \/ Step(o) PROVE Traced'
  <2>1. ~SwallowError(o)
    BY TracedParts DEF Carried, NoSwallow, SwallowError, Swallows
  <2> QED BY <1>1, <2>1, ClickTraced, ReadTraced, BuildTraced, SignTraced, QuietEndTraced,
             CommitTraced DEF Step
<1>2. ASSUME NEW o \in Ops, NEW r \in Relays, Deliver(o, r) PROVE Traced'
  BY <1>2, DeliverTraced
<1>3. ASSUME NEW d \in Online, Listen(d) PROVE Traced'
  BY <1>3, ListenTraced, ConstantsAssumption
<1>4. ASSUME UNCHANGED <<relay, store, reader, op>> PROVE Traced'
  BY <1>4, TracedParts, PointerStep
<1>5. ASSUME NEW b \in trash, Delete(b) PROVE Traced'
  BY <1>4, <1>5 DEF Delete
<1>6. CASE UNCHANGED vars
  BY <1>4, <1>6 DEF vars
<1> QED BY <1>1, <1>2, <1>3, <1>5, <1>6 DEF Next

-----------------------------------------------------------------------------
(* The forest of indexes.                                                   *)

LEMMA MadeType == ASSUME TypeOK PROVE Made \subseteq Index
  BY GenesisType DEF Made, TypeOK, Op

LEMMA MadeSettled == ASSUME Settled PROVE Made' = Made
  BY DEF Made, Settled

\* The builder's own index is new, everybody else's is what it was.
LEMMA MadeGrows ==
  ASSUME TypeOK, Single, NEW o \in Ops, Builds(o)
  PROVE  /\ Made' = Made \cup {op'[o].new}
         /\ op[o].new = Genesis
         /\ \A p \in Ops : p # o => op'[p].new = op[p].new
<1>1. op[o].new = Genesis /\ Others(o)
  BY BuildEffect DEF Single, HasBuilt
<1> QED BY <1>1 DEF Made, Others

LEMMA MadeKept == ASSUME TypeOK, Single, [Next]_vars PROVE Made \subseteq Made'
  BY StepSplit, MadeSettled, MadeGrows

LEMMA InitForest == Init => Placed /\ Forest /\ Single
<1> SUFFICES ASSUME Init PROVE Placed /\ Forest /\ Single
  OBVIOUS
<1>1. \A o \in Ops : /\ op[o].new = Genesis /\ op[o].pc = "idle" /\ op[o].seen.index = Genesis
                     /\ op[o].hub.index = Genesis /\ op[o].event.index = Genesis
  BY DEF Init, ViewOf, GenesisEvent
<1>2. /\ \A r \in Relays : relay[r].index = Genesis
      /\ \A d \in Devices : store[d].hub.index = Genesis /\ reader[d].event.index = Genesis
  BY DEF Init, ViewOf, GenesisEvent
<1>3. Made = {Genesis} /\ uploads = 1
  BY <1>1 DEF Made, Init
<1>4. Genesis.id = 1 /\ Genesis.lineage = {1}
  BY DEF Genesis
<1>5. Placed
  BY <1>1, <1>2, <1>3 DEF Placed
<1>6. Forest
  BY <1>3, <1>4 DEF Forest
<1>7. Single
  BY <1>1 DEF Single, HasBuilt
<1> QED BY <1>5, <1>6, <1>7

LEMMA StepPlaced == ASSUME TypeOK, Single, Placed, [Next]_vars PROVE Placed'
<1> DEFINE P(s) == s.seen.index \in Made' /\ s.hub.index \in Made' /\ s.event.index \in Made'
<1>1. Made \subseteq Made' /\ \A o \in Ops : op[o].new \in Made
  BY MadeKept DEF Made
<1>2. /\ \A r \in Relays : relay[r].index \in Made'
      /\ \A d \in Devices : store[d].hub.index \in Made' /\ reader[d].event.index \in Made'
      /\ \A o \in Ops : P(op[o])
  BY <1>1 DEF Placed
<1>3. SUFFICES /\ \A r \in Relays : relay'[r].index \in Made'
               /\ \A d \in Devices : store'[d].hub.index \in Made' /\ reader'[d].event.index \in Made'
               /\ \A o \in Ops : P(op'[o])
  BY DEF Placed
<1>4. ASSUME NEW o \in Ops, Click(o) \/ Step(o)
      PROVE  /\ UNCHANGED <<relay, reader>> /\ Others(o) /\ P(op'[o])
             /\ \A d \in Devices : store'[d].hub.index \in {store[d].hub.index, op[o].new}
  <2>1. CASE Click(o)
    BY <1>2, <2>1, ClickEffect, HereType DEF KeepsEvent, Here
  <2>2. CASE TakeTurn(o)
    BY <1>2, <2>2, TurnEffect, HereType DEF KeepsEvent, Here
  <2>3. CASE ReadBans(o)
    BY <1>2, <2>3, ListEffect DEF KeepsEvent, KeepsBase
  <2>4. CASE Builds(o)
    BY <1>2, <2>4, BuildEffect DEF KeepsEvent, KeepsBase
  <2>5. CASE Sends(o)
    BY <1>1, <1>2, <2>5, SendEffect DEF KeepsBase
  <2>6. CASE Drops(o)
    BY <1>2, <2>6, DropEffect DEF KeepsEvent, KeepsBase
  <2>7. CASE Commit(o)
    BY <1>2, <2>7, CommitEffect DEF KeepsEvent, KeepsBase
  <2>8. CASE SwallowError(o)
    BY <1>2, <2>8, SwallowEffect DEF KeepsEvent, KeepsBase
  <2> QED BY <1>4, <2>1, <2>2, <2>3, <2>4, <2>5, <2>6, <2>7, <2>8, StepKinds
<1>5. CASE \E o \in Ops : Click(o) \/ Step(o)
  BY <1>1, <1>2, <1>4, <1>5 DEF Others
<1>6. ASSUME NEW o \in Ops, NEW r \in Relays, Deliver(o, r)
      PROVE  /\ UNCHANGED <<reader, store>> /\ \A q \in Relays : relay'[q].index \in Made'
             /\ \A p \in Ops : P(op'[p])
  BY <1>2, <1>6, DeliverEffect DEF KeepsBase, Others
<1>7. CASE \E o \in Ops, r \in Relays : Deliver(o, r)
  BY <1>2, <1>6, <1>7
<1>8. CASE \E d \in Online : Listen(d)
  BY <1>2, <1>8, ListenEffect, ConstantsAssumption
<1>9. CASE \E b \in trash : Delete(b)
  BY <1>2, <1>9, DeleteEffect
<1>10. CASE UNCHANGED vars
  BY <1>2, <1>10 DEF vars
<1> QED BY <1>5, <1>7, <1>8, <1>9, <1>10 DEF Next

\* A new index is younger than whatever it descends from.
LEMMA FreshFacts ==
  ASSUME TypeOK, Placed, Forest, NEW o \in Ops, Builds(o)
  PROVE  LET base == op[o].hub.index
             new == op'[o].new
         IN /\ Fresh \in Nat /\ Fresh = uploads + 1 /\ uploads \in Nat
            /\ base \in Made /\ base.id \in Nat /\ base.id < Fresh /\ base.id >= 1
            /\ base.lineage \subseteq 1..base.id /\ {1, base.id} \subseteq base.lineage
            /\ new.id = Fresh /\ new.lineage = base.lineage \cup {Fresh}
            /\ \A i \in Made : /\ i.id \in Nat \ {0} /\ i.id < Fresh /\ i.id # Fresh
                               /\ i.lineage \subseteq 1..i.id /\ Fresh \notin i.lineage
<1>1. op[o].hub.index \in Made /\ uploads \in Nat /\ Fresh \in Nat
  BY FreshType DEF Placed, TypeOK
<1>2. Fresh = uploads + 1
  BY DEF Fresh
<1>3. \A i \in Made : i.id \in Nat \ {0} /\ i.id < Fresh /\ i.id # Fresh
                      /\ i.lineage \subseteq 1..i.id /\ Fresh \notin i.lineage
  <2> SUFFICES ASSUME NEW i \in Made
               PROVE  i.id \in Nat \ {0} /\ i.id < Fresh /\ i.id # Fresh
                      /\ i.lineage \subseteq 1..i.id /\ Fresh \notin i.lineage
    OBVIOUS
  <2>1. i.id \in Nat /\ i.id <= uploads /\ i.lineage \subseteq 1..i.id /\ i.id \in i.lineage
    BY MadeType DEF Forest, Index
  <2>2. i.id \in 1..i.id
    BY <2>1
  <2> QED BY <1>1, <1>2, <2>1, <2>2
<1> QED BY <1>1, <1>2, <1>3, BuildEffect DEF Forest

LEMMA StepForest == ASSUME TypeOK, Placed, Forest, Single, [Next]_vars PROVE Forest'
<1>1. CASE Settled /\ UNCHANGED uploads
  BY <1>1, MadeSettled DEF Forest
<1>2. ASSUME NEW o \in Ops, Builds(o) PROVE Forest'
  <2> DEFINE base == op[o].hub.index
             new == op'[o].new
  <2>1. Made' = Made \cup {new} /\ uploads' = Fresh
    BY <1>2, MadeGrows, BuildEffect
  <2>2. /\ Fresh \in Nat /\ base \in Made /\ base.id \in Nat /\ base.id < Fresh
        /\ base.lineage \subseteq 1..base.id /\ {1, base.id} \subseteq base.lineage
        /\ new.id = Fresh /\ new.lineage = base.lineage \cup {Fresh}
        /\ \A i \in Made : /\ i.id \in Nat \ {0} /\ i.id < Fresh /\ i.id # Fresh
                           /\ i.lineage \subseteq 1..i.id /\ Fresh \notin i.lineage
    BY <1>2, FreshFacts
  <2>3. \A i \in Made : {1, i.id} \subseteq i.lineage /\ i.id <= Fresh
    BY <2>2 DEF Forest
  <2>4. {1, new.id} \subseteq new.lineage /\ new.lineage \subseteq 1..new.id /\ new.id <= Fresh
    BY <2>2
  <2>5. \A i, j \in Made : i.id \in j.lineage => i.lineage = j.lineage \cap 1..i.id
    BY DEF Forest
  <2>6. ASSUME NEW i \in Made', NEW j \in Made', i.id \in j.lineage
        PROVE  i.lineage = j.lineage \cap 1..i.id
    <3>1. CASE i \in Made /\ j \in Made
      BY <2>5, <2>6, <3>1
    <3>2. CASE i = new /\ j \in Made
      BY <2>2, <2>6, <3>2
    <3>3. CASE i \in Made /\ j = new
      <4>1. i.id \in base.lineage
        BY <2>2, <2>6, <3>3
      <4>2. i.lineage = base.lineage \cap 1..i.id
        BY <2>2, <2>5, <3>3, <4>1
      <4>3. Fresh \notin 1..i.id
        BY <2>2, <3>3
      <4> QED BY <2>2, <3>3, <4>2, <4>3
    <3>4. CASE i = new /\ j = new
      BY <2>4, <3>4
    <3> QED BY <2>1, <3>1, <3>2, <3>3, <3>4
  <2> HIDE DEF base, new
  <2> QED BY <2>1, <2>2, <2>3, <2>4, <2>6 DEF Forest
<1> QED BY <1>1, <1>2, StepSplit

\* Where a mutation is, before and after a step that builds nothing.
Unbuilt == {"idle", "queued", "read", "listed"}

Pending == {"built", "signed", "publishing"}

LEMMA StillUnbuilt ==
  ASSUME TypeOK, [Next]_vars, ~\E p \in Ops : Builds(p), NEW o \in Ops
  PROVE  /\ op'[o].pc \in Unbuilt => op[o].pc \in Unbuilt
         /\ op'[o].pc \in Pending => op[o].pc \in Pending
         /\ op[o].pc \notin Unbuilt => /\ op'[o].pc \notin Unbuilt
                                       /\ KeepsBase(o) /\ op'[o].roster = op[o].roster
<1> USE DEF Unbuilt, Pending
<1>0. CASE op'[o] = op[o]
  BY <1>0 DEF KeepsBase
<1>1. CASE Click(o) \/ Step(o)
  <2>1. CASE Click(o)
    BY <2>1, ClickEffect
  <2>2. CASE TakeTurn(o)
    BY <2>2, TurnEffect
  <2>3. CASE ReadBans(o)
    BY <2>3, ListEffect
  <2>4. CASE Builds(o)
    BY <2>4, BuildEffect
  <2>5. CASE Sends(o)
    BY <2>5, SendEffect DEF KeepsNew
  <2>6. CASE Drops(o)
    BY <2>6, DropEffect DEF KeepsNew
  <2>7. CASE Commit(o)
    BY <2>7, CommitEffect DEF KeepsNew
  <2>8. CASE SwallowError(o)
    BY <2>8, SwallowEffect DEF KeepsNew
  <2> QED BY <1>1, <2>1, <2>2, <2>3, <2>4, <2>5, <2>6, <2>7, <2>8, StepKinds
<1>2. ASSUME NEW p \in Ops, p # o, Click(p) \/ Step(p) PROVE op'[o] = op[o]
  <2>1. Others(p)
    BY <1>2, ClickEffect, TurnEffect, ListEffect, BuildEffect, SendEffect, DropEffect,
       CommitEffect, SwallowEffect, StepKinds
  <2> QED BY <1>2, <2>1 DEF Others
<1>3. ASSUME NEW p \in Ops, NEW r \in Relays, Deliver(p, r)
      PROVE  op'[o].pc = op[o].pc /\ KeepsBase(o) /\ op'[o].roster = op[o].roster
  BY <1>3, DeliverEffect DEF Others, KeepsBase, KeepsNew
<1>4. CASE \E d \in Online : Listen(d)
  BY <1>0, <1>4, ListenEffect, ConstantsAssumption
<1>5. CASE \E b \in trash : Delete(b)
  BY <1>0, <1>5, DeleteEffect
<1>6. CASE UNCHANGED vars
  BY <1>0, <1>6 DEF vars
<1> QED BY <1>0, <1>1, <1>2, <1>3, <1>4, <1>5, <1>6 DEF Next

LEMMA StepSingle == ASSUME TypeOK, Placed, Forest, Single, [Next]_vars PROVE Single'
<1>1. CASE ~\E p \in Ops : Builds(p)
  <2>0. Settled
    BY <1>1, StepSplit
  <2>1. ASSUME NEW o \in Ops, HasBuilt(o)' PROVE Descends(o)'
    <3>1. HasBuilt(o) /\ op[o].pc \notin Unbuilt
      BY <2>0, <2>1 DEF Settled, HasBuilt, Single, Unbuilt
    <3>2. op'[o].hub = op[o].hub /\ op'[o].new = op[o].new
      BY <1>1, <2>0, <3>1, StillUnbuilt DEF KeepsBase, Settled
    <3> QED BY <3>1, <3>2 DEF Single, Descends
  <2>2. ASSUME NEW o \in Ops, op'[o].pc \in Unbuilt PROVE ~HasBuilt(o)'
    BY <1>1, <2>0, <2>2, StillUnbuilt DEF Settled, HasBuilt, Single, Unbuilt
  <2>3. ASSUME NEW o \in Ops, op'[o].pc \in Pending PROVE HasBuilt(o)'
    BY <1>1, <2>0, <2>3, StillUnbuilt DEF Settled, HasBuilt, Single, Pending
  <2> QED BY <2>0, <2>1, <2>2, <2>3 DEF Single, Settled, HasBuilt, Unbuilt, Pending
<1>2. ASSUME NEW o \in Ops, Builds(o) PROVE Single'
  <2>1. /\ op'[o].new.id = Fresh /\ op'[o].new.lineage = op[o].hub.index.lineage \cup {Fresh}
        /\ op'[o].hub = op[o].hub /\ op[o].hub.index.id < Fresh /\ Fresh > 1
        /\ Others(o) /\ op'[o].pc = "built"
        /\ \A p \in Ops : op[p].new.id # Fresh
    <3>1. \A p \in Ops : op[p].new \in Made
      BY DEF Made
    <3>2. op[o].hub.index.id < Fresh /\ op[o].hub.index.id >= 1 /\ Fresh \in Nat
          /\ op[o].hub.index.id \in Nat
      BY <1>2, FreshFacts
    <3>3. Fresh > 1
      BY <3>2
    <3> QED BY <1>2, <3>1, <3>2, <3>3, FreshFacts, BuildEffect DEF KeepsBase
  <2>2. Descends(o)'
    BY <2>1 DEF Descends
  <2>3. ASSUME NEW p \in Ops, p # o
        PROVE  /\ HasBuilt(p)' => Descends(p)'
               /\ op'[p].pc \in Unbuilt => ~HasBuilt(p)'
               /\ op'[p].pc \in Pending => HasBuilt(p)'
    BY <2>1, <2>3 DEF Others, Single, HasBuilt, Descends, Unbuilt, Pending
  <2>4. ASSUME NEW p \in Ops, NEW q \in Ops, HasBuilt(p)', op'[p].new.id = op'[q].new.id
        PROVE  p = q
    <3>1. CASE p # o /\ q # o
      BY <2>1, <2>4, <3>1 DEF Others, Single, HasBuilt
    <3>2. CASE p = o /\ q # o
      BY <2>1, <2>4, <3>2 DEF Others
    <3>3. CASE p # o /\ q = o
      BY <2>1, <2>4, <3>3 DEF Others
    <3> QED BY <3>1, <3>2, <3>3
  <2>5. HasBuilt(o)'
    BY <2>1 DEF HasBuilt, Genesis
  <2> QED BY <2>1, <2>2, <2>3, <2>4, <2>5 DEF Single, Unbuilt, Pending
<1> QED BY <1>1, <1>2, StepSplit

-----------------------------------------------------------------------------
(* Secrets, trees and kicks.                                                *)

\* ReadmittedSince, for the state after a step.
StillReadmitted(m, id, idx) ==
    \E p \in Ops : /\ \/ op'[p].kind \in {"admit", "readd"} /\ op'[p].who = m
                      \/ op'[p].kind = "fix" /\ m \in op'[p].new.members
                   /\ op'[p].new.id \in idx.lineage /\ op'[p].new.id > id

\* What a mutation that has built keeps.
Keeps(o) == op'[o].new = op[o].new /\ KeepsBase(o) /\ op'[o].roster = op[o].roster

LEMMA BuiltKeeps ==
  ASSUME TypeOK, Single, [Next]_vars, NEW o \in Ops, HasBuilt(o)
  PROVE  Keeps(o)
<1>1. op[o].pc \notin Unbuilt
  BY DEF Single, Unbuilt
<1>2. CASE ~\E p \in Ops : Builds(p)
  BY <1>1, <1>2, StillUnbuilt, StepSplit DEF Keeps, Settled
<1>3. ASSUME NEW p \in Ops, Builds(p) PROVE Keeps(o)
  <2>1. p # o
    BY <1>1, <1>3, BuildEffect DEF Unbuilt
  <2> QED BY <1>3, <2>1, BuildEffect DEF Others, Keeps, KeepsBase
<1> QED BY <1>2, <1>3

LEMMA ReadmissionKept ==
  ASSUME TypeOK, Single, [Next]_vars, NEW m, NEW id \in Nat \ {0}, NEW idx,
         ReadmittedSince(m, id, idx)
  PROVE  StillReadmitted(m, id, idx)
<1>1. PICK p \in Ops : /\ \/ op[p].kind \in {"admit", "readd"} /\ op[p].who = m
                          \/ op[p].kind = "fix" /\ m \in op[p].new.members
                       /\ op[p].new.id \in idx.lineage /\ op[p].new.id > id
  BY DEF ReadmittedSince
<1>2. HasBuilt(p)
  <2>1. Genesis.id = 1
    BY DEF Genesis
  <2> QED BY <1>1, <2>1 DEF HasBuilt
<1>3. Keeps(p)
  BY <1>2, BuiltKeeps
<1> QED BY <1>1, <1>3 DEF StillReadmitted, Keeps, KeepsBase

\* What Sealed asks of a mutation that has built, for the state after a step.
KickSealed(o) ==
    Kicks(o) => \A j \in Made :
                   op[o].new.id \in j.lineage /\ op[o].who \in j.members
                      => ReadmittedSince(op[o].who, op[o].new.id, j)

OwnSealed(o) ==
    /\ Rotates(o) => op[o].new.secret = op[o].new.id
    /\ op[o].kind = "admit" => op[o].new.tree = op[o].new.id

LEMMA SealedParts ==
  Sealed <=> /\ \A i \in Made : i.tree \in 1..i.id /\ i.secret \in 1..i.id
             /\ \A i, j \in Made : i.id \in j.lineage => i.secret <= j.secret
             /\ \A o \in Ops : HasBuilt(o) => OwnSealed(o) /\ KickSealed(o)
  BY DEF Sealed, OwnSealed, KickSealed

LEMMA SealedPartsNext ==
  Sealed' <=> /\ \A i \in Made' : i.tree \in 1..i.id /\ i.secret \in 1..i.id
              /\ \A i, j \in Made' : i.id \in j.lineage => i.secret <= j.secret
              /\ \A o \in Ops : HasBuilt(o)' => OwnSealed(o)' /\ KickSealed(o)'
  BY DEF Sealed, OwnSealed, KickSealed

LEMMA KickSealedNext ==
  ASSUME NEW o \in Ops,
         Kicks(o)' => \A j \in Made' :
                         op'[o].new.id \in j.lineage /\ op'[o].who \in j.members
                            => StillReadmitted(op'[o].who, op'[o].new.id, j)
  PROVE  KickSealed(o)'
  BY DEF KickSealed, StillReadmitted, ReadmittedSince

LEMMA InitSealed == Init => Sealed
<1> SUFFICES ASSUME Init PROVE Sealed
  OBVIOUS
<1>1. \A o \in Ops : op[o].new = Genesis
  BY DEF Init
<1>2. Made = {Genesis}
  BY <1>1 DEF Made
<1>3. Genesis.tree = 1 /\ Genesis.secret = 1 /\ Genesis.id = 1
  BY DEF Genesis
<1> QED BY <1>1, <1>2, <1>3 DEF Sealed, HasBuilt

LEMMA KeptKick ==
  ASSUME NEW o \in Ops, Keeps(o)
  PROVE  (Rotates(o)' <=> Rotates(o)) /\ (Kicks(o)' <=> Kicks(o))
  BY DEF Keeps, KeepsBase, Rotates, Kicks

\* An old index is as it was, and nothing that put a user back is forgotten.
LEMMA KickSealedKept ==
  ASSUME TypeOK, Single, Sealed, [Next]_vars, NEW o \in Ops, HasBuilt(o), Kicks(o),
         NEW j \in Made, op[o].new.id \in j.lineage, op[o].who \in j.members
  PROVE  StillReadmitted(op[o].who, op[o].new.id, j)
<1>1. op[o].new.id \in Nat \ {0}
  BY DEF Single, Descends, TypeOK, Op, Index
<1>2. ReadmittedSince(op[o].who, op[o].new.id, j)
  BY DEF Sealed
<1> QED BY <1>1, <1>2, ReadmissionKept

LEMMA StepSealed ==
  ASSUME TypeOK, Placed, Forest, Single, Coherent, Cloning, Sealed, [Next]_vars
  PROVE  Sealed'
<1>1. CASE Settled
  <2>1. Made' = Made
    BY <1>1, MadeSettled
  <2>2. ASSUME NEW o \in Ops, HasBuilt(o)' PROVE OwnSealed(o)' /\ KickSealed(o)'
    <3>1. HasBuilt(o) /\ Keeps(o)
      BY <1>1, <2>2, BuiltKeeps DEF HasBuilt, Settled
    <3>2. OwnSealed(o)'
      BY <3>1, KeptKick, SealedParts DEF OwnSealed, Keeps, KeepsBase
    <3>3. op'[o].new = op[o].new /\ op'[o].who = op[o].who
      BY <3>1 DEF Keeps, KeepsBase
    <3>4. KickSealed(o)'
      BY <2>1, <3>1, <3>3, KeptKick, KickSealedKept, KickSealedNext
    <3> QED BY <3>2, <3>4
  <2> QED BY <2>1, <2>2, SealedParts, SealedPartsNext
<1>2. ASSUME NEW o \in Ops, Builds(o) PROVE Sealed'
  <2> DEFINE base == op[o].hub.index
             new == op'[o].new
  <2>1. /\ Made' = Made \cup {new} /\ uploads' = Fresh /\ op'[o].kind = op[o].kind
        /\ op'[o].who = op[o].who
        /\ (Rotates(o)' <=> Rotates(o)) /\ (Kicks(o)' <=> Kicks(o))
    BY <1>2, MadeGrows, BuildEffect DEF KeepsBase, Rotates, Kicks
  <2>2. /\ Fresh \in Nat /\ base \in Made /\ base.id \in Nat /\ base.id < Fresh
        /\ new.id = Fresh /\ new.lineage = base.lineage \cup {Fresh}
        /\ base.id \in base.lineage
        /\ \A i \in Made : i.id \in Nat \ {0} /\ i.id < Fresh /\ Fresh \notin i.lineage
    BY <1>2, FreshFacts
  <2>3. op[o].kind \notin RebuildKinds /\ op[o].pc \in {"read", "listed"}
    BY <1>2, BuildEffect, CoherentParts DEF Sound, Cloning
  <2>4. \/ /\ op[o].kind = "admit" /\ op[o].pc = "read"
           /\ new.tree = Fresh /\ new.secret = base.secret
           /\ new.members = base.members \cup {op[o].who}
        \/ /\ op[o].kind = "ban" /\ ~Kicks(o)
           /\ new.tree = base.tree /\ new.secret = base.secret
           /\ new.members = base.members
        \/ /\ Kicks(o) /\ op[o].kind # "admit"
           /\ new.tree = Fresh /\ new.secret = Fresh
           /\ new.members = base.members \ {op[o].who}
        \/ /\ op[o].kind = "fix" /\ ~Kicks(o) /\ new.tree = Fresh /\ new.secret = Fresh
    BY <1>2, <2>3, CloningBuild
  <2>5. \A i \in Made : i.tree \in 1..i.id /\ i.secret \in 1..i.id
    BY DEF Sealed
  <2>6. /\ new.tree \in 1..new.id /\ new.secret \in 1..new.id
        /\ base.secret <= new.secret
    BY <2>2, <2>4, <2>5
  <2>7. ASSUME NEW i \in Made', NEW j \in Made', i.id \in j.lineage PROVE i.secret <= j.secret
    <3>1. CASE j \in Made
      <4>1. i \in Made
        BY <2>1, <2>2, <2>7, <3>1
      <4> QED BY <2>7, <3>1, <4>1 DEF Sealed
    <3>2. CASE j = new /\ i = new
      BY <2>2, <2>6, <3>2
    <3>3. CASE j = new /\ i \in Made
      <4>1. i.id \in base.lineage
        BY <2>2, <2>7, <3>3
      <4>2. i.secret <= base.secret
        BY <2>2, <3>3, <4>1 DEF Sealed
      <4>3. i.secret \in Nat /\ base.secret \in Nat /\ new.secret \in Nat
        BY <2>2, <2>5, <2>6, <3>3
      <4> QED BY <2>6, <3>3, <4>2, <4>3
    <3> QED BY <2>1, <3>1, <3>2, <3>3
  <2>8. OwnSealed(o)'
    <3>1. Rotates(o) => new.secret = Fresh
      BY <2>4 DEF Rotates, Kicks
    <3>2. op[o].kind = "admit" => new.tree = Fresh
      BY <2>4 DEF Kicks
    <3> QED BY <2>1, <2>2, <3>1, <3>2 DEF OwnSealed
  <2>9. KickSealed(o)'
    <3>1. Kicks(o) => op[o].who \notin new.members
      BY <2>4 DEF Kicks
    <3>2. \A j \in Made' : new.id \in j.lineage => j = new
      BY <2>1, <2>2
    <3> QED BY <2>1, <3>1, <3>2, KickSealedNext
  <2>10. ASSUME NEW p \in Ops, p # o, HasBuilt(p)' PROVE OwnSealed(p)' /\ KickSealed(p)'
    <3>1. HasBuilt(p) /\ Keeps(p) /\ op'[p] = op[p]
      BY <1>2, <2>10, BuildEffect, BuiltKeeps DEF HasBuilt, Others
    <3>2. OwnSealed(p)'
      BY <3>1, KeptKick, SealedParts DEF OwnSealed
    <3>3. ASSUME Kicks(p), NEW j \in Made', op[p].new.id \in j.lineage, op[p].who \in j.members
          PROVE  StillReadmitted(op[p].who, op[p].new.id, j)
      <4>1. CASE j \in Made
        BY <3>1, <3>3, <4>1, KickSealedKept
      <4>2. CASE j = new
        <5>1. op[p].new \in Made /\ op[p].new.id \in base.lineage /\ op[p].new.id < Fresh
          BY <2>2, <3>3, <4>2 DEF Made
        <5>2. CASE op[p].who \in base.members
          <6>1. StillReadmitted(op[p].who, op[p].new.id, base)
            BY <2>2, <3>1, <3>3, <5>1, <5>2, KickSealedKept
          <6>2. \A id : id \in base.lineage => id \in new.lineage
            BY <2>2
          <6> QED BY <4>2, <6>1, <6>2 DEF StillReadmitted
        <5>3. CASE op[p].who \notin base.members
          <6>1. \/ op[o].kind = "admit" /\ op[o].who = op[p].who
                \/ op[o].kind = "fix" /\ op[p].who \in new.members
            BY <2>4, <3>3, <4>2, <5>3
          <6>2. new.id \in new.lineage /\ new.id > op[p].new.id
            BY <2>2, <5>1
          <6> QED BY <2>1, <4>2, <6>1, <6>2 DEF StillReadmitted
        <5> QED BY <5>2, <5>3
      <4> QED BY <2>1, <4>1, <4>2
    <3>4. KickSealed(p)'
      BY <3>1, <3>3, KeptKick, KickSealedNext
    <3> QED BY <3>2, <3>4
  <2>11. \A i \in Made' : i.tree \in 1..i.id /\ i.secret \in 1..i.id
    BY <2>1, <2>5, <2>6
  <2> HIDE DEF base, new
  <2> QED BY <2>7, <2>8, <2>9, <2>10, <2>11, SealedPartsNext
<1> QED BY <1>1, <1>2, StepSplit

\* Every index that descends from a kick is sealed with a secret that the user who
\* was kicked could never open, unless he was put back.
LEMMA SealedRevokes ==
  ASSUME TypeOK, Placed, Forest, Single, Coherent, Sealed,
         NEW o \in Ops, HasBuilt(o), Kicks(o), NEW r \in Relays,
         op[o].new.id \in relay[r].index.lineage,
         ~ReadmittedSince(op[o].who, op[o].new.id, relay[r].index)
  PROVE  /\ op[o].who \notin relay[r].index.members
         /\ {relay[r].index.secret, relay[r].key} \cap Known(op[o].who, relay[r].index) = {}
<1> DEFINE idx == relay[r].index
           m == op[o].who
           n == op[o].new
<1>1. idx \in Made /\ n \in Made /\ AllIndexes \subseteq Made
  BY DEF Placed, Made, AllIndexes
<1>2. m \notin idx.members
  BY <1>1 DEF Sealed
<1>3. relay[r].key = idx.secret
  BY <1>1 DEF Coherent, EventConsistent, Consistent, Sealed
<1>4. idx.secret \notin Known(m, idx)
  <2> SUFFICES ASSUME NEW i \in Made, i.id \in idx.lineage, m \in i.members,
                      i.secret = idx.secret
               PROVE  FALSE
    BY <1>1 DEF Known, Ancestors
  <2>1. n.secret = n.id /\ n.secret <= idx.secret
    BY <1>1 DEF Sealed, Rotates
  <2>2. i.id \in Nat /\ n.id \in Nat /\ i.secret \in 1..i.id /\ idx.secret \in Nat /\ n.id >= 1
    BY <1>1, MadeType DEF Sealed, Index
  <2>3. n.id \in 1..i.id
    BY <2>1, <2>2
  <2>4. i.lineage = idx.lineage \cap 1..i.id
    BY <1>1 DEF Forest
  <2>5. n.id \in i.lineage
    BY <2>3, <2>4
  <2>6. ReadmittedSince(m, n.id, i)
    BY <2>5 DEF Sealed
  <2>7. ReadmittedSince(m, n.id, idx)
    BY <2>4, <2>6 DEF ReadmittedSince
  <2> QED BY <2>7
<1> QED BY <1>2, <1>3, <1>4

-----------------------------------------------------------------------------
(* Publishes are not undone, and the history of every index is complete.    *)

LEMMA RereadingClones == Rereading => Cloning /\ NoSwallow
  BY DEF Rereading, Cloning, NoSwallow, ClosureKinds, RebuildKinds

\* A mutation that has sent its event does not sign or build again.
LEMMA SentKept ==
  ASSUME TypeOK, Traced, [Next]_vars, NEW o \in Ops, op[o].sent
  PROVE  /\ op'[o].sent /\ op'[o].event = op[o].event /\ op'[o].new = op[o].new
         /\ op'[o].pc = op[o].pc \/ (op[o].pc = "publishing" /\ op'[o].pc \in Final)
<1> DEFINE Q == /\ op'[o].sent /\ op'[o].event = op[o].event /\ op'[o].new = op[o].new
                /\ op'[o].pc = op[o].pc \/ (op[o].pc = "publishing" /\ op'[o].pc \in Final)
<1>. op[o].sent = TRUE
  BY DEF TypeOK, Op
<1>0. CASE op'[o] = op[o]
  BY <1>0
<1>1. ASSUME Click(o) \/ Step(o) PROVE Q
  <2>1. op[o].pc \in {"publishing"} \cup Final
    BY DEF Traced
  <2>2. ~Click(o) /\ ~TakeTurn(o) /\ ~ReadBans(o) /\ ~Builds(o) /\ ~Sends(o)
    BY <2>1, ClickEffect, TurnEffect, ListEffect, BuildEffect, SendEffect
  <2>3. CASE Drops(o)
    BY <2>1, <2>3, DropEffect DEF KeepsNew, KeepsEvent
  <2>4. CASE Commit(o)
    BY <2>1, <2>4, CommitEffect DEF KeepsNew, KeepsEvent
  <2>5. CASE SwallowError(o)
    BY <2>1, <2>5, SwallowEffect DEF KeepsNew, KeepsEvent
  <2> QED BY <1>1, <2>2, <2>3, <2>4, <2>5, StepKinds
<1>2. ASSUME NEW p \in Ops, p # o, Click(p) \/ Step(p) PROVE op'[o] = op[o]
  <2>1. Others(p)
    BY <1>2, ClickEffect, TurnEffect, ListEffect, BuildEffect, SendEffect, DropEffect,
       CommitEffect, SwallowEffect, StepKinds
  <2> QED BY <1>2, <2>1 DEF Others
<1>3. ASSUME NEW p \in Ops, NEW r \in Relays, Deliver(p, r) PROVE Q
  <2>1. CASE p = o
    BY <1>3, <2>1, DeliverEffect DEF KeepsNew
  <2>2. CASE p # o
    BY <1>0, <1>3, <2>2, DeliverEffect DEF Others
  <2> QED BY <2>1, <2>2
<1>4. CASE \E d \in Online : Listen(d)
  BY <1>0, <1>4, ListenEffect, ConstantsAssumption
<1>5. CASE \E b \in trash : Delete(b)
  BY <1>0, <1>5, DeleteEffect
<1>6. CASE UNCHANGED vars
  BY <1>0, <1>6 DEF vars
<1> QED BY <1>0, <1>1, <1>2, <1>3, <1>4, <1>5, <1>6 DEF Next

LEMMA ReachedKept ==
  ASSUME TypeOK, [Next]_vars, NEW o \in Ops
  PROVE  op[o].reached \subseteq op'[o].reached
<1>0. CASE op'[o] = op[o]
  BY <1>0
<1>1. ASSUME NEW p \in Ops, Click(p) \/ Step(p) PROVE Others(p) /\ op'[p].reached = op[p].reached
  BY <1>1, ClickEffect, TurnEffect, ListEffect, BuildEffect, SendEffect, DropEffect,
     CommitEffect, SwallowEffect, StepKinds DEF KeepsEvent
<1>2. CASE \E p \in Ops : Click(p) \/ Step(p)
  BY <1>1, <1>2 DEF Others
<1>3. ASSUME NEW p \in Ops, NEW r \in Relays, Deliver(p, r)
      PROVE  op[o].reached \subseteq op'[o].reached
  BY <1>3, DeliverEffect DEF Others
<1>4. CASE \E d \in Online : Listen(d)
  BY <1>0, <1>4, ListenEffect, ConstantsAssumption
<1>5. CASE \E b \in trash : Delete(b)
  BY <1>0, <1>5, DeleteEffect
<1>6. CASE UNCHANGED vars
  BY <1>0, <1>6 DEF vars
<1> QED BY <1>2, <1>3, <1>4, <1>5, <1>6 DEF Next

LEMMA BackedStep ==
  ASSUME TypeOK, Traced, [Next]_vars, NEW idx, Backed(idx)
  PROVE  StillBacked(idx)
<1>1. ASSUME NEW o \in Ops, Published(o)
      PROVE  op'[o].new = op[o].new /\ op'[o].reached # {}
  <2>1. op[o].sent
    BY <1>1 DEF Traced
  <2> QED BY <1>1, <2>1, SentKept, ReachedKept DEF Published
<1> QED BY <1>1, BackedKept

LEMMA InitListed == Init => Listed
<1> SUFFICES ASSUME Init PROVE Listed
  OBVIOUS
<1>1. \A o \in Ops : op[o].new = Genesis
  BY DEF Init
<1>2. Made = {Genesis}
  BY <1>1 DEF Made
<1>3. Genesis.secret = 1 /\ Genesis.hist = {1} /\ Genesis.id \in Genesis.lineage
  BY DEF Genesis
<1> QED BY <1>2, <1>3 DEF Listed

LEMMA StepListed ==
  ASSUME TypeOK, Placed, Forest, Single, Coherent, Traced, Rereading, Listed, [Next]_vars
  PROVE  Listed'
<1> DEFINE L(j) == {i.secret : i \in {k \in Made : k.id \in j.lineage}}
           M(j) == {i.secret : i \in {k \in Made' : k.id \in j.lineage}}
<1>0. SUFFICES \A j \in Made' : /\ j.hist = M(j)
                                /\ \A i \in Made' : i.id \in j.lineage /\ i # j => StillBacked(i)
  BY DEF Listed, Backed, StillBacked, Published
<1>1. CASE Settled
  BY <1>1, MadeSettled, BackedStep DEF Listed
<1>2. ASSUME NEW o \in Ops, Builds(o)
      PROVE  \A j \in Made' : /\ j.hist = M(j)
                              /\ \A i \in Made' : i.id \in j.lineage /\ i # j => StillBacked(i)
  <2> DEFINE base == op[o].hub.index
             new == op'[o].new
  <2>1. Made' = Made \cup {new}
    BY <1>2, MadeGrows
  <2>2. /\ base \in Made /\ base.id \in base.lineage
        /\ new.id = Fresh /\ new.lineage = base.lineage \cup {Fresh}
        /\ \A i \in Made : i.id # Fresh /\ Fresh \notin i.lineage
    BY <1>2, FreshFacts
  <2>3. /\ op[o].kind \notin RebuildKinds /\ op[o].kind # "fix"
    <3>1. op[o].kind \in Kinds
      BY <1>2, BuildEffect, CoherentParts DEF Sound
    <3> QED BY <3>1 DEF Rereading, ClosureKinds, RebuildKinds
  <2>4. \/ new.secret = base.secret /\ new.hist = base.hist
        \/ new.secret = Fresh /\ new.hist = base.hist \cup {base.secret, Fresh}
    BY <1>2, <2>3, CloningBuild
  <2>5. \A j \in Made : j.hist = L(j)
    BY DEF Listed
  <2>6. ASSUME NEW j \in Made PROVE j.hist = M(j)
    <3>1. {k \in Made' : k.id \in j.lineage} = {k \in Made : k.id \in j.lineage}
      BY <2>1, <2>2
    <3> QED BY <2>5, <3>1
  <2>7. new.hist = M(new)
    <3>1. {k \in Made' : k.id \in new.lineage} = {k \in Made : k.id \in base.lineage} \cup {new}
      BY <2>1, <2>2
    <3>2. M(new) = L(base) \cup {new.secret}
      BY <3>1
    <3>3. base.hist = L(base)
      BY <2>2, <2>5
    <3>4. base.secret \in L(base)
      BY <2>2
    <3> HIDE DEF L, M, new
    <3> QED BY <2>4, <3>2, <3>3, <3>4
  <2>8. ASSUME NEW j \in Made', NEW i \in Made', i.id \in j.lineage, i # j PROVE StillBacked(i)
    <3>1. CASE j \in Made
      <4>1. i \in Made
        BY <2>1, <2>2, <2>8, <3>1
      <4> QED BY <2>8, <3>1, <4>1, BackedStep DEF Listed
    <3>2. CASE j = new
      <4>1. i \in Made /\ i.id \in base.lineage
        BY <2>1, <2>2, <2>8, <3>2
      <4>2. Backed(i)
        BY <2>2, <4>1 DEF Listed, Traced
      <4> QED BY <4>2, BackedStep
    <3> QED BY <2>1, <3>1, <3>2
  <2> HIDE DEF M, new, base
  <2> QED BY <2>1, <2>6, <2>7, <2>8
<1> QED BY <1>1, <1>2, StepSplit

LEMMA ListedHistory ==
  ASSUME Placed, Traced, Listed
  PROVE  HistoryComplete
<1> SUFFICES ASSUME NEW r \in Relays
             PROVE  relay[r].index.hist = {i.secret : i \in Ancestors(relay[r].index)}
  BY DEF HistoryComplete
<1> DEFINE j == relay[r].index
<1>1. j \in Made /\ Backed(j)
  BY DEF Placed, Traced
<1>2. \A i \in Made : i.id \in j.lineage => Backed(i)
  BY <1>1 DEF Listed
<1>3. Ancestors(j) = {k \in Made : k.id \in j.lineage}
  BY <1>2 DEF Ancestors, AllIndexes, Made, Backed
<1>4. j.hist = {i.secret : i \in {k \in Made : k.id \in j.lineage}}
  BY <1>1 DEF Listed
<1> QED BY <1>3, <1>4

-----------------------------------------------------------------------------
(* Who stamped what, and how relays replace events.                         *)

LEMMA CloningKinds ==
  ASSUME Coherent, Cloning, NEW o \in Ops, op[o].pc # "idle"
  PROVE  op[o].kind \notin RebuildKinds /\ op[o].kind # "roles" /\ op[o].pc # "signed"
  BY CoherentParts DEF Sound, Cloning, RebuildKinds

LEMMA CloningSwallowsNothing == Cloning => NoSwallow
  BY DEF Cloning, NoSwallow, RebuildKinds

\* A mutation that clones sends by Republish only, and swallows nothing.
LEMMA CloningSteps ==
  ASSUME TypeOK, Coherent, Cloning, NEW o \in Ops
  PROVE  ~Sign(o) /\ ~CheckIndex(o) /\ ~SwallowError(o)
<1>1. ~Sign(o) /\ ~CheckIndex(o)
  BY CloningKinds DEF Sign, CheckIndex
<1>2. ~SwallowError(o)
  BY CloningKinds, SwallowEffect
<1> QED BY <1>1, <1>2

\* Genuine, for the state after a step.
StillGenuine(idx, created) ==
    \/ idx = Genesis /\ created = 1
    \/ \E o \in Ops : op'[o].sent /\ op'[o].new = idx /\ op'[o].event.created = created

LEMMA GenuineKept ==
  ASSUME TypeOK, Traced, [Next]_vars, NEW idx, NEW created, Genuine(idx, created)
  PROVE  StillGenuine(idx, created)
  BY SentKept DEF Genuine, StillGenuine

\* What Timed says of one mutation.
OwnTimed(o) ==
    /\ op[o].sent => HasBuilt(o) /\ op[o].event.created > 1
    /\ op[o].pc = "publishing" => op[o].sent
    /\ op[o].pc = "done" => op[o].sent /\ Published(o)
    /\ \A r \in op[o].reached : relay[r].created >= op[o].event.created

LEMMA TimedParts ==
  Timed <=> /\ \A r \in Relays : Genuine(relay[r].index, relay[r].created)
            /\ \A d \in Devices : /\ Genuine(store[d].hub.index, store[d].hub.created)
                                  /\ Genuine(reader[d].event.index, reader[d].event.created)
            /\ \A o \in Ops : /\ Genuine(op[o].seen.index, op[o].seen.created)
                              /\ Genuine(op[o].hub.index, op[o].hub.created)
                              /\ OwnTimed(o)
  BY DEF Timed, OwnTimed

LEMMA TimedNext ==
  ASSUME \A r \in Relays : StillGenuine(relay'[r].index, relay'[r].created),
         \A d \in Devices : /\ StillGenuine(store'[d].hub.index, store'[d].hub.created)
                            /\ StillGenuine(reader'[d].event.index, reader'[d].event.created),
         \A o \in Ops : /\ StillGenuine(op'[o].seen.index, op'[o].seen.created)
                        /\ StillGenuine(op'[o].hub.index, op'[o].hub.created)
                        /\ OwnTimed(o)'
  PROVE  Timed'
  BY DEF Timed, OwnTimed, StillGenuine, Genuine

LEMMA InitTimed == Init => Timed
<1> SUFFICES ASSUME Init PROVE Timed
  OBVIOUS
<1>1. GenesisEvent.index = Genesis /\ GenesisEvent.created = 1
  BY DEF GenesisEvent
<1>2. ViewOf(GenesisEvent).index = Genesis /\ ViewOf(GenesisEvent).created = 1
  BY <1>1 DEF ViewOf
<1>3. \A r \in Relays : relay[r] = GenesisEvent
  BY DEF Init
<1>4. \A d \in Devices : store[d].hub = ViewOf(GenesisEvent) /\ reader[d].event = GenesisEvent
  BY DEF Init
<1>5. \A o \in Ops : /\ op[o].seen = ViewOf(GenesisEvent) /\ op[o].hub = ViewOf(GenesisEvent)
                     /\ op[o].pc = "idle" /\ op[o].sent = FALSE /\ op[o].reached = {}
  BY DEF Init
<1>6. \A o \in Ops : OwnTimed(o)
  BY <1>5 DEF OwnTimed
<1> QED BY <1>1, <1>2, <1>3, <1>4, <1>5, <1>6, TimedParts DEF Genuine

\* Where a mutation's step leaves the views that it and its device hold.
LEMMA ViewSteps ==
  ASSUME TypeOK, NEW o \in Ops, Click(o) \/ Step(o)
  PROVE  /\ UNCHANGED <<relay, reader>> /\ Others(o)
         /\ op'[o].seen \in {op[o].seen, Here(o).hub}
         /\ op'[o].hub \in {op[o].hub, op[o].seen, Here(o).hub}
         /\ \/ Commit(o) \/ SwallowError(o)
            \/ \A d \in Devices : store'[d].hub = store[d].hub
<1>1. CASE Click(o)
  BY <1>1, ClickEffect
<1>2. CASE TakeTurn(o)
  BY <1>2, TurnEffect
<1>3. CASE ReadBans(o)
  BY <1>3, ListEffect DEF KeepsBase
<1>4. CASE Builds(o)
  BY <1>4, BuildEffect DEF KeepsBase
<1>5. CASE Sends(o)
  BY <1>5, SendEffect DEF KeepsBase
<1>6. CASE Drops(o)
  BY <1>6, DropEffect DEF KeepsBase
<1>7. CASE Commit(o)
  BY <1>7, CommitEffect DEF KeepsBase
<1>8. CASE SwallowError(o)
  BY <1>8, SwallowEffect DEF KeepsBase
<1> QED BY <1>1, <1>2, <1>3, <1>4, <1>5, <1>6, <1>7, <1>8, StepKinds

\* The created_at of an event on a relay is positive.
LEMMA StampPositive ==
  ASSUME TypeOK, Timed, NEW r \in Relays
  PROVE  relay[r].created \in Nat /\ relay[r].created >= 1
<1>1. relay[r].created \in Nat
  BY DEF TypeOK, Event
<1>2. \A o \in Ops : op[o].event.created \in Nat
  BY DEF TypeOK, Op, Event
<1>3. CASE relay[r].created = 1
  BY <1>1, <1>3
<1>4. CASE \E o \in Ops : op[o].sent /\ op[o].event.created = relay[r].created
  <2>1. PICK o \in Ops : op[o].sent /\ op[o].event.created = relay[r].created
    BY <1>4
  <2>2. op[o].event.created > 1
    BY <2>1 DEF Timed
  <2> QED BY <1>1, <2>1, <2>2
<1> QED BY <1>3, <1>4 DEF Timed, Genuine

\* What a mutation's own step makes of its own part.
LEMMA OwnStep ==
  ASSUME TypeOK, Single, Coherent, Traced, Timed, Cloning, NEW o \in Ops, Click(o) \/ Step(o)
  PROVE  OwnTimed(o)'
<1>1. OwnTimed(o) /\ op[o].sent \in BOOLEAN /\ UNCHANGED relay
  BY TimedParts, ViewSteps DEF TypeOK, Op
<1>2. op[o].pc \in {"idle", "queued", "read", "listed", "built"} => op[o].sent = FALSE /\ op[o].reached = {}
  <2>1. op[o].sent => op[o].pc \notin {"idle", "queued", "read", "listed", "built"}
    BY DEF Traced
  <2>2. op[o].reached # {} => op[o].sent
    BY DEF Traced, Published
  <2> QED BY <1>1, <2>1, <2>2
<1>3. CASE Click(o)
  BY <1>1, <1>2, <1>3, ClickEffect DEF OwnTimed, KeepsEvent
<1>4. CASE TakeTurn(o)
  BY <1>1, <1>2, <1>4, TurnEffect DEF OwnTimed, KeepsEvent
<1>5. CASE ReadBans(o)
  BY <1>1, <1>2, <1>5, ListEffect DEF OwnTimed, KeepsEvent
<1>6. CASE Builds(o)
  BY <1>1, <1>2, <1>6, BuildEffect DEF OwnTimed, KeepsEvent
<1>7. CASE Sends(o)
  <2>1. Republish(o)
    BY <1>7, CloningSteps DEF Sends
  <2>2. PICK r \in Relays : op'[o].event.created = relay[r].created + 1
    BY <2>1, RepublishEffect
  <2>3. op'[o].event.created > 1
    BY <2>2, StampPositive
  <2>4. op[o].pc = "built" /\ op'[o].pc = "publishing" /\ op'[o].sent = TRUE
        /\ op'[o].reached = op[o].reached /\ op'[o].new = op[o].new
    BY <2>1, RepublishEffect DEF KeepsNew
  <2>5. HasBuilt(o)'
    BY <2>4 DEF Single, HasBuilt
  <2> QED BY <1>2, <2>3, <2>4, <2>5 DEF OwnTimed
<1>8. CASE Drops(o)
  BY <1>1, <1>8, DropEffect DEF OwnTimed, KeepsEvent, KeepsNew, HasBuilt
<1>9. CASE Commit(o)
  <2>1. /\ op[o].pc = "publishing" /\ op'[o].pc = "done" /\ Published(o)
        /\ op'[o].new = op[o].new /\ KeepsEvent(o)
    BY <1>9, CommitEffect DEF KeepsNew
  <2>2. op[o].sent
    BY <1>1, <2>1 DEF OwnTimed
  <2> QED BY <1>1, <2>1, <2>2 DEF OwnTimed, KeepsEvent, HasBuilt, Published
<1> QED BY <1>3, <1>4, <1>5, <1>6, <1>7, <1>8, <1>9, StepKinds, CloningSteps

\* Of a relay, only a newer event replaces the one it serves.
LEMMA RelayGrows ==
  ASSUME TypeOK, [Next]_vars, NEW r \in Relays
  PROVE  relay[r].created \in Nat /\ relay'[r].created \in Nat
         /\ relay'[r].created >= relay[r].created
<1> DEFINE G == relay'[r].created \in Nat /\ relay'[r].created >= relay[r].created
<1>1. relay[r].created \in Nat
  BY DEF TypeOK, Event
<1>2. ASSUME UNCHANGED relay PROVE G
  BY <1>1, <1>2
<1>3. ASSUME NEW o \in Ops, NEW q \in Relays, Deliver(o, q) PROVE G
  <2>1. op[o].event.created \in Nat
    BY DEF TypeOK, Op, Event
  <2> QED BY <1>1, <1>3, <2>1, DeliverEffect
<1> QED BY <1>1, <1>2, <1>3, ViewSteps, ListenEffect, DeleteEffect, ConstantsAssumption DEF Next, vars

LEMMA StepTimed ==
  ASSUME TypeOK, Single, Coherent, Traced, Timed, Cloning, [Next]_vars
  PROVE  Timed'
<1>1. \A idx, created : Genuine(idx, created) => StillGenuine(idx, created)
  BY GenuineKept
<1>2. /\ \A r \in Relays : StillGenuine(relay[r].index, relay[r].created)
      /\ \A d \in Devices : /\ StillGenuine(store[d].hub.index, store[d].hub.created)
                            /\ StillGenuine(reader[d].event.index, reader[d].event.created)
      /\ \A o \in Ops : /\ StillGenuine(op[o].seen.index, op[o].seen.created)
                        /\ StillGenuine(op[o].hub.index, op[o].hub.created)
  BY <1>1, TimedParts
<1>3. \A o \in Ops : OwnTimed(o)
  BY TimedParts
<1>4. ASSUME NEW o \in Ops, op'[o] = op[o] PROVE OwnTimed(o)'
  <2>1. op[o].reached \subseteq Relays /\ op[o].event.created \in Nat
    BY DEF TypeOK, Op, Event
  <2>2. \A r \in op[o].reached : relay'[r].created >= op[o].event.created
    BY <1>3, <2>1, RelayGrows DEF OwnTimed
  <2> QED BY <1>3, <1>4, <2>2 DEF OwnTimed, HasBuilt, Published
<1>5. CASE UNCHANGED <<relay, store, reader, op>>
  BY <1>2, <1>4, <1>5, TimedNext
<1>6. ASSUME NEW o \in Ops, Click(o) \/ Step(o) PROVE Timed'
  <2>1. UNCHANGED <<relay, reader>> /\ Others(o)
    BY <1>6, ViewSteps
  <2>2. \A p \in Ops : OwnTimed(p)'
    BY <1>4, <1>6, <2>1, OwnStep DEF Others
  <2>3. \A d \in Devices : StillGenuine(store'[d].hub.index, store'[d].hub.created)
    <3>1. CASE \A d \in Devices : store'[d].hub = store[d].hub
      BY <1>2, <3>1
    <3>2. CASE Commit(o)
      <4>1. op[o].sent
        BY <1>3, <3>2, CommitEffect DEF OwnTimed
      <4>2. StillGenuine(op[o].new, op[o].event.created)
        BY <4>1, SentKept DEF StillGenuine
      <4> QED BY <1>2, <3>2, <4>2, CommitEffect
    <3> QED BY <1>6, <3>1, <3>2, ViewSteps, CloningSteps
  <2>4. /\ StillGenuine(op'[o].seen.index, op'[o].seen.created)
        /\ StillGenuine(op'[o].hub.index, op'[o].hub.created)
    BY <1>2, <1>6, ViewSteps, HereType DEF Here
  <2> QED BY <1>2, <2>1, <2>2, <2>3, <2>4, TimedNext DEF Others
<1>7. ASSUME NEW o \in Ops, NEW r \in Relays, Deliver(o, r) PROVE Timed'
  <2>1. /\ op[o].sent /\ Others(o) /\ KeepsBase(o) /\ op'[o].new = op[o].new
        /\ op'[o].pc = op[o].pc /\ op'[o].event = op[o].event /\ op'[o].sent = op[o].sent
        /\ op'[o].reached = op[o].reached \cup {r} /\ relay'[r] = op[o].event
        /\ \A q \in Relays : q # r => relay'[q] = relay[q]
        /\ UNCHANGED <<store, reader>>
    BY <1>7, DeliverEffect DEF KeepsNew
  <2>2. StillGenuine(op[o].event.index, op[o].event.created)
    BY <2>1, SentKept DEF StillGenuine, Traced
  <2>3. OwnTimed(o)'
    <3>1. op[o].reached \subseteq Relays /\ op[o].event.created \in Nat
      BY DEF TypeOK, Op, Event
    <3>2. \A q \in op'[o].reached : relay'[q].created >= op[o].event.created
      BY <1>3, <2>1, <3>1, RelayGrows DEF OwnTimed
    <3> QED BY <1>3, <2>1, <3>2 DEF OwnTimed, HasBuilt, Published
  <2>4. \A p \in Ops : OwnTimed(p)'
    BY <1>4, <2>1, <2>3 DEF Others
  <2>5. \A q \in Relays : StillGenuine(relay'[q].index, relay'[q].created)
    BY <1>2, <2>1, <2>2
  <2> QED BY <1>2, <2>1, <2>4, <2>5, TimedNext DEF Others, KeepsBase
<1>8. ASSUME NEW d \in Devices, Listen(d) PROVE Timed'
  <2>1. UNCHANGED <<relay, op>>
    BY <1>8, ListenEffect
  <2>2. \A o \in Ops : OwnTimed(o)'
    BY <1>4, <2>1
  <2>3. \A e \in Devices : /\ StillGenuine(store'[e].hub.index, store'[e].hub.created)
                            /\ StillGenuine(reader'[e].event.index, reader'[e].event.created)
    BY <1>2, <1>8, ListenEffect
  <2> QED BY <1>2, <2>1, <2>2, <2>3, TimedNext
<1> QED BY <1>5, <1>6, <1>7, <1>8, DeleteEffect, ConstantsAssumption DEF Next, vars

-----------------------------------------------------------------------------
(* One device: its mutations form a chain.                                  *)

\* What a step of one device's re-reading handlers may start from.
Ground == IInv /\ OneDevice /\ Rereading

LEMMA GroundFacts ==
  ASSUME Ground
  PROVE  /\ TypeOK /\ LockHeld /\ Placed /\ Forest /\ Single /\ Coherent /\ Sealed
         /\ Traced /\ Timed /\ Cloning /\ OneDevice /\ Rereading
  BY RereadingClones DEF Ground, IInv

LEMMA OneActive ==
  ASSUME LockHeld, OneDevice, NEW o \in Ops, NEW p \in Ops,
         op[o].pc \in Active, op[p].pc \in Active
  PROVE  o = p
<1>1. DeviceOf[o] = DeviceOf[p] /\ HasLock(o) /\ HasLock(p)
  BY DEF LockHeld, OneDevice
<1> QED BY <1>1 DEF HasLock

\* Two indexes that descend from each other are one.
LEMMA MutualDescent ==
  ASSUME TypeOK, Forest, Single, NEW i \in Made, NEW j \in Made,
         i.id \in j.lineage, j.id \in i.lineage
  PROVE  i = j
<1>1. i.id \in Nat /\ j.id \in Nat
  BY MadeType DEF Index
<1>2. i.id \in 1..j.id /\ j.id \in 1..i.id
  BY DEF Forest
<1>3. i.id = j.id
  BY <1>1, <1>2
<1>4. Genesis.id = 1
  BY DEF Genesis
<1>5. CASE i = Genesis /\ j = Genesis
  BY <1>5
<1>6. ASSUME NEW o \in Ops, HasBuilt(o), i = op[o].new PROVE i = j
  <2>1. op[o].new.id # 1
    BY <1>1, <1>6 DEF Single, Descends
  <2> QED BY <1>3, <1>4, <1>6, <2>1 DEF Made, Single
<1>7. ASSUME NEW o \in Ops, HasBuilt(o), j = op[o].new PROVE i = j
  <2>1. op[o].new.id # 1
    BY <1>1, <1>7 DEF Single, Descends
  <2> QED BY <1>3, <1>4, <1>7, <2>1 DEF Made, Single
<1> QED BY <1>5, <1>6, <1>7 DEF Made, HasBuilt

LEMMA GenuineMade ==
  ASSUME TypeOK, Timed, NEW idx, NEW created, Genuine(idx, created)
  PROVE  idx \in Made /\ created \in Nat /\ created >= 1 /\ Alive(idx)
<1>1. CASE idx = Genesis /\ created = 1
  BY <1>1 DEF Made, Alive
<1>2. ASSUME NEW o \in Ops, op[o].sent, op[o].new = idx, op[o].event.created = created
      PROVE  idx \in Made /\ created \in Nat /\ created >= 1 /\ Alive(idx)
  <2>1. created \in Nat /\ created > 1
    BY <1>2 DEF Timed, TypeOK, Op, Event
  <2> QED BY <1>2, <2>1 DEF Made, Alive
<1> QED BY <1>1, <1>2 DEF Genuine

\* An index has one created_at.
LEMMA OneStamp ==
  ASSUME Single, Timed, NEW idx, NEW c, NEW e, Genuine(idx, c), Genuine(idx, e)
  PROVE  c = e
<1>1. ASSUME NEW o \in Ops, op[o].sent, op[o].new = idx PROVE idx # Genesis
  BY <1>1 DEF Timed, HasBuilt
<1>2. ASSUME NEW o \in Ops, NEW p \in Ops, op[o].sent, op[p].sent,
             op[o].new = idx, op[p].new = idx
      PROVE  o = p
  BY <1>2 DEF Timed, Single
<1> QED BY <1>1, <1>2 DEF Genuine

\* The two parts of Chained.
Ordered ==
    \A o, p \in Ops : op[o].sent /\ op[p].sent /\ op[p].event.created <= op[o].event.created
                         => op[p].new.id \in op[o].new.lineage

OwnChained(o) ==
    /\ op[o].pc = "queued" => op[o].seen.created <= Here(o).hub.created
    /\ op[o].pc \in Active => op[o].seen.created <= op[o].hub.created
    /\ op[o].pc \in {"read", "listed", "built"} =>
          \A p \in Ops : op[p].sent => op[p].event.created <= op[o].hub.created
    /\ op[o].pc = "publishing" =>
          \A p \in Ops : op[p].sent => op[p].event.created <= op[o].event.created
    /\ op[o].sent /\ op[o].pc # "publishing" =>
          op[o].event.created <= Here(o).hub.created

LEMMA ChainedParts == Chained <=> Ordered /\ \A o \in Ops : OwnChained(o)
  BY DEF Chained, Ordered, OwnChained

LEMMA ChainedPartsNext == Chained' <=> Ordered' /\ \A o \in Ops : OwnChained(o)'
  BY DEF Chained, Ordered, OwnChained

\* A later stamp is a descendant's.
LEMMA Descended ==
  ASSUME TypeOK, Forest, Single, Timed, Ordered, NEW i, NEW c, NEW j, NEW e,
         Genuine(i, c), Genuine(j, e), c <= e
  PROVE  i.id \in j.lineage
<1>1. i \in Made /\ j \in Made
  BY GenuineMade
<1>2. CASE i = Genesis
  <2>1. i.id = 1
    BY <1>2 DEF Genesis
  <2> QED BY <1>1, <2>1 DEF Forest
<1>3. ASSUME NEW p \in Ops, op[p].sent, op[p].new = i, op[p].event.created = c
      PROVE  i.id \in j.lineage
  <2>1. c > 1 /\ c \in Nat
    BY <1>3 DEF Timed, TypeOK, Op, Event
  <2>2. e # 1
    BY <2>1
  <2>3. PICK q \in Ops : op[q].sent /\ op[q].new = j /\ op[q].event.created = e
    BY <2>2 DEF Genuine
  <2> QED BY <1>3, <2>3 DEF Ordered
<1> QED BY <1>2, <1>3 DEF Genuine

LEMMA NotSent ==
  ASSUME TypeOK, Traced, NEW o \in Ops, op[o].pc \in {"idle", "queued", "read", "listed", "built"}
  PROVE  op[o].sent = FALSE
  BY DEF TypeOK, Op, Traced

LEMMA CreatedType ==
  ASSUME TypeOK
  PROVE  /\ \A o \in Ops : /\ op[o].event.created \in Nat /\ op[o].seen.created \in Nat
                           /\ op[o].hub.created \in Nat /\ op[o].sent \in BOOLEAN
         /\ \A d \in Devices : store[d].hub.created \in Nat /\ reader[d].event.created \in Nat
         /\ \A o \in Ops : DeviceOf[o] \in Devices /\ Here(o) = store[DeviceOf[o]]
<1>1. \A o \in Ops : /\ op[o].event.created \in Nat /\ op[o].seen.created \in Nat
                     /\ op[o].hub.created \in Nat /\ op[o].sent \in BOOLEAN
  BY DEF TypeOK, Op, Event, HubView
<1>2. \A d \in Devices : store[d].hub.created \in Nat /\ reader[d].event.created \in Nat
  BY DEF TypeOK, Store, Reader, Event, HubView
<1>3. \A o \in Ops : DeviceOf[o] \in Devices /\ Here(o) = store[DeviceOf[o]]
  BY ConstantsAssumption DEF Here
<1> QED BY <1>1, <1>2, <1>3

\* While it publishes, a mutation's event is newer than what its device shows.
LEMMA PublishingAhead ==
  ASSUME Ground, Chained, NEW o \in Ops, op[o].pc = "publishing", NEW d \in Devices
  PROVE  store[d].hub.created <= op[o].event.created
<1>0. TypeOK /\ Timed /\ OwnChained(o)
  BY GroundFacts, ChainedParts
<1>1. Genuine(store[d].hub.index, store[d].hub.created) /\ op[o].sent /\ op[o].event.created > 1
  BY <1>0 DEF Timed
<1>2. CASE store[d].hub.created = 1
  BY <1>0, <1>1, <1>2, CreatedType
<1>3. ASSUME NEW q \in Ops, op[q].sent, op[q].event.created = store[d].hub.created
      PROVE  store[d].hub.created <= op[o].event.created
  BY <1>0, <1>3 DEF OwnChained
<1> QED BY <1>1, <1>2, <1>3 DEF Genuine

\* What a device shows is never set back.
LEMMA NeverBack ==
  ASSUME Ground, InTime, Chained, [Next]_vars, NEW d \in Devices
  PROVE  store[d].hub.created \in Nat /\ store'[d].hub.created \in Nat
         /\ store'[d].hub.created >= store[d].hub.created
<1> DEFINE G == store'[d].hub.created \in Nat /\ store'[d].hub.created >= store[d].hub.created
<1>0. TypeOK /\ Coherent /\ Cloning /\ store[d].hub.created \in Nat
  BY GroundFacts, CreatedType
<1>1. ASSUME store'[d].hub = store[d].hub PROVE G
  BY <1>0, <1>1
<1>2. ASSUME NEW o \in Ops, Click(o) \/ Step(o) PROVE G
  <2>1. CASE Commit(o)
    <3>1. op[o].pc = "publishing" /\ op[o].event.created \in Nat
      BY <1>0, <2>1, CommitEffect, CreatedType
    <3>2. store[d].hub.created <= op[o].event.created
      BY <3>1, PublishingAhead
    <3> QED BY <1>0, <1>1, <2>1, <3>1, <3>2, CommitEffect
  <2> QED BY <1>0, <1>1, <1>2, <2>1, ViewSteps, CloningSteps
<1>3. ASSUME NEW e \in Devices, Listen(e) PROVE G
  <2>1. \/ store'[d].hub = store[d].hub
        \/ reader[d].phase = "loaded" /\ store'[d].hub.created = reader[d].event.created
    BY <1>0, <1>3, ListenEffect
  <2>2. reader[d].phase = "loaded" => reader[d].event.created >= store[d].hub.created
    BY DEF InTime
  <2> QED BY <1>0, <1>1, <2>1, <2>2, CreatedType
<1>4. ASSUME UNCHANGED store PROVE G
  BY <1>1, <1>4
<1> QED BY <1>0, <1>2, <1>3, <1>4, DeliverEffect, DeleteEffect, ConstantsAssumption DEF Next, vars

\* No step sends but Republish, and no event that was sent changes.
Calm == \A p \in Ops : /\ op'[p].sent = op[p].sent /\ op'[p].event = op[p].event
                       /\ op[p].sent => op'[p].new = op[p].new

LEMMA CalmStep ==
  ASSUME TypeOK, Coherent, Traced, Cloning, NEW o \in Ops, Click(o) \/ Step(o), ~Republish(o)
  PROVE  Calm
<1>1. Others(o)
  BY ViewSteps
<1>2. KeepsEvent(o)
  BY ClickEffect, TurnEffect, ListEffect, BuildEffect, DropEffect, CommitEffect, StepKinds,
     CloningSteps DEF Sends
<1>3. op[o].sent => op'[o].new = op[o].new
  <2>1. CASE Builds(o)
    BY <2>1, BuildEffect, NotSent
  <2> QED BY <2>1, ClickEffect, TurnEffect, ListEffect, DropEffect, CommitEffect, StepKinds,
             CloningSteps DEF Sends, KeepsNew
<1> QED BY <1>1, <1>2, <1>3 DEF Calm, Others, KeepsEvent

LEMMA CalmOrdered == ASSUME TypeOK, Calm, Ordered PROVE Ordered'
<1>1. ASSUME NEW o \in Ops, NEW p \in Ops, op'[o].sent, op'[p].sent,
             op'[p].event.created <= op'[o].event.created
      PROVE  op'[p].new.id \in op'[o].new.lineage
  <2>1. op[o].sent /\ op[p].sent /\ op[p].event.created <= op[o].event.created
    BY <1>1 DEF Calm
  <2>2. op'[p].new = op[p].new /\ op'[o].new = op[o].new
    BY <2>1 DEF Calm
  <2> QED BY <2>1, <2>2 DEF Ordered
<1> QED BY <1>1 DEF Ordered

\* Who does not move keeps his part.
LEMMA CalmOwn ==
  ASSUME TypeOK, Calm, NEW o \in Ops, op'[o] = op[o], OwnChained(o),
         store'[DeviceOf[o]].hub.created \in Nat,
         store'[DeviceOf[o]].hub.created >= store[DeviceOf[o]].hub.created
  PROVE  OwnChained(o)'
<1>1. \A p \in Ops : op'[p].sent => op[p].sent /\ op'[p].event = op[p].event
  BY DEF Calm
<1>2. \A c \in Nat : c <= Here(o).hub.created => c <= Here(o)'.hub.created
  BY CreatedType DEF Here
<1> QED BY <1>1, <1>2, CreatedType DEF OwnChained

LEMMA GivenUpStays ==
  ASSUME TypeOK, Traced, [Next]_vars, NoneGivenUp'
  PROVE  NoneGivenUp
<1> SUFFICES ASSUME NEW o \in Ops, GivenUp(o) PROVE FALSE
  BY DEF NoneGivenUp
<1>1. op'[o].sent /\ op'[o].pc \in {"failed", "swallowed"}
  BY SentKept DEF GivenUp
<1> QED BY <1>1 DEF NoneGivenUp, GivenUp

\* What a mutation's own step makes of its part.
LEMMA OwnChainedStep ==
  ASSUME Ground, Chained, NEW o \in Ops, Click(o) \/ Step(o), ~Republish(o), NoneGivenUp'
  PROVE  OwnChained(o)'
<1>0. /\ TypeOK /\ LockHeld /\ Coherent /\ Traced /\ Timed /\ Cloning /\ OneDevice /\ Rereading
      /\ OwnChained(o) /\ \A p \in Ops : OwnChained(p)
  BY GroundFacts, ChainedParts
<1>1. Calm
  BY <1>0, CalmStep
<1>2. /\ \A p \in Ops : op'[p].sent = op[p].sent /\ op'[p].event = op[p].event
      /\ op[o].pc \in {"idle", "queued", "read", "listed", "built"} => op'[o].sent = FALSE
  BY <1>0, <1>1, NotSent DEF Calm
<1>3. CASE Click(o)
  <2>1. /\ op'[o].pc = "queued" /\ op'[o].seen = Here(o).hub /\ op[o].pc = "idle"
        /\ UNCHANGED store
    BY <1>0, <1>3, ClickEffect
  <2>2. Here(o)' = Here(o) /\ Here(o).hub.created \in Nat
    BY <1>0, <2>1, CreatedType DEF Here
  <2> QED BY <1>2, <2>1, <2>2 DEF OwnChained
<1>4. CASE TakeTurn(o)
  <2>1. /\ op[o].pc = "queued" /\ op'[o].pc = "read" /\ op'[o].seen = op[o].seen
        /\ op'[o].hub = Here(o).hub /\ HasLock(o)
    <3>1. op[o].kind \notin ClosureKinds
      BY <1>0, <1>4, TurnEffect DEF Traced, Rereading
    <3> QED BY <1>0, <1>4, <3>1, TurnEffect DEF TakeTurn
  <2>2. ASSUME NEW p \in Ops, op[p].sent PROVE op[p].event.created <= Here(o).hub.created
    <3>1. op[p].pc # "publishing"
      <4>1. ASSUME op[p].pc = "publishing" PROVE FALSE
        <5>1. HasLock(p) /\ DeviceOf[o] = DeviceOf[p]
          BY <1>0, <4>1 DEF LockHeld, OneDevice
        <5> QED BY <2>1, <4>1, <5>1 DEF HasLock
      <4> QED BY <4>1
    <3>2. Here(p) = Here(o)
      BY <1>0 DEF OneDevice, Here
    <3> QED BY <1>0, <2>2, <3>1, <3>2 DEF OwnChained
  <2> QED BY <1>0, <1>2, <2>1, <2>2 DEF OwnChained
<1>5. CASE ReadBans(o)
  BY <1>0, <1>2, <1>5, ListEffect DEF OwnChained, KeepsBase
<1>6. CASE Builds(o)
  BY <1>0, <1>2, <1>6, BuildEffect DEF OwnChained, KeepsBase
<1>7. CASE Drops(o)
  <2>1. op[o].pc \in Active /\ op'[o].pc \in Final
        /\ (op[o].pc = "publishing" => op'[o].pc = "failed")
    BY <1>0, <1>7, DropEffect
  <2>2. op'[o].sent = FALSE
    <3>1. CASE op[o].pc = "publishing"
      <4>1. op'[o].sent
        BY <1>0, <1>2, <3>1 DEF Timed
      <4> QED BY <2>1, <3>1, <4>1 DEF NoneGivenUp, GivenUp
    <3>2. CASE op[o].pc # "publishing"
      BY <1>0, <1>2, <2>1, <3>2, CloningKinds
    <3> QED BY <3>1, <3>2
  <2> QED BY <2>1, <2>2 DEF OwnChained
<1>8. CASE Commit(o)
  <2>1. /\ op'[o].pc = "done" /\ op'[o].event = op[o].event
        /\ store'[DeviceOf[o]].hub.created = op[o].event.created
    BY <1>0, <1>8, CommitEffect DEF KeepsEvent
  <2>2. op[o].event.created \in Nat
    BY <1>0, CreatedType
  <2> QED BY <2>1, <2>2 DEF OwnChained, Here
<1> QED BY <1>0, <1>3, <1>4, <1>5, <1>6, <1>7, <1>8, StepKinds, CloningSteps DEF Sends

\* The new event is stamped right after the base.
LEMMA RepublishStamp ==
  ASSUME Ground, NEW o \in Ops, Republish(o)
  PROVE  op'[o].event.created = op[o].hub.created + 1
<1>0. TypeOK /\ Single /\ Timed
  BY GroundFacts
<1>1. PICK r \in Relays : /\ relay[r].index = op[o].hub.index
                          /\ op'[o].event.created = relay[r].created + 1
  BY <1>0, RepublishEffect
<1>2. relay[r].created = op[o].hub.created
  BY <1>0, <1>1, OneStamp DEF Timed
<1> QED BY <1>1, <1>2

LEMMA RepublishChained ==
  ASSUME Ground, Chained, NEW o \in Ops, Republish(o)
  PROVE  Chained'
<1>0. /\ TypeOK /\ LockHeld /\ Forest /\ Single /\ Timed /\ Traced /\ OneDevice
      /\ Ordered /\ \A p \in Ops : OwnChained(p)
  BY GroundFacts, ChainedParts
<1>1. /\ op[o].pc = "built" /\ op'[o].pc = "publishing" /\ Others(o)
      /\ op'[o].seen = op[o].seen /\ op'[o].hub = op[o].hub /\ op'[o].new = op[o].new
      /\ UNCHANGED store /\ op[o].sent = FALSE
  BY <1>0, RepublishEffect, NotSent DEF KeepsBase, KeepsNew
<1>2. op'[o].event.created = op[o].hub.created + 1 /\ op[o].hub.created \in Nat
  BY <1>0, RepublishStamp, CreatedType
<1>3. \A p \in Ops : op[p].sent => op[p].event.created <= op[o].hub.created
  BY <1>0, <1>1 DEF OwnChained
<1>4. ASSUME NEW p \in Ops, op[p].sent PROVE op[p].new.id \in op[o].new.lineage
  <2>1. Genuine(op[p].new, op[p].event.created) /\ Genuine(op[o].hub.index, op[o].hub.created)
    BY <1>0, <1>4 DEF Timed, Genuine
  <2>2. op[p].new.id \in op[o].hub.index.lineage
    BY <1>0, <1>3, <1>4, <2>1, Descended
  <2>3. Descends(o)
    BY <1>0, <1>1 DEF Single
  <2> QED BY <2>2, <2>3 DEF Descends
<1>5. op[o].new.id \in op[o].new.lineage
  BY <1>0 DEF Forest, Made
<1>6. Ordered'
  <2> SUFFICES ASSUME NEW q \in Ops, NEW p \in Ops, op'[q].sent, op'[p].sent,
                      op'[p].event.created <= op'[q].event.created
               PROVE  op'[p].new.id \in op'[q].new.lineage
    BY DEF Ordered
  <2>1. CASE p # o /\ q # o
    BY <1>0, <1>1, <2>1 DEF Others, Ordered
  <2>2. CASE p # o /\ q = o
    BY <1>1, <1>4, <2>2 DEF Others
  <2>3. CASE p = o /\ q = o
    BY <1>1, <1>5, <2>3
  <2>4. CASE p = o /\ q # o
    <3>1. op[q].sent /\ op'[q].event.created = op[q].event.created
      BY <1>1, <2>4 DEF Others
    <3>2. op[q].event.created <= op[o].hub.created /\ op[q].event.created \in Nat
      BY <1>0, <1>3, <3>1, CreatedType
    <3> QED BY <1>2, <2>4, <3>1, <3>2
  <2> QED BY <2>1, <2>2, <2>3, <2>4
<1>7. OwnChained(o)'
  <2>1. op'[o].seen.created <= op'[o].hub.created
    BY <1>0, <1>1 DEF OwnChained
  <2>2. ASSUME NEW p \in Ops, op'[p].sent
        PROVE  op'[p].event.created <= op'[o].event.created
    <3>1. CASE p = o
      BY <1>2, <3>1
    <3>2. CASE p # o
      <4>1. op'[p] = op[p] /\ op[p].event.created \in Nat
        BY <1>0, <1>1, <3>2, CreatedType DEF Others
      <4> QED BY <1>2, <1>3, <2>2, <4>1
    <3> QED BY <3>1, <3>2
  <2> QED BY <1>1, <2>1, <2>2 DEF OwnChained
<1>8. ASSUME NEW p \in Ops, p # o PROVE OwnChained(p)'
  <2>1. op'[p] = op[p] /\ op[p].pc \notin Active /\ Here(p)' = Here(p)
    BY <1>0, <1>1, <1>8, OneActive DEF Others, Here
  <2> QED BY <1>0, <2>1 DEF OwnChained
<1> QED BY <1>6, <1>7, <1>8, ChainedPartsNext

LEMMA StepChained ==
  ASSUME Ground, InTime, Chained, [Next]_vars, NoneGivenUp'
  PROVE  Chained'
<1>0. /\ TypeOK /\ Coherent /\ Traced /\ Cloning /\ Ordered
      /\ \A p \in Ops : OwnChained(p) /\ DeviceOf[p] \in Devices
  BY GroundFacts, ChainedParts, CreatedType
<1>1. \A d \in Devices : store'[d].hub.created \in Nat
                         /\ store'[d].hub.created >= store[d].hub.created
  BY NeverBack
<1>2. ASSUME NEW o \in Ops, Click(o) \/ Step(o), ~Republish(o) PROVE Chained'
  <2>1. Calm /\ Others(o)
    BY <1>0, <1>2, CalmStep, ViewSteps
  <2>2. OwnChained(o)'
    BY <1>2, OwnChainedStep
  <2>3. \A p \in Ops : p # o => OwnChained(p)'
    BY <1>0, <1>1, <2>1, CalmOwn DEF Others
  <2> QED BY <1>0, <2>1, <2>2, <2>3, CalmOrdered, ChainedPartsNext
<1>3. ASSUME UNCHANGED op PROVE Chained'
  <2>1. Calm
    BY <1>3 DEF Calm
  <2> QED BY <1>0, <1>1, <1>3, <2>1, CalmOwn, CalmOrdered, ChainedPartsNext
<1>4. ASSUME NEW o \in Ops, NEW r \in Relays, Deliver(o, r) PROVE Chained'
  <2>1. /\ \A p \in Ops : op'[p].pc = op[p].pc /\ op'[p].seen = op[p].seen
                          /\ op'[p].hub = op[p].hub /\ op'[p].event = op[p].event
                          /\ op'[p].sent = op[p].sent /\ op'[p].new = op[p].new
        /\ UNCHANGED store
    BY <1>0, <1>4, DeliverEffect DEF Others, KeepsBase, KeepsNew
  <2>2. Calm
    BY <2>1 DEF Calm
  <2>3. \A p \in Ops : OwnChained(p)'
    BY <1>0, <2>1 DEF OwnChained, Here
  <2> QED BY <1>0, <2>2, <2>3, CalmOrdered, ChainedPartsNext
<1> QED BY <1>0, <1>2, <1>3, <1>4, RepublishChained, ListenEffect, DeleteEffect,
           ConstantsAssumption DEF Next, vars

-----------------------------------------------------------------------------
(* One device: deletions spare what is alive.                               *)

\* Some completed mutation has replaced the index.
Replaced(idx) == \E o \in Ops : /\ op[o].pc = "done" /\ idx.id \in op[o].new.lineage
                                /\ op[o].new # idx

LEMMA LiveParts ==
  LiveBlobs <=> /\ \A b \in trash : b[2] <= uploads
                /\ \A i \in Made : Alive(i) /\ ~Replaced(i) => Named(i) \subseteq blossom \ trash
  BY DEF LiveBlobs, Replaced

LEMMA LivePartsNext ==
  LiveBlobs' <=> /\ \A b \in trash' : b[2] <= uploads'
                 /\ \A i \in Made' : (Alive(i))' /\ ~(Replaced(i))' => Named(i) \subseteq blossom' \ trash'
  BY DEF LiveBlobs, Replaced

\* When nothing is built or done, nothing else comes alive.
LEMMA QuietLive ==
  ASSUME LiveBlobs, Settled, UNCHANGED uploads, trash' \subseteq trash,
         blossom \ trash \subseteq blossom' \ trash',
         \A o \in Ops : /\ op'[o].sent \/ op'[o].pc = "built" => op[o].sent \/ op[o].pc = "built"
                        /\ op[o].pc = "done" => op'[o].pc = "done"
  PROVE  LiveBlobs'
<1>1. Made' = Made
  BY MadeSettled
<1>2. \A i : (Alive(i))' => Alive(i)
  BY DEF Alive, Settled
<1>3. \A i : Replaced(i) => (Replaced(i))'
  BY DEF Replaced, Settled
<1> QED BY <1>1, <1>2, <1>3, LiveParts, LivePartsNext

\* The base of a mutation of the device is alive and the last that was completed.
LEMMA BaseLives ==
  ASSUME Ground, Chained, LiveBlobs, NEW o \in Ops, op[o].pc \in {"read", "listed", "built"}
  PROVE  Named(op[o].hub.index) \subseteq blossom \ trash
<1> DEFINE base == op[o].hub.index
<1>0. /\ TypeOK /\ Forest /\ Single /\ Timed /\ Ordered /\ OwnChained(o)
  BY GroundFacts, ChainedParts
<1>1. Genuine(base, op[o].hub.created)
  BY <1>0 DEF Timed
<1>2. base \in Made /\ Alive(base)
  BY <1>0, <1>1, GenuineMade
<1>3. ASSUME NEW p \in Ops, op[p].pc = "done", base.id \in op[p].new.lineage
      PROVE  op[p].new = base
  <2>1. op[p].sent /\ op[p].event.created <= op[o].hub.created
    BY <1>0, <1>3 DEF Timed, OwnChained
  <2>2. op[p].new.id \in base.lineage
    BY <1>0, <1>1, <2>1, Descended DEF Genuine
  <2>3. op[p].new \in Made
    BY DEF Made
  <2> QED BY <1>0, <1>2, <1>3, <2>2, <2>3, MutualDescent
<1>4. ~Replaced(base)
  BY <1>3 DEF Replaced
<1> QED BY <1>2, <1>4, LiveParts

LEMMA BuildLive ==
  ASSUME Ground, Chained, LiveBlobs, NEW o \in Ops, Builds(o)
  PROVE  LiveBlobs'
<1> DEFINE base == op[o].hub.index
           new == op'[o].new
<1>0. TypeOK /\ Placed /\ Forest /\ Single /\ Coherent /\ Sealed /\ Traced /\ Cloning
  BY GroundFacts
<1>1. /\ op[o].pc \in {"read", "listed"} /\ Others(o) /\ uploads' = Fresh /\ UNCHANGED trash
      /\ blossom' = blossom \cup (Named(new) \cap ({"index", "tree"} \X {Fresh}))
      /\ op'[o].pc = "built" /\ op'[o].sent = op[o].sent
  BY <1>0, BuildEffect DEF KeepsEvent
<1>2. Made' = Made \cup {new} /\ op[o].new = Genesis
  BY <1>0, MadeGrows
<1>3. /\ Fresh = uploads + 1 /\ uploads \in Nat /\ new.id = Fresh /\ base \in Made
      /\ \A i \in Made : i.id # Fresh
  BY <1>0, FreshFacts
<1>4. \A b \in trash : b[2] \in Nat /\ b[2] <= uploads
  BY <1>0, LiveParts DEF TypeOK
<1>5. \A b \in trash' : b[2] <= uploads'
  BY <1>1, <1>3, <1>4
<1>6. ASSUME NEW i \in Made, (Alive(i))', ~(Replaced(i))' PROVE Named(i) \subseteq blossom' \ trash'
  <2>1. Alive(i)
    <3>1. ASSUME NEW p \in Ops, p # o, op'[p].new = i, op'[p].sent \/ op'[p].pc = "built"
          PROVE  Alive(i)
      BY <1>1, <3>1 DEF Alive, Others
    <3>2. new # i
      BY <1>3
    <3> QED BY <1>6, <3>1, <3>2 DEF Alive
  <2>2. ~Replaced(i)
    <3>1. ASSUME NEW p \in Ops, op[p].pc = "done", i.id \in op[p].new.lineage, op[p].new # i
          PROVE  (Replaced(i))'
      <4>1. op'[p] = op[p]
        BY <1>1, <3>1 DEF Others
      <4> QED BY <3>1, <4>1 DEF Replaced
    <3> QED BY <1>6, <3>1 DEF Replaced
  <2> QED BY <1>1, <2>1, <2>2, LiveParts
<1>7. Named(new) \subseteq blossom' \ trash'
  <2>1. \A b : b \in {"index", "tree"} \X {Fresh} => b[2] = Fresh
    OBVIOUS
  <2>2. (Named(new) \cap ({"index", "tree"} \X {Fresh})) \subseteq blossom' \ trash'
    BY <1>1, <1>3, <1>4, <2>1
  <2>3. <<"index", new.id>> \in {"index", "tree"} \X {Fresh}
    BY <1>3
  <2>4. CASE new.tree = Fresh
    <3>1. Named(new) \subseteq {"index", "tree"} \X {Fresh}
      BY <1>3, <2>4 DEF Named
    <3> QED BY <2>2, <3>1
  <2>5. CASE new.tree = base.tree
    <3>1. base.tree # 0
      <4>1. base.tree \in 1..base.id
        BY <1>0, <1>3 DEF Sealed
      <4> QED BY <4>1
    <3>2. <<"tree", base.tree>> \in blossom \ trash
      BY <1>1, <3>1, BaseLives DEF Named
    <3>3. Named(new) \subseteq {<<"index", new.id>>, <<"tree", base.tree>>}
      BY <2>5 DEF Named
    <3>4. <<"index", new.id>> \in Named(new)
      BY DEF Named
    <3> HIDE DEF new
    <3> QED BY <1>1, <2>2, <2>3, <3>2, <3>3, <3>4
  <2>6. op[o].kind \notin RebuildKinds
    BY <1>0, <1>1, CloningKinds
  <2>7. new.tree \in {Fresh, base.tree}
    BY <1>0, <2>6, CloningBuild
  <2> QED BY <2>4, <2>5, <2>7
<1> HIDE DEF new
<1> QED BY <1>2, <1>5, <1>6, <1>7, LivePartsNext

\* What a commit deletes, it has replaced.
LEMMA CommitSpares ==
  ASSUME Ground, Chained, NEW o \in Ops, Commit(o), NEW i \in Made, Alive(i),
         i.id \in op[o].new.lineage => op[o].new = i, NEW g \in BOOLEAN
  PROVE  Named(i) \cap Superseded(o, g) = {}
<1> DEFINE base == op[o].hub.index
           seen == op[o].seen.index
           new == op[o].new
<1>0. /\ TypeOK /\ LockHeld /\ Placed /\ Forest /\ Single /\ Coherent /\ Sealed /\ Timed /\ Cloning
      /\ OneDevice /\ Ordered /\ OwnChained(o)
  BY GroundFacts, ChainedParts
<1>1. op[o].pc = "publishing" /\ op[o].sent
  BY <1>0, CommitEffect DEF Timed
<1>2. CASE op[o].kind # "admit"
  <2>1. op[o].kind \notin {"admit", "readd", "roles"}
    BY <1>0, <1>1, <1>2, CloningKinds DEF RebuildKinds
  <2> QED BY <2>1 DEF Superseded
<1>3. CASE op[o].kind = "admit"
  <2>1. Descends(o) /\ new.tree = new.id /\ HasBuilt(o) /\ new \in Made /\ base \in Made
    BY <1>0, <1>1, <1>3 DEF Single, Sealed, Placed, Made
  <2>2. /\ base.id \in Nat /\ new.id \in Nat /\ base.id < new.id /\ base.id >= 1
        /\ new.lineage = base.lineage \cup {new.id} /\ base.lineage \subseteq 1..base.id
        /\ base.tree \in 1..base.id
    <3>1. base.id \in 1..base.id
      BY <1>0, <2>1 DEF Forest
    <3> QED BY <1>0, <2>1, <3>1, MadeType DEF Descends, Index, Forest, Sealed
  <2>3. seen.id \in base.lineage
    BY <1>0, <1>1, Descended DEF Timed, OwnChained
  <2>4. i.id # seen.id
    BY <2>2, <2>3
  <2>5. i.tree # base.tree
    <3>1. CASE i = new
      BY <2>1, <2>2, <3>1
    <3>2. CASE i = Genesis
      <4>1. i.id \in new.lineage
        BY <1>0, <2>1, <3>2 DEF Forest, Genesis
      <4> QED BY <2>1, <3>2, <4>1 DEF HasBuilt
    <3>3. ASSUME NEW q \in Ops, op[q].new = i, op[q].sent PROVE i = new
      <4>1. op[q].event.created <= op[o].event.created
        BY <1>0, <1>1, <3>3 DEF OwnChained
      <4>2. i.id \in new.lineage
        BY <1>0, <1>1, <3>3, <4>1 DEF Ordered
      <4> QED BY <4>2
    <3>4. ASSUME NEW q \in Ops, op[q].pc = "built" PROVE FALSE
      BY <1>0, <1>1, <3>4, OneActive
    <3> QED BY <3>1, <3>2, <3>3, <3>4 DEF Alive
  <2>6. Superseded(o, g) = {<<"index", seen.id>>, <<"tree", base.tree>>}
    BY <1>3 DEF Superseded
  <2>7. Named(i) \subseteq {<<"index", i.id>>, <<"tree", i.tree>>}
    BY DEF Named
  <2> HIDE DEF base, seen, new
  <2> QED BY <2>4, <2>5, <2>6, <2>7
<1> QED BY <1>2, <1>3

LEMMA CommitLive ==
  ASSUME Ground, Chained, LiveBlobs, NEW o \in Ops, Commit(o)
  PROVE  LiveBlobs'
<1>0. /\ TypeOK /\ Placed /\ Forest /\ Coherent /\ Sealed /\ Timed /\ Cloning
  BY GroundFacts
<1>g. PICK g \in BOOLEAN : trash' = trash \cup Superseded(o, g)
  BY <1>0, CommitEffect
<1>1. /\ op[o].pc = "publishing" /\ op'[o].pc = "done" /\ Others(o) /\ op'[o].new = op[o].new
      /\ op'[o].sent = op[o].sent /\ trash' = trash \cup Superseded(o, g)
      /\ UNCHANGED <<blossom, uploads>>
  BY <1>0, <1>g, CommitEffect DEF KeepsNew, KeepsEvent
<1>2. Made' = Made
  BY <1>1, OneMoves, MadeSettled
<1>3. \A b \in trash' : b[2] <= uploads'
  <2>1. op[o].kind \notin {"readd", "roles"}
    BY <1>0, <1>1, CloningKinds DEF RebuildKinds
  <2>2. Superseded(o, g) \subseteq {<<"index", op[o].seen.index.id>>, <<"tree", op[o].hub.index.tree>>}
    BY <2>1 DEF Superseded
  <2>3. op[o].seen.index.id <= uploads /\ op[o].hub.index.id <= uploads
        /\ op[o].hub.index \in Made /\ op[o].hub.index.tree \in 1..op[o].hub.index.id
    BY <1>0 DEF Placed, Forest, Sealed
  <2>4. op[o].hub.index.id \in Nat /\ uploads \in Nat
    BY <1>0, <2>3, MadeType DEF Index, TypeOK
  <2>5. op[o].hub.index.tree <= uploads
    BY <2>3, <2>4
  <2> QED BY <1>1, <2>2, <2>3, <2>5, LiveParts
<1>4. ASSUME NEW i \in Made, (Alive(i))', ~(Replaced(i))' PROVE Named(i) \subseteq blossom' \ trash'
  <2>1. Alive(i)
    <3>1. ASSUME NEW p \in Ops, op'[p].new = i, op'[p].sent \/ op'[p].pc = "built"
          PROVE  op[p].new = i /\ (op[p].sent \/ op[p].pc = "built")
      BY <1>1, <3>1 DEF Others
    <3> QED BY <1>4, <3>1 DEF Alive
  <2>2. ~Replaced(i)
    <3>1. ASSUME NEW p \in Ops, op[p].pc = "done", i.id \in op[p].new.lineage, op[p].new # i
          PROVE  (Replaced(i))'
      <4>1. op'[p] = op[p]
        BY <1>1, <3>1 DEF Others
      <4> QED BY <3>1, <4>1 DEF Replaced
    <3> QED BY <1>4, <3>1 DEF Replaced
  <2>3. i.id \in op[o].new.lineage => op[o].new = i
    BY <1>1, <1>4 DEF Replaced
  <2>4. Named(i) \cap Superseded(o, g) = {}
    BY <2>1, <2>3, CommitSpares
  <2> QED BY <1>1, <2>1, <2>2, <2>4, LiveParts
<1> QED BY <1>2, <1>3, <1>4, LivePartsNext

LEMMA StepLive ==
  ASSUME Ground, Chained, LiveBlobs, [Next]_vars
  PROVE  LiveBlobs'
<1>0. TypeOK /\ Coherent /\ Traced /\ Cloning
  BY GroundFacts
<1>1. ASSUME NEW o \in Ops, Click(o) \/ Step(o) PROVE LiveBlobs'
  <2>1. CASE Builds(o)
    BY <2>1, BuildLive
  <2>2. CASE Commit(o)
    BY <2>2, CommitLive
  <2>3. CASE ~Builds(o) /\ ~Commit(o)
    <3>1. /\ Others(o) /\ op'[o].new = op[o].new /\ UNCHANGED <<trash, blossom, uploads>>
          /\ op'[o].sent \/ op'[o].pc = "built" => op[o].sent \/ op[o].pc = "built"
          /\ op[o].pc # "done"
      <4>1. CASE Click(o)
        BY <1>0, <4>1, ClickEffect DEF KeepsEvent
      <4>2. CASE TakeTurn(o)
        BY <1>0, <4>2, TurnEffect DEF KeepsEvent, KeepsNew
      <4>3. CASE ReadBans(o)
        BY <1>0, <4>3, ListEffect DEF KeepsEvent
      <4>4. CASE Republish(o)
        BY <1>0, <4>4, RepublishEffect DEF KeepsNew
      <4>5. CASE Drops(o)
        BY <1>0, <4>5, DropEffect DEF KeepsEvent, KeepsNew
      <4> QED BY <1>0, <1>1, <2>3, <4>1, <4>2, <4>3, <4>4, <4>5, StepKinds, CloningSteps DEF Sends
    <3> QED BY <3>1, OneMoves, QuietLive DEF Others
  <2> QED BY <2>1, <2>2, <2>3
<1>2. ASSUME NEW o \in Ops, NEW r \in Relays, Deliver(o, r) PROVE LiveBlobs'
  <2>1. /\ \A p \in Ops : op'[p].pc = op[p].pc /\ op'[p].sent = op[p].sent /\ op'[p].new = op[p].new
        /\ UNCHANGED <<blossom, trash, uploads>>
    BY <1>0, <1>2, DeliverEffect DEF Others, KeepsNew
  <2> QED BY <2>1, QuietLive DEF Settled
<1>3. ASSUME UNCHANGED <<op, uploads>>, trash' \subseteq trash,
             blossom \ trash \subseteq blossom' \ trash'
      PROVE  LiveBlobs'
  BY <1>3, QuietLive DEF Settled
<1>4. ASSUME NEW b \in trash, Delete(b) PROVE LiveBlobs'
  BY <1>3, <1>4, DeleteEffect
<1>5. ASSUME NEW d \in Devices, Listen(d) PROVE LiveBlobs'
  BY <1>0, <1>3, <1>5, ListenEffect
<1>6. CASE UNCHANGED vars
  BY <1>3, <1>6 DEF vars
<1> QED BY <1>1, <1>2, <1>4, <1>5, <1>6, ConstantsAssumption DEF Next

LEMMA InitLive ==
  ASSUME Init
  PROVE  InTime /\ Chained /\ LiveBlobs
<1>1. \A o \in Ops : op[o].pc = "idle" /\ op[o].sent = FALSE /\ op[o].new = Genesis
  BY DEF Init
<1>2. \A d \in Devices : reader[d].phase = "idle"
  BY DEF Init
<1>3. Made = {Genesis} /\ blossom = Named(Genesis) /\ trash = {}
  BY <1>1 DEF Made, Init
<1>4. InTime
  BY <1>2 DEF InTime
<1>5. Chained
  BY <1>1 DEF Chained
<1>6. LiveBlobs
  BY <1>3 DEF LiveBlobs
<1> QED BY <1>4, <1>5, <1>6

\* A relay that serves an event as new as that of a mutation serves a descendant.
LEMMA ChainedKeeps ==
  ASSUME Ground, Ordered, NEW o \in Ops, op[o].pc = "done", NEW r \in Relays,
         relay[r].created >= op[o].event.created
  PROVE  op[o].new.id \in relay[r].index.lineage
<1>1. TypeOK /\ Forest /\ Single /\ Timed
  BY GroundFacts
<1>2. Genuine(op[o].new, op[o].event.created)
  BY <1>1 DEF Timed, Genuine
<1>3. Genuine(relay[r].index, relay[r].created)
  BY <1>1 DEF Timed
<1>4. op[o].event.created \in Nat /\ relay[r].created \in Nat
  BY <1>1, CreatedType, StampPositive
<1> QED BY <1>1, <1>2, <1>3, <1>4, Descended

LEMMA ChainedNewest ==
  ASSUME Ground, Ordered, LiveBlobs, NEW r \in Relays,
         \A q \in Relays : ~Supersedes(relay[q], relay[r])
  PROVE  Named(relay[r].index) \subseteq blossom \ trash
<1> DEFINE i == relay[r].index
<1>0. TypeOK /\ Forest /\ Single /\ Timed
  BY GroundFacts
<1>1. i \in Made /\ Alive(i)
  BY <1>0, GenuineMade DEF Timed
<1>2. ASSUME NEW o \in Ops, op[o].pc = "done", i.id \in op[o].new.lineage PROVE op[o].new = i
  <2>1. PICK q \in Relays : relay[q].created >= op[o].event.created
    BY <1>0, <1>2 DEF Timed, Published, TypeOK, Op
  <2>2. relay[q].created <= relay[r].created
    BY <1>0, StampPositive DEF Supersedes
  <2>3. relay[r].created >= op[o].event.created
    BY <1>0, <2>1, <2>2, StampPositive, CreatedType
  <2>4. op[o].new.id \in i.lineage
    BY <1>2, <2>3, ChainedKeeps
  <2>5. op[o].new \in Made
    BY DEF Made
  <2> QED BY <1>0, <1>1, <1>2, <2>4, <2>5, MutualDescent
<1> QED BY <1>1, <1>2, LiveParts DEF Replaced

-----------------------------------------------------------------------------
(* One device: bans and the roster.                                         *)

\* The two parts of Rostered that speak of mutations and devices.
AllKnown == (\A o \in Ops : op[o].pc # "publishing") =>
               \A o \in Ops : Here(o).hub.index.members \subseteq Here(o).members

OwnRostered(o) ==
    /\ op[o].pc \in {"read", "listed", "built"} => op[o].hub.index = Here(o).hub.index
    /\ op[o].pc = "listed" => /\ op[o].hub.index.members \subseteq op[o].roster
                              /\ op[o].bans = EffectiveBans(o)
    /\ op[o].pc \in {"built", "publishing"} => op[o].new.members \subseteq LeavesRoster(o)

\* And the two that speak of indexes.
Disjoint == \A i \in Made : i.members \cap i.bans = {}

BansKept == "admit" \notin Kinds =>
               \A i, j \in Made : i.id \in j.lineage => i.bans \subseteq j.bans

LEMMA RosteredParts ==
  Rostered <=> Disjoint /\ BansKept /\ AllKnown /\ \A o \in Ops : OwnRostered(o)
  BY DEF Rostered, Disjoint, BansKept, AllKnown, OwnRostered

LEMMA RosteredNext ==
  Rostered' <=> Disjoint' /\ BansKept' /\ AllKnown' /\ \A o \in Ops : OwnRostered(o)'
  BY DEF Rostered, Disjoint, BansKept, AllKnown, OwnRostered

LEMMA RereadingKinds ==
  ASSUME TypeOK, Traced, Rereading, NEW o \in Ops, op[o].pc # "idle"
  PROVE  op[o].kind \in {"admit", "remove", "ban"}
  BY ConstantsAssumption DEF Traced, Rereading, ClosureKinds

LEMMA CommitRoster ==
  ASSUME TypeOK, NEW o \in Ops, op[o].kind \in {"admit", "remove", "ban"}, Commit(o)
  PROVE  store'[DeviceOf[o]].members = LeavesRoster(o)
<1> DEFINE after == Advanced(o, op[o].event.created)
<1>1. Here(o) \in Store /\ DeviceOf[o] \in Devices
  BY HereType
<1>2. after.members = LeavesRoster(o)
  <2>1. CASE op[o].kind = "admit"
    BY <1>1, <2>1 DEF Advanced, Store, LeavesRoster, Kicks
  <2>2. CASE op[o].kind # "admit" /\ Kicks(o)
    BY <1>1, <2>2 DEF Advanced, Store, LeavesRoster, Kicks
  <2>3. CASE op[o].kind # "admit" /\ ~Kicks(o)
    BY <1>1, <2>3 DEF Advanced, Store, LeavesRoster, Kicks
  <2> QED BY <2>1, <2>2, <2>3
<1>3. store' = [store EXCEPT ![DeviceOf[o]] = after]
  BY DEF Commit
<1> HIDE DEF after
<1>4. store'[DeviceOf[o]] = after
  BY <1>1, <1>3 DEF TypeOK
<1> QED BY <1>2, <1>4

LEMMA ListRoster ==
  ASSUME TypeOK, NEW o \in Ops, ReadBans(o)
  PROVE  /\ op'[o].roster = Here(o).members /\ op'[o].bans = EffectiveBans(o)
         /\ \A d \in Devices : store'[d].members = store[d].members
<1>1. \A d \in Devices : store'[d].members = store[d].members
  BY DEF ReadBans, TypeOK, Store
<1>2. op'[o].roster = Here(o).members /\ op'[o].bans = EffectiveBans(o)
  BY DEF ReadBans, TypeOK, Op
<1> QED BY <1>1, <1>2

\* The subscription replaces the roster before the hub.
LEMMA ListenRoster ==
  ASSUME TypeOK, NEW d \in Devices, Listen(d), NEW e \in Devices
  PROVE  \/ store'[e].members = store[e].members
         \/ /\ reader[e].event.index # store[e].hub.index
            /\ store'[e].members = reader[e].event.index.members
            /\ reader'[e].phase = "loaded" /\ reader'[e].event = reader[e].event
            /\ store'[e].hub = store[e].hub
<1>1. CASE \E r \in Relays : ReaderPick(d, r)
  BY <1>1 DEF ReaderPick, TypeOK, Store
<1>2. CASE Resubscribe(d)
  BY <1>2 DEF Resubscribe, TypeOK, Store
<1>3. CASE ReaderRefuse(d) \/ ReaderSkip(d)
  BY <1>3 DEF ReaderRefuse, ReaderSkip
<1>4. CASE ReaderLoad(d)
  <2>1. CASE e # d
    <3>1. store'[e] = store[e]
      BY <1>4, <2>1 DEF ReaderLoad, TypeOK
    <3> QED BY <3>1
  <2>2. CASE e = d
    <3>1. reader' = [reader EXCEPT ![d].phase = "loaded", ![d].secret = reader[d].event.index.secret]
      BY <1>4 DEF ReaderLoad
    <3>2. reader'[d].phase = "loaded" /\ reader'[d].event = reader[d].event
      BY <3>1 DEF TypeOK, Reader
    <3>3. store'[d].hub = store[d].hub /\ store'[d].members = reader[d].event.index.members
          /\ reader[d].event.index # store[d].hub.index
      BY <1>4 DEF ReaderLoad, TypeOK, Store
    <3> QED BY <2>2, <3>2, <3>3
  <2> QED BY <2>1, <2>2
<1>5. CASE ReaderInstall(d)
  BY <1>5 DEF ReaderInstall, TypeOK, Store
<1> QED BY <1>1, <1>2, <1>3, <1>4, <1>5 DEF Listen

\* An event that is not older than what the device shows is the shown one, or the
\* one that is being published.
LEMMA ShownIsLast ==
  ASSUME Ground, Chained, NEW o \in Ops, NEW idx, NEW created, Genuine(idx, created),
         created >= Here(o).hub.created
  PROVE  \/ idx = Here(o).hub.index
         \/ \E p \in Ops : op[p].pc = "publishing" /\ idx = op[p].new
<1> DEFINE hub == Here(o).hub
<1>0. /\ TypeOK /\ Forest /\ Single /\ Timed /\ OneDevice /\ Ordered
      /\ \A p \in Ops : OwnChained(p)
  BY GroundFacts, ChainedParts
<1>1. Genuine(hub.index, hub.created) /\ hub.created \in Nat /\ created \in Nat
  BY <1>0, CreatedType, GenuineMade DEF Timed
<1>2. hub.index \in Made /\ idx \in Made
  BY <1>0, <1>1, GenuineMade
<1>3. ASSUME created <= hub.created PROVE idx = hub.index
  <2>1. idx.id \in hub.index.lineage /\ hub.index.id \in idx.lineage
    BY <1>0, <1>1, <1>3, Descended
  <2> QED BY <1>0, <1>2, <2>1, MutualDescent
<1>4. CASE idx = Genesis /\ created = 1
  BY <1>0, <1>1, <1>3, <1>4, GenuineMade
<1>5. ASSUME NEW p \in Ops, op[p].sent, op[p].new = idx, op[p].event.created = created,
             op[p].pc # "publishing"
      PROVE  idx = hub.index
  <2>1. Here(p) = Here(o)
    BY <1>0 DEF OneDevice, Here
  <2> QED BY <1>0, <1>3, <1>5, <2>1 DEF OwnChained
<1> QED BY <1>4, <1>5 DEF Genuine

LEMMA BuildRostered ==
  ASSUME Ground, Chained, Rostered, NEW o \in Ops, Builds(o)
  PROVE  Rostered'
<1> DEFINE base == op[o].hub.index
           new == op'[o].new
<1>0. /\ TypeOK /\ LockHeld /\ Placed /\ Forest /\ Single /\ Traced /\ OneDevice /\ Rereading
      /\ Disjoint /\ BansKept /\ AllKnown /\ \A p \in Ops : OwnRostered(p)
  BY GroundFacts, RosteredParts
<1>1. /\ op[o].pc \in {"read", "listed"} /\ op'[o].pc = "built" /\ Others(o) /\ UNCHANGED store
      /\ KeepsBase(o) /\ op'[o].roster = op[o].roster
  BY <1>0, BuildEffect
<1>2. /\ Made' = Made \cup {new} /\ base \in Made /\ base.id \in Nat
      /\ new.id = Fresh /\ new.lineage = base.lineage \cup {Fresh}
      /\ \A i \in Made : i.id # Fresh /\ Fresh \notin i.lineage
  BY <1>0, MadeGrows, FreshFacts
<1>3. op[o].kind \in {"admit", "remove", "ban"} /\ op[o].kind \in Kinds
  BY <1>0, <1>1, RereadingKinds DEF Traced
<1>4. \/ /\ op[o].kind = "admit" /\ new.bans = {} /\ new.members = base.members \cup {op[o].who}
      \/ /\ op[o].kind = "ban" /\ ~Kicks(o) /\ op[o].pc = "listed" /\ new.bans = op[o].bans
         /\ new.members = base.members
      \/ /\ Kicks(o) /\ op[o].kind # "admit" /\ op[o].pc = "listed" /\ new.bans = op[o].bans
         /\ new.members = base.members \ {op[o].who}
  <2>1. op[o].kind \notin RebuildKinds /\ op[o].kind # "fix"
    BY <1>3 DEF RebuildKinds
  <2> QED BY <1>0, <2>1, CloningBuild
<1>5. \A p \in Ops : op[p].pc # "publishing"
  BY <1>0, <1>1, OneActive
<1>6. base = Here(o).hub.index /\ base.members \subseteq Here(o).members
  BY <1>0, <1>1, <1>5 DEF OwnRostered, AllKnown
<1>7. op[o].pc = "listed" => /\ base.members \subseteq op[o].roster
                             /\ op[o].bans = base.bans \cup (IF op[o].kind = "ban" THEN {op[o].who} ELSE {})
  BY <1>0 DEF OwnRostered, EffectiveBans
<1>8. base.members \cap base.bans = {}
  BY <1>0, <1>2 DEF Disjoint
<1>9. new.members \cap new.bans = {}
  <2>1. CASE op[o].kind = "admit"
    BY <1>4, <2>1 DEF Kicks
  <2>2. CASE op[o].kind = "ban" /\ ~Kicks(o) /\ op[o].pc = "listed"
    <3>1. op[o].who \notin base.members
      BY <1>7, <2>2 DEF Kicks
    <3>2. new.bans = base.bans \cup {op[o].who} /\ new.members = base.members
      BY <1>4, <1>7, <2>2
    <3> HIDE DEF new, base
    <3> QED BY <1>8, <3>1, <3>2
  <2>3. CASE Kicks(o) /\ op[o].kind # "admit" /\ op[o].pc = "listed"
    <3>1. new.bans \subseteq base.bans \cup {op[o].who} /\ new.members = base.members \ {op[o].who}
      BY <1>4, <1>7, <2>3
    <3> HIDE DEF new, base
    <3> QED BY <1>8, <3>1
  <2> QED BY <1>4, <2>1, <2>2, <2>3
<1>10. Disjoint'
  BY <1>0, <1>2, <1>9 DEF Disjoint
<1>11. BansKept'
  <2> SUFFICES ASSUME "admit" \notin Kinds, NEW i \in Made', NEW j \in Made', i.id \in j.lineage
               PROVE  i.bans \subseteq j.bans
    BY DEF BansKept
  <2>1. base.bans \subseteq new.bans
    BY <1>3, <1>4, <1>7
  <2>2. CASE j \in Made
    BY <1>0, <1>2, <2>2 DEF BansKept
  <2>3. CASE j = new /\ i \in Made
    <3>1. i.bans \subseteq base.bans
      BY <1>0, <1>2, <2>3 DEF BansKept
    <3> QED BY <2>1, <2>3, <3>1
  <2> QED BY <1>2, <2>2, <2>3
<1>12. \A p \in Ops : Here(p)' = Here(p)
  BY <1>1 DEF Here
<1>13. AllKnown'
  BY <1>0, <1>5, <1>12 DEF AllKnown
<1>14. OwnRostered(o)'
  <2>1. LeavesRoster(o)' = LeavesRoster(o) /\ (Kicks(o)' <=> Kicks(o))
    BY <1>1, <1>12 DEF LeavesRoster, Kicks, KeepsBase
  <2>2. new.members \subseteq LeavesRoster(o)
    BY <1>4, <1>6, <1>7 DEF LeavesRoster, Kicks
  <2>3. op'[o].hub = op[o].hub
    BY <1>1 DEF KeepsBase
  <2> QED BY <1>1, <1>6, <1>12, <2>1, <2>2, <2>3 DEF OwnRostered
<1>15. ASSUME NEW p \in Ops, p # o PROVE OwnRostered(p)'
  <2>1. op'[p] = op[p] /\ op[p].pc \notin Active
    BY <1>0, <1>1, <1>15, OneActive DEF Others
  <2> QED BY <2>1 DEF OwnRostered
<1> QED BY <1>10, <1>11, <1>13, <1>14, <1>15, RosteredNext


\* Where nothing is built, and nobody's part but the mover's is at stake.
LEMMA QuietRostered ==
  ASSUME Rostered, Settled, AllKnown', \A o \in Ops : OwnRostered(o)'
  PROVE  Rostered'
<1>1. Made' = Made
  BY MadeSettled
<1> QED BY <1>1, RosteredParts, RosteredNext DEF Disjoint, BansKept

LEMMA KeepRostered ==
  ASSUME NEW o \in Ops, OwnRostered(o), op'[o] = op[o],
         Here(o)'.hub = Here(o).hub, Here(o)'.members = Here(o).members
  PROVE  OwnRostered(o)'
<1>1. EffectiveBans(o)' = EffectiveBans(o) /\ LeavesRoster(o)' = LeavesRoster(o)
  BY DEF EffectiveBans, LeavesRoster, Kicks
<1> QED BY <1>1 DEF OwnRostered

\* A mutation's step that neither builds nor commits.
LEMMA LocalRostered ==
  ASSUME Ground, Chained, Rostered, NEW o \in Ops, Click(o) \/ Step(o), ~Builds(o), ~Commit(o),
         NoneGivenUp'
  PROVE  Rostered'
<1>0. /\ TypeOK /\ LockHeld /\ Coherent /\ Traced /\ Timed /\ Cloning /\ OneDevice /\ Rereading
      /\ AllKnown /\ \A p \in Ops : OwnRostered(p) /\ DeviceOf[p] \in Devices
  BY GroundFacts, RosteredParts, CreatedType
<1>1. Others(o)
  BY <1>0, ViewSteps
<1>2. \A p \in Ops : Here(p)'.hub = Here(p).hub /\ Here(p)'.members = Here(p).members
  <2>1. \A d \in Devices : store'[d].hub = store[d].hub /\ store'[d].members = store[d].members
    BY <1>0, ClickEffect, TurnEffect, ListEffect, ListRoster, SendEffect, DropEffect, StepKinds,
       CloningSteps
  <2> QED BY <1>0, <2>1 DEF Here
<1>3. \A p \in Ops : p # o => OwnRostered(p)'
  BY <1>0, <1>1, <1>2, KeepRostered DEF Others
<1>4. ASSUME op[o].pc \in Active, op[o].pc # "publishing"
      PROVE  \A p \in Ops : Here(p).hub.index.members \subseteq Here(p).members
  <2>1. \A p \in Ops : op[p].pc # "publishing"
    BY <1>0, <1>4, OneActive
  <2> QED BY <1>0, <2>1 DEF AllKnown
<1>5. CASE Click(o)
  <2>1. op'[o].pc = "queued" /\ op[o].pc = "idle" /\ op'[o].new = op[o].new
    BY <1>0, <1>5, ClickEffect
  <2>2. AllKnown'
    BY <1>0, <1>1, <1>2, <2>1 DEF AllKnown, Others
  <2> QED BY <1>1, <1>3, <2>1, <2>2, OneMoves, QuietRostered DEF OwnRostered
<1>6. CASE TakeTurn(o)
  <2>1. op[o].kind \notin ClosureKinds /\ op[o].pc = "queued"
    BY <1>0, <1>6, RereadingKinds, TurnEffect DEF ClosureKinds
  <2>2. op'[o].pc = "read" /\ op'[o].hub = Here(o).hub /\ op'[o].new = op[o].new
    BY <1>0, <1>6, <2>1, TurnEffect DEF KeepsNew
  <2>3. AllKnown'
    BY <1>0, <1>1, <1>2, <2>1, <2>2 DEF AllKnown, Others
  <2>4. OwnRostered(o)'
    BY <1>2, <2>2 DEF OwnRostered
  <2> QED BY <1>1, <1>3, <2>2, <2>3, <2>4, OneMoves, QuietRostered
<1>7. CASE ReadBans(o)
  <2>1. /\ op[o].pc = "read" /\ op'[o].pc = "listed" /\ op'[o].hub = op[o].hub
        /\ op'[o].kind = op[o].kind /\ op'[o].who = op[o].who /\ op'[o].new = op[o].new
        /\ op'[o].roster = Here(o).members /\ op'[o].bans = EffectiveBans(o)
    BY <1>0, <1>7, ListEffect, ListRoster DEF KeepsBase
  <2>2. op[o].hub.index = Here(o).hub.index /\ Here(o).hub.index.members \subseteq Here(o).members
    BY <1>0, <1>4, <2>1 DEF OwnRostered
  <2>3. EffectiveBans(o)' = EffectiveBans(o)
    BY <2>1 DEF EffectiveBans
  <2>4. AllKnown'
    BY <1>2, <1>4, <2>1 DEF AllKnown
  <2>5. OwnRostered(o)'
    BY <1>2, <2>1, <2>2, <2>3 DEF OwnRostered
  <2> QED BY <1>1, <1>3, <2>1, <2>4, <2>5, OneMoves, QuietRostered
<1>8. CASE Republish(o)
  <2>1. /\ op[o].pc = "built" /\ op'[o].pc = "publishing" /\ KeepsBase(o) /\ KeepsNew(o)
    BY <1>0, <1>8, RepublishEffect
  <2>2. LeavesRoster(o)' = LeavesRoster(o)
    BY <1>2, <2>1 DEF LeavesRoster, Kicks, KeepsBase, KeepsNew
  <2>3. AllKnown' /\ OwnRostered(o)'
    BY <1>0, <2>1, <2>2 DEF AllKnown, OwnRostered, KeepsNew
  <2> QED BY <1>1, <1>3, <2>1, <2>3, OneMoves, QuietRostered DEF KeepsNew
<1>9. CASE Drops(o)
  <2>1. /\ op[o].pc \in Active /\ op'[o].pc \in Final /\ op'[o].new = op[o].new
        /\ op'[o].sent = op[o].sent /\ (op[o].pc = "publishing" => op'[o].pc = "failed")
    BY <1>0, <1>9, DropEffect DEF KeepsNew, KeepsEvent
  <2>2. op[o].pc # "publishing"
    <3>1. ASSUME op[o].pc = "publishing" PROVE FALSE
      <4>1. op[o].sent
        BY <1>0, <3>1 DEF Timed
      <4> QED BY <2>1, <3>1, <4>1 DEF NoneGivenUp, GivenUp
    <3> QED BY <3>1
  <2>3. AllKnown'
    BY <1>2, <1>4, <2>1, <2>2 DEF AllKnown
  <2>4. OwnRostered(o)'
    BY <2>1 DEF OwnRostered
  <2> QED BY <1>1, <1>3, <2>1, <2>3, <2>4, OneMoves, QuietRostered
<1> QED BY <1>0, <1>5, <1>6, <1>7, <1>8, <1>9, StepKinds, CloningSteps DEF Sends

LEMMA CommitRostered ==
  ASSUME Ground, Rostered, NEW o \in Ops, Commit(o)
  PROVE  Rostered'
<1>0. /\ TypeOK /\ LockHeld /\ Traced /\ OneDevice /\ Rereading
      /\ AllKnown /\ \A p \in Ops : OwnRostered(p)
  BY GroundFacts, RosteredParts
<1>1. /\ op[o].pc = "publishing" /\ op'[o].pc = "done" /\ Others(o) /\ op'[o].new = op[o].new
      /\ store'[DeviceOf[o]].hub.index = op[o].new
  BY <1>0, CommitEffect DEF KeepsNew
<1>2. store'[DeviceOf[o]].members = LeavesRoster(o)
  <2>1. op[o].kind \in {"admit", "remove", "ban"}
    BY <1>0, <1>1, RereadingKinds
  <2> QED BY <1>0, <2>1, CommitRoster
<1>3. AllKnown'
  <2>1. op[o].new.members \subseteq LeavesRoster(o)
    BY <1>0, <1>1 DEF OwnRostered
  <2>2. \A p \in Ops : Here(p)' = store'[DeviceOf[o]]
    BY <1>0 DEF OneDevice, Here
  <2> QED BY <1>1, <1>2, <2>1, <2>2 DEF AllKnown
<1>4. ASSUME NEW p \in Ops PROVE OwnRostered(p)'
  <2>1. op'[p].pc \notin Active
    BY <1>0, <1>1, OneActive DEF Others
  <2> QED BY <2>1 DEF OwnRostered
<1> QED BY <1>1, <1>3, <1>4, OneMoves, QuietRostered

\* What the subscription takes is what the device shows, or what it is publishing.
LEMMA ListenRostered ==
  ASSUME Ground, InTime, InTime', Chained, Rostered, NEW d \in Devices, Listen(d)
  PROVE  Rostered'
<1>0. /\ TypeOK /\ LockHeld /\ Timed /\ OneDevice
      /\ AllKnown /\ \A o \in Ops : OwnRostered(o) /\ DeviceOf[o] \in Devices
  BY GroundFacts, RosteredParts, CreatedType
<1>1. UNCHANGED op
  BY <1>0, ListenEffect
<1>2. ASSUME NEW o \in Ops
      PROVE  \/ Here(o)'.hub.index = Here(o).hub.index
             \/ \E p \in Ops : op[p].pc = "publishing"
  <2> DEFINE e == DeviceOf[o]
  <2>1. CASE store'[e].hub = store[e].hub
    BY <2>1 DEF Here
  <2>2. CASE /\ reader[e].phase = "loaded" /\ store'[e].hub.index = reader[e].event.index
             /\ store'[e].hub.created = reader[e].event.created
    <3>1. reader[e].event.created >= Here(o).hub.created
      BY <1>0, <2>2 DEF InTime, Here
    <3>2. Genuine(reader[e].event.index, reader[e].event.created)
      BY <1>0 DEF Timed
    <3>3. \/ reader[e].event.index = Here(o).hub.index
          \/ \E p \in Ops : op[p].pc = "publishing"
      BY <3>1, <3>2, ShownIsLast
    <3> QED BY <2>2, <3>3 DEF Here
  <2> QED BY <1>0, <2>1, <2>2, ListenEffect
<1>3. ASSUME NEW o \in Ops
      PROVE  \/ Here(o)'.members = Here(o).members
             \/ \E p \in Ops : op[p].pc = "publishing" /\ Here(o)'.members = op[p].new.members
  <2> DEFINE e == DeviceOf[o]
  <2>1. CASE store'[e].members = store[e].members
    BY <2>1 DEF Here
  <2>2. CASE /\ reader[e].event.index # store[e].hub.index
             /\ store'[e].members = reader[e].event.index.members
             /\ reader'[e].phase = "loaded" /\ reader'[e].event = reader[e].event
             /\ store'[e].hub = store[e].hub
    <3>1. reader[e].event.created >= Here(o).hub.created
      BY <1>0, <2>2 DEF InTime, Here
    <3>2. Genuine(reader[e].event.index, reader[e].event.created)
      BY <1>0 DEF Timed
    <3>3. \E p \in Ops : op[p].pc = "publishing" /\ reader[e].event.index = op[p].new
      BY <2>2, <3>1, <3>2, ShownIsLast DEF Here
    <3> QED BY <2>2, <3>3 DEF Here
  <2> QED BY <1>0, <2>1, <2>2, ListenRoster
<1>4. CASE \A p \in Ops : op[p].pc # "publishing"
  <2>1. \A o \in Ops : /\ Here(o)'.hub.index = Here(o).hub.index
                       /\ Here(o)'.members = Here(o).members
    BY <1>2, <1>3, <1>4
  <2>2. AllKnown'
    BY <1>0, <1>4, <2>1 DEF AllKnown
  <2>3. ASSUME NEW o \in Ops PROVE OwnRostered(o)'
    <3>1. EffectiveBans(o)' = EffectiveBans(o) /\ LeavesRoster(o)' = LeavesRoster(o)
      BY <1>1, <2>1 DEF EffectiveBans, LeavesRoster, Kicks
    <3> QED BY <1>0, <1>1, <2>1, <3>1 DEF OwnRostered
  <2> QED BY <1>1, <2>2, <2>3, QuietRostered DEF Settled
<1>5. ASSUME NEW p \in Ops, op[p].pc = "publishing" PROVE Rostered'
  <2>1. AllKnown'
    BY <1>1, <1>5 DEF AllKnown
  <2>2. ASSUME NEW o \in Ops PROVE OwnRostered(o)'
    <3>1. CASE o # p
      <4>1. op[o].pc \notin Active
        BY <1>0, <1>5, <3>1, OneActive
      <4> QED BY <1>1, <4>1 DEF OwnRostered
    <3>2. CASE o = p
      <4>1. Here(p)'.members = Here(p).members \/ Here(p)'.members = op[p].new.members
        <5>1. \A q \in Ops : op[q].pc = "publishing" => q = p
          BY <1>0, <1>5, OneActive
        <5> QED BY <1>3, <5>1
      <4>2. op[p].new.members \subseteq LeavesRoster(p)
        BY <1>0, <1>5 DEF OwnRostered
      <4>3. op[p].new.members \subseteq LeavesRoster(p)'
        BY <1>1, <4>1, <4>2 DEF LeavesRoster, Kicks
      <4> QED BY <1>1, <1>5, <3>2, <4>3 DEF OwnRostered
    <3> QED BY <3>1, <3>2
  <2> QED BY <1>1, <2>1, <2>2, QuietRostered DEF Settled
<1> QED BY <1>4, <1>5

LEMMA StepRostered ==
  ASSUME Ground, InTime, InTime', Chained, Rostered, [Next]_vars, NoneGivenUp'
  PROVE  Rostered'
<1>0. /\ TypeOK /\ Traced /\ AllKnown /\ \A o \in Ops : OwnRostered(o)
  BY GroundFacts, RosteredParts
<1>1. ASSUME NEW o \in Ops, Click(o) \/ Step(o) PROVE Rostered'
  BY <1>1, BuildRostered, CommitRostered, LocalRostered
<1>2. ASSUME NEW o \in Ops, NEW r \in Relays, Deliver(o, r) PROVE Rostered'
  <2>1. /\ op'[o].pc = op[o].pc /\ op[o].pc # "listed" /\ Others(o) /\ KeepsBase(o) /\ KeepsNew(o)
        /\ UNCHANGED store
    BY <1>0, <1>2, DeliverEffect, NotSent
  <2>2. \A p \in Ops : Here(p)' = Here(p) /\ op'[p].pc = op[p].pc
    BY <2>1 DEF Here, Others
  <2>3. AllKnown'
    BY <1>0, <2>2 DEF AllKnown
  <2>4. OwnRostered(o)'
    <3>1. LeavesRoster(o)' = LeavesRoster(o)
      BY <2>1, <2>2 DEF LeavesRoster, Kicks, KeepsBase, KeepsNew
    <3> QED BY <1>0, <2>1, <2>2, <3>1 DEF OwnRostered, KeepsBase, KeepsNew
  <2>5. \A p \in Ops : p # o => OwnRostered(p)'
    BY <1>0, <2>1, <2>2, KeepRostered DEF Others
  <2> QED BY <2>1, <2>3, <2>4, <2>5, OneMoves, QuietRostered DEF KeepsNew
<1>3. ASSUME UNCHANGED <<op, store>> PROVE Rostered'
  <2>1. \A p \in Ops : Here(p)' = Here(p)
    BY <1>3 DEF Here
  <2>2. AllKnown'
    BY <1>0, <1>3, <2>1 DEF AllKnown
  <2> QED BY <1>0, <1>3, <2>1, <2>2, KeepRostered, QuietRostered DEF Settled
<1>4. ASSUME NEW d \in Online, Listen(d) PROVE Rostered'
  BY <1>4, ListenRostered, ConstantsAssumption
<1> QED BY <1>1, <1>2, <1>3, <1>4, DeleteEffect DEF Next, vars

LEMMA InitRostered == Init => Rostered
<1> SUFFICES ASSUME Init PROVE Rostered
  OBVIOUS
<1>1. \A o \in Ops : op[o].pc = "idle" /\ op[o].new = Genesis
  BY DEF Init
<1>2. \A o \in Ops : Here(o).hub.index = Genesis /\ Here(o).members = InitMembers
  BY ConstantsAssumption DEF Init, Here, ViewOf, GenesisEvent
<1>3. Made = {Genesis}
  BY <1>1 DEF Made
<1>4. Genesis.members = InitMembers /\ Genesis.bans = InitBans
  BY DEF Genesis
<1> QED BY <1>1, <1>2, <1>3, <1>4, ConstantsAssumption DEF Rostered

\* What a relay serves in place of an event descends from it.
LEMMA RelayDescends ==
  ASSUME Ground, Ordered, [Next]_vars, NEW r \in Relays
  PROVE  \/ relay'[r] = relay[r]
         \/ /\ relay[r].index \in Made /\ relay'[r].index \in Made
            /\ relay[r].index.id \in relay'[r].index.lineage
<1>0. TypeOK /\ Placed /\ Forest /\ Single /\ Traced /\ Timed
  BY GroundFacts
<1>1. ASSUME UNCHANGED relay PROVE relay'[r] = relay[r]
  BY <1>1
<1>2. ASSUME NEW o \in Ops, NEW q \in Relays, Deliver(o, q), q = r
      PROVE  /\ relay[r].index \in Made /\ relay'[r].index \in Made
             /\ relay[r].index.id \in relay'[r].index.lineage
  <2>1. op[o].sent /\ relay'[r] = op[o].event /\ relay[r].created <= op[o].event.created
    BY <1>0, <1>2, DeliverEffect
  <2>2. op[o].event.index = op[o].new /\ Genuine(op[o].new, op[o].event.created)
    BY <1>0, <2>1 DEF Traced, Genuine
  <2>3. op[o].new \in Made
    BY <1>0, <2>2, GenuineMade
  <2>4. Genuine(relay[r].index, relay[r].created)
    BY <1>0 DEF Timed
  <2>5. relay[r].index.id \in op[o].new.lineage
    BY <1>0, <2>1, <2>2, <2>4, Descended
  <2> QED BY <1>0, <2>1, <2>2, <2>3, <2>5 DEF Placed
<1>3. ASSUME NEW o \in Ops, NEW q \in Relays, Deliver(o, q), q # r PROVE relay'[r] = relay[r]
  BY <1>0, <1>3, DeliverEffect
<1> QED BY <1>0, <1>1, <1>2, <1>3, ViewSteps, ListenEffect, DeleteEffect, ConstantsAssumption
        DEF Next, vars

LEMMA InitInvariant == Init => IInv
  BY InitType, InitLockHeld, InitForest, InitCoherent, InitTraced, InitSealed, InitTimed,
     InitListed DEF IInv

LEMMA StepInvariant == IInv /\ [Next]_vars => IInv'
<1> SUFFICES ASSUME IInv, [Next]_vars PROVE IInv'
  OBVIOUS
<1>1. TypeOK /\ LockHeld /\ Placed /\ Forest /\ Single
  BY DEF IInv
<1>2. TypeOK' /\ LockHeld' /\ Placed' /\ Forest' /\ Single'
  BY <1>1, StepType, StepLockHeld, StepPlaced, StepForest, StepSingle
<1>3. NoSwallow => Traced'
  BY <1>1, StepTraced DEF IInv
<1>4. ASSUME Cloning PROVE Coherent' /\ Sealed' /\ Timed'
  BY <1>1, <1>4, CloningSwallowsNothing, StepCoherent, StepSealed, StepTimed DEF IInv
<1>5. ASSUME Rereading PROVE Listed'
  BY <1>1, <1>5, RereadingClones, StepListed DEF IInv
<1> QED BY <1>2, <1>3, <1>4, <1>5 DEF IInv, Cloning, NoSwallow, Rereading

-----------------------------------------------------------------------------
(* The theorems.                                                            *)

\* The inductive invariant holds, for any devices, relays and mutations: types, the
\* lock and the forest of indexes; the trace of every index to a publish where no
\* error is swallowed; coherence, secrets and stamps where the fetched event is
\* cloned; the history where handlers read the store again (JoinRequestsModal.tsx,
\* UserProfileModal.tsx, republishV2.ts, v2kick.ts).
THEOREM Inductive == Spec => []IInv
  BY InitInvariant, StepInvariant, PTL DEF Spec

\* Admissions, removals, bans and fixes, from any number of devices and through
\* any relays, lagging or not, never publish an event whose epoch or content key
\* does not fit the tree it names (republishV2.ts).
THEOREM EventsFit == ASSUME Kinds \cap RebuildKinds = {} PROVE Spec => []EventConsistent
<1>1. IInv => EventConsistent
  BY DEF IInv, Coherent, Cloning
<1> QED BY <1>1, Inductive, PTL

\* Unless the hub has encrypted groups and the owner saves roles, no device shows an
\* index that no relay accepted, whoever mutates and however late relays answer:
\* the handlers update the store only after publishWithFailover reports a relay.
THEOREM ShownWasPublished ==
  ASSUME ~(HasGroups /\ "roles" \in Kinds) PROVE Spec => []StorePublished
<1>1. IInv => StorePublished
  BY DEF IInv, Traced, NoSwallow
<1> QED BY <1>1, Inductive, PTL

\* A user who was kicked is off the tree of every index that descends from the kick,
\* and neither the tree nor the content is sealed with a secret that a leaf of his
\* ever opened, unless he was admitted again or a fix put him back; with any number
\* of devices, admissions, removals, bans and fixes (v2kick.ts: kickMemberV2).
THEOREM KicksRevoke == ASSUME Kinds \cap RebuildKinds = {} PROVE Spec => []KickRevokes
<1>1. IInv => KickRevokes
  <2> SUFFICES ASSUME IInv, NEW o \in Ops, NEW r \in Relays,
                      op[o].pc = "done", Kicks(o), op[o].new.id \in relay[r].index.lineage,
                      ~ReadmittedSince(op[o].who, op[o].new.id, relay[r].index)
               PROVE  /\ op[o].who \notin relay[r].index.members
                      /\ {relay[r].index.secret, relay[r].key}
                            \cap Known(op[o].who, relay[r].index) = {}
    BY DEF KickRevokes
  <2>1. TypeOK /\ Placed /\ Forest /\ Single /\ Coherent /\ Sealed /\ Timed
    BY DEF IInv, Cloning
  <2>2. HasBuilt(o)
    BY <2>1 DEF Timed
  <2> QED BY <2>1, <2>2, SealedRevokes
<1> QED BY <1>1, Inductive, PTL

\* Admissions, removals and bans, from any number of devices and with publishes that
\* get lost, keep the secret of every earlier epoch in the history blob, so that a
\* new member can read the old channels (v2kick.ts, the history of kickMemberV2).
THEOREM HistoryIsComplete == ASSUME Kinds \cap ClosureKinds = {} PROVE Spec => []HistoryComplete
<1>1. IInv => HistoryComplete
  BY ListedHistory, RereadingClones DEF IInv, Rereading
<1> QED BY <1>1, Inductive, PTL

\* With a subscription that does not fall behind its own device, the mutations of
\* one device form a chain, and deletions spare every index that is or may yet be
\* published, and whoever is in the tree is on the roster it goes by (UserProfileModal.tsx,
\* JoinRequestsModal.tsx, useHubEventSubscription.ts).
THEOREM InTimeInductive == InTimeSpec => []InTimeIInv
<1>1. Init => InTimeIInv
  BY InitInvariant, InitLive, InitRostered DEF InTimeIInv
<1>2. InTimeIInv /\ [Next /\ InTime']_vars => InTimeIInv'
  <2> SUFFICES ASSUME InTimeIInv, [Next /\ InTime']_vars PROVE InTimeIInv'
    OBVIOUS
  <2>1. IInv' /\ [Next]_vars
    BY StepInvariant DEF InTimeIInv
  <2>2. InTime'
    BY DEF InTimeIInv, InTime, vars
  <2>3. ASSUME OneDevice, Rereading, NoneGivenUp' PROVE Chained' /\ LiveBlobs' /\ Rostered'
    <3>1. Ground /\ InTime
      BY <2>3 DEF Ground, InTimeIInv
    <3>2. NoneGivenUp
      BY <2>1, <2>3, <3>1, GivenUpStays, GroundFacts
    <3>3. Chained /\ LiveBlobs /\ Rostered
      BY <2>3, <3>2 DEF InTimeIInv
    <3> QED BY <2>1, <2>2, <2>3, <3>1, <3>3, StepChained, StepLive, StepRostered
  <2> QED BY <2>1, <2>2, <2>3 DEF InTimeIInv, OneDevice, Rereading
<1> QED BY <1>1, <1>2, PTL DEF InTimeSpec

\* One device that admits, removes and bans never overwrites a mutation of its own
\* that was completed, whichever relays took it and whichever answer a fetch, as long
\* as its publishes got through (hubMutationGuard.ts: the lock, assertIndexUnchanged).
THEOREM NothingLost ==
  ASSUME \A o, p \in Ops : DeviceOf[o] = DeviceOf[p], Kinds \cap ClosureKinds = {}
  PROVE  InTimeSpec => []NoLostUpdate
<1>1. InTimeIInv => NoLostUpdate
  BY ChainedKeeps, ChainedParts DEF InTimeIInv, NoLostUpdate, Ground, OneDevice, Rereading
<1> QED BY <1>1, InTimeInductive, PTL

\* Under the same conditions the newest event on the relays never names a blob that
\* a handler deleted or is about to delete (JoinRequestsModal.tsx: the deletions at the end
\* of handleAddMembersV2).
THEOREM NewestIsWhole ==
  ASSUME \A o, p \in Ops : DeviceOf[o] = DeviceOf[p], Kinds \cap ClosureKinds = {}
  PROVE  InTimeSpec => []NewestBlobsPresent
<1>1. InTimeIInv => NewestBlobsPresent
  BY ChainedNewest, ChainedParts DEF InTimeIInv, NewestBlobsPresent, Ground, OneDevice, Rereading
<1> QED BY <1>1, InTimeInductive, PTL

\* Under the same conditions no relay ever serves an index in which somebody is both
\* banned and on the tree: a ban of a member is a kick, and the roster that decides
\* which of the two it is holds every member of the tree (UserProfileModal.tsx:
\* handleRemoveOrBan).
THEOREM NobodyBannedIsIn ==
  ASSUME \A o, p \in Ops : DeviceOf[o] = DeviceOf[p], Kinds \cap ClosureKinds = {}
  PROVE  InTimeSpec => []BannedNotMember
<1>1. InTimeIInv => BannedNotMember
  BY RosteredParts DEF InTimeIInv, IInv, Placed, BannedNotMember, Disjoint, OneDevice, Rereading
<1> QED BY <1>1, InTimeInductive, PTL

\* Where nobody is admitted, since an admission publishes an index without the
\* banned list, one device that removes and bans never makes a relay drop a ban: what a
\* relay serves next descends from what it served, and bans only grow along descent
\* (UserProfileModal.tsx: handleRemoveOrBan).
THEOREM BansAreKept ==
  ASSUME \A o, p \in Ops : DeviceOf[o] = DeviceOf[p], Kinds \cap ClosureKinds = {},
         "admit" \notin Kinds
  PROVE  InTimeSpec => BansOnlyLifted
<1> DEFINE Lifted == NoneGivenUp' =>
              \A r \in Relays : \A m \in relay[r].index.bans \ relay'[r].index.bans :
              \E o \in Ops : /\ op[o].kind \in {"unban", "readd"} /\ op[o].who = m
                             /\ op[o].new.id \in relay'[r].index.lineage
<1>1. InTimeIInv /\ InTimeIInv' /\ [Next /\ InTime']_vars => [Lifted]_vars
  <2> SUFFICES ASSUME InTimeIInv, [Next]_vars, NoneGivenUp', NEW r \in Relays
               PROVE  relay[r].index.bans \subseteq relay'[r].index.bans
    OBVIOUS
  <2>1. Ground
    BY DEF Ground, InTimeIInv, OneDevice, Rereading
  <2>2. NoneGivenUp
    BY <2>1, GivenUpStays, GroundFacts
  <2>3. Ordered /\ BansKept
    BY <2>1, <2>2, ChainedParts, RosteredParts DEF InTimeIInv, Ground
  <2> QED BY <2>1, <2>3, RelayDescends DEF BansKept
<1> QED BY <1>1, InTimeInductive, PTL DEF InTimeSpec, BansOnlyLifted

=============================================================================
