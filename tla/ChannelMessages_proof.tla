------------------------- MODULE ChannelMessages_proof -------------------------
(***************************************************************************)
(* For any devices, versions and restarts: what a member's device shows    *)
(* and keeps of a message only moves to newer versions, across restarts    *)
(* and whatever the order of cache writes, and a send that failed leaves   *)
(* nothing behind.  The inductive invariant IInv is taken apart by device  *)
(* (Fit, First); an action changes the state of one device and has to      *)
(* show these two for it alone (LocalStep).                                *)
(***************************************************************************)
EXTENDS ChannelMessages, TLAPS

LEMMA VersionFields ==
  /\ \A v \in Version : v.ts \in Int /\ v.ts >= 1 /\ v.id \in Int /\ v.gone \in BOOLEAN
  /\ None \notin Version
  BY MessagesAssumption DEF Version

LEMMA OperationFields ==
  ASSUME NEW d \in Author, TypeOK, op[d] # None
  PROVE  /\ op[d] \in Operation /\ op[d].base \in Version
         /\ op[d].what # "edit" /\ Made => op[d].tombstone \in made /\ op[d].tombstone \in Version
  BY DEF TypeOK, Operation, Made

LEMMA NewVersion ==
  ASSUME NEW ts \in Nat \ {0}, NEW gone \in BOOLEAN, CanMake(ts)
  PROVE  /\ New(ts, gone) \in Version
         /\ New(ts, gone).ts = ts
         /\ \A m \in made : m.id # New(ts, gone).id
<1>1. NextId \in 1..MaxVersion /\ \A m \in made : m.id # NextId
  BY DEF CanMake, NextId
<1>2. ts \in 1..MaxVersion
  BY MessagesAssumption DEF CanMake
<1> QED BY <1>1, <1>2 DEF New, Version

\* A cache write keeps nothing that was not there, and loses nothing newest.
LEMMA WriteKeeps ==
  ASSUME NEW c \in SUBSET Version, NEW v \in Version, NEW r \in One(c, v) \cup {Bulk(c, v)}
  PROVE  /\ r \subseteq c \cup {v}
         /\ (\A e \in c : e.id = v.id => e.ts = v.ts) => \A e \in c : \E f \in r : f.ts >= e.ts
<1>1. ASSUME r = Bulk(c, v)
      PROVE  /\ r \subseteq c \cup {v}
             /\ (\A e \in c : e.id = v.id => e.ts = v.ts) => \A e \in c : \E f \in r : f.ts >= e.ts
  <2>1. r = {e \in c : e.id # v.id /\ e \notin Stale(c, v)} \cup {v}
    BY <1>1 DEF Bulk, Put, Without
  <2>2. \A e \in c : e \in r \/ e.id = v.id \/ e.ts <= v.ts
    BY <2>1 DEF Stale
  <2>3. SUFFICES ASSUME \A e \in c : e.id = v.id => e.ts = v.ts, NEW e \in c
                 PROVE  \E f \in r : f.ts >= e.ts
    BY <2>1
  <2>4. v \in r /\ v.ts \in Int /\ e.ts \in Int
    BY <2>1, VersionFields
  <2> QED BY <2>2, <2>3, <2>4
<1>2. ASSUME r # Bulk(c, v)
      PROVE  r \subseteq c /\ \A e \in c : \E f \in r : f.ts >= e.ts
  <2>1. PICK n \in Without(c, v) : ~(n.ts <= v.ts)
    BY <1>2 DEF One
  <2>2. PICK stale \in SUBSET Stale(c, v) : r = c \ stale
    BY <1>2, <2>1 DEF One
  <2>3. n \in r /\ n.ts > v.ts
    BY <2>1, <2>2, VersionFields DEF Stale, Without
  <2>4. ASSUME NEW e \in c PROVE \E f \in r : f.ts >= e.ts
    <3>1. CASE e \in r
      BY <3>1, VersionFields
    <3>2. CASE e \notin r
      <4>1. e.ts <= v.ts
        BY <3>2, <2>2 DEF Stale
      <4>2. e.ts \in Int /\ v.ts \in Int /\ n.ts \in Int
        BY <2>1, VersionFields DEF Without
      <4> QED BY <4>1, <4>2, <2>3
    <3> QED BY <3>1, <3>2
  <2> QED BY <2>2, <2>4
<1> QED BY <1>1, <1>2

LEMMA MergedForward ==
  ASSUME NEW entry \in Version \cup {None}, NEW v \in Version
  PROVE  /\ Merged(entry, v) \in {entry, v} \ {None}
         /\ Merged(entry, v).ts >= v.ts
         /\ entry # None => Merged(entry, v).ts >= entry.ts
         /\ entry # None /\ Merged(entry, v) # entry => Merged(entry, v).ts > entry.ts
  BY VersionFields DEF Merged

-----------------------------------------------------------------------------
(* The invariant, device by device.                                         *)

KnownIn(md, v) == \E m \in md : m.id = v.id /\ m.ts = v.ts

Fit(d, st, ca, wr, ld, md, sv) ==
    /\ st \in Version \cup {None}
    /\ ca \in SUBSET Version
    /\ wr \in SUBSET sv
    /\ st # None => KnownIn(md, st)
    /\ \A e \in ca : KnownIn(md, e)
    /\ d \in Reader /\ st # None => st \in sv
    /\ d \in Reader => ca \subseteq sv
    /\ d \in Reader => \A v \in wr : st # None /\ st.ts >= v.ts
    /\ d \in Reader /\ ld => \A e \in ca : st # None /\ st.ts >= e.ts

First(d, st, ca, fl, se, md, sv) ==
    Sent(md) \ sv # {} =>
        (((st # None /\ st.ts = 1) \/ \E e \in ca : e.ts = 1) => ~fl /\ se \in {None, d})

Globals ==
    /\ store \in [Device -> Version \cup {None}]
    /\ cache \in [Device -> SUBSET Version]
    /\ writes \in [Device -> SUBSET Version]
    /\ loaded \in SUBSET Device
    /\ op \in [Author -> Operation \cup {None}]
    /\ sender \in Author \cup {None} /\ failed \in BOOLEAN
    /\ made \in SUBSET Version /\ served \in SUBSET made
    /\ requested \in BOOLEAN /\ erased \in BOOLEAN
    /\ recent \in BOOLEAN
    /\ restarts \in Nat
    /\ Made

FitNow(d) == Fit(d, store[d], cache[d], writes[d], d \in loaded, made, served)

FirstNow(d) == First(d, store[d], cache[d], failed, sender, made, served)

JInv == Globals /\ \A d \in Device : FitNow(d) /\ FirstNow(d)

LEMMA JInvIsIInv == JInv <=> IInv
<1>1. Reader \subseteq Device
  BY DEF Device
<1>2. ASSUME JInv PROVE IInv
  <2>1. Globals /\ \A d \in Device : FitNow(d) /\ FirstNow(d)
    BY <1>2 DEF JInv
  <2>2. TypeOK /\ Made
    BY <2>1 DEF Globals, TypeOK
  <2>3. Held
    BY <2>1, <1>1 DEF Held, FitNow, Fit, Known, KnownIn
  <2>4. OnlySenderHolds
    BY <2>1 DEF OnlySenderHolds, HoldsFirst, FirstNow, First
  <2>5. ShowsWhatItKept
    BY <2>1, <1>1 DEF ShowsWhatItKept, FitNow, Fit
  <2> QED BY <2>2, <2>3, <2>4, <2>5 DEF IInv
<1>3. ASSUME IInv PROVE JInv
  <2>1. TypeOK /\ Made /\ Held /\ OnlySenderHolds /\ ShowsWhatItKept
    BY <1>3 DEF IInv
  <2>2. Globals
    BY <2>1 DEF Globals, TypeOK
  <2>3. ASSUME NEW d \in Device PROVE FitNow(d)
    <3>1. store[d] \in Version \cup {None} /\ cache[d] \in SUBSET Version /\ writes[d] \in SUBSET served
      BY <2>1 DEF TypeOK, Held
    <3>2. /\ store[d] # None => KnownIn(made, store[d])
          /\ \A e \in cache[d] : KnownIn(made, e)
      BY <2>1 DEF Held, Known, KnownIn
    <3>3. d \in Reader => /\ store[d] # None => store[d] \in served
                          /\ cache[d] \subseteq served
                          /\ \A v \in writes[d] : store[d] # None /\ store[d].ts >= v.ts
      BY <2>1 DEF Held
    <3>4. d \in Reader /\ d \in loaded => \A e \in cache[d] : store[d] # None /\ store[d].ts >= e.ts
      BY <2>1 DEF ShowsWhatItKept
    <3> QED BY <3>1, <3>2, <3>3, <3>4 DEF FitNow, Fit
  <2>4. ASSUME NEW d \in Device PROVE FirstNow(d)
    BY <2>1 DEF OnlySenderHolds, HoldsFirst, FirstNow, First
  <2> QED BY <2>2, <2>3, <2>4 DEF JInv
<1> QED BY <1>2, <1>3

\* More versions made, or served, do not disturb a device.
LEMMA FitGrows ==
  ASSUME NEW d, NEW st, NEW ca, NEW wr, NEW ld, NEW md, NEW sv, NEW md2, NEW sv2,
         Fit(d, st, ca, wr, ld, md, sv), md \subseteq md2, sv \subseteq sv2
  PROVE  Fit(d, st, ca, wr, ld, md2, sv2)
  BY DEF Fit, KnownIn

LEMMA LocalStep ==
  ASSUME JInv, NEW d \in Device, Globals',
         \A e \in Device \ {d} : /\ store'[e] = store[e] /\ cache'[e] = cache[e]
                                 /\ writes'[e] = writes[e] /\ (e \in loaded') = (e \in loaded)
                                 /\ ~failed /\ sender \in {None, e} => ~failed' /\ sender' \in {None, e},
         made \subseteq made', served \subseteq served',
         Sent(made') \ served' \subseteq Sent(made) \ served,
         FitNow(d)', FirstNow(d)'
  PROVE  JInv'
<1>1. ASSUME NEW e \in Device \ {d} PROVE FitNow(e)' /\ FirstNow(e)'
  <2>1. FitNow(e) /\ FirstNow(e)
    BY DEF JInv
  <2>2. Fit(e, store[e], cache[e], writes[e], e \in loaded, made', served')
    BY <2>1, FitGrows DEF FitNow
  <2>3. FitNow(e)'
    BY <2>2 DEF FitNow
  <2>4. FirstNow(e)'
    BY <2>1 DEF FirstNow, First
  <2> QED BY <2>3, <2>4
<1> QED BY <1>1 DEF JInv

\* A new version that is not the first changes nothing about the first.
LEMMA MadeGrows ==
  ASSUME JInv, NEW v \in Version, v.ts > 1, \A m \in made : m.id # v.id, made' = made \cup {v},
         UNCHANGED served
  PROVE  /\ made' \in SUBSET Version /\ served' \in SUBSET made'
         /\ \A u, w \in made' : (u.id = w.id \/ (u.ts = 1 /\ w.ts = 1)) => u = w
         /\ Sent(made') = Sent(made)
  BY DEF JInv, Globals, Made, Sent

\* The newest entry a cache holds, and the versions known to all, stay what they are.
LEMMA JInvParts ==
  ASSUME JInv, NEW d \in Device
  PROVE  /\ Globals /\ FitNow(d) /\ FirstNow(d)
         /\ store[d] \in Version \cup {None} /\ cache[d] \in SUBSET Version
         /\ writes[d] \in SUBSET Version /\ writes[d] \in SUBSET served
  BY DEF JInv, Globals, FitNow, Fit

LEMMA SendStep ==
  ASSUME JInv, NEW d \in Author, Send(d)
  PROVE  JInv'
<1> DEFINE v == New(1, FALSE)
<1>1. made = {} /\ served = {} /\ Globals
  BY DEF JInv, Globals, Send
<1>2. v \in Version /\ v.ts = 1
  <2>1. CanMake(1)
    BY <1>1, MessagesAssumption DEF CanMake
  <2>2. 1 \in Nat \ {0} /\ FALSE \in BOOLEAN
    OBVIOUS
  <2> QED BY <2>1, <2>2, NewVersion
<1> HIDE DEF v
<1>3. /\ made' = {v} /\ sender' = d /\ store' = [store EXCEPT ![d] = v] /\ cache' = [cache EXCEPT ![d] = {v}]
      /\ UNCHANGED <<writes, loaded, op, failed, served, requested, erased, recent, restarts>>
  BY DEF Send, relays, v
<1>4. d \in Device /\ Reader \subseteq Device /\ d \notin Reader /\ d # None
  BY MessagesAssumption DEF Device
<1>5. \A e \in Device : store[e] = None /\ cache[e] = {} /\ writes[e] = {}
  BY <1>1, <1>4 DEF JInv, FitNow, Fit, KnownIn
<1>6. Globals'
  <2>1. /\ store' \in [Device -> Version \cup {None}] /\ cache' \in [Device -> SUBSET Version]
        /\ made' \in SUBSET Version /\ served' \in SUBSET made' /\ sender' \in Author \cup {None}
    BY <1>1, <1>2, <1>3 DEF Globals
  <2>2. Made'
    <3>1. \A e \in Author : op[e] # None => op[e].what = "edit"
      BY <1>1 DEF Globals, Made
    <3> QED BY <3>1, <1>3 DEF Made
  <2> QED BY <2>1, <2>2, <1>1, <1>3 DEF Globals
<1>7. ~failed /\ ~failed'
  BY <1>1, <1>3 DEF Globals, Made
<1>8. ASSUME NEW e \in Device PROVE FitNow(e)' /\ FirstNow(e)'
  <2>1. CASE e # d
    <3>1. store'[e] = None /\ cache'[e] = {} /\ writes'[e] = {}
      BY <1>3, <1>5, <2>1 DEF Globals, JInv
    <3> QED BY <3>1 DEF FitNow, Fit, FirstNow, First
  <2>2. CASE e = d
    <3>1. store'[e] = v /\ cache'[e] = {v} /\ writes'[e] = {}
      BY <1>1, <1>3, <1>4, <1>5, <2>2 DEF Globals
    <3>2. FitNow(e)'
      BY <3>1, <1>2, <1>3, <1>4, <2>2 DEF FitNow, Fit, KnownIn
    <3>3. FirstNow(e)'
      BY <1>3, <1>7, <2>2 DEF FirstNow, First
    <3> QED BY <3>2, <3>3
  <2> QED BY <2>1, <2>2
<1> QED BY <1>6, <1>8 DEF JInv

LEMMA SendFailsStep ==
  ASSUME JInv, SendFails
  PROVE  JInv'
<1>1. /\ sender \in Author /\ sender' = None /\ failed' = TRUE
      /\ store' = [store EXCEPT ![sender] = None] /\ cache' = [cache EXCEPT ![sender] = Forgotten(@)]
      /\ UNCHANGED <<writes, loaded, op, served, requested, erased, made, recent, restarts>>
  BY DEF SendFails, relays, JInv, Globals
<1>2. Author \subseteq Device /\ sender \notin Reader /\ sender # None /\ Globals
  BY <1>1, MessagesAssumption DEF Device, JInv
<1>3. Forgotten(cache[sender]) = {e \in cache[sender] : e.ts # 1}
  BY DEF Forgotten, Sent
<1>4. Globals'
  <2>1. /\ store' \in [Device -> Version \cup {None}] /\ cache' \in [Device -> SUBSET Version]
    BY <1>1, <1>2, <1>3 DEF Globals
  <2>2. Made'
    BY <1>1, <1>2 DEF Globals, Made
  <2> QED BY <1>1, <1>2, <2>1, <2>2 DEF Globals
<1>5. ASSUME NEW e \in Device PROVE FitNow(e)' /\ FirstNow(e)'
  <2>1. FitNow(e) /\ FirstNow(e)
    BY DEF JInv
  <2>2. CASE e # sender
    <3>1. store'[e] = store[e] /\ cache'[e] = cache[e] /\ writes'[e] = writes[e]
      BY <1>1, <1>2, <2>2 DEF Globals
    <3>2. FitNow(e)'
      BY <3>1, <2>1, <1>1 DEF FitNow
    <3>3. FirstNow(e)'
      BY <3>1, <2>1, <2>2, <1>1, <1>2 DEF FirstNow, First
    <3> QED BY <3>2, <3>3
  <2>3. CASE e = sender
    <3>1. store'[e] = None /\ cache'[e] = {x \in cache[e] : x.ts # 1} /\ writes'[e] = writes[e]
      BY <1>1, <1>2, <1>3, <2>3 DEF Globals
    <3>2. FitNow(e)'
      BY <3>1, <2>1, <1>1, <1>2, <2>3 DEF FitNow, Fit
    <3>3. FirstNow(e)'
      BY <3>1 DEF FirstNow, First
    <3> QED BY <3>2, <3>3
  <2> QED BY <2>2, <2>3
<1> QED BY <1>4, <1>5 DEF JInv

\* Steps that touch neither screens, caches nor what the relays hold.
LEMMA QuietStep ==
  ASSUME JInv, Globals', UNCHANGED <<store, cache, writes, loaded, failed, made, served>>, sender' \in {sender, None}
  PROVE  JInv'
<1>1. ASSUME NEW e \in Device PROVE FitNow(e)' /\ FirstNow(e)'
  <2>1. FitNow(e) /\ FirstNow(e)
    BY DEF JInv
  <2>2. FitNow(e)'
    BY <2>1 DEF FitNow
  <2>3. FirstNow(e)'
    BY <2>1 DEF FirstNow, First
  <2> QED BY <2>2, <2>3
<1> QED BY <1>1 DEF JInv

LEMMA SendEndsStep ==
  ASSUME JInv, SendEnds
  PROVE  JInv'
<1>1. sender' = None /\ UNCHANGED <<store, cache, writes, loaded, op, failed, served, requested, erased, made, recent, restarts>>
  BY DEF SendEnds, local, relays
<1>2. Globals'
  BY <1>1 DEF JInv, Globals, Made
<1> QED BY <1>1, <1>2, QuietStep

LEMMA EditStep ==
  ASSUME JInv, NEW d \in Author, Edit(d)
  PROVE  JInv'
<1> DEFINE o == [what |-> "edit", base |-> store[d], tombstone |-> None]
<1>1. /\ op' = [op EXCEPT ![d] = o] /\ store[d] # None
      /\ UNCHANGED <<store, cache, writes, loaded, sender, failed, served, requested, erased, made, recent, restarts>>
  BY DEF Edit, Shows, local, relays
<1>2. Globals /\ d \in Device
  BY DEF JInv, Device
<1>3. o \in Operation /\ o.what = "edit"
  BY <1>1, <1>2 DEF Globals, Operation
<1> HIDE DEF o
<1>4. op' \in [Author -> Operation \cup {None}] /\ \A e \in Author : op'[e] = IF e = d THEN o ELSE op[e]
  BY <1>1, <1>2, <1>3 DEF Globals
<1>5. Made'
  BY <1>1, <1>2, <1>3, <1>4 DEF Globals, Made
<1>6. Globals'
  BY <1>1, <1>2, <1>4, <1>5 DEF Globals
<1> QED BY <1>1, <1>6, QuietStep

LEMMA RequestStep ==
  ASSUME JInv, NEW d \in Author, Request(d)
  PROVE  JInv'
<1>1. /\ op' = [op EXCEPT ![d].what = "commit"] /\ op[d] # None /\ op[d].what = "request" /\ requested' = TRUE
      /\ UNCHANGED <<store, cache, writes, loaded, sender, failed, served, erased, made, recent, restarts>>
  BY DEF Request, local
<1>2. Globals
  BY DEF JInv
<1>3. op[d] \in Operation
  BY <1>1, <1>2 DEF Globals
<1>4. op[d].tombstone \in made /\ op[d].tombstone.ts > 1
  BY <1>1, <1>2 DEF Globals, Made
<1> DEFINE o == [op[d] EXCEPT !.what = "commit"]
<1>5. o \in Operation /\ o.tombstone = op[d].tombstone
  BY <1>3 DEF Operation
<1>6. op' = [op EXCEPT ![d] = o]
  BY <1>1
<1> HIDE DEF o
<1>7. op' \in [Author -> Operation \cup {None}] /\ \A e \in Author : op'[e] = IF e = d THEN o ELSE op[e]
  BY <1>2, <1>5, <1>6 DEF Globals
<1>8. Made'
  BY <1>1, <1>2, <1>4, <1>5, <1>7 DEF Globals, Made
<1>9. Globals'
  BY <1>1, <1>2, <1>7, <1>8 DEF Globals
<1> QED BY <1>1, <1>9, QuietStep

LEMMA CommitEditStep ==
  ASSUME JInv, NEW d \in Author, CommitEdit(d)
  PROVE  JInv'
<1> DEFINE v == New(op[d].base.ts + 1, FALSE)
           st == Edited(store[d], v)
           ca == Replaced(cache[d], op[d].base, v)
<1>1. /\ op[d] # None /\ CanMake(op[d].base.ts + 1)
      /\ store' = [store EXCEPT ![d] = st] /\ cache' = [cache EXCEPT ![d] = ca]
      /\ made' = made \cup {v} /\ op' = [op EXCEPT ![d] = None]
      /\ UNCHANGED <<writes, loaded, sender, failed, served, requested, erased, recent, restarts>>
  BY DEF CommitEdit, relays
<1>2. d \in Device /\ d \notin Reader
  BY MessagesAssumption DEF Device
<1>3. /\ Globals /\ FitNow(d) /\ FirstNow(d) /\ store[d] \in Version \cup {None} /\ cache[d] \in SUBSET Version
  BY <1>2, JInvParts
<1>4. v \in Version /\ v.ts > 1 /\ v.ts \in Int /\ \A m \in made : m.id # v.id
  <2>1. op[d].base \in Version
    BY <1>1, <1>3 DEF Globals, Operation
  <2>2. op[d].base.ts + 1 \in Nat \ {0} /\ op[d].base.ts + 1 > 1 /\ FALSE \in BOOLEAN
    BY <2>1, VersionFields
  <2>3. v \in Version /\ v.ts = op[d].base.ts + 1 /\ \A m \in made : m.id # v.id
    BY <1>1, <2>2, NewVersion
  <2> QED BY <2>2, <2>3, VersionFields
<1>5. /\ store[d] = None => st = None
      /\ store[d] # None => st \in Version /\ st.ts = v.ts /\ st.id = v.id
  BY <1>3, <1>4, VersionFields DEF Edited, Version
<1>6. ca \subseteq cache[d] \cup {v}
  BY DEF Replaced, Put, Without
<1> HIDE DEF v, st, ca
<1>7. st \in Version \cup {None} /\ ca \in SUBSET Version
  BY <1>3, <1>4, <1>5, <1>6
<1>8. /\ made' \in SUBSET Version /\ served' \in SUBSET made' /\ Sent(made') = Sent(made)
      /\ \A u, w \in made' : (u.id = w.id \/ (u.ts = 1 /\ w.ts = 1)) => u = w
  BY <1>1, <1>4, MadeGrows
<1>9. /\ store' \in [Device -> Version \cup {None}] /\ cache' \in [Device -> SUBSET Version]
      /\ store'[d] = st /\ cache'[d] = ca /\ writes'[d] = writes[d]
      /\ op' \in [Author -> Operation \cup {None}] /\ \A e \in Author : op'[e] \in {op[e], None}
  BY <1>1, <1>2, <1>3, <1>7 DEF Globals
<1>10. Made'
  BY <1>1, <1>3, <1>8, <1>9 DEF Globals, Made
<1>11. Globals'
  BY <1>1, <1>3, <1>8, <1>9, <1>10 DEF Globals
<1>12. FitNow(d)'
  <2>1. st # None => KnownIn(made', st)
    BY <1>1, <1>5, <1>7 DEF KnownIn
  <2>2. \A e \in ca : KnownIn(made', e)
    BY <1>1, <1>3, <1>6 DEF KnownIn, FitNow, Fit
  <2> QED BY <2>1, <2>2, <1>1, <1>2, <1>3, <1>7, <1>9 DEF FitNow, Fit
<1>13. FirstNow(d)'
  <2>1. st # None => st.ts # 1
    BY <1>4, <1>5, <1>7
  <2>2. \A e \in ca : e.ts = 1 => e \in cache[d]
    BY <1>4, <1>6
  <2> QED BY <2>1, <2>2, <1>1, <1>3, <1>8, <1>9 DEF FirstNow, First
<1>14. \A e \in Device \ {d} : store'[e] = store[e] /\ cache'[e] = cache[e]
  BY <1>1, <1>2, <1>3 DEF Globals
<1> QED BY <1>1, <1>2, <1>8, <1>11, <1>12, <1>13, <1>14, LocalStep

LEMMA DeleteStep ==
  ASSUME JInv, NEW d \in Author, Delete(d)
  PROVE  JInv'
<1> DEFINE v == New(store[d].ts + 1, TRUE)
           o == [what |-> "request", base |-> store[d], tombstone |-> v]
<1>1. /\ store[d] # None /\ CanMake(store[d].ts + 1) /\ made' = made \cup {v} /\ op' = [op EXCEPT ![d] = o]
      /\ UNCHANGED <<store, cache, writes, loaded, sender, failed, served, requested, erased, recent, restarts>>
  BY DEF Delete, Shows, local, relays
<1>2. d \in Device
  BY DEF Device
<1>3. /\ Globals /\ FitNow(d) /\ FirstNow(d) /\ store[d] \in Version
  BY <1>1, <1>2, JInvParts
<1>4. v \in Version /\ v.ts > 1 /\ \A m \in made : m.id # v.id
  <2>1. store[d].ts + 1 \in Nat \ {0} /\ store[d].ts + 1 > 1 /\ TRUE \in BOOLEAN
    BY <1>3, VersionFields
  <2> QED BY <1>1, <2>1, NewVersion
<1>5. o \in Operation /\ o.tombstone = v
  BY <1>3, <1>4 DEF Operation
<1> HIDE DEF v, o
<1>6. /\ made' \in SUBSET Version /\ served' \in SUBSET made' /\ Sent(made') = Sent(made)
      /\ \A u, w \in made' : (u.id = w.id \/ (u.ts = 1 /\ w.ts = 1)) => u = w
  BY <1>1, <1>4, MadeGrows
<1>7. op' \in [Author -> Operation \cup {None}] /\ \A e \in Author : op'[e] = IF e = d THEN o ELSE op[e]
  BY <1>1, <1>3, <1>5 DEF Globals
<1>8. Made'
  BY <1>1, <1>3, <1>4, <1>5, <1>6, <1>7 DEF Globals, Made
<1>9. Globals'
  BY <1>1, <1>3, <1>6, <1>7, <1>8 DEF Globals
<1>10. FitNow(d)' /\ FirstNow(d)'
  <2>1. Fit(d, store[d], cache[d], writes[d], d \in loaded, made', served')
    BY <1>1, <1>3, FitGrows DEF FitNow
  <2> QED BY <2>1, <1>1, <1>3, <1>6 DEF FitNow, FirstNow, First
<1> QED BY <1>1, <1>2, <1>6, <1>9, <1>10, LocalStep

LEMMA CommitDeleteStep ==
  ASSUME JInv, NEW d \in Author, CommitDelete(d)
  PROVE  JInv'
<1> DEFINE st == IF store[d] = None THEN None ELSE [store[d] EXCEPT !.gone = TRUE]
<1>1. PICK ca \in One(Without(cache[d], op[d].base), op[d].tombstone) :
          /\ op[d] # None /\ op[d].what = "commit"
          /\ store' = [store EXCEPT ![d] = st] /\ cache' = [cache EXCEPT ![d] = ca]
          /\ op' = [op EXCEPT ![d] = None]
          /\ UNCHANGED <<writes, loaded, sender, failed, served, requested, erased, made, recent, restarts>>
  BY DEF CommitDelete, relays
<1>2. d \in Device /\ d \notin Reader
  BY MessagesAssumption DEF Device
<1>3. /\ Globals /\ FitNow(d) /\ FirstNow(d) /\ store[d] \in Version \cup {None} /\ cache[d] \in SUBSET Version
  BY <1>2, JInvParts
<1>4. op[d].tombstone \in made /\ op[d].tombstone \in Version /\ op[d].tombstone.ts > 1
  BY <1>1, <1>3 DEF Globals, Made
<1>5. /\ store[d] = None => st = None
      /\ store[d] # None => st \in Version /\ st.ts = store[d].ts /\ st.id = store[d].id
  BY <1>3 DEF Version
<1>6. ca \subseteq cache[d] \cup {op[d].tombstone}
  <2>1. Without(cache[d], op[d].base) \in SUBSET Version
    BY <1>3 DEF Without
  <2>2. ca \subseteq Without(cache[d], op[d].base) \cup {op[d].tombstone}
    BY <1>1, <1>4, <2>1, WriteKeeps
  <2> QED BY <2>2 DEF Without
<1> HIDE DEF st
<1>7. st \in Version \cup {None} /\ ca \in SUBSET Version
  BY <1>3, <1>4, <1>5, <1>6
<1>8. /\ store' \in [Device -> Version \cup {None}] /\ cache' \in [Device -> SUBSET Version]
      /\ store'[d] = st /\ cache'[d] = ca /\ writes'[d] = writes[d]
      /\ op' \in [Author -> Operation \cup {None}] /\ \A e \in Author : op'[e] \in {op[e], None}
  BY <1>1, <1>2, <1>3, <1>7 DEF Globals
<1>9. Globals'
  BY <1>1, <1>3, <1>8 DEF Globals, Made
<1>10. FitNow(d)'
  <2>1. st # None => KnownIn(made, st)
    BY <1>3, <1>5 DEF KnownIn, FitNow, Fit
  <2>2. \A e \in ca : KnownIn(made, e)
    BY <1>3, <1>4, <1>6 DEF KnownIn, FitNow, Fit
  <2> QED BY <2>1, <2>2, <1>1, <1>2, <1>3, <1>7, <1>8 DEF FitNow, Fit
<1>11. FirstNow(d)'
  <2>1. st # None => store[d] # None /\ st.ts = store[d].ts
    BY <1>5
  <2>2. \A e \in ca : e.ts = 1 => e \in cache[d]
    BY <1>4, <1>6, VersionFields
  <2> QED BY <2>1, <2>2, <1>1, <1>3, <1>8 DEF FirstNow, First
<1>12. \A e \in Device \ {d} : store'[e] = store[e] /\ cache'[e] = cache[e]
  BY <1>1, <1>2, <1>3 DEF Globals
<1> QED BY <1>1, <1>2, <1>9, <1>10, <1>11, <1>12, LocalStep

LEMMA DeliverStep ==
  ASSUME JInv, NEW v \in made, Deliver(v)
  PROVE  JInv'
<1>1. /\ served' = served \cup {v}
      /\ UNCHANGED <<store, cache, writes, loaded, op, sender, failed, requested, erased, made, recent, restarts>>
  BY DEF Deliver, local
<1>2. Globals'
  BY <1>1 DEF JInv, Globals, Made
<1>3. ASSUME NEW e \in Device PROVE FitNow(e)' /\ FirstNow(e)'
  <2>1. FitNow(e) /\ FirstNow(e)
    BY DEF JInv
  <2>2. Fit(e, store[e], cache[e], writes[e], e \in loaded, made', served')
    BY <1>1, <2>1, FitGrows DEF FitNow
  <2>3. FitNow(e)'
    BY <1>1, <2>2 DEF FitNow
  <2>4. FirstNow(e)'
    BY <1>1, <2>1 DEF FirstNow, First
  <2> QED BY <2>3, <2>4
<1> QED BY <1>2, <1>3 DEF JInv

LEMMA EraseStep ==
  ASSUME JInv, Erase
  PROVE  JInv'
<1>1. erased' = TRUE /\ recent' = FALSE
      /\ UNCHANGED <<store, cache, writes, loaded, op, sender, failed, served, requested, made, restarts>>
  BY DEF Erase, local
<1>2. Globals'
  BY <1>1 DEF JInv, Globals, Made
<1> QED BY <1>1, <1>2, QuietStep

LEMMA CrowdStep ==
  ASSUME JInv, Crowd
  PROVE  JInv'
<1>1. recent' = FALSE
      /\ UNCHANGED <<store, cache, writes, loaded, op, sender, failed, served, requested, erased, made, restarts>>
  BY DEF Crowd, local, relays
<1>2. Globals'
  BY <1>1 DEF JInv, Globals, Made
<1> QED BY <1>1, <1>2, QuietStep

-----------------------------------------------------------------------------
(* Every device.                                                            *)

LEMMA ReceiveStep ==
  ASSUME JInv, NEW d \in Device, NEW v \in served, NEW cacheable \in BOOLEAN, Receive(d, v, cacheable)
  PROVE  JInv'
<1> DEFINE st == Merged(store[d], v)
           wr == IF cacheable THEN writes[d] \cup {v} ELSE writes[d]
<1>1. /\ store' = [store EXCEPT ![d] = st] /\ writes' = [writes EXCEPT ![d] = wr]
      /\ UNCHANGED <<cache, loaded, op, sender, failed, served, requested, erased, made, recent, restarts>>
  BY DEF Receive, relays
<1>2. /\ Globals /\ FitNow(d) /\ FirstNow(d) /\ store[d] \in Version \cup {None}
      /\ cache[d] \in SUBSET Version /\ writes[d] \in SUBSET served
  BY JInvParts
<1>3. v \in Version /\ v \in made
  BY <1>2 DEF Globals
<1>4. /\ st \in {store[d], v} \ {None} /\ st.ts >= v.ts
      /\ store[d] # None => st.ts >= store[d].ts
  BY <1>2, <1>3, MergedForward
<1>5. wr \in SUBSET served /\ wr \subseteq writes[d] \cup {v}
  BY <1>2
<1> HIDE DEF st, wr
<1>6. st \in Version /\ wr \in SUBSET Version
  BY <1>2, <1>3, <1>4, <1>5 DEF Globals
<1>7. /\ store' \in [Device -> Version \cup {None}] /\ writes' \in [Device -> SUBSET Version]
      /\ store'[d] = st /\ writes'[d] = wr /\ cache'[d] = cache[d]
      /\ \A e \in Device \ {d} : store'[e] = store[e] /\ writes'[e] = writes[e]
  BY <1>1, <1>2, <1>6 DEF Globals
<1>8. Globals'
  BY <1>1, <1>2, <1>7 DEF Globals, Made
<1>9. FitNow(d)'
  <2>1. KnownIn(made, st)
    BY <1>2, <1>3, <1>4 DEF KnownIn, FitNow, Fit
  <2>2. \A w \in wr : d \in Reader => st.ts >= w.ts
    <3> SUFFICES ASSUME NEW w \in wr, d \in Reader PROVE st.ts >= w.ts
      OBVIOUS
    <3>1. CASE w = v
      BY <3>1, <1>4
    <3>2. CASE w \in writes[d]
      <4>1. store[d] # None /\ store[d].ts >= w.ts /\ w \in Version
        BY <3>2, <1>2 DEF FitNow, Fit, Globals
      <4> QED BY <4>1, <1>2, <1>4, <1>6, VersionFields
    <3> QED BY <3>1, <3>2, <1>5
  <2>3. d \in Reader => st \in served
    BY <1>2, <1>4 DEF FitNow, Fit
  <2>4. d \in Reader /\ d \in loaded => \A e \in cache[d] : st.ts >= e.ts
    <3> SUFFICES ASSUME d \in Reader, d \in loaded, NEW e \in cache[d] PROVE st.ts >= e.ts
      OBVIOUS
    <3>1. store[d] # None /\ store[d].ts >= e.ts /\ e \in Version
      BY <1>2 DEF FitNow, Fit
    <3> QED BY <3>1, <1>2, <1>4, <1>6, VersionFields
  <2>5. st # None
    BY <1>4
  <2> QED BY <2>1, <2>2, <2>3, <2>4, <2>5, <1>1, <1>2, <1>5, <1>6, <1>7 DEF FitNow, Fit
<1>10. FirstNow(d)'
  <2>1. SUFFICES ASSUME Sent(made) \ served # {}, st.ts = 1 \/ \E e \in cache[d] : e.ts = 1
                 PROVE  ~failed /\ sender \in {None, d}
    BY <1>1, <1>4, <1>7 DEF FirstNow, First
  <2>2. v.ts # 1
    BY <2>1, <1>2, <1>3 DEF Sent, Globals, Made
  <2>3. (store[d] # None /\ store[d].ts = 1) \/ \E e \in cache[d] : e.ts = 1
    BY <2>1, <2>2, <1>4
  <2> QED BY <2>1, <2>3, <1>2 DEF FirstNow, First
<1> QED BY <1>1, <1>7, <1>8, <1>9, <1>10, LocalStep

\* A write into the cache of what is known, and no newer than the screen.
LEMMA CacheStep ==
  ASSUME JInv, NEW d \in Device, NEW v \in Version, NEW ca \in One(cache[d], v) \cup {Bulk(cache[d], v)},
         cache' = [cache EXCEPT ![d] = ca],
         writes' \in [Device -> SUBSET Version], writes'[d] \subseteq writes[d],
         \A e \in Device \ {d} : writes'[e] = writes[e],
         UNCHANGED <<store, loaded, op, sender, failed, served, requested, erased, made, recent, restarts>>,
         KnownIn(made, v),
         d \in Reader => v \in served /\ store[d] # None /\ store[d].ts >= v.ts,
         v.ts = 1 => v \in served \/ (store[d] # None /\ store[d].ts = 1)
  PROVE  JInv'
<1>1. /\ Globals /\ FitNow(d) /\ FirstNow(d) /\ store[d] \in Version \cup {None}
      /\ cache[d] \in SUBSET Version /\ writes[d] \in SUBSET served
  BY JInvParts
<1>2. ca \subseteq cache[d] \cup {v}
  BY <1>1, WriteKeeps
<1>3. /\ cache' \in [Device -> SUBSET Version] /\ cache'[d] = ca
      /\ \A e \in Device \ {d} : cache'[e] = cache[e]
  BY <1>1, <1>2 DEF Globals
<1>4. Globals'
  BY <1>1, <1>3 DEF Globals, Made
<1>5. FitNow(d)'
  BY <1>1, <1>2, <1>3 DEF FitNow, Fit
<1>6. FirstNow(d)'
  <2>1. SUFFICES ASSUME Sent(made) \ served # {},
                        (store[d] # None /\ store[d].ts = 1) \/ \E e \in ca : e.ts = 1
                 PROVE  ~failed /\ sender \in {None, d}
    BY <1>3 DEF FirstNow, First
  <2>2. v.ts = 1 => v \notin served
    BY <2>1, <1>1 DEF Sent, Globals, Made
  <2>3. (store[d] # None /\ store[d].ts = 1) \/ \E e \in cache[d] : e.ts = 1
    BY <2>1, <2>2, <1>2
  <2> QED BY <2>1, <2>3, <1>1 DEF FirstNow, First
<1> QED BY <1>3, <1>4, <1>5, <1>6, LocalStep

LEMMA PersistStep ==
  ASSUME JInv, NEW d \in Device, NEW v \in writes[d], Persist(d, v)
  PROVE  JInv'
<1>1. PICK ca \in One(cache[d], v) \cup {Bulk(cache[d], v)} :
          /\ cache' = [cache EXCEPT ![d] = ca]
          /\ writes' = [writes EXCEPT ![d] = @ \ {v}]
          /\ UNCHANGED <<store, loaded, op, sender, failed, served, requested, erased, made, recent, restarts>>
  BY DEF Persist, relays
<1>2. /\ Globals /\ FitNow(d) /\ writes[d] \in SUBSET served /\ v \in served /\ v \in made /\ v \in Version
  BY JInvParts DEF Globals
<1>3. /\ writes' \in [Device -> SUBSET Version] /\ writes'[d] \subseteq writes[d]
      /\ \A e \in Device \ {d} : writes'[e] = writes[e]
  BY <1>1, <1>2 DEF Globals
<1>4. KnownIn(made, v)
  BY <1>2 DEF KnownIn
<1>5. d \in Reader => store[d] # None /\ store[d].ts >= v.ts
  BY <1>2 DEF FitNow, Fit
<1> QED BY <1>1, <1>2, <1>3, <1>4, <1>5, CacheStep

LEMMA SweepStep ==
  ASSUME JInv, NEW d \in Device, Sweep(d)
  PROVE  JInv'
<1>1. /\ store[d] # None
      /\ UNCHANGED <<store, loaded, op, sender, failed, served, requested, erased, made, recent, restarts>>
  BY DEF Sweep, relays
<1>2. /\ Globals /\ FitNow(d) /\ FirstNow(d) /\ store[d] \in Version /\ writes[d] \in SUBSET served
  BY <1>1, JInvParts
<1>3. KnownIn(made, store[d])
  BY <1>1, <1>2 DEF FitNow, Fit
<1>4. d \in Reader => store[d] \in served
  BY <1>1, <1>2 DEF FitNow, Fit
<1>5. store[d].ts >= store[d].ts
  BY <1>2, VersionFields
<1>6. CASE d \in Author
  <2>1. cache' = [cache EXCEPT ![d] = Bulk(cache[d], store[d])] /\ writes' = writes
    BY <1>6 DEF Sweep
  <2>2. writes' \in [Device -> SUBSET Version] /\ \A e \in Device : writes'[e] = writes[e]
    BY <2>1, <1>2 DEF Globals
  <2> QED BY <2>1, <2>2, <1>1, <1>2, <1>3, <1>4, <1>5, CacheStep
<1>7. CASE d \notin Author
  <2>1. d \in Reader
    BY <1>7 DEF Device
  <2>2. writes' = [writes EXCEPT ![d] = writes[d] \cup {store[d]}] /\ cache' = cache
    BY <1>7 DEF Sweep
  <2>3. /\ writes' \in [Device -> SUBSET Version] /\ writes'[d] = writes[d] \cup {store[d]}
        /\ \A e \in Device \ {d} : writes'[e] = writes[e]
    BY <2>2, <1>2 DEF Globals
  <2>4. Globals'
    BY <2>2, <2>3, <1>1, <1>2 DEF Globals, Made
  <2>5. FitNow(d)'
    BY <2>1, <2>2, <2>3, <1>1, <1>2, <1>4, <1>5 DEF FitNow, Fit
  <2>6. FirstNow(d)'
    BY <2>2, <1>1, <1>2 DEF FirstNow, First
  <2> QED BY <2>2, <2>3, <2>4, <2>5, <2>6, <1>1, LocalStep
<1> QED BY <1>6, <1>7

LEMMA LoadCacheStep ==
  ASSUME JInv, NEW d \in Device, LoadCache(d)
  PROVE  JInv'
<1>1. /\ loaded' = loaded \cup {d}
      /\ UNCHANGED <<writes, op, sender, failed, served, requested, erased, made, recent, restarts>>
  BY DEF LoadCache, relays
<1>2. /\ Globals /\ FitNow(d) /\ FirstNow(d) /\ store[d] \in Version \cup {None}
      /\ cache[d] \in SUBSET Version /\ writes[d] \in SUBSET served
  BY JInvParts
<1>3. \A e \in Device \ {d} : (e \in loaded') = (e \in loaded)
  BY <1>1
<1>4. CASE cache[d] = {}
  <2>1. UNCHANGED <<store, cache>>
    BY <1>4 DEF LoadCache
  <2>2. Globals'
    BY <2>1, <1>1, <1>2 DEF Globals, Made
  <2>3. FitNow(d)' /\ FirstNow(d)'
    BY <2>1, <1>1, <1>2, <1>4 DEF FitNow, Fit, FirstNow, First
  <2> QED BY <2>1, <2>2, <2>3, <1>1, <1>3, LocalStep
<1>5. CASE cache[d] # {}
  <2>1. PICK e \in Picked(cache[d]) : /\ store' = [store EXCEPT ![d] = Merged(store[d], e)]
                                      /\ cache' = [cache EXCEPT ![d] = {e}]
    BY <1>5 DEF LoadCache
  <2>2. e \in cache[d] /\ e \in Version
    BY <1>2 DEF Picked
  <2> DEFINE st == Merged(store[d], e)
  <2>3. /\ st \in {store[d], e} \ {None} /\ st.ts >= e.ts
        /\ store[d] # None => st.ts >= store[d].ts
    BY <1>2, <2>2, MergedForward
  <2>4. store' = [store EXCEPT ![d] = st]
    BY <2>1
  <2> HIDE DEF st
  <2>5. st \in Version /\ {e} \in SUBSET Version
    BY <1>2, <2>2, <2>3
  <2>6. /\ store' \in [Device -> Version \cup {None}] /\ cache' \in [Device -> SUBSET Version]
        /\ store'[d] = st /\ cache'[d] = {e} /\ writes'[d] = writes[d]
        /\ \A f \in Device \ {d} : store'[f] = store[f] /\ cache'[f] = cache[f]
    BY <1>1, <1>2, <2>1, <2>4, <2>5 DEF Globals
  <2>7. Globals'
    BY <1>1, <1>2, <2>6 DEF Globals, Made
  <2>8. FitNow(d)'
    <3>1. KnownIn(made, st) /\ KnownIn(made, e)
      BY <1>2, <2>2, <2>3 DEF FitNow, Fit
    <3>2. d \in Reader => st \in served /\ e \in served
      BY <1>2, <2>2, <2>3 DEF FitNow, Fit
    <3>3. d \in Reader => \A w \in writes[d] : st.ts >= w.ts
      <4> SUFFICES ASSUME d \in Reader, NEW w \in writes[d] PROVE st.ts >= w.ts
        OBVIOUS
      <4>1. store[d] # None /\ store[d].ts >= w.ts /\ w \in Version
        BY <1>2 DEF FitNow, Fit, Globals
      <4> QED BY <4>1, <1>2, <2>3, <2>5, VersionFields
    <3> QED BY <3>1, <3>2, <3>3, <2>3, <2>5, <2>6, <1>1, <1>2 DEF FitNow, Fit
  <2>9. FirstNow(d)'
    <3>1. st.ts = 1 => (store[d] # None /\ store[d].ts = 1) \/ e.ts = 1
      BY <2>3
    <3> QED BY <3>1, <2>2, <2>6, <1>1, <1>2 DEF FirstNow, First
  <2> QED BY <2>6, <2>7, <2>8, <2>9, <1>1, <1>3, LocalStep
<1> QED BY <1>4, <1>5

LEMMA RestartStep ==
  ASSUME JInv, NEW d \in Device, Restart(d)
  PROVE  JInv'
<1>1. /\ restarts' = restarts + 1 /\ store' = [store EXCEPT ![d] = None]
      /\ writes' = [writes EXCEPT ![d] = {}] /\ loaded' = loaded \ {d}
      /\ op' = [e \in Author |-> IF e = d THEN None ELSE op[e]]
      /\ sender' = IF sender = d THEN None ELSE sender
      /\ UNCHANGED <<cache, failed, served, requested, erased, made, recent>>
  BY DEF Restart, relays
<1>2. /\ Globals /\ FitNow(d) /\ FirstNow(d) /\ cache[d] \in SUBSET Version
  BY JInvParts
<1>3. /\ store' \in [Device -> Version \cup {None}] /\ writes' \in [Device -> SUBSET Version]
      /\ store'[d] = None /\ writes'[d] = {} /\ cache'[d] = cache[d] /\ d \notin loaded'
      /\ \A e \in Device \ {d} : store'[e] = store[e] /\ writes'[e] = writes[e] /\ (e \in loaded') = (e \in loaded)
  BY <1>1, <1>2 DEF Globals
<1>4. op' \in [Author -> Operation \cup {None}] /\ \A e \in Author : op'[e] \in {op[e], None}
  BY <1>1, <1>2 DEF Globals
<1>5. Made'
  BY <1>1, <1>2, <1>4 DEF Globals, Made
<1>6. Globals'
  BY <1>1, <1>2, <1>3, <1>4, <1>5 DEF Globals
<1>7. FitNow(d)'
  BY <1>1, <1>2, <1>3 DEF FitNow, Fit
<1>8. FirstNow(d)'
  BY <1>1, <1>2, <1>3 DEF FirstNow, First
<1>9. \A e \in Device \ {d} : sender \in {None, e} => sender' \in {None, e}
  BY <1>1
<1> QED BY <1>1, <1>3, <1>6, <1>7, <1>8, <1>9, LocalStep

-----------------------------------------------------------------------------
LEMMA InitStep == Init => JInv
<1> SUFFICES ASSUME Init PROVE JInv
  OBVIOUS
<1>1. Globals
  BY DEF Init, Globals, Made
<1>2. ASSUME NEW d \in Device PROVE FitNow(d) /\ FirstNow(d)
  <2>1. store[d] = None /\ cache[d] = {} /\ writes[d] = {} /\ made = {} /\ served = {}
    BY DEF Init
  <2> QED BY <2>1 DEF FitNow, Fit, FirstNow, First
<1> QED BY <1>1, <1>2 DEF JInv

LEMMA StutterStep == JInv /\ UNCHANGED vars => JInv'
<1> SUFFICES ASSUME JInv, UNCHANGED vars PROVE JInv'
  OBVIOUS
<1>1. UNCHANGED <<store, cache, writes, loaded, op, sender, failed, served, requested, erased, made, recent, restarts>>
  BY DEF vars, local, relays
<1>2. Globals'
  BY <1>1 DEF JInv, Globals, Made
<1> QED BY <1>1, <1>2, QuietStep

LEMMA NextStep == JInv /\ Next => JInv'
<1> SUFFICES ASSUME JInv, Next PROVE JInv'
  OBVIOUS
<1>1. ASSUME NEW d \in Author, AuthorStep(d) PROVE JInv'
  BY <1>1, SendStep, EditStep, CommitEditStep, DeleteStep, RequestStep, CommitDeleteStep DEF AuthorStep
<1>2. ASSUME NEW d \in Device, DeviceStep(d) PROVE JInv'
  BY <1>2, ReceiveStep, PersistStep, SweepStep, LoadCacheStep, RestartStep DEF DeviceStep, Take
<1>3. ASSUME RelayStep PROVE JInv'
  BY <1>3, DeliverStep, EraseStep, CrowdStep DEF RelayStep
<1> QED BY <1>1, <1>2, <1>3, SendFailsStep, SendEndsStep DEF Next

LEMMA AlwaysJInv == Spec => []JInv
<1>1. Init => JInv
  BY InitStep
<1>2. JInv /\ [Next]_vars => JInv'
  BY NextStep, StutterStep
<1> QED BY <1>1, <1>2, PTL DEF Spec

\* The invariant of the whole: types, ids of their own, what each device may hold, that
\* only the sending device holds a message no relay has, and ShowsWhatItKept.
THEOREM Invariance == Spec => []IInv
<1>1. JInv => IInv
  BY JInvIsIInv
<1> QED BY <1>1, AlwaysJInv, PTL

\* After a start and the read of its cache, a member's device shows nothing older than
\* what it kept, for any order in which messageCache's writes ended before.
THEOREM KeptIsShown == Spec => []ShowsWhatItKept
<1>1. IInv => ShowsWhatItKept
  BY DEF IInv
<1> QED BY <1>1, Invariance, PTL

\* When no relay took a message and sendMessage took it back, no device holds it.
THEOREM NothingLeftOfFailure == Spec => []NoPhantom
<1>1. IInv => NoPhantom
  <2> SUFFICES ASSUME IInv, failed, NEW m \in Sent(made) \ served, NEW d \in Device
               PROVE  m # store[d] /\ m \notin cache[d]
    BY DEF NoPhantom
  <2>1. ~HoldsFirst(d)
    BY DEF IInv, OnlySenderHolds
  <2>2. m.ts = 1 /\ m # None
    BY VersionFields DEF Sent, IInv, TypeOK
  <2> QED BY <2>1, <2>2 DEF HoldsFirst
<1> QED BY <1>1, Invariance, PTL

-----------------------------------------------------------------------------
(* What a step may do to a screen and to a cache.                            *)

ScreenForward ==
    \A d \in Device : store[d] # None /\ store'[d] # store[d] =>
          \/ restarts' > restarts
          \/ d \in Author /\ (op'[d] # op[d] \/ sender' # sender)
          \/ store'[d] # None /\ store'[d].ts > store[d].ts

LEMMA MergeScreen ==
  ASSUME JInv, NEW d \in Device, NEW v \in Version, store' = [store EXCEPT ![d] = Merged(store[d], v)]
  PROVE  ScreenForward
<1>1. store \in [Device -> Version \cup {None}]
  BY DEF JInv, Globals
<1>2. ASSUME NEW e \in Device, store[e] # None, store'[e] # store[e]
      PROVE  store'[e] # None /\ store'[e].ts > store[e].ts
  <2>1. e = d /\ store'[e] = Merged(store[d], v)
    BY <1>1, <1>2
  <2> QED BY <2>1, <1>1, <1>2, MergedForward
<1> QED BY <1>2 DEF ScreenForward

LEMMA ScreenStep == JInv /\ Next => ScreenForward
<1> SUFFICES ASSUME JInv, Next PROVE ScreenForward
  OBVIOUS
<1>1. Globals /\ store \in [Device -> Version \cup {None}]
  BY DEF JInv, Globals
<1>2. ASSUME UNCHANGED store PROVE ScreenForward
  BY <1>2 DEF ScreenForward
<1>3. ASSUME NEW d \in Author, op'[d] # op[d] \/ sender' # sender,
             \A e \in Device \ {d} : store'[e] = store[e]
      PROVE  ScreenForward
  BY <1>3 DEF ScreenForward
<1>4. ASSUME SendFails PROVE ScreenForward
  <2>1. sender \in Author /\ sender' # sender /\ store' = [store EXCEPT ![sender] = None]
    BY <1>1, <1>4 DEF SendFails, Globals
  <2> QED BY <2>1, <1>1, <1>3
<1>5. ASSUME NEW d \in Author, AuthorStep(d) PROVE ScreenForward
  <2>1. CASE Send(d)
    <3>1. \A e \in Device : store[e] = None
      BY <2>1 DEF Send, JInv, FitNow, Fit, KnownIn
    <3> QED BY <3>1 DEF ScreenForward
  <2>2. CASE Edit(d) \/ Delete(d) \/ Request(d)
    BY <2>2, <1>2 DEF Edit, Delete, Request, local
  <2>3. CASE CommitEdit(d) \/ CommitDelete(d)
    <3>1. op[d] # None /\ op' = [op EXCEPT ![d] = None] /\ \E x : store' = [store EXCEPT ![d] = x]
      BY <2>3 DEF CommitEdit, CommitDelete
    <3>2. op'[d] # op[d] /\ \A e \in Device \ {d} : store'[e] = store[e]
      BY <3>1, <1>1 DEF Globals
    <3> QED BY <3>2, <1>3
  <2> QED BY <1>5, <2>1, <2>2, <2>3 DEF AuthorStep
<1>6. ASSUME NEW d \in Device, DeviceStep(d) PROVE ScreenForward
  <2>1. ASSUME NEW v \in served, Take(d, v) PROVE ScreenForward
    <3>1. v \in Version /\ store' = [store EXCEPT ![d] = Merged(store[d], v)]
      BY <2>1, <1>1 DEF Take, Receive, Globals
    <3> QED BY <3>1, MergeScreen
  <2>2. ASSUME NEW v \in writes[d], Persist(d, v) PROVE ScreenForward
    BY <2>2, <1>2 DEF Persist
  <2>3. CASE Sweep(d)
    BY <2>3, <1>2 DEF Sweep
  <2>4. CASE LoadCache(d)
    <3>1. CASE cache[d] = {}
      BY <2>4, <3>1, <1>2 DEF LoadCache
    <3>2. CASE cache[d] # {}
      <4>1. PICK e \in Picked(cache[d]) : store' = [store EXCEPT ![d] = Merged(store[d], e)]
        BY <2>4, <3>2 DEF LoadCache
      <4>2. e \in Version
        BY <1>1, <4>1 DEF Picked, Globals
      <4> QED BY <4>1, <4>2, MergeScreen
    <3> QED BY <3>1, <3>2
  <2>5. CASE Restart(d)
    <3>1. restarts' > restarts
      BY <2>5, <1>1 DEF Restart, Globals
    <3> QED BY <3>1 DEF ScreenForward
  <2> QED BY <1>6, <2>1, <2>2, <2>3, <2>4, <2>5 DEF DeviceStep
<1>7. ASSUME RelayStep \/ SendEnds PROVE ScreenForward
  BY <1>7, <1>2 DEF RelayStep, Crowd, Erase, Deliver, SendEnds, local
<1> QED BY <1>4, <1>5, <1>6, <1>7 DEF Next

\* Whatever relays and cache answer, in any order, addMessage and addMessages replace
\* what is shown by newer versions only.
THEOREM ScreenMovesForward == Spec => StoreForward
<1>1. JInv /\ [Next]_vars => [ScreenForward]_vars
  BY ScreenStep
<1>2. [][ScreenForward]_vars => StoreForward
  BY PTL DEF ScreenForward, StoreForward
<1> QED BY <1>1, <1>2, AlwaysJInv, PTL DEF Spec

KeepsNewest ==
    \A d \in Reader : \A e \in cache[d] : \E f \in cache'[d] : f.ts >= e.ts

LEMMA KeepsStep == JInv /\ Next => KeepsNewest
<1> SUFFICES ASSUME JInv, Next PROVE KeepsNewest
  OBVIOUS
<1>1. /\ Globals /\ cache \in [Device -> SUBSET Version] /\ Reader \subseteq Device
      /\ \A d \in Reader : d \notin Author
  BY MessagesAssumption DEF JInv, Globals, Device
<1>2. ASSUME \A d \in Reader : cache'[d] = cache[d] PROVE KeepsNewest
  <2>1. ASSUME NEW d \in Reader, NEW e \in cache[d] PROVE e \in cache'[d] /\ e.ts >= e.ts
    BY <2>1, <1>1, <1>2, VersionFields
  <2> QED BY <2>1 DEF KeepsNewest
<1>3. ASSUME NEW d \in Device, NEW ca, cache' = [cache EXCEPT ![d] = ca],
             d \in Reader => \A e \in cache[d] : \E f \in ca : f.ts >= e.ts
      PROVE  KeepsNewest
  <2>1. ASSUME NEW c \in Reader, NEW e \in cache[c] PROVE \E f \in cache'[c] : f.ts >= e.ts
    <3>1. CASE c = d
      BY <3>1, <2>1, <1>1, <1>3
    <3>2. CASE c # d
      <4>1. e \in cache'[c] /\ e.ts >= e.ts
        BY <3>2, <2>1, <1>1, <1>3, VersionFields
      <4> QED BY <4>1
    <3> QED BY <3>1, <3>2
  <2> QED BY <2>1 DEF KeepsNewest
<1>4. ASSUME NEW d \in Device, NEW v \in Version, NEW ca \in One(cache[d], v) \cup {Bulk(cache[d], v)},
             cache' = [cache EXCEPT ![d] = ca], d \in Reader => v \in made
      PROVE  KeepsNewest
  <2>1. ASSUME d \in Reader PROVE \A e \in cache[d] : \E f \in ca : f.ts >= e.ts
    <3>1. cache[d] \subseteq made
      BY <2>1, <1>1 DEF JInv, FitNow, Fit, Globals
    <3>2. \A e \in cache[d] : e.id = v.id => e.ts = v.ts
      BY <3>1, <2>1, <1>1, <1>4 DEF Globals, Made
    <3>3. cache[d] \in SUBSET Version
      BY <1>1
    <3> QED BY <3>2, <3>3, <1>4, WriteKeeps
  <2> QED BY <2>1, <1>3, <1>4
<1>5. ASSUME NEW d \in Author, AuthorStep(d) PROVE KeepsNewest
  <2>1. \A c \in Reader : cache'[c] = cache[c]
    BY <1>1, <1>5 DEF AuthorStep, Send, Edit, CommitEdit, Delete, Request, CommitDelete, local
  <2> QED BY <2>1, <1>2
<1>6. ASSUME SendFails PROVE KeepsNewest
  <2>1. sender \in Author /\ \A c \in Reader : cache'[c] = cache[c]
    BY <1>1, <1>6 DEF SendFails, Globals
  <2> QED BY <2>1, <1>2
<1>7. ASSUME NEW d \in Device, DeviceStep(d) PROVE KeepsNewest
  <2>1. ASSUME NEW v \in served, Take(d, v) PROVE KeepsNewest
    BY <2>1, <1>2 DEF Take, Receive
  <2>2. ASSUME NEW v \in writes[d], Persist(d, v) PROVE KeepsNewest
    <3>1. PICK ca \in One(cache[d], v) \cup {Bulk(cache[d], v)} : cache' = [cache EXCEPT ![d] = ca]
      BY <2>2 DEF Persist
    <3>2. v \in made /\ v \in Version
      BY <1>1, JInvParts DEF Globals
    <3> QED BY <3>1, <3>2, <1>4
  <2>3. CASE Sweep(d)
    <3>1. CASE d \in Author
      <4>1. \A c \in Reader : cache'[c] = cache[c]
        BY <2>3, <3>1, <1>1 DEF Sweep
      <4> QED BY <4>1, <1>2
    <3>2. CASE d \notin Author
      BY <2>3, <3>2, <1>2 DEF Sweep
    <3> QED BY <3>1, <3>2
  <2>4. CASE LoadCache(d)
    <3>1. CASE cache[d] = {}
      BY <2>4, <3>1, <1>2 DEF LoadCache
    <3>2. CASE cache[d] # {}
      <4>1. PICK e \in Picked(cache[d]) : cache' = [cache EXCEPT ![d] = {e}]
        BY <2>4, <3>2 DEF LoadCache
      <4>2. \A f \in cache[d] : e.ts >= f.ts
        BY <4>1 DEF Picked
      <4> QED BY <4>1, <4>2, <1>3
    <3> QED BY <3>1, <3>2
  <2>5. CASE Restart(d)
    BY <2>5, <1>2 DEF Restart
  <2> QED BY <1>7, <2>1, <2>2, <2>3, <2>4, <2>5 DEF DeviceStep
<1>8. ASSUME RelayStep \/ SendEnds PROVE KeepsNewest
  BY <1>8, <1>2 DEF RelayStep, Crowd, Erase, Deliver, SendEnds, local
<1> QED BY <1>5, <1>6, <1>7, <1>8 DEF Next

\* Reordered cache writes, sweeps and prunes never lose the newest version a member's
\* device has kept.
THEOREM CacheMovesForward == Spec => CacheForward
<1>1. JInv /\ [Next]_vars => [KeepsNewest]_vars
  BY KeepsStep
<1>2. [][KeepsNewest]_vars => CacheForward
  BY PTL DEF KeepsNewest, CacheForward
<1> QED BY <1>1, <1>2, AlwaysJInv, PTL DEF Spec

=============================================================================
