--------------------------- MODULE HubReader_proof ---------------------------
(***************************************************************************)
(* A member's device never goes back behind an epoch it has read, for any   *)
(* number of versions, restarts and overlapping handlers.  One lemma per    *)
(* action shows that it keeps the inductive invariant IInv of HubReader.    *)
(***************************************************************************)
EXTENDS HubReader, TLAPS

LEMMA NobodyType ==
  /\ NoHandler \in Handler /\ NoHandler.phase = "idle" /\ NoHandler.alone = FALSE
  /\ NoLoader \in Loader /\ NoLoader.phase = "off"
  BY DEF NoHandler, Handler, NoLoader, Loader

\* Being disturbed changes nothing for a handler that is not in flight.
LEMMA StaysNobody == [NoHandler EXCEPT !.alone = FALSE] = NoHandler
<1>1. ASSUME NEW r \in Handler, r.alone = FALSE
      PROVE  [r EXCEPT !.alone = FALSE] = r
  BY <1>1 DEF Handler
<1> QED BY <1>1, NobodyType

LEMMA InitIInv == Init => IInv
<1> SUFFICES ASSUME Init PROVE IInv
  OBVIOUS
<1>1. PICK m \in BOOLEAN : history = <<[epoch |-> 1, index |-> 1, member |-> m]>>
  BY DEF Init
<1>2. [epoch |-> 1, index |-> 1, member |-> m] \in Version
  BY DEF Version
<1>3. history \in Seq(Version) /\ Newest = 1 /\ Len(history) = 1
  BY <1>1, <1>2 DEF Newest
<1>4. TypeOK
  <2>1. resolved \in BOOLEAN /\ attempted \in BOOLEAN
    BY DEF Init
  <2>2. handler \in [Handlers -> Handler] /\ loader \in Loader
    BY NobodyType DEF Init
  <2>3. /\ hub = 0 /\ secret = 0 /\ latestTs = 0 /\ pending = 0 /\ mark = 0
        /\ restarts = 0
    BY DEF Init
  <2> QED BY <1>3, <2>1, <2>2, <2>3, ReaderAssumption DEF TypeOK
<1>5. \A h \in Handlers : handler[h] = NoHandler /\ ~InFlight(h)
  BY NobodyType DEF Init, InFlight
<1>6. Placed
  BY <1>3, <1>5 DEF Placed, Init, LoaderBusy, NoLoader
<1>7. Undisturbed
  BY <1>5 DEF Undisturbed
<1> QED BY <1>4, <1>6, <1>7 DEF IInv

\* Every published version has an epoch.
LEMMA EpochType ==
  ASSUME TypeOK, NEW v \in 1..Newest
  PROVE  Epoch(v) \in Nat \ {0} /\ history[v] \in Version
<1>1. history[v] \in Version
  BY DEF TypeOK, Newest
<1> QED BY <1>1 DEF Epoch, Version

\* What a handler in flight knows.
LEMMA FlightType ==
  ASSUME IInv, NEW h \in Handlers, handler[h].phase # "idle"
  PROVE  /\ handler[h] \in Handler
         /\ handler[h].version \in 1..Newest /\ handler[h].current \in 1..Newest
         /\ hub # 0 /\ Epoch(handler[h].version) \in Nat \ {0}
<1>1. TypeOK /\ Placed
  BY DEF IInv
<1>2. /\ handler[h].version \in 1..Newest /\ handler[h].current \in 1..Newest
      /\ hub # 0 /\ handler[h] \in Handler
  BY <1>1 DEF Placed, InFlight, TypeOK
<1> QED BY <1>1, <1>2, EpochType

LEMMA PublishIInv ==
  ASSUME IInv, Publish
  PROVE  IInv'
<1>1. TypeOK /\ Placed /\ Undisturbed
  BY DEF IInv
<1>2. PICK w \in Version : history' = Append(history, w)
  BY ReaderAssumption DEF Publish, Version
<1>3. /\ history' \in Seq(Version) /\ Newest' = Newest + 1 /\ Newest \in Nat
      /\ \A v \in 1..Newest : history'[v] = history[v] /\ Epoch(v)' = Epoch(v)
  BY <1>1, <1>2 DEF TypeOK, Newest, Epoch
<1>4. UNCHANGED <<hub, secret, resolved, attempted, latestTs, pending, handler, loader, mark,
                  restarts>>
  BY DEF Publish, stored
<1>5. TypeOK'
  BY <1>1, <1>3, <1>4 DEF TypeOK, Newest
<1>6. Placed'
  BY <1>1, <1>3, <1>4, SMTT(30) DEF Placed, InFlight, LoaderBusy, NoHandler, TypeOK, Loader
<1>7. Undisturbed'
  <2>1. \A h \in Handlers : InFlight(h) => Epoch(handler[h].version)' = Epoch(handler[h].version)
    BY <1>1, <1>3, <1>4 DEF Placed, Epoch
  <2> QED BY <1>1, <1>4, <2>1 DEF Undisturbed, InFlight, LoaderBusy
<1> QED BY <1>5, <1>6, <1>7 DEF IInv

\* Steps that leave the history, the mark, the handlers and the loader alone.
LEMMA TimerIInv ==
  ASSUME IInv, UNCHANGED <<history, hub, secret, handler, loader, mark>>, TypeOK',
         pending' # 0 => hub # 0
  PROVE  IInv'
<1>1. Placed /\ Undisturbed
  BY DEF IInv
<1>2. Placed'
  BY <1>1 DEF Placed, InFlight, LoaderBusy, NoHandler, Newest
<1>3. Undisturbed'
  BY <1>1 DEF Undisturbed, InFlight, LoaderBusy, Epoch
<1> QED BY <1>2, <1>3 DEF IInv

LEMMA ReceiveIInv ==
  ASSUME IInv, NEW v \in 1..Newest, Receive(v)
  PROVE  IInv'
<1>1. TypeOK /\ Placed
  BY DEF IInv
<1>2. TypeOK'
  BY <1>1 DEF TypeOK, Receive, stored, Larger, Newest
<1> QED BY <1>1, <1>2, TimerIInv DEF Receive, stored, Placed

LEMMA ResubscribeIInv ==
  ASSUME IInv, Resubscribe
  PROVE  IInv'
<1>1. TypeOK'
  BY DEF IInv, TypeOK, Resubscribe, stored
<1> QED BY <1>1, TimerIInv DEF Resubscribe, stored

LEMMA FireIInv ==
  ASSUME IInv, NEW h \in Handlers, Fire(h)
  PROVE  IInv'
<1> USE DEF Fire, stored
<1>1. TypeOK /\ Placed /\ Undisturbed
  BY DEF IInv
<1>2. hub # 0 /\ hub \in 1..Newest /\ pending \in 1..Newest /\ secret \in Nat /\ Newest \in Nat
  BY <1>1 DEF TypeOK, Placed, Newest
<1>3. /\ handler' \in [Handlers -> Handler]
      /\ handler'[h].phase = "fired" /\ handler'[h].version = pending /\ handler'[h].current = hub
      /\ handler'[h].alone => ~LoaderBusy /\ \A f \in Handlers : ~InFlight(f)
      /\ \A g \in Handlers : g # h => /\ handler'[g].phase = handler[g].phase
                                      /\ handler'[g].version = handler[g].version
                                      /\ handler'[g].current = handler[g].current
                                      /\ handler'[g].alone = FALSE
                                      /\ ~InFlight(g) => handler'[g] = handler[g]
  <2>1. \A g \in Handlers : handler[g] \in Handler /\ (~InFlight(g) => handler[g] = NoHandler)
    BY <1>1 DEF TypeOK, Placed
  <2>2. \A f \in Handlers : InFlight(f) \in BOOLEAN
    BY DEF InFlight
  <2>3. (~LoaderBusy /\ \A f \in Handlers : ~InFlight(f)) \in BOOLEAN
    BY DEF LoaderBusy
  <2>4. \A g \in Handlers : [handler[g] EXCEPT !.alone = FALSE] \in Handler
    BY <2>1 DEF Handler
  <2>5. [phase |-> "fired", version |-> pending, current |-> hub, secret |-> secret,
         alone |-> ~LoaderBusy /\ \A f \in Handlers : ~InFlight(f)] \in Handler
    BY <1>2, <2>3 DEF Handler, TypeOK, Newest
  <2>6. handler' \in [Handlers -> Handler]
    BY <2>4, <2>5
  <2>7. [NoHandler EXCEPT !.alone = FALSE] = NoHandler
    BY StaysNobody
  <2>8. \A g \in Handlers : g # h => handler'[g] = [handler[g] EXCEPT !.alone = FALSE]
    OBVIOUS
  <2>9. \A g \in Handlers : g # h /\ ~InFlight(g) => handler'[g] = handler[g]
    BY <2>1, <2>7, <2>8
  <2>10. \A g \in Handlers : g # h => /\ handler'[g].phase = handler[g].phase
                                      /\ handler'[g].version = handler[g].version
                                      /\ handler'[g].current = handler[g].current
                                      /\ handler'[g].alone = FALSE
    BY <2>1, <2>8 DEF Handler
  <2> QED BY <2>6, <2>9, <2>10
<1>4. TypeOK'
  BY <1>1, <1>2, <1>3 DEF TypeOK
<1>5. Placed'
  <2>1. /\ Newest' = Newest /\ hub' = hub /\ pending' = 0 /\ loader' = loader
        /\ \A g \in Handlers : g # h => (InFlight(g)' <=> InFlight(g))
        /\ InFlight(h)'
    BY <1>3 DEF Newest, InFlight
  <2>2. \A g \in Handlers :
          IF InFlight(g)'
          THEN handler'[g].version \in 1..Newest /\ handler'[g].current \in 1..Newest /\ hub # 0
          ELSE handler'[g] = NoHandler
    BY <1>1, <1>2, <1>3, <2>1 DEF Placed
  <2> QED BY <1>1, <2>1, <2>2 DEF Placed, LoaderBusy
<1>6. Undisturbed'
  BY <1>1, <1>3 DEF Undisturbed, InFlight, LoaderBusy
<1> QED BY <1>4, <1>5, <1>6 DEF IInv

\* A handler that ends leaves the others what they were.
LEMMA EndKeeps ==
  ASSUME IInv, NEW h \in Handlers, End(h), UNCHANGED <<history, loader, mark, pending>>,
         TypeOK', handler[h].phase # "idle", hub' # 0
  PROVE  IInv'
<1>1. Placed /\ Undisturbed /\ TypeOK
  BY DEF IInv
<1>2. /\ handler'[h] = NoHandler
      /\ \A g \in Handlers : g # h => handler'[g] = handler[g]
  BY <1>1 DEF End, TypeOK
<1>3. Placed'
  BY <1>1, <1>2 DEF Placed, InFlight, LoaderBusy, NoHandler, Newest
<1>4. Undisturbed'
  BY <1>1, <1>2 DEF Undisturbed, InFlight, LoaderBusy, NoHandler, Epoch
<1> QED BY <1>3, <1>4 DEF IInv

LEMMA EndType ==
  ASSUME IInv, NEW h \in Handlers, End(h)
  PROVE  handler' \in [Handlers -> Handler]
<1>1. NoHandler \in Handler
  BY DEF NoHandler, Handler
<1> QED BY <1>1 DEF End, IInv, TypeOK

LEMMA RefuseIInv ==
  ASSUME IInv, NEW h \in Handlers, Refuse(h)
  PROVE  IInv'
<1> USE DEF Refuse, stored
<1>1. TypeOK'
  BY EndType DEF IInv, TypeOK
<1> QED BY <1>1, EndKeeps, FlightType

LEMMA BeginIInv ==
  ASSUME IInv, NEW h \in Handlers, Begin(h)
  PROVE  IInv'
<1> USE DEF Begin, stored
<1>1. TypeOK /\ Placed /\ Undisturbed
  BY DEF IInv
<1>2. /\ handler' \in [Handlers -> Handler]
      /\ handler'[h].phase \in {"loading", "loaded"}
      /\ handler'[h].version = handler[h].version /\ handler'[h].current = handler[h].current
      /\ handler'[h].alone = handler[h].alone
      /\ \A g \in Handlers : g # h => handler'[g] = handler[g]
  BY <1>1 DEF TypeOK, Handler
<1>3. Epoch(handler[h].version) >= mark
  BY <1>1, FlightType DEF Rollback, TypeOK
<1>4. TypeOK'
  BY <1>1, <1>2 DEF TypeOK
<1>5. Placed'
  BY <1>1, <1>2 DEF Placed, InFlight, LoaderBusy, NoHandler, Newest
<1>6. Undisturbed'
  BY <1>1, <1>2, <1>3 DEF Undisturbed, InFlight, LoaderBusy, Epoch
<1> QED BY <1>4, <1>5, <1>6 DEF IInv

LEMMA LoadIInv ==
  ASSUME IInv, NEW h \in Handlers, Load(h)
  PROVE  IInv'
<1> DEFINE v == handler[h].version
<1>1. TypeOK /\ Placed /\ Undisturbed
  BY DEF IInv
<1>2. /\ handler[h].phase = "loading"
      /\ secret' = Epoch(v) /\ mark' = Larger(mark, Epoch(v))
      /\ handler' = [handler EXCEPT ![h].phase = "loaded", ![h].secret = Epoch(v)]
      /\ UNCHANGED <<history, hub, resolved, attempted, latestTs, pending, loader, restarts>>
  BY DEF Load, Recorded
<1>3. Epoch(v) \in Nat \ {0} /\ mark \in Nat /\ mark' \in Nat /\ Epoch(v) <= mark'
  BY <1>1, <1>2, FlightType DEF TypeOK, Larger
<1>4. /\ handler' \in [Handlers -> Handler]
      /\ handler'[h].phase = "loaded"
      /\ handler'[h].version = handler[h].version /\ handler'[h].current = handler[h].current
      /\ handler'[h].alone = handler[h].alone /\ handler'[h].secret = secret'
      /\ \A g \in Handlers : g # h => handler'[g] = handler[g]
  BY <1>1, <1>2, <1>3 DEF TypeOK, Handler
<1>5. TypeOK'
  BY <1>1, <1>2, <1>3, <1>4 DEF TypeOK
<1>6. Placed'
  BY <1>1, <1>2, <1>4 DEF Placed, InFlight, LoaderBusy, NoHandler, Newest
<1>7. Undisturbed'
  <2>1. ASSUME NEW g \in Handlers, InFlight(g)', handler'[g].alone
        PROVE  /\ ~LoaderBusy' /\ \A f \in Handlers : InFlight(f)' => f = g
               /\ Epoch(handler[g].version)' >= mark'
              /\ handler'[g].secret = secret'
    <3>1. InFlight(h) /\ InFlight(g) /\ handler[g].alone
      BY <1>2, <1>4, <2>1 DEF InFlight
    <3>2. g = h
      BY <1>1, <3>1 DEF Undisturbed
    <3>3. Epoch(v) >= mark
      BY <1>1, <1>2, <3>1, <3>2 DEF Undisturbed
    <3>4. mark' = Epoch(v)
      BY <1>2, <1>3, <3>3 DEF Larger
    <3>5. ~LoaderBusy' /\ \A f \in Handlers : InFlight(f)' => f = g
      BY <1>1, <1>2, <1>4, <3>1, <3>2 DEF Undisturbed, InFlight, LoaderBusy
    <3> QED BY <1>2, <1>3, <1>4, <3>2, <3>4, <3>5 DEF Epoch
  <2> QED BY <2>1 DEF Undisturbed
<1> QED BY <1>5, <1>6, <1>7 DEF IInv

LEMMA SecretCleared ==
  ASSUME IInv, Clear \/ Keep
  PROVE  secret' \in 0..mark /\ attempted' \in BOOLEAN
<1>1. secret \in 0..mark /\ attempted \in BOOLEAN /\ mark \in Nat
  BY DEF IInv, TypeOK
<1>2. CASE Clear
  <2>1. attempted' \in BOOLEAN
    BY <1>2 DEF Clear
  <2>2. secret' = 0
    BY <1>2 DEF Clear
  <2> QED BY <1>1, <2>1, <2>2
<1>3. CASE Keep
  BY <1>1, <1>3 DEF Keep
<1> QED BY <1>2, <1>3

LEMMA LoadFailsIInv ==
  ASSUME IInv, NEW h \in Handlers, LoadFails(h)
  PROVE  IInv'
<1> USE DEF LoadFails
<1>1. TypeOK /\ Placed /\ Undisturbed
  BY DEF IInv
<1>2. /\ handler[h].phase = "loading" /\ handler[h].version \in 1..Newest /\ hub # 0
      /\ secret' \in 0..mark /\ attempted' \in BOOLEAN
      /\ UNCHANGED <<history, resolved, latestTs, pending, loader, mark, restarts>>
  BY FlightType, SecretCleared
<1>3. CASE End(h) /\ hub' = handler[h].version
  <2>1. TypeOK'
    BY <1>1, <1>2, <1>3, EndType DEF TypeOK, Newest
  <2> QED BY <1>2, <1>3, <2>1, EndKeeps
<1>4. CASE /\ handler' = [handler EXCEPT ![h].phase = "loaded"]
           /\ hub' = hub /\ secret' = secret
  <2>1. /\ handler' \in [Handlers -> Handler]
        /\ handler'[h].phase = "loaded"
        /\ handler'[h].version = handler[h].version /\ handler'[h].current = handler[h].current
        /\ handler'[h].alone = handler[h].alone /\ handler'[h].secret = handler[h].secret
        /\ \A g \in Handlers : g # h => handler'[g] = handler[g]
    BY <1>1, <1>4 DEF TypeOK, Handler
  <2>2. TypeOK'
    BY <1>1, <1>2, <1>4, <2>1 DEF TypeOK
  <2>3. Placed'
    BY <1>1, <1>2, <1>4, <2>1 DEF Placed, InFlight, LoaderBusy, NoHandler, Newest
  <2>4. Undisturbed'
    BY <1>1, <1>2, <1>4, <2>1 DEF Undisturbed, InFlight, LoaderBusy, Epoch
  <2> QED BY <2>2, <2>3, <2>4 DEF IInv
<1> QED BY <1>3, <1>4 DEF Keep

LEMMA InstallIInv ==
  ASSUME IInv, NEW h \in Handlers, Install(h)
  PROVE  IInv'
<1>1. /\ handler[h].phase = "loaded" /\ End(h)
      /\ secret' \in 0..mark /\ attempted' \in BOOLEAN
      /\ hub' \in {hub, handler[h].version}
      /\ UNCHANGED <<history, resolved, latestTs, pending, loader, mark, restarts>>
  BY SecretCleared DEF Install
<1>2. handler[h].version \in 1..Newest /\ hub # 0
  BY <1>1, FlightType
<1>3. TypeOK'
  BY <1>1, <1>2, EndType DEF IInv, TypeOK, Newest
<1> QED BY <1>1, <1>2, <1>3, EndKeeps

\* Steps of the loader that leave the mark and the handlers alone.
LEMMA LoaderKeeps ==
  ASSUME IInv, UNCHANGED <<history, secret, handler, mark, pending>>, TypeOK',
         hub # 0 => hub' # 0,
         LoaderBusy' => LoaderBusy,
         loader'.known <= Newest, loader'.doing <= Newest, loader'.queued => loader'.known # 0,
         LoaderBusy' => loader'.doing # 0 /\ loader'.known # 0 /\ hub' # 0
  PROVE  IInv'
<1>1. Placed /\ Undisturbed
  BY DEF IInv
<1>2. Placed'
  BY <1>1 DEF Placed, InFlight, LoaderBusy, NoHandler, Newest
<1>3. Undisturbed'
  BY <1>1 DEF Undisturbed, InFlight, Epoch
<1> QED BY <1>2, <1>3 DEF IInv

LEMMA LoaderStartIInv ==
  ASSUME IInv, LoaderStart
  PROVE  IInv'
<1>1. /\ loader' = [phase |-> "idle", known |-> 0, doing |-> 0, done |-> 0,
                  queued |-> FALSE]
      /\ UNCHANGED <<history, hub, secret, handler, mark, pending>>
  BY DEF LoaderStart, NoLoader, stored
<1>2. TypeOK'
  <2>1. loader' \in Loader /\ attempted' = TRUE /\ TypeOK
    BY NobodyType DEF LoaderStart, IInv, Loader
  <2> QED BY <1>1, <2>1 DEF TypeOK, LoaderStart, stored
<1>3. ~LoaderBusy' /\ Newest \in Nat
  BY <1>1 DEF LoaderBusy, Newest, IInv, TypeOK
<1> QED BY <1>1, <1>2, <1>3, LoaderKeeps

LEMMA IngestIInv ==
  ASSUME IInv, NEW v \in 1..Newest, Ingest(v)
  PROVE  IInv'
<1>1. TypeOK /\ Placed
  BY DEF IInv
<1> DEFINE known == Larger(loader.known, v)
<1>2. loader \in Loader /\ loader.known \in Nat /\ v \in Nat /\ v <= Newest /\ v # 0
  BY <1>1 DEF TypeOK, Loader, Newest
<1>3. known \in Nat /\ known <= Newest /\ known # 0
  BY <1>1, <1>2 DEF Larger, Placed, TypeOK, Newest
<1> HIDE DEF known
<1>4. /\ loader' \in Loader /\ loader'.phase = loader.phase /\ loader'.known = known
      /\ loader'.doing = loader.doing
      /\ UNCHANGED <<history, hub, secret, resolved, attempted, latestTs, pending, handler, mark,
                     restarts>>
  <2> DEFINE queued == loader.queued \/ (~LoaderBusy /\ known # loader.done)
  <2>1. /\ loader' = [loader EXCEPT !.known = known, !.queued = queued]
        /\ UNCHANGED <<history, hub, secret, resolved, attempted, latestTs, pending, handler, mark,
                       restarts>>
    BY DEF Ingest, stored, known
  <2>2. queued \in BOOLEAN
    BY <1>2 DEF LoaderBusy, Loader
  <2> HIDE DEF queued
  <2> QED BY <1>2, <1>3, <2>1, <2>2 DEF Loader
<1>5. TypeOK'
  BY <1>1, <1>4 DEF TypeOK
<1>6. LoaderBusy' <=> LoaderBusy
  BY <1>4 DEF LoaderBusy
<1> QED BY <1>1, <1>3, <1>4, <1>5, <1>6, LoaderKeeps DEF Placed

LEMMA LoaderNats == IInv => loader.known \in Nat /\ loader.doing \in Nat
  BY DEF IInv, TypeOK, Loader

\* The loader between two versions.
LEMMA ThroughType ==
  ASSUME IInv, NEW v \in Nat, NEW confirmed \in BOOLEAN
  PROVE  /\ Through(v, confirmed) \in Loader
         /\ Through(v, confirmed).phase = "idle"
         /\ Through(v, confirmed).known = loader.known
         /\ Through(v, confirmed).doing = 0
  BY DEF IInv, TypeOK, Through, Loader

LEMMA ThroughIInv ==
  ASSUME IInv, NEW v \in Nat, NEW confirmed \in BOOLEAN, loader' = Through(v, confirmed),
         UNCHANGED <<history, secret, handler, mark, pending>>, TypeOK',
         loader.known # 0, hub # 0 => hub' # 0
  PROVE  IInv'
<1>1. Placed /\ loader'.phase = "idle" /\ loader'.known = loader.known /\ loader'.doing = 0
  BY ThroughType DEF IInv
<1>2. Newest \in Nat
  BY DEF IInv, TypeOK, Newest
<1>3. ~LoaderBusy'
  BY <1>1 DEF LoaderBusy
<1> QED BY <1>1, <1>2, <1>3, LoaderKeeps DEF Placed

LEMMA ProcessIInv ==
  ASSUME IInv, Process
  PROVE  IInv'
<1>1. TypeOK /\ Placed /\ Undisturbed
  BY DEF IInv
<1>2. /\ loader.known \in 1..Newest /\ loader.phase = "idle"
      /\ latestTs' = IF hub = 0 THEN hub' ELSE latestTs
      /\ UNCHANGED <<history, secret, resolved, attempted, pending, mark, restarts>>
  BY <1>1 DEF Process, Placed, TypeOK, Loader, Newest
<1>3. CASE Rollback(loader.known)
  <2>1. loader' = Through(loader.known, TRUE) /\ UNCHANGED <<hub, handler>>
    BY <1>3 DEF Process
  <2>2. loader' \in Loader
    BY <2>1, LoaderNats, ThroughType
  <2>3. TypeOK'
    BY <1>1, <1>2, <2>1, <2>2 DEF TypeOK
  <2>4. loader.known # 0
    BY <1>2
  <2> QED BY <1>2, <2>1, <2>3, <2>4, LoaderNats, ThroughIInv
<1>4. CASE ~Rollback(loader.known)
  <2>1. /\ hub' = loader.known
        /\ loader' = [loader EXCEPT !.phase = "loading", !.doing = loader.known, !.queued = FALSE]
        /\ handler' = [h \in Handlers |-> [handler[h] EXCEPT !.alone = FALSE]]
    BY <1>4 DEF Process
  <2>2. /\ loader' \in Loader /\ loader'.known = loader.known /\ loader'.doing = loader.known
        /\ loader'.queued = FALSE
    BY <1>1, <2>1 DEF TypeOK, Loader
  <2>3. /\ handler' \in [Handlers -> Handler]
        /\ \A h \in Handlers : /\ handler'[h].phase = handler[h].phase
                               /\ handler'[h].version = handler[h].version
                               /\ handler'[h].current = handler[h].current
                               /\ handler'[h].alone = FALSE
    BY <1>1, <2>1 DEF TypeOK, Handler
  <2>4. \A h \in Handlers : ~InFlight(h) => handler'[h] = NoHandler
    BY <1>1, <2>1, StaysNobody DEF Placed
  <2>5. TypeOK'
    BY <1>1, <1>2, <2>1, <2>2, <2>3 DEF TypeOK, Newest
  <2>6. Placed'
    BY <1>1, <1>2, <2>1, <2>2, <2>3, <2>4 DEF Placed, InFlight, LoaderBusy, Newest
  <2>7. Undisturbed'
    BY <2>3 DEF Undisturbed
  <2> QED BY <2>5, <2>6, <2>7 DEF IInv
<1> QED BY <1>3, <1>4

LEMMA LoaderLoadIInv ==
  ASSUME IInv, LoaderLoad
  PROVE  IInv'
<1>1. TypeOK /\ Placed /\ Undisturbed
  BY DEF IInv
<1>2. /\ loader.phase = "loading" /\ LoaderBusy
      /\ loader' = [loader EXCEPT !.phase = "merging"]
      /\ secret' = Epoch(loader.doing) /\ mark' = Larger(mark, Epoch(loader.doing))
      /\ UNCHANGED <<history, hub, resolved, attempted, latestTs, pending, handler, restarts>>
  BY DEF LoaderLoad, LoaderBusy, Recorded
<1>3. loader.doing \in 1..Newest
  BY <1>1, <1>2 DEF Placed, TypeOK, Loader, Newest
<1>4. Epoch(loader.doing) \in Nat /\ mark' \in Nat /\ Epoch(loader.doing) <= mark'
  BY <1>1, <1>2, <1>3, EpochType DEF Larger, TypeOK
<1>5. /\ loader' \in Loader /\ loader'.phase = "merging" /\ loader'.known = loader.known
      /\ loader'.doing = loader.doing /\ loader'.queued = loader.queued
  BY <1>1, <1>2 DEF TypeOK, Loader
<1>6. TypeOK'
  BY <1>1, <1>2, <1>4, <1>5 DEF TypeOK
<1>7. Placed'
  BY <1>1, <1>2, <1>5 DEF Placed, InFlight, LoaderBusy, NoHandler, Newest
<1>8. Undisturbed'
  BY <1>1, <1>2 DEF Undisturbed, InFlight
<1> QED BY <1>6, <1>7, <1>8 DEF IInv

LEMMA LoaderMissIInv ==
  ASSUME IInv, LoaderMiss
  PROVE  IInv'
<1>1. /\ loader' = Through(loader.doing, mark # 0) /\ (mark # 0) \in BOOLEAN /\ LoaderBusy
      /\ UNCHANGED <<history, hub, secret, attempted, latestTs, pending, handler, mark, restarts>>
      /\ resolved' = TRUE
  BY DEF LoaderMiss, LoaderBusy
<1>2. loader' \in Loader /\ loader.known # 0
  BY <1>1, LoaderNats, ThroughType DEF IInv, Placed
<1>3. TypeOK'
  BY <1>1, <1>2 DEF IInv, TypeOK
<1> QED BY <1>1, <1>2, <1>3, LoaderNats, ThroughIInv

LEMMA MergeIInv ==
  ASSUME IInv, Merge
  PROVE  IInv'
<1>1. /\ loader' = Through(loader.doing, TRUE) /\ LoaderBusy /\ hub' \in {hub, loader.doing}
      /\ UNCHANGED <<history, secret, attempted, latestTs, pending, handler, mark, restarts>>
      /\ resolved' = TRUE
  BY DEF Merge, LoaderBusy
<1>2. loader' \in Loader /\ loader.known # 0 /\ loader.doing \in 1..Newest
  <2>1. loader.known # 0 /\ loader.doing # 0 /\ loader.doing <= Newest /\ loader \in Loader
    BY <1>1 DEF IInv, Placed, TypeOK
  <2>2. loader.doing \in Nat /\ Newest \in Nat
    BY <2>1 DEF Loader, IInv, TypeOK, Newest
  <2>3. loader' \in Loader
    BY <1>1, LoaderNats, ThroughType
  <2> QED BY <2>1, <2>2, <2>3
<1>3. TypeOK' /\ (hub # 0 => hub' # 0)
  <2>1. TypeOK /\ hub' \in 0..Len(history)
    BY <1>1, <1>2 DEF IInv, TypeOK, Newest
  <2>2. resolved' \in BOOLEAN
    BY <1>1
  <2>3. /\ loader' \in Loader
        /\ UNCHANGED <<history, secret, attempted, latestTs, pending, handler, mark, restarts>>
    BY <1>1, <1>2
  <2>4. TypeOK'
    BY <2>1, <2>2, <2>3 DEF TypeOK
  <2> QED BY <1>1, <1>2, <2>4
<1> QED BY <1>1, <1>2, <1>3, LoaderNats, ThroughIInv

LEMMA LoaderEndIInv ==
  ASSUME IInv, LoaderEnd
  PROVE  IInv'
<1>1. /\ loader' = [phase |-> "off", known |-> 0, doing |-> 0, done |-> 0,
                  queued |-> FALSE]
      /\ UNCHANGED <<history, hub, secret, resolved, attempted, latestTs, handler, mark, pending,
                     restarts>>
  BY DEF LoaderEnd, NoLoader, stored
<1>2. TypeOK'
  BY <1>1 DEF IInv, TypeOK, Loader
<1>3. ~LoaderBusy' /\ Newest \in Nat
  BY <1>1 DEF LoaderBusy, Newest, IInv, TypeOK
<1> QED BY <1>1, <1>2, <1>3, LoaderKeeps

LEMMA RetryIInv ==
  ASSUME IInv, RetryHub
  PROVE  IInv'
<1>1. TypeOK' /\ UNCHANGED <<history, stored, pending, handler, loader, mark>>
  BY DEF RetryHub, IInv, TypeOK, stored
<1> QED BY <1>1, TimerIInv DEF stored, IInv, Placed

LEMMA RestartIInv ==
  ASSUME IInv, Restart
  PROVE  IInv'
<1>1. /\ handler' = [h \in Handlers |-> NoHandler] /\ NoHandler \in Handler
      /\ loader' = [phase |-> "off", known |-> 0, doing |-> 0, done |-> 0,
                  queued |-> FALSE]
      /\ loader' \in Loader
  BY DEF Restart, NoHandler, Handler, NoLoader, Loader
<1>2. TypeOK'
  <2>1. /\ TypeOK /\ Len(history) \in Nat /\ restarts' \in 0..MaxRestarts
        /\ handler' \in [Handlers -> Handler]
    BY <1>1, ReaderAssumption DEF IInv, TypeOK, Restart
  <2>2. resolved' \in BOOLEAN /\ attempted' \in BOOLEAN
    BY DEF Restart
  <2>3. /\ hub' = 0 /\ secret' = 0 /\ latestTs' = 0 /\ pending' = 0
        /\ UNCHANGED <<history, mark>>
    BY DEF Restart
  <2> QED BY <1>1, <2>1, <2>2, <2>3 DEF TypeOK
<1>3. Newest' \in Nat
  BY <1>2 DEF TypeOK, Newest
<1>4. Placed'
  BY <1>1, <1>3 DEF Placed, Restart, InFlight, LoaderBusy, NoHandler
<1>5. Undisturbed'
  BY <1>1 DEF Undisturbed, InFlight, NoHandler
<1> QED BY <1>2, <1>4, <1>5 DEF IInv

LEMMA NextIInv == IInv /\ [Next]_vars => IInv'
<1> SUFFICES ASSUME IInv, [Next]_vars PROVE IInv'
  OBVIOUS
<1>1. CASE UNCHANGED vars
  <2>1. TypeOK'
    BY <1>1 DEF vars, stored, IInv, TypeOK
  <2> QED BY <1>1, <2>1, TimerIInv DEF vars, stored, IInv, Placed
<1>2. CASE Publish \/ Resubscribe \/ RetryHub \/ Restart
  BY <1>2, PublishIInv, ResubscribeIInv, RetryIInv, RestartIInv
<1>3. ASSUME NEW v \in 1..Newest, Receive(v) \/ Ingest(v) PROVE IInv'
  BY <1>3, ReceiveIInv, IngestIInv
<1>4. ASSUME NEW h \in Handlers, Fire(h) \/ Handle(h) PROVE IInv'
  BY <1>4, FireIInv, RefuseIInv, BeginIInv, LoadIInv, LoadFailsIInv, InstallIInv DEF Handle
<1>5. CASE LoaderStep
  BY <1>5, LoaderStartIInv, ProcessIInv, LoaderLoadIInv, LoaderMissIInv, MergeIInv, LoaderEndIInv
     DEF LoaderStep
<1> QED BY <1>1, <1>2, <1>3, <1>4, <1>5 DEF Next

-----------------------------------------------------------------------------
\* Handlers and loader of a member's device keep to the inductive invariant,
\* however relays replay and reorder versions and whenever the device restarts.
THEOREM ReaderInvariant == Spec => []IInv
<1> QED BY InitIInv, NextIInv, PTL DEF Spec

\* The pass of a handler ends with a failed load or with its installation: a handler
\* that is given up as a rollback has not loaded anything, and a restart ends them all.
LEMMA EndedBy ==
  ASSUME IInv, Next, NEW h \in Handlers, Ends(h)
  PROVE  LoadFails(h) \/ Install(h)
<1>1. /\ handler[h] \in Handler /\ handler[h].phase \in {"loading", "loaded"}
      /\ handler'[h].phase = "idle" /\ restarts' = restarts /\ restarts \in Nat
  BY ReaderAssumption DEF IInv, TypeOK, Ends, NoHandler
<1>2. CASE Restart
  BY <1>1, <1>2 DEF Restart
<1>3. CASE \/ Publish \/ Resubscribe \/ RetryHub \/ LoaderStart \/ LoaderLoad \/ LoaderMiss
           \/ LoaderEnd \/ Merge
  BY <1>1, <1>3 DEF Publish, Resubscribe, RetryHub, LoaderStart, LoaderLoad, LoaderMiss, LoaderEnd,
                    Merge
<1>4. ASSUME NEW v \in 1..Newest, Receive(v) \/ Ingest(v) PROVE FALSE
  BY <1>1, <1>4 DEF Receive, Ingest
<1>5. CASE Process
  <2>1. \/ handler' = handler
        \/ handler' = [f \in Handlers |-> [handler[f] EXCEPT !.alone = FALSE]]
    BY <1>5 DEF Process
  <2> QED BY <1>1, <2>1 DEF Handler
<1>6. ASSUME NEW g \in Handlers, Fire(g) PROVE FALSE
  <2>1. ~InFlight(g) /\ \A f \in Handlers : f # g => handler'[f].phase = handler[f].phase
    <3>1. ASSUME NEW f \in Handlers, f # g PROVE handler'[f].phase = handler[f].phase
      <4>1. handler'[f] = [handler[f] EXCEPT !.alone = FALSE] /\ handler[f] \in Handler
        BY <1>6, <3>1 DEF Fire, IInv, TypeOK
      <4> QED BY <4>1 DEF Handler
    <3> QED BY <1>6, <3>1 DEF Fire
  <2> QED BY <1>1, <2>1 DEF InFlight
<1>7. ASSUME NEW g \in Handlers, Handle(g) PROVE LoadFails(h) \/ Install(h)
  <2>1. handler \in [Handlers -> Handler]
    BY DEF IInv, TypeOK
  <2>2. CASE Refuse(g) \/ Begin(g) \/ Load(g)
    BY <1>1, <2>1, <2>2 DEF Refuse, Begin, Load, End, Handler
  <2>3. CASE LoadFails(g)
    BY <1>1, <2>1, <2>3 DEF LoadFails, End, Handler
  <2>4. CASE Install(g)
    BY <1>1, <2>1, <2>4 DEF Install, End, Handler
  <2> QED BY <1>7, <2>2, <2>3, <2>4 DEF Handle
<1> QED BY <1>2, <1>3, <1>4, <1>5, <1>6, <1>7 DEF Next, LoaderStep

\* The epoch mark (epochGuard.ts) protects a device that the handlers of the
\* subscription or the loader bring up: no undisturbed pass over an event takes it
\* back behind an epoch it has decrypted, in this session or after a restart.
THEOREM NeverBack == Spec => NoRollback
<1> DEFINE Step == /\ \A h \in Handlers : handler[h].alone /\ Ends(h) /\ hub' # hub
                                             => Epoch(hub') >= mark
                   /\ hub = 0 /\ hub' # 0 => Epoch(hub') >= mark
<1>1. ASSUME IInv, [Next]_vars PROVE [Step]_vars
  <2>1. TypeOK /\ Placed /\ Undisturbed
    BY <1>1 DEF IInv
  <2>2. SUFFICES ASSUME Next PROVE Step
    BY <1>1
  <2>3. ASSUME NEW h \in Handlers, handler[h].alone, Ends(h), hub' # hub
        PROVE  Epoch(hub') >= mark
    <3>1. InFlight(h) /\ handler[h].phase # "fired"
      BY <2>3 DEF InFlight, Ends
    <3>2. Epoch(handler[h].version) >= mark
      BY <2>1, <2>3, <3>1 DEF Undisturbed
    <3>3. hub' = handler[h].version
      BY <2>2, <2>3, EndedBy, <1>1 DEF LoadFails, Install
    <3> QED BY <3>2, <3>3
  <2>4. ASSUME hub = 0, hub' # 0
        PROVE  Epoch(hub') >= mark
    <3>1. /\ \A h \in Handlers : handler[h].phase = "idle"
          /\ ~LoaderBusy
      BY <2>1, <2>4 DEF Placed, InFlight
    <3>2. CASE Process
      <4>1. hub' = loader.known /\ ~Rollback(loader.known) /\ loader.known \in 1..Newest
        <5>1. loader.queued /\ hub' = loader.known /\ ~Rollback(loader.known)
          BY <2>4, <3>2 DEF Process
        <5>2. loader.known \in Nat /\ Newest \in Nat
          BY <2>1 DEF TypeOK, Loader, Newest
        <5> QED BY <2>1, <5>1, <5>2 DEF Placed
      <4>2. Epoch(loader.known) \in Nat /\ mark \in Nat
        BY <2>1, <4>1, EpochType DEF TypeOK
      <4> QED BY <4>1, <4>2 DEF Rollback
    <3>3. CASE Publish \/ Resubscribe \/ RetryHub \/ Restart
      BY <2>4, <3>3 DEF Publish, Resubscribe, RetryHub, Restart, stored
    <3>4. ASSUME NEW v \in 1..Newest, Receive(v) \/ Ingest(v) PROVE FALSE
      BY <2>4, <3>4 DEF Receive, Ingest, stored
    <3>5. ASSUME NEW g \in Handlers, Fire(g) \/ Handle(g) PROVE FALSE
      BY <2>4, <3>1, <3>5 DEF Fire, Handle, Refuse, Begin, Load, LoadFails, Install, stored
    <3>6. CASE LoaderStart \/ LoaderLoad \/ LoaderMiss \/ LoaderEnd \/ Merge
      BY <2>4, <3>1, <3>6 DEF LoaderStart, LoaderLoad, LoaderMiss, LoaderEnd, Merge, LoaderBusy, stored
    <3> QED BY <2>2, <3>2, <3>3, <3>4, <3>5, <3>6 DEF Next, LoaderStep
  <2> QED BY <2>3, <2>4
<1> QED BY <1>1, ReaderInvariant, PTL DEF Spec, NoRollback

\* A handler that ran undisturbed fails closed: the secret that the store is left
\* with opens the version that it installed, or there is none, whether the load
\* failed, the content did not open or everything went well.
THEOREM SecretOpensHub == Spec => FailsClosed
<1> DEFINE Step == \A h \in Handlers :
                      Ends(h) /\ handler[h].alone /\ hub' = handler[h].version
                         => secret' \in {0, Epoch(hub')}
<1>1. ASSUME IInv, [Next]_vars PROVE [Step]_vars
  <2>1. SUFFICES ASSUME Next, NEW h \in Handlers,
                        Ends(h), handler[h].alone, hub' = handler[h].version
                 PROVE  secret' \in {0, Epoch(handler[h].version)}
    BY <1>1
  <2>2. handler[h].secret = secret
    BY <1>1, <2>1 DEF IInv, Undisturbed, InFlight, Ends
  <2>3. CASE LoadFails(h) /\ secret # 0
    <3>1. CASE Clear
      BY <3>1 DEF Clear
    <3>2. CASE handler' = [handler EXCEPT ![h].phase = "loaded"]
      <4>1. handler'[h].phase = "loaded"
        BY <1>1, <3>2 DEF IInv, TypeOK, Handler
      <4> QED BY <2>1, <4>1 DEF Ends, NoHandler
    <3> QED BY <2>2, <2>3, <3>1, <3>2 DEF LoadFails
  <2>4. CASE LoadFails(h) /\ secret = 0
    BY <2>2, <2>4 DEF LoadFails, Keep
  <2>5. CASE Install(h) /\ Stale(h)
    BY <2>5 DEF Install, Clear
  <2>6. CASE Install(h) /\ ~Stale(h)
    BY <2>2, <2>6 DEF Install, Keep, Stale, Opens
  <2> QED BY <1>1, <2>1, <2>3, <2>4, <2>5, <2>6, EndedBy
<1> QED BY <1>1, ReaderInvariant, PTL DEF Spec, FailsClosed

=============================================================================
