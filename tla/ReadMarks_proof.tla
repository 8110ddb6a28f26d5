--------------------------- MODULE ReadMarks_proof ---------------------------
(***************************************************************************)
(* For any set of keys, any number of starts and of events on the relays,  *)
(* what a device shows as read was read by the user, stays read, and the   *)
(* seen mark of a hub only moves forward. One lemma per action shows that  *)
(* it keeps the inductive invariant IInv of ReadMarks.                     *)
(***************************************************************************)
EXTENDS ReadMarks, TLAPS

LEMMA TimeInt == Time \subseteq Int /\ Mark \subseteq Int /\ 0 \in Time /\ NoMark \in Mark /\ Time \subseteq Mark
  BY ClockAssumption DEF Time, Mark, NoMark

LEMMA LargerType ==
  /\ \A x, y \in Time : Larger(x, y) \in Time
  /\ \A x, y \in Mark : Larger(x, y) \in Mark
  /\ \A x, y \in Mark : Larger(x, y) >= x /\ Larger(x, y) >= y
  BY TimeInt DEF Larger

LEMMA NewestType ==
  ASSUME NEW m \in Marks, NEW n \in Marks
  PROVE  /\ Newest(m, n) \in Marks
         /\ \A k \in Key : Newest(m, n)[k] = Larger(m[k], n[k])
  BY LargerType DEF Newest, Marks

LEMMA BlankType ==
  /\ NoMarks \in Marks /\ Blank \in Event
  /\ Blank.marks = NoMarks /\ Blank.seen = 0 /\ Blank.created = NoMark
  BY TimeInt DEF Blank, Event, NoMarks, Marks

LEMMA MarkChange ==
  ASSUME NEW m \in Marks, NEW k \in Key, NEW t \in Mark
  PROVE  /\ [m EXCEPT ![k] = t] \in Marks
         /\ \A j \in Key : [m EXCEPT ![k] = t][j] = IF j = k THEN t ELSE m[j]
  BY DEF Marks

LEMMA EffectiveInt ==
  ASSUME NEW m \in Marks, NEW s \in Time, NEW k \in Key
  PROVE  Effective(m, s, k) \in Time /\ (Effective(m, s, k) = s \/ Effective(m, s, k) = m[k])
<1>1. m[k] \in Mark
  BY DEF Marks
<1> QED BY <1>1, TimeInt DEF Effective, Time, Mark, NoMark

\* Leaving out the channels at the seen mark changes nothing of what is read.
LEMMA SerialisedSame ==
  ASSUME NEW m \in Marks, NEW s \in Time
  PROVE  /\ Serialised(m, s) \in Content
         /\ Serialised(m, s).seen = s
         /\ \A k \in Key : /\ Serialised(m, s).marks[k] \in {m[k], NoMark}
                           /\ Effective(Serialised(m, s).marks, s, k) = Effective(m, s, k)
<1> DEFINE sm == [k \in Key |-> IF domain = "hub" /\ m[k] = s THEN NoMark ELSE m[k]]
<1>1. Serialised(m, s).marks = sm /\ Serialised(m, s).seen = s
      /\ Serialised(m, s) = [marks |-> sm, seen |-> s]
  BY DEF Serialised
<1>2. \A k \in Key : sm[k] \in {m[k], NoMark} /\ (sm[k] # m[k] => m[k] = s)
  OBVIOUS
<1>3. sm \in Marks
  BY TimeInt DEF Marks
<1>4. \A k \in Key : Effective(sm, s, k) = Effective(m, s, k)
  <2> SUFFICES ASSUME NEW k \in Key PROVE Effective(sm, s, k) = Effective(m, s, k)
    OBVIOUS
  <2>1. m[k] \in Mark /\ sm[k] \in Mark
    BY <1>3 DEF Marks
  <2> HIDE DEF sm
  <2> QED BY <1>2, <2>1, TimeInt DEF Effective, NoMark, Mark, Time
<1>5. Serialised(m, s) \in Content
  BY <1>1, <1>3 DEF Content
<1> HIDE DEF sm
<1> QED BY <1>1, <1>2, <1>4, <1>5

LEMMA AtType ==
  ASSUME NEW c \in Content, NEW t \in Mark
  PROVE  /\ At(c, t) \in Event
         /\ At(c, t).marks = c.marks /\ At(c, t).seen = c.seen /\ At(c, t).created = t
  BY DEF At, Event, Content

\* After a change of the store, the draft says the same as the store.
LEMMA BecomesDraft ==
  ASSUME cache \in Event, clock \in Time, NEW m \in Marks, NEW s \in Time, Becomes(m, s)
  PROVE  /\ live' = m /\ seen' = s
         /\ cache' \in Event /\ cache'.seen = s
         /\ \A k \in Key : /\ cache'.marks[k] \in {m[k], NoMark}
                           /\ Effective(cache'.marks, cache'.seen, k) = Effective(m, s, k)
<1> DEFINE c == Serialised(m, s)
<1>1. c \in Content /\ c.seen = s
      /\ \A k \in Key : c.marks[k] \in {m[k], NoMark} /\ Effective(c.marks, s, k) = Effective(m, s, k)
  BY SerialisedSame
<1>2. live' = m /\ seen' = s /\ cache' = IF Unchanged(c) THEN cache ELSE At(c, clock)
  BY DEF Becomes
<1> HIDE DEF c
<1>3. cache.created \in Mark
  BY DEF Event
<1>4. cache' \in Event /\ cache'.marks = c.marks /\ cache'.seen = c.seen
  <2>1. CASE Unchanged(c)
    <3>1. At(c, cache.created) = cache' /\ cache' = cache
      BY <1>2, <2>1 DEF Unchanged
    <3> QED BY <3>1, <1>1, <1>3, AtType
  <2>2. CASE ~Unchanged(c)
    <3>1. cache' = At(c, clock)
      BY <1>2, <2>2
    <3> QED BY <3>1, <1>1, AtType, TimeInt
  <2> QED BY <2>1, <2>2
<1> QED BY <1>1, <1>2, <1>4

-----------------------------------------------------------------------------
(***************************************************************************)
(* The inductive invariant once more, with the clock and what the user     *)
(* read as parameters of Good: both only grow.                             *)
(***************************************************************************)
Good(m, s, r, t, d) ==
    /\ m \in Marks
    /\ s \in Time
    /\ \A k \in Key : m[k] <= r[k] /\ s <= r[k]
    /\ s <= t
    /\ d # "hub" => s = 0

Fine(r, t, d) ==
    /\ Good(live, seen, r, t, d)
    /\ Good(cache.marks, cache.seen, r, t, d)
    /\ Good(draft.marks, draft.seen, r, t, d)
    /\ Good(other.marks, other.seen, r, t, d)
    /\ sending # None => Good(sending.marks, sending.seen, r, t, d)
    /\ \A e \in published : Good(e.marks, e.seen, r, t, d)

Shape ==
    /\ domain \in Domain
    /\ clock \in Time
    /\ phase \in {"closed", "open", "fetching", "ready"}
    /\ opens \in 0..MaxOpen
    /\ cache \in Event
    /\ draft \in Event
    /\ timer \in BOOLEAN
    /\ throttled \in BOOLEAN
    /\ owed \in BOOLEAN
    /\ sending \in Content \cup {None}
    /\ other \in Content
    /\ published \subseteq Event
    /\ readAt \in [Key -> Time]
    /\ \A k \in Key : readAt[k] <= clock

JInv == Shape /\ Fine(readAt, clock, domain) /\ DraftCurrent

LEMMA JInvIsIInv == JInv <=> IInv
<1>1. ASSUME JInv PROVE IInv
  BY <1>1 DEF JInv, Shape, Fine, Good, IInv, TypeOK, Justified
<1>2. ASSUME IInv PROVE JInv
  <2>1. /\ cache.marks \in Marks /\ cache.seen \in Time
        /\ draft.marks \in Marks /\ draft.seen \in Time
        /\ other.marks \in Marks /\ other.seen \in Time
        /\ sending # None => sending.marks \in Marks /\ sending.seen \in Time
        /\ \A e \in published : e.marks \in Marks /\ e.seen \in Time
    BY <1>2 DEF IInv, TypeOK, Event, Content
  <2> QED BY <1>2, <2>1 DEF JInv, Shape, Fine, Good, IInv, TypeOK, Justified
<1> QED BY <1>1, <1>2

LEMMA GoodGrows ==
  ASSUME NEW m, NEW s, NEW r \in [Key -> Time], NEW r2 \in [Key -> Time], NEW t \in Time, NEW t2 \in Time, NEW d,
         \A k \in Key : r[k] <= r2[k], t <= t2, Good(m, s, r, t, d)
  PROVE  Good(m, s, r2, t2, d)
<1>1. m \in Marks /\ s \in Time
  BY DEF Good
<1>2. ASSUME NEW k \in Key PROVE m[k] <= r2[k] /\ s <= r2[k]
  <2>1. m[k] \in Int /\ s \in Int /\ r[k] \in Int /\ r2[k] \in Int
    BY <1>1, TimeInt DEF Marks
  <2> QED BY <2>1 DEF Good
<1>3. s <= t2
  BY <1>1, TimeInt DEF Good
<1> QED BY <1>1, <1>2, <1>3 DEF Good

\* All that holds of a device's contents still holds when time passes and the
\* user reads on.
LEMMA FineGrows ==
  ASSUME JInv, clock' \in Time, readAt' \in [Key -> Time], domain' = domain,
         clock <= clock', \A k \in Key : readAt[k] <= readAt'[k]
  PROVE  Fine(readAt', clock', domain')
<1> DEFINE r == readAt'
           t == clock'
<1>1. clock \in Time /\ readAt \in [Key -> Time]
  BY DEF JInv, Shape
<1>2. ASSUME NEW m, NEW s, Good(m, s, readAt, clock, domain) PROVE Good(m, s, r, t, domain')
  BY <1>1, <1>2, GoodGrows
<1>3. Fine(readAt, clock, domain)
  BY DEF JInv
<1> HIDE DEF r, t
<1>4. Fine(r, t, domain')
  BY <1>2, <1>3 DEF Fine
<1> QED BY <1>4 DEF r, t

\* A step that changes neither time nor what was read.
LEMMA FineStays ==
  ASSUME JInv, UNCHANGED <<clock, readAt, domain>>
  PROVE  Fine(readAt', clock', domain')
  BY DEF JInv

\* The draft's marks are the store's, or left out.
LEMMA GoodDraft ==
  ASSUME NEW m \in Marks, NEW n \in Marks, NEW s, NEW r \in [Key -> Time], NEW t, NEW d,
         Good(m, s, r, t, d), \A k \in Key : n[k] \in {m[k], NoMark}
  PROVE  Good(n, s, r, t, d)
<1>1. ASSUME NEW k \in Key PROVE n[k] <= r[k]
  <2>1. r[k] \in Time /\ m[k] <= r[k] /\ n[k] \in {m[k], NoMark}
    BY DEF Good
  <2> QED BY <2>1 DEF Time, NoMark
<1> QED BY <1>1 DEF Good

\* The change of the store that a step makes, and of the draft with it.
LEMMA GoodStore ==
  ASSUME cache \in Event, clock \in Time, NEW m \in Marks, NEW s \in Time, Becomes(m, s),
         readAt' \in [Key -> Time], Good(m, s, readAt', clock', domain')
  PROVE  /\ Good(live', seen', readAt', clock', domain')
         /\ Good(cache'.marks, cache'.seen, readAt', clock', domain')
         /\ cache' \in Event
         /\ DraftCurrent'
<1>1. /\ live' = m /\ seen' = s
      /\ cache' \in Event /\ cache'.seen = s
      /\ \A k \in Key : /\ cache'.marks[k] \in {m[k], NoMark}
                        /\ Effective(cache'.marks, cache'.seen, k) = Effective(m, s, k)
  BY BecomesDraft
<1>2. cache'.marks \in Marks
  BY <1>1 DEF Event
<1>3. Good(cache'.marks, s, readAt', clock', domain')
  BY <1>1, <1>2, GoodDraft
<1> QED BY <1>1, <1>3 DEF DraftCurrent

-----------------------------------------------------------------------------
(***************************************************************************)
(* Each action keeps the invariant.                                        *)
(***************************************************************************)
LEMMA InitJ == Init => JInv
<1> SUFFICES ASSUME Init PROVE JInv
  OBVIOUS
<1>1. /\ NoMarks \in Marks /\ Blank \in Event /\ 0 \in Time /\ 1 \in Time
      /\ Blank.marks = NoMarks /\ Blank.seen = 0 /\ [marks |-> NoMarks, seen |-> 0] \in Content
      /\ \A k \in Key : NoMarks[k] = NoMark
  BY BlankType, TimeInt, ClockAssumption DEF Content, Time, NoMarks
<1>2. Shape
  <2>1. readAt \in [Key -> Time] /\ \A k \in Key : readAt[k] = 0
    BY <1>1 DEF Init
  <2>2. opens \in 0..MaxOpen /\ \A k \in Key : readAt[k] <= clock
    BY <2>1, BoundAssumption DEF Init
  <2>3. domain \in Domain /\ clock \in Time /\ cache \in Event /\ draft \in Event /\ other \in Content
    BY <1>1 DEF Init
  <2>4. timer \in BOOLEAN /\ throttled \in BOOLEAN /\ owed \in BOOLEAN
    BY DEF Init
  <2>5. sending \in Content \cup {None} /\ published \subseteq Event
    BY DEF Init
  <2>6. phase \in {"closed", "open", "fetching", "ready"}
    BY DEF Init
  <2> QED BY <2>1, <2>2, <2>3, <2>4, <2>5, <2>6 DEF Shape
<1>3. Good(NoMarks, 0, readAt, clock, domain)
  BY <1>1 DEF Init, Good, NoMark
<1>4. Fine(readAt, clock, domain)
  BY <1>1, <1>3 DEF Init, Fine
<1>5. DraftCurrent
  BY DEF Init, DraftCurrent, Running
<1> QED BY <1>2, <1>4, <1>5 DEF JInv

\* What every lemma below needs of the state before the step.
LEMMA Before ==
  ASSUME JInv
  PROVE  /\ cache \in Event /\ draft \in Event /\ clock \in Time /\ readAt \in [Key -> Time]
         /\ live \in Marks /\ seen \in Time
         /\ cache.marks \in Marks /\ cache.seen \in Time /\ cache.created \in Mark
         /\ draft.marks \in Marks /\ draft.seen \in Time /\ draft.created \in Mark
         /\ other.marks \in Marks /\ other.seen \in Time
         /\ \A k \in Key : readAt[k] <= clock
  BY DEF JInv, Shape, Fine, Good, Event

LEMMA TickJ == ASSUME JInv, Tick PROVE JInv'
<1>1. clock' \in Time /\ clock <= clock' /\ readAt' = readAt /\ domain' = domain
  BY TimeInt, ClockAssumption DEF Tick, JInv, Shape, Time
<1>2. Fine(readAt', clock', domain')
  <2>1. \A k \in Key : readAt[k] \in Time
    BY Before
  <2> QED BY <1>1, <2>1, FineGrows, Before DEF Time
<1>3. Shape'
  <2>1. \A k \in Key : readAt'[k] <= clock'
    <3>1. \A k \in Key : readAt[k] \in Time /\ readAt[k] <= clock
      BY Before
    <3> QED BY <1>1, <3>1, Before DEF Time
  <2> QED BY <1>1, <2>1 DEF JInv, Shape, Tick, start, sync
<1>4. Fine(readAt, clock, domain)'
  BY <1>2 DEF Tick, Fine, sync, start
<1>5. DraftCurrent'
  BY DEF JInv, DraftCurrent, Tick, Running, Effective, start
<1> QED BY <1>3, <1>4, <1>5 DEF JInv

\* A change of the store by the user or by a message on screen.
LEMMA ReadingJ ==
  ASSUME JInv, NEW m \in Marks, NEW s \in Time, Becomes(m, s),
         UNCHANGED <<domain, clock, start, throttled, sending, other, published>>,
         timer' \in BOOLEAN, owed' \in BOOLEAN,
         readAt' \in [Key -> Time],
         \A k \in Key : readAt[k] <= readAt'[k] /\ readAt'[k] <= clock,
         Good(m, s, readAt', clock', domain')
  PROVE  JInv'
<1>1. /\ Good(live', seen', readAt', clock', domain')
      /\ Good(cache'.marks, cache'.seen, readAt', clock', domain')
      /\ cache' \in Event
      /\ DraftCurrent'
  BY Before, GoodStore
<1>2. Fine(readAt', clock', domain')
  BY FineGrows, Before DEF Time
<1>3. Fine(readAt, clock, domain)'
  BY <1>1, <1>2 DEF Fine, start
<1>4. Shape'
  BY <1>1 DEF JInv, Shape, start
<1> QED BY <1>1, <1>3, <1>4 DEF JInv

LEMMA ScheduledType ==
  ASSUME JInv, NEW m, NEW s, Scheduled(m, s)
  PROVE  timer' \in BOOLEAN /\ owed' \in BOOLEAN
<1>1. timer \in BOOLEAN /\ owed \in BOOLEAN
  BY DEF JInv, Shape
<1>2. PICK again \in BOOLEAN : timer' = (timer \/ ~again) /\ owed' = (owed \/ ~again)
  BY Zenon DEF Scheduled, Unchanged
<1> QED BY <1>1, <1>2

LEMMA MarkReadJ == ASSUME JInv, NEW k \in Key, MarkRead(k) PROVE JInv'
<1> DEFINE m == [live EXCEPT ![k] = clock]
<1>1. /\ Becomes(m, seen) /\ Scheduled(m, seen) /\ readAt' = [readAt EXCEPT ![k] = clock]
      /\ UNCHANGED <<domain, clock, start, throttled, sending, other, published>>
  BY DEF MarkRead
<1>2. m \in Marks /\ \A j \in Key : m[j] = IF j = k THEN clock ELSE live[j]
  <2>1. live \in Marks /\ clock \in Mark
    BY Before, TimeInt
  <2> QED BY <2>1, MarkChange
<1> HIDE DEF m
<1>3. readAt' \in [Key -> Time] /\ \A j \in Key : readAt'[j] = IF j = k THEN clock ELSE readAt[j]
  BY <1>1, Before
<1>4. \A j \in Key : readAt[j] <= readAt'[j] /\ readAt'[j] <= clock
  <2>1. \A j \in Key : readAt[j] \in Time /\ readAt[j] <= clock
    BY Before
  <2> QED BY <1>3, <2>1, Before DEF Time
<1>5. Good(m, seen, readAt', clock', domain')
  <2>1. Good(live, seen, readAt, clock, domain)
    BY DEF JInv, Fine
  <2>2. ASSUME NEW j \in Key PROVE m[j] <= readAt'[j] /\ seen <= readAt'[j]
    <3>1. live[j] \in Int /\ readAt[j] \in Int /\ seen \in Int /\ clock \in Int /\ readAt'[j] \in Int
      BY Before, TimeInt, <1>3 DEF Marks
    <3> QED BY <1>2, <1>3, <1>4, <2>1, <3>1 DEF Good
  <2> QED BY <1>1, <1>2, <2>1, <2>2 DEF Good
<1>6. timer' \in BOOLEAN /\ owed' \in BOOLEAN
  BY <1>1, ScheduledType
<1> QED BY <1>1, <1>2, <1>3, <1>4, <1>5, <1>6, Before, ReadingJ

LEMMA MarkHubReadJ == ASSUME JInv, MarkHubRead PROVE JInv'
<1> DEFINE m == [k \in Key |-> IF live[k] = NoMark THEN NoMark ELSE clock]
<1>1. /\ Becomes(m, clock) /\ Scheduled(m, clock) /\ readAt' = [k \in Key |-> clock]
      /\ UNCHANGED <<domain, clock, start, throttled, sending, other, published>>
      /\ domain = "hub"
  BY DEF MarkHubRead
<1>2. m \in Marks /\ \A j \in Key : m[j] \in {clock, NoMark}
  BY Before, TimeInt DEF Marks
<1> HIDE DEF m
<1>3. readAt' \in [Key -> Time] /\ \A j \in Key : readAt'[j] = clock
  BY <1>1, Before
<1>4. \A j \in Key : readAt[j] <= readAt'[j] /\ readAt'[j] <= clock
  <2>1. \A j \in Key : readAt[j] \in Time /\ readAt[j] <= clock
    BY Before
  <2> QED BY <1>3, <2>1, Before DEF Time
<1>5. Good(m, clock, readAt', clock', domain')
  BY <1>1, <1>2, <1>3, Before DEF Good, Time, NoMark
<1>6. timer' \in BOOLEAN /\ owed' \in BOOLEAN
  BY <1>1, ScheduledType
<1> QED BY <1>1, <1>2, <1>3, <1>4, <1>5, <1>6, Before, ReadingJ

LEMMA AdvanceReadJ == ASSUME JInv, NEW k \in Key, NEW d \in Time, AdvanceRead(k, d) PROVE JInv'
<1> DEFINE ts == Larger(Effective(live, seen, k), Clamped(d))
<1>1. PICK m \in {live, [live EXCEPT ![k] = ts]} :
         /\ Becomes(m, seen) /\ Scheduled(m, seen) /\ readAt' = [readAt EXCEPT ![k] = clock]
         /\ UNCHANGED <<domain, clock, start, throttled, sending, other, published>>
  BY DEF AdvanceRead
<1>2. Effective(live, seen, k) \in Time
  BY EffectiveInt, Before
<1>3. Clamped(d) \in Time /\ Clamped(d) <= clock
  BY Before DEF Clamped, Time
<1>4. Good(live, seen, readAt, clock, domain)
  BY DEF JInv, Fine
<1>5. ts \in Time /\ ts <= clock
  <2>1. Effective(live, seen, k) <= clock
    <3>1. live[k] \in Mark /\ readAt[k] \in Time /\ live[k] <= readAt[k] /\ readAt[k] <= clock /\ seen <= clock
      BY <1>4, Before DEF Good, Marks
    <3>2. Effective(live, seen, k) = seen \/ Effective(live, seen, k) = live[k]
      BY EffectiveInt, Before
    <3> QED BY <3>1, <3>2, Before DEF Mark, Time, NoMark
  <2>2. ts \in Time
    BY <1>2, <1>3, LargerType
  <2> QED BY <1>3, <2>1, <2>2 DEF Larger
<1> HIDE DEF ts
<1>6. m \in Marks /\ \A j \in Key : m[j] = live[j] \/ (j = k /\ m[j] = ts)
  <2>1. CASE m = live
    BY <2>1, Before
  <2>2. CASE m = [live EXCEPT ![k] = ts]
    <3>1. live \in Marks /\ ts \in Mark
      BY <1>5, Before, TimeInt
    <3>2. /\ [live EXCEPT ![k] = ts] \in Marks
          /\ \A j \in Key : [live EXCEPT ![k] = ts][j] = IF j = k THEN ts ELSE live[j]
      BY <3>1, MarkChange
    <3> QED BY <2>2, <3>2
  <2> QED BY <2>1, <2>2, <1>1
<1>7. readAt' \in [Key -> Time] /\ \A j \in Key : readAt'[j] = IF j = k THEN clock ELSE readAt[j]
  BY <1>1, Before
<1>8. \A j \in Key : readAt[j] <= readAt'[j] /\ readAt'[j] <= clock
  <2>1. \A j \in Key : readAt[j] \in Time /\ readAt[j] <= clock
    BY Before
  <2> QED BY <1>7, <2>1, Before DEF Time
<1>9. Good(m, seen, readAt', clock', domain')
  <2>2. ASSUME NEW j \in Key PROVE m[j] <= readAt'[j] /\ seen <= readAt'[j]
    <3>1. live[j] \in Int /\ readAt[j] \in Int /\ seen \in Int /\ clock \in Int /\ readAt'[j] \in Int /\ ts \in Int
      BY Before, TimeInt, <1>5, <1>7 DEF Marks
    <3> QED BY <1>4, <1>5, <1>6, <1>7, <1>8, <3>1 DEF Good
  <2> QED BY <1>1, <1>4, <1>6, <2>2 DEF Good
<1>10. timer' \in BOOLEAN /\ owed' \in BOOLEAN
  BY <1>1, ScheduledType
<1> QED BY <1>1, <1>6, <1>7, <1>8, <1>9, <1>10, Before, ReadingJ

LEMMA CountUnreadJ == ASSUME JInv, NEW k \in Key, CountUnread(k) PROVE JInv'
<1> DEFINE m == [live EXCEPT ![k] = 0]
<1>1. /\ \/ live' = m /\ UNCHANGED <<seen, cache, timer, owed>>
         \/ Becomes(m, seen) /\ Scheduled(m, seen)
      /\ live[k] = NoMark /\ Running
      /\ domain \in {"hub", "dm"}
      /\ UNCHANGED <<domain, clock, start, throttled, sending, other, published, readAt>>
  BY DEF CountUnread
<1>2. m \in Marks /\ \A j \in Key : m[j] = IF j = k THEN 0 ELSE live[j]
  BY MarkChange, Before, TimeInt
<1> HIDE DEF m
<1>3. Good(live, seen, readAt, clock, domain)
  BY DEF JInv, Fine
<1>4. Good(m, seen, readAt', clock', domain')
  <2>1. \A j \in Key : readAt[j] \in Time
    BY Before
  <2> QED BY <1>1, <1>2, <1>3, <2>1 DEF Good, Time
<1>5. \A j \in Key : readAt[j] <= readAt'[j] /\ readAt'[j] <= clock
  <2>1. \A j \in Key : readAt[j] \in Time /\ readAt[j] <= clock
    BY Before
  <2> QED BY <1>1, <2>1 DEF Time
<1>6. CASE Becomes(m, seen) /\ Scheduled(m, seen)
  <2>1. timer' \in BOOLEAN /\ owed' \in BOOLEAN
    BY <1>6, ScheduledType
  <2> QED BY <1>1, <1>2, <1>4, <1>5, <1>6, <2>1, Before, ReadingJ
<1>7. CASE live' = m /\ UNCHANGED <<seen, cache, timer, owed>>
  <2>1. Fine(readAt', clock', domain')
    BY <1>1, FineStays
  <2>2. Fine(readAt, clock, domain)'
    BY <1>1, <1>4, <1>7, <2>1 DEF Fine, start
  <2>3. Shape'
    BY <1>1, <1>7 DEF JInv, Shape, start
  <2>4. \A j \in Key : Effective(live', seen', j) = Effective(live, seen, j)
    BY <1>1, <1>2, <1>7 DEF Effective, NoMark
  <2>5. DraftCurrent'
    BY <1>1, <1>7, <2>4 DEF JInv, DraftCurrent, Running, start
  <2> QED BY <2>2, <2>3, <2>5 DEF JInv
<1> QED BY <1>1, <1>6, <1>7

\* Starting, closing and asking the relays move marks between store and draft.
LEMMA OpenJ == ASSUME JInv, Open PROVE JInv'
<1>1. /\ live' \in {NoMarks, cache.marks} /\ seen' = cache.seen
      /\ domain # "join" => live' = cache.marks
      /\ phase' = "open" /\ opens' = opens + 1 /\ opens < MaxOpen
      /\ UNCHANGED <<domain, clock, cache, draft, sync, other, readAt>>
  BY DEF Open
<1>2. Fine(readAt', clock', domain')
  BY <1>1, FineStays
<1>3. Good(live', seen', readAt', clock', domain')
  <2>1. Good(cache.marks, cache.seen, readAt', clock', domain')
    BY <1>2 DEF Fine
  <2>2. NoMarks \in Marks /\ \A k \in Key : NoMarks[k] = NoMark
    BY BlankType DEF NoMarks
  <2>3. readAt' \in [Key -> Time]
    BY <1>1, Before
  <2>4. Good(NoMarks, cache.seen, readAt', clock', domain')
    <3>1. \A k \in Key : readAt'[k] >= 0
      BY <2>3 DEF Time
    <3> QED BY <2>1, <2>2, <3>1, <2>3 DEF Good, NoMark, Time
  <2> QED BY <1>1, <2>1, <2>4
<1>4. Fine(readAt, clock, domain)'
  BY <1>1, <1>2, <1>3 DEF Fine, sync
<1>5. opens' \in 0..MaxOpen
  BY <1>1, BoundAssumption DEF JInv, Shape
<1>6. Shape'
  BY <1>1, <1>5 DEF JInv, Shape, sync
<1>7. DraftCurrent'
  <2>1. domain = "join" => live' = NoMarks
    BY DEF Open
  <2> QED BY <1>1, <2>1 DEF DraftCurrent, Running
<1> QED BY <1>4, <1>6, <1>7 DEF JInv

LEMMA BlankGood ==
  ASSUME JInv
  PROVE  Good(NoMarks, 0, readAt, clock, domain)
<1>1. NoMarks \in Marks /\ \A k \in Key : NoMarks[k] = NoMark
  BY BlankType DEF NoMarks
<1>2. readAt \in [Key -> Time] /\ clock \in Time
  BY Before
<1> QED BY <1>1, <1>2, TimeInt DEF Good, NoMark, Time

LEMMA CloseJ == ASSUME JInv, Close PROVE JInv'
<1>1. /\ phase' = "closed" /\ draft' = Blank /\ live' = NoMarks /\ seen' = 0
      /\ timer' = FALSE /\ throttled' = FALSE /\ sending' = None /\ owed' = FALSE
      /\ UNCHANGED <<domain, clock, opens, cache, other, published, readAt>>
  BY DEF Close
<1>2. Good(NoMarks, 0, readAt', clock', domain')
  BY <1>1, BlankGood
<1>3. Fine(readAt', clock', domain')
  BY <1>1, FineStays
<1>4. Fine(readAt, clock, domain)'
  BY <1>1, <1>2, <1>3, BlankType DEF Fine
<1>5. Shape'
  BY <1>1, BlankType DEF JInv, Shape
<1>6. DraftCurrent'
  BY <1>1 DEF DraftCurrent, Running
<1> QED BY <1>4, <1>5, <1>6 DEF JInv

LEMMA GoodNewest ==
  ASSUME NEW m, NEW n, NEW s, NEW z, NEW r \in [Key -> Time], NEW t \in Time, NEW d,
         Good(m, s, r, t, d), Good(n, z, r, t, d)
  PROVE  /\ Good(Newest(m, n), s, r, t, d) /\ Good(Newest(m, n), z, r, t, d)
         /\ Good(Newest(m, n), Larger(s, z), r, t, d) /\ Good(n, Larger(s, z), r, t, d)
<1>1. m \in Marks /\ n \in Marks /\ s \in Time /\ z \in Time
  BY DEF Good
<1>2. Newest(m, n) \in Marks /\ \A k \in Key : Newest(m, n)[k] = Larger(m[k], n[k])
  BY <1>1, NewestType
<1>3. \A k \in Key : Newest(m, n)[k] \in {m[k], n[k]}
  BY <1>2 DEF Larger
<1>4. Larger(s, z) \in Time /\ Larger(s, z) \in {s, z}
  BY <1>1, LargerType DEF Larger
<1> QED BY <1>1, <1>2, <1>3, <1>4 DEF Good

\* The join marks read the draft a second time: it says what the store says.
LEMMA BeginJ == ASSUME JInv, Begin PROVE JInv'
<1>1. /\ phase = "open" /\ phase' = "fetching" /\ draft' = cache
      /\ live' = IF domain = "join" THEN Newest(live, cache.marks) ELSE live
      /\ UNCHANGED <<domain, clock, opens, seen, cache, sync, other, readAt>>
  BY DEF Begin
<1>2. Fine(readAt', clock', domain')
  BY <1>1, FineStays
<1>3. Good(live', seen', readAt', clock', domain')
  <2>1. Good(live, seen, readAt', clock', domain') /\ Good(cache.marks, cache.seen, readAt', clock', domain')
    BY <1>2 DEF Fine
  <2>2. readAt' \in [Key -> Time] /\ clock' \in Time
    BY <1>1, Before
  <2> QED BY <1>1, <2>1, <2>2, GoodNewest
<1>4. Fine(readAt, clock, domain)'
  BY <1>1, <1>2, <1>3 DEF Fine, sync
<1>5. Shape'
  BY <1>1 DEF JInv, Shape, sync
<1>6. seen = cache.seen
  BY <1>1 DEF JInv, DraftCurrent, Running
<1>7. DraftCurrent'
  <2>1. CASE domain = "join" /\ live = NoMarks
    <3>1. live' = Newest(NoMarks, cache.marks) /\ NoMarks \in Marks /\ \A k \in Key : NoMarks[k] = NoMark
      BY <1>1, <2>1, BlankType DEF NoMarks
    <3>2. \A k \in Key : live'[k] = cache.marks[k]
      <4>1. \A k \in Key : live'[k] = Larger(NoMark, cache.marks[k]) /\ cache.marks[k] \in Mark
        BY <3>1, Before, NewestType DEF Marks
      <4> QED BY <4>1 DEF Larger, Mark, Time, NoMark
    <3> QED BY <1>1, <1>6, <3>2 DEF DraftCurrent, Effective, sync
  <2>2. CASE domain # "join"
    BY <1>1, <1>6, <2>2 DEF JInv, DraftCurrent, Running, sync
  <2>3. CASE domain = "join" /\ \A k \in Key : Effective(cache.marks, cache.seen, k) = Effective(live, seen, k)
    <3>1. live \in Marks /\ cache.marks \in Marks
      BY Before
    <3>2. \A k \in Key : live'[k] = Larger(live[k], cache.marks[k]) /\ cache.marks[k] \in Mark /\ live[k] \in Mark
      BY <1>1, <2>3, <3>1, NewestType DEF Marks
    <3>3. seen = 0
      BY <1>1, <2>3 DEF JInv, Fine, Good
    <3>4. \A k \in Key : Effective(cache.marks, cache.seen, k) = Effective(live', seen, k)
      BY <1>6, <2>3, <3>2, <3>3 DEF Effective, Larger, Mark, Time, NoMark
    <3> QED BY <1>1, <1>6, <3>4 DEF DraftCurrent, sync
  <2> QED BY <1>1, <2>1, <2>2, <2>3 DEF JInv, DraftCurrent, Running
<1> QED BY <1>4, <1>5, <1>7 DEF JInv

LEMMA FireJ == ASSUME JInv, Fire PROVE JInv'
<1>1. /\ timer' = FALSE /\ sending' = Serialised(live, seen)
      /\ UNCHANGED <<domain, clock, start, live, seen, cache, throttled, owed, other, published, readAt>>
  BY DEF Fire
<1>2. Fine(readAt', clock', domain')
  BY <1>1, FineStays
<1>3. /\ sending' \in Content /\ sending'.seen = seen /\ sending'.marks \in Marks
      /\ \A k \in Key : sending'.marks[k] \in {live[k], NoMark}
  BY <1>1, Before, SerialisedSame DEF Content
<1>4. Good(sending'.marks, sending'.seen, readAt', clock', domain')
  <2>1. Good(live, seen, readAt', clock', domain')
    BY <1>2 DEF Fine
  <2> QED BY <1>1, <1>3, <2>1, Before, GoodDraft
<1>5. Fine(readAt, clock, domain)'
  BY <1>1, <1>2, <1>4 DEF Fine, start
<1>6. Shape'
  BY <1>1, <1>3 DEF JInv, Shape, start
<1>7. DraftCurrent'
  BY <1>1 DEF JInv, DraftCurrent, Running, Effective, start
<1> QED BY <1>5, <1>6, <1>7 DEF JInv

\* A publish that ends, or not, changes neither the store nor the draft.
LEMMA SyncJ ==
  ASSUME JInv, UNCHANGED <<domain, clock, start, live, seen, cache, other, readAt>>,
         timer' \in BOOLEAN, throttled' \in BOOLEAN, owed' \in BOOLEAN,
         sending' \in {sending, None}, published' \subseteq Event,
         \A e \in published' : e \in published \/ Good(e.marks, e.seen, readAt, clock, domain)
  PROVE  JInv'
<1>1. Fine(readAt', clock', domain')
  BY FineStays
<1>2. Fine(readAt, clock, domain)'
  <2>1. sending' # None => Good(sending'.marks, sending'.seen, readAt', clock', domain')
    BY <1>1 DEF Fine
  <2>2. \A e \in published' : Good(e.marks, e.seen, readAt', clock', domain')
    BY <1>1 DEF Fine
  <2> QED BY <1>1, <2>1, <2>2 DEF Fine, start
<1>3. Shape'
  BY DEF JInv, Shape, start
<1>4. DraftCurrent'
  BY DEF JInv, DraftCurrent, Running, Effective, start
<1> QED BY <1>2, <1>3, <1>4 DEF JInv

LEMMA SendingJ ==
  ASSUME JInv, Throttle \/ Publish \/ SignFails \/ ThrottleEnds
  PROVE  JInv'
<1>1. timer \in BOOLEAN /\ throttled \in BOOLEAN /\ owed \in BOOLEAN /\ published \subseteq Event
  BY DEF JInv, Shape
<1>2. CASE Throttle
  BY <1>1, <1>2, SyncJ DEF Throttle, Retry
<1>3. CASE SignFails
  <2>1. timer' \in BOOLEAN /\ owed' \in BOOLEAN /\ sending' = None
    BY <1>1, <1>3 DEF SignFails, Settled, Retry
  <2>2. UNCHANGED <<domain, clock, start, live, seen, cache, throttled, other, published, readAt>>
    BY <1>3 DEF SignFails
  <2> QED BY <1>1, <2>1, <2>2, SyncJ
<1>4. CASE ThrottleEnds
  BY <1>1, <1>4, SyncJ DEF ThrottleEnds
<1>5. CASE Publish
  <2>1. /\ sending # None /\ throttled' = TRUE /\ sending' = None /\ owed' = timer /\ timer' = timer
        /\ published' \in {published, published \cup {At(sending, clock)}}
        /\ UNCHANGED <<domain, clock, start, live, seen, cache, other, readAt>>
    BY <1>5 DEF Publish, Settled
  <2>2. sending \in Content
    BY <2>1 DEF JInv, Shape
  <2>3. clock \in Mark
    BY Before, TimeInt
  <2>4. /\ At(sending, clock) \in Event
        /\ At(sending, clock).marks = sending.marks /\ At(sending, clock).seen = sending.seen
    BY <2>2, <2>3, AtType
  <2>5. Good(sending.marks, sending.seen, readAt, clock, domain)
    BY <2>1 DEF JInv, Fine
  <2> QED BY <1>1, <2>1, <2>4, <2>5, SyncJ
<1> QED BY <1>2, <1>3, <1>4, <1>5

LEMMA PreferredGood ==
  ASSUME JInv, NEW e \in published \cup {Blank}
  PROVE  LET p == Preferred(draft, e) IN Good(p.marks, p.seen, readAt, clock, domain)
<1>1. e \in Event /\ Good(e.marks, e.seen, readAt, clock, domain)
  <2>1. CASE e \in published
    BY <2>1 DEF JInv, Shape, Fine
  <2>2. CASE e = Blank
    BY <2>2, BlankGood, BlankType
  <2> QED BY <2>1, <2>2
<1>2. Good(draft.marks, draft.seen, readAt, clock, domain)
  BY DEF JInv, Fine
<1>3. Good(Newest(draft.marks, e.marks), e.seen, readAt, clock, domain)
  BY <1>1, <1>2, Before, GoodNewest
<1>4. [e EXCEPT !.marks = Newest(draft.marks, e.marks)].marks = Newest(draft.marks, e.marks)
      /\ [e EXCEPT !.marks = Newest(draft.marks, e.marks)].seen = e.seen
  BY <1>1 DEF Event
<1> QED BY <1>1, <1>2, <1>3, <1>4 DEF Preferred

LEMMA HydrateJ == ASSUME JInv, Hydrate PROVE JInv'
<1>1. PICK e \in published \cup {Blank} :
         LET read == Preferred(draft, e)
             marks == Merged(live, read.marks)
             s == MergedSeen(seen, read.seen)
         IN /\ Becomes(marks, s)
            /\ IF domain = "join" THEN UNCHANGED <<timer, owed>> ELSE Scheduled(marks, s)
  BY DEF Hydrate
<1> DEFINE read == Preferred(draft, e)
           m == Merged(live, read.marks)
           s == MergedSeen(seen, read.seen)
<1>2. /\ phase' = "ready" /\ draft' = Blank
      /\ UNCHANGED <<domain, clock, opens, throttled, sending, other, published, readAt>>
  BY DEF Hydrate
<1>3. Good(read.marks, read.seen, readAt, clock, domain) /\ Good(live, seen, readAt, clock, domain)
  BY PreferredGood DEF JInv, Fine
<1> HIDE DEF read
<1>4. Good(m, s, readAt, clock, domain)
  BY <1>3, Before, GoodNewest DEF Merged, MergedSeen
<1>5. timer' \in BOOLEAN /\ owed' \in BOOLEAN
  <2>1. timer \in BOOLEAN /\ owed \in BOOLEAN
    BY DEF JInv, Shape
  <2>2. UNCHANGED <<timer, owed>> \/ Scheduled(m, s)
    BY <1>1 DEF read
  <2> QED BY <2>1, <2>2, ScheduledType
<1>6. Becomes(m, s) /\ m \in Marks /\ s \in Time
  BY <1>1, <1>4 DEF Good, read
<1> HIDE DEF m, s
<1>7. /\ Good(live', seen', readAt', clock', domain')
      /\ Good(cache'.marks, cache'.seen, readAt', clock', domain')
      /\ cache' \in Event
      /\ DraftCurrent'
  BY <1>2, <1>4, <1>6, Before, GoodStore
<1>8. Fine(readAt', clock', domain') /\ Good(NoMarks, 0, readAt', clock', domain')
  BY <1>2, FineStays, BlankGood
<1>9. Fine(readAt, clock, domain)'
  BY <1>2, <1>7, <1>8, BlankType DEF Fine
<1>10. Shape'
  BY <1>2, <1>5, <1>7, BlankType DEF JInv, Shape
<1> QED BY <1>7, <1>9, <1>10 DEF JInv

\* The other devices: the device's own content only sees time and reading grow.
LEMMA OtherJ ==
  ASSUME JInv, UNCHANGED <<domain, clock, start, live, seen, cache, timer, throttled, sending, owed>>,
         other' \in Content, published' \subseteq Event,
         readAt' \in [Key -> Time], \A k \in Key : readAt[k] <= readAt'[k] /\ readAt'[k] <= clock,
         Good(other'.marks, other'.seen, readAt', clock', domain'),
         \A e \in published' : e \in published \/ Good(e.marks, e.seen, readAt', clock', domain')
  PROVE  JInv'
<1>1. Fine(readAt', clock', domain')
  BY FineGrows, Before DEF Time
<1>2. Fine(readAt, clock, domain)'
  BY <1>1 DEF Fine, start
<1>3. Shape'
  BY DEF JInv, Shape, start
<1>4. DraftCurrent'
  BY DEF JInv, DraftCurrent, Running, Effective, start
<1> QED BY <1>2, <1>3, <1>4 DEF JInv

LEMMA OtherReadsJ == ASSUME JInv, NEW k \in Key, OtherReads(k) PROVE JInv'
<1>1. /\ other' = [other EXCEPT !.marks[k] = clock] /\ readAt' = [readAt EXCEPT ![k] = clock]
      /\ UNCHANGED <<domain, clock, start, live, seen, cache, sync>>
  BY DEF OtherReads
<1>2. readAt' \in [Key -> Time] /\ \A j \in Key : readAt'[j] = IF j = k THEN clock ELSE readAt[j]
  BY <1>1, Before
<1>3. \A j \in Key : readAt[j] <= readAt'[j] /\ readAt'[j] <= clock
  <2>1. \A j \in Key : readAt[j] \in Time /\ readAt[j] <= clock
    BY Before
  <2> QED BY <1>2, <2>1, Before DEF Time
<1>4. Fine(readAt', clock', domain')
  BY <1>1, <1>2, <1>3, FineGrows, Before DEF Time
<1>5. other \in Content
  BY DEF JInv, Shape
<1>6. clock \in Mark
  BY Before, TimeInt
<1>7. other'.seen = other.seen /\ other' \in Content
      /\ \A j \in Key : other'.marks[j] = IF j = k THEN clock ELSE other.marks[j]
  BY <1>1, <1>5, <1>6 DEF Content, Marks
<1>8. Good(other'.marks, other'.seen, readAt', clock', domain')
  <2>1. Good(other.marks, other.seen, readAt', clock', domain')
    BY <1>4 DEF Fine
  <2>2. clock \in Time /\ other'.marks \in Marks
    BY <1>7, Before DEF Content
  <2> QED BY <1>1, <1>2, <1>7, <2>1, <2>2 DEF Good, Time
<1>9. published \subseteq Event
  BY DEF JInv, Shape
<1> QED BY <1>1, <1>2, <1>3, <1>7, <1>8, <1>9, OtherJ DEF sync

LEMMA OtherReadsHubJ == ASSUME JInv, OtherReadsHub PROVE JInv'
<1> DEFINE m == [k \in Key |-> IF other.marks[k] = NoMark THEN NoMark ELSE clock]
<1>1. /\ other' = [marks |-> m, seen |-> clock] /\ readAt' = [k \in Key |-> clock]
      /\ domain = "hub"
      /\ UNCHANGED <<domain, clock, start, live, seen, cache, sync>>
  BY DEF OtherReadsHub
<1>2. m \in Marks /\ \A j \in Key : m[j] \in {clock, NoMark}
  BY Before, TimeInt DEF Marks
<1> HIDE DEF m
<1>3. readAt' \in [Key -> Time] /\ \A j \in Key : readAt'[j] = clock
  BY <1>1, Before
<1>4. \A j \in Key : readAt[j] <= readAt'[j] /\ readAt'[j] <= clock
  <2>1. \A j \in Key : readAt[j] \in Time /\ readAt[j] <= clock
    BY Before
  <2> QED BY <1>3, <2>1, Before DEF Time
<1>5. Good(other'.marks, other'.seen, readAt', clock', domain') /\ other' \in Content
  BY <1>1, <1>2, <1>3, Before DEF Good, Time, NoMark, Content
<1>6. published \subseteq Event
  BY DEF JInv, Shape
<1> QED BY <1>1, <1>3, <1>4, <1>5, <1>6, OtherJ DEF sync

LEMMA OtherPublishesJ == ASSUME JInv, OtherPublishes PROVE JInv'
<1> DEFINE c == Serialised(other.marks, other.seen)
<1>1. /\ published' = published \cup {At(c, clock)}
      /\ UNCHANGED <<domain, clock, start, live, seen, cache, timer, throttled, sending, owed, other, readAt>>
  BY DEF OtherPublishes
<1>2. /\ c \in Content /\ c.seen = other.seen /\ c.marks \in Marks
      /\ \A k \in Key : c.marks[k] \in {other.marks[k], NoMark}
  BY Before, SerialisedSame DEF Content
<1> HIDE DEF c
<1>3. At(c, clock) \in Event /\ At(c, clock).marks = c.marks /\ At(c, clock).seen = c.seen
  BY <1>2, AtType, Before, TimeInt
<1>4. Good(other.marks, other.seen, readAt, clock, domain)
  BY DEF JInv, Fine
<1>5. Good(c.marks, c.seen, readAt', clock', domain')
  BY <1>1, <1>2, <1>4, Before, GoodDraft
<1>6. other \in Content /\ published \subseteq Event
  BY DEF JInv, Shape
<1>7. \A k \in Key : readAt[k] <= readAt'[k] /\ readAt'[k] <= clock
  <2>1. \A k \in Key : readAt[k] \in Time /\ readAt[k] <= clock
    BY Before
  <2> QED BY <1>1, <2>1 DEF Time
<1> QED BY <1>1, <1>3, <1>4, <1>5, <1>6, <1>7, Before, OtherJ

LEMMA OtherStartsJ == ASSUME JInv, OtherStarts PROVE JInv'
<1> DEFINE own == Serialised(other.marks, other.seen)
<1>1. PICK e \in published :
         other' = [marks |-> Merged(own.marks, e.marks), seen |-> MergedSeen(own.seen, e.seen)]
  BY DEF OtherStarts
<1>2. UNCHANGED <<domain, clock, start, live, seen, cache, sync, readAt>>
  BY DEF OtherStarts
<1>3. /\ own \in Content /\ own.seen = other.seen /\ own.marks \in Marks
      /\ \A k \in Key : own.marks[k] \in {other.marks[k], NoMark}
  BY Before, SerialisedSame DEF Content
<1> HIDE DEF own
<1>4. Good(other.marks, other.seen, readAt, clock, domain) /\ Good(e.marks, e.seen, readAt, clock, domain)
  BY DEF JInv, Fine
<1>5. Good(own.marks, own.seen, readAt, clock, domain)
  BY <1>3, <1>4, Before, GoodDraft
<1>6. Good(Merged(own.marks, e.marks), MergedSeen(own.seen, e.seen), readAt, clock, domain)
  BY <1>4, <1>5, Before, GoodNewest DEF Merged, MergedSeen
<1>7. Good(other'.marks, other'.seen, readAt', clock', domain') /\ other' \in Content
  BY <1>1, <1>2, <1>6 DEF Good, Content
<1>8. published \subseteq Event
  BY DEF JInv, Shape
<1>9. \A k \in Key : readAt[k] <= readAt'[k] /\ readAt'[k] <= clock
  <2>1. \A k \in Key : readAt[k] \in Time /\ readAt[k] <= clock
    BY Before
  <2> QED BY <1>2, <2>1 DEF Time
<1> QED BY <1>2, <1>7, <1>8, <1>9, Before, OtherJ DEF sync

LEMMA StepJ == JInv /\ [Next]_vars => JInv'
<1>1. CASE UNCHANGED vars
  BY <1>1, SyncJ DEF vars, start, JInv, Shape, Fine, Good, DraftCurrent, Running, Effective
<1>2. ASSUME JInv, Next PROVE JInv'
  BY <1>2, TickJ, OpenJ, CloseJ, BeginJ, HydrateJ, MarkHubReadJ, MarkReadJ, CountUnreadJ,
     OtherReadsJ, AdvanceReadJ, FireJ, SendingJ, OtherReadsHubJ, OtherPublishesJ, OtherStartsJ DEF Next
<1> QED BY <1>1, <1>2

\* The invariant the runs check holds of every instance: no mark of a store, a
\* draft or an event is beyond what the user read, and the draft keeps up with
\* the store.
THEOREM Invariance == Spec => []IInv
<1>1. Spec => []JInv
  BY InitJ, StepJ, PTL DEF Spec
<1> QED BY <1>1, JInvIsIInv, PTL

\* A merge of marks never hides an unread message (NothingInvented).
THEOREM NothingIsInvented == Spec => []NothingInvented
<1>1. ASSUME JInv PROVE NothingInvented
  <2>1. ASSUME NEW m, NEW s, NEW k \in Key, Good(m, s, readAt, clock, domain)
        PROVE  Effective(m, s, k) <= readAt[k]
    BY <2>1 DEF Good, Effective
  <2> QED BY <1>1, <2>1 DEF JInv, Fine, NothingInvented
<1>2. Spec => []JInv
  BY InitJ, StepJ, PTL DEF Spec
<1> QED BY <1>1, <1>2, PTL

-----------------------------------------------------------------------------
(***************************************************************************)
(* What a step does to the marks. As the draft keeps up with the store,    *)
(* the draft tells what the user sees.                                     *)
(***************************************************************************)
LEMMA SeenByDraft ==
  JInv => /\ SeenMark = cache.seen
          /\ \A k \in Key : ReadTo(k) = Effective(cache.marks, cache.seen, k)
  BY DEF JInv, DraftCurrent, SeenMark, ReadTo, Running

\* A step leaves the draft alone or is a change of the store, made when store
\* and draft agree.
LEMMA Changes ==
  ASSUME JInv, Next
  PROVE  \/ cache' = cache
         \/ \E m \in Marks, s \in Time :
               /\ Becomes(m, s)
               /\ seen = cache.seen
               /\ \A k \in Key : ReadTo(k) = Effective(live, seen, k)
               /\ s >= seen
               /\ domain # "pc" => \A k \in Key : m[k] >= live[k]
<1>1. ASSUME Running, domain = "join" => phase # "open"
      PROVE  seen = cache.seen /\ \A k \in Key : ReadTo(k) = Effective(live, seen, k)
  BY <1>1 DEF JInv, DraftCurrent, ReadTo, Running
<1>2. /\ live \in Marks /\ seen \in Time /\ clock \in Time
      /\ \A k \in Key : /\ live[k] \in Int /\ live[k] <= clock
      /\ seen <= clock /\ seen >= seen
  <2>1. \A k \in Key : live[k] <= readAt[k] /\ readAt[k] <= clock /\ live[k] \in Mark /\ readAt[k] \in Time
    BY Before DEF JInv, Fine, Good, Marks
  <2>2. seen <= clock /\ seen \in Time
    BY DEF JInv, Fine, Good
  <2> QED BY <2>1, <2>2, Before DEF Mark, Time, NoMark
<1>3. ASSUME NEW k \in Key, MarkRead(k)
      PROVE  \E m \in Marks, s \in Time :
               /\ Becomes(m, s) /\ s >= seen
               /\ \A j \in Key : m[j] >= live[j]
  <2> DEFINE m == [live EXCEPT ![k] = clock]
  <2>1. m \in Marks /\ \A j \in Key : m[j] = IF j = k THEN clock ELSE live[j]
    BY <1>2, MarkChange, TimeInt
  <2>2. Becomes(m, seen)
    BY <1>3 DEF MarkRead
  <2> HIDE DEF m
  <2> QED BY <1>2, <2>1, <2>2
<1>4. ASSUME MarkHubRead
      PROVE  \E m \in Marks, s \in Time :
               /\ Becomes(m, s) /\ s >= seen
               /\ \A j \in Key : m[j] >= live[j]
  <2> DEFINE m == [k \in Key |-> IF live[k] = NoMark THEN NoMark ELSE clock]
  <2>1. m \in Marks /\ \A j \in Key : m[j] = IF live[j] = NoMark THEN NoMark ELSE clock
    BY <1>2, TimeInt DEF Marks
  <2>2. Becomes(m, clock)
    BY <1>4 DEF MarkHubRead
  <2> HIDE DEF m
  <2> QED BY <1>2, <2>1, <2>2
<1>5. ASSUME NEW k \in Key, NEW d \in Time, AdvanceRead(k, d)
      PROVE  \E m \in Marks, s \in Time :
               /\ Becomes(m, s) /\ s >= seen
               /\ \A j \in Key : m[j] >= live[j]
  <2> DEFINE ts == Larger(Effective(live, seen, k), Clamped(d))
  <2>1. PICK m \in {live, [live EXCEPT ![k] = ts]} : Becomes(m, seen)
    BY <1>5 DEF AdvanceRead
  <2>2. ts \in Time /\ ts >= live[k]
    <3>1. Effective(live, seen, k) \in Time /\ Effective(live, seen, k) >= live[k]
      <4>1. Effective(live, seen, k) \in Time
        BY <1>2, EffectiveInt
      <4> QED BY <4>1, <1>2 DEF Effective, Time
    <3>2. Clamped(d) \in Time
      BY <1>2 DEF Clamped
    <3>3. ts \in Time /\ ts \in {Effective(live, seen, k), Clamped(d)} /\ ts >= Effective(live, seen, k)
      BY <3>1, <3>2, LargerType DEF Larger, Time
    <3> QED BY <3>1, <3>3, <1>2 DEF Time
  <2> HIDE DEF ts
  <2>3. CASE m = live
    BY <2>1, <2>3, <1>2
  <2>4. CASE m = [live EXCEPT ![k] = ts]
    <3>1. /\ [live EXCEPT ![k] = ts] \in Marks
          /\ \A j \in Key : [live EXCEPT ![k] = ts][j] = IF j = k THEN ts ELSE live[j]
      BY <2>2, <1>2, MarkChange, TimeInt
    <3>2. m \in Marks /\ \A j \in Key : m[j] >= live[j]
      BY <3>1, <2>4, <2>2, <1>2
    <3> QED BY <3>2, <2>1, <1>2
  <2> QED BY <2>1, <2>3, <2>4
<1>6. ASSUME NEW k \in Key, CountUnread(k), cache' # cache
      PROVE  \E m \in Marks, s \in Time :
               /\ Becomes(m, s) /\ s >= seen
               /\ \A j \in Key : m[j] >= live[j]
  <2> DEFINE m == [live EXCEPT ![k] = 0]
  <2>1. m \in Marks /\ \A j \in Key : m[j] = IF j = k THEN 0 ELSE live[j]
    BY <1>2, MarkChange, TimeInt
  <2>2. Becomes(m, seen) /\ live[k] = NoMark
    BY <1>6 DEF CountUnread
  <2> HIDE DEF m
  <2> QED BY <1>2, <2>1, <2>2 DEF NoMark
<1>7. ASSUME Hydrate
      PROVE  \E m \in Marks, s \in Time :
               /\ Becomes(m, s) /\ s >= seen
               /\ domain # "pc" => \A j \in Key : m[j] >= live[j]
  <2>1. PICK e \in published \cup {Blank} :
           LET read == Preferred(draft, e)
           IN Becomes(Merged(live, read.marks), MergedSeen(seen, read.seen))
    BY <1>7 DEF Hydrate
  <2> DEFINE read == Preferred(draft, e)
  <2>2. read.marks \in Marks /\ read.seen \in Time
    BY PreferredGood DEF Good
  <2>3. Becomes(Merged(live, read.marks), MergedSeen(seen, read.seen))
    BY <2>1
  <2> HIDE DEF read
  <2>4. MergedSeen(seen, read.seen) \in Time /\ MergedSeen(seen, read.seen) >= seen
    BY <2>2, <1>2, LargerType, TimeInt DEF MergedSeen
  <2>5. /\ Merged(live, read.marks) \in Marks
        /\ domain # "pc" => \A j \in Key : Merged(live, read.marks)[j] >= live[j]
    <3>1. /\ Newest(live, read.marks) \in Marks
          /\ \A j \in Key : Newest(live, read.marks)[j] = Larger(live[j], read.marks[j])
      BY <1>2, <2>2, NewestType
    <3>2. \A j \in Key : live[j] \in Mark /\ read.marks[j] \in Mark
      BY <1>2, <2>2 DEF Marks
    <3>3. \A j \in Key : Larger(live[j], read.marks[j]) >= live[j]
      BY <3>2, LargerType
    <3> QED BY <2>2, <3>1, <3>3 DEF Merged
  <2> QED BY <2>3, <2>4, <2>5
<1>8. ASSUME cache' # cache
      PROVE  /\ Running
             /\ domain = "join" => phase # "open"
             /\ \/ MarkHubRead \/ Hydrate
                \/ \E k \in Key : MarkRead(k) \/ CountUnread(k) \/ \E d \in Time : AdvanceRead(k, d)
  BY <1>8 DEF Next, Tick, Open, Close, Begin, Hydrate, MarkHubRead, MarkRead, CountUnread, AdvanceRead,
     OtherReads, OtherReadsHub, OtherPublishes, OtherStarts, Fire, Throttle, Publish, SignFails, ThrottleEnds,
     Running
<1>9. SUFFICES ASSUME cache' # cache
               PROVE  \E m \in Marks, s \in Time :
                        /\ Becomes(m, s)
                        /\ seen = cache.seen
                        /\ \A k \in Key : ReadTo(k) = Effective(live, seen, k)
                        /\ s >= seen
                        /\ domain # "pc" => \A k \in Key : m[k] >= live[k]
  OBVIOUS
<1>10. seen = cache.seen /\ \A k \in Key : ReadTo(k) = Effective(live, seen, k)
  <2>1. Running
    BY <1>8, <1>9
  <2>2. domain = "join" => phase # "open"
    BY <1>8, <1>9
  <2> QED BY <1>1, <2>1, <2>2
<1>11. \E m \in Marks, s \in Time :
          /\ Becomes(m, s) /\ s >= seen
          /\ domain # "pc" => \A j \in Key : m[j] >= live[j]
  <2>1. CASE MarkHubRead
    BY <1>4, <2>1
  <2>2. CASE Hydrate
    BY <1>7, <2>2
  <2>3. CASE \E k \in Key : MarkRead(k)
    BY <1>3, <2>3
  <2>4. CASE \E k \in Key : CountUnread(k)
    BY <1>6, <1>9, <2>4
  <2>5. CASE \E k \in Key, d \in Time : AdvanceRead(k, d)
    BY <1>5, <2>5
  <2> QED BY <1>8, <1>9, <2>1, <2>2, <2>3, <2>4, <2>5
<1> QED BY <1>10, <1>11

\* Over every merge and restart the seen mark of a hub only moves forward.
THEOREM SeenMarkMovesForward == Spec => SeenMarkForward
<1>1. ASSUME JInv, JInv', [Next]_vars, SeenMark = cache.seen, SeenMark' = cache'.seen
      PROVE  SeenMark' >= SeenMark
  <2>1. CASE cache' = cache
    <3>1. cache.seen \in Int
      BY <1>1, Before, TimeInt
    <3> QED BY <1>1, <2>1, <3>1
  <2>2. CASE cache' # cache
    <3>1. Next
      BY <1>1, <2>2 DEF vars
    <3>2. PICK m \in Marks, s \in Time : Becomes(m, s) /\ seen = cache.seen /\ s >= seen
      BY <1>1, <2>2, <3>1, Changes
    <3>3. cache'.seen = s
      BY <1>1, <3>2, Before, BecomesDraft
    <3> QED BY <1>1, <3>2, <3>3
  <2> QED BY <2>1, <2>2
<1>2. Spec => []JInv
  BY InitJ, StepJ, PTL DEF Spec
<1>3. JInv => SeenMark = cache.seen
  BY SeenByDraft
<1>4. JInv' => SeenMark' = cache'.seen
  <2>1. JInv' => (SeenMark = cache.seen)'
    BY <1>3, PTL
  <2> QED BY <2>1
<1>5. JInv /\ JInv' /\ [Next]_vars => SeenMark' >= SeenMark
  BY <1>1, <1>3, <1>4
<1> QED BY <1>2, <1>5, PTL DEF Spec, SeenMarkForward

\* What was read stays read, whatever is merged and however often the device
\* is closed (NeverUnread).
THEOREM ReadStaysRead == Spec => NeverUnread
<1>1. ASSUME JInv, [Next]_vars, ~SeenMarkUsed, ~SeenMarkUsed', domain # "pc",
             \A k \in Key : ReadTo(k) = Effective(cache.marks, cache.seen, k),
             \A k \in Key : ReadTo(k)' = Effective(cache'.marks, cache'.seen, k)
      PROVE  \A k \in Key : ReadTo(k)' >= ReadTo(k)
  <2>1. CASE cache' = cache
    <3>1. \A k \in Key : Effective(cache.marks, cache.seen, k) \in Time
      BY <1>1, Before, EffectiveInt
    <3> QED BY <1>1, <2>1, <3>1 DEF Time
  <2>2. CASE cache' # cache
    <3>1. Next
      BY <1>1, <2>2 DEF vars
    <3>2. PICK m \in Marks, s \in Time :
             /\ Becomes(m, s) /\ seen = cache.seen /\ s >= seen
             /\ \A k \in Key : ReadTo(k) = Effective(live, seen, k)
             /\ \A k \in Key : m[k] >= live[k]
      BY <1>1, <2>2, <3>1, Changes
    <3>3. cache'.seen = s /\ \A k \in Key : Effective(cache'.marks, cache'.seen, k) = Effective(m, s, k)
      BY <1>1, <3>2, Before, BecomesDraft
    <3>4. s = 0 /\ seen = 0
      BY <1>1, <3>2, <3>3, Before DEF SeenMarkUsed, Time
    <3>5. ASSUME NEW k \in Key PROVE Effective(m, 0, k) >= Effective(live, 0, k)
      <4>1. m \in Marks /\ live \in Marks /\ m[k] >= live[k]
        BY <1>1, <3>2, Before
      <4>2. m[k] \in Int /\ live[k] \in Int
        BY <4>1, TimeInt DEF Marks
      <4> QED BY <4>1, <4>2 DEF Effective
    <3> QED BY <1>1, <3>2, <3>3, <3>4, <3>5
  <2> QED BY <2>1, <2>2
<1>2. JInv' => \A k \in Key : ReadTo(k)' = Effective(cache'.marks, cache'.seen, k)
  <2>1. JInv => \A k \in Key : ReadTo(k) = Effective(cache.marks, cache.seen, k)
    BY SeenByDraft
  <2>2. JInv' => (\A k \in Key : ReadTo(k) = Effective(cache.marks, cache.seen, k))'
    BY <2>1, PTL
  <2> QED BY <2>2
<1>3. Spec => []JInv
  BY InitJ, StepJ, PTL DEF Spec
<1>4. JInv /\ JInv' /\ [Next]_vars =>
        (domain = "pc" \/ SeenMarkUsed \/ SeenMarkUsed' \/ \A k \in Key : ReadTo(k)' >= ReadTo(k))
  BY <1>1, <1>2, SeenByDraft
<1> QED BY <1>3, <1>4, PTL DEF Spec, NeverUnread
=============================================================================
