------------------------- MODULE PublishFailover_proof -------------------------
(***************************************************************************)
(* publishWithFailover for any list of candidates and any target: its       *)
(* counters account for the answers (Accounted), so a short answer means    *)
(* an exhausted list, a reserve relay is bothered only after a failure, and *)
(* what is returned is stored (the refinement of Publish).                  *)
(***************************************************************************)
EXTENDS PublishFailover, FiniteSetTheorems, TLAPS

LEMMA FiniteParts ==
  ASSUME NEW S \in SUBSET Relays
  PROVE  IsFiniteSet(S) /\ Cardinality(S) \in Nat
<1>1. IsFiniteSet(Relays)
  BY FS_Interval, FailoverAssumption DEF Relays
<1> QED BY <1>1, FS_Subset, FS_CardinalityType

\* A set is counted by its parts inside and outside a batch.
LEMMA Split ==
  ASSUME NEW S \in SUBSET Relays, NEW B
  PROVE  Cardinality(S) = Cardinality(S \ B) + Cardinality(S \cap B)
<1>1. Cardinality(S \ B) = Cardinality(S) - Cardinality(S \cap B)
  BY FiniteParts, FS_Difference
<1>2. S \cap B \in SUBSET Relays /\ S \ B \in SUBSET Relays
  OBVIOUS
<1> QED BY <1>1, <1>2, FiniteParts

\* If more than n of the first n + 2 had accepted, there would be n: somebody of
\* them has failed when all have settled and fewer than Target have accepted.
LEMMA SomebodyFailed ==
  ASSUME TypeOK, Told, ~Enough, AllSettled(tried), tried >= Target + 2
  PROVE  \E q \in 1..(Target + 2) : Failed(q)
<1> SUFFICES ASSUME \A q \in 1..(Target + 2) : ~Failed(q)
             PROVE  FALSE
  OBVIOUS
<1>1. 1..(Target + 2) \subseteq Relays /\ 1..(Target + 2) \subseteq 1..tried
  BY FailoverAssumption DEF TypeOK, Relays
<1>2. 1..(Target + 2) \subseteq accepted
  BY <1>1 DEF AllSettled, Failed, Settled, Told
<1>3. Cardinality(1..(Target + 2)) = Target + 2
  BY FS_Interval, FailoverAssumption
<1>4. accepted \in SUBSET Relays
  BY DEF TypeOK
<1>5. Cardinality(1..(Target + 2)) <= Cardinality(accepted)
  <2>1. IsFiniteSet(accepted) /\ 1..(Target + 2) \in SUBSET accepted
    BY <1>2, <1>4, FiniteParts
  <2> QED BY <2>1, FS_Subset
<1> QED BY <1>3, <1>4, <1>5, FiniteParts, FailoverAssumption DEF Enough

LEMMA InitAccounted == Init => Accounted
  BY FailoverAssumption
     DEF Init, Accounted, TypeOK, Told, Batched, Extended, Answered, AllSettled, Settled, Relays

LEMMA LaunchAccounted ==
  ASSUME Accounted, Launch
  PROVE  Accounted'
<1> USE FailoverAssumption DEF Launch
<1>0. TypeOK /\ Told /\ Batched /\ Extended /\ Answered
  BY DEF Accounted
<1>1. accepted \in SUBSET Relays /\ Cardinality(accepted) \in Nat /\ ~Enough /\ tried < N
  BY <1>0, FiniteParts DEF TypeOK, More, Enough
<1>2. need' \in 1..Target /\ tried' \in (tried + 1)..N /\ tried \in 0..N
  BY <1>0, <1>1 DEF UpTo, More, TypeOK
<1>3. batch' = (tried + 1)..tried' /\ batch' \subseteq Relays /\ batch' \subseteq 1..tried'
  BY <1>2 DEF Relays
<1>4. \A r \in Relays : promise'[r] = IF r \in batch' THEN "pending" ELSE promise[r]
  OBVIOUS
<1>5. AllSettled(tried)
  BY <1>0, <1>1 DEF Batched
<1>6. TypeOK'
  BY <1>0, <1>2, <1>3 DEF TypeOK
<1>7. \A r \in Relays : r \in accepted => r <= tried
  BY <1>0, <1>2 DEF Told, Relays
<1>8. accepted \cap batch' = {}
  BY <1>1, <1>2, <1>3, <1>7 DEF Relays
<1>9. Told'
  <2>1. \A r \in Relays : promise'[r] = "unsent" <=> r > tried'
    BY <1>0, <1>2, <1>3, <1>4 DEF Told, Relays
  <2>2. \A r \in Relays : promise'[r] = "acked" <=> promise[r] = "acked"
    BY <1>0, <1>2, <1>3, <1>4 DEF Told, Relays
  <2> QED BY <1>0, <2>1, <2>2 DEF Told
<1>10. Batched'
  <2>1. \A r \in (1..tried') \ batch' : promise'[r] \in Settled
    BY <1>2, <1>3, <1>4, <1>5 DEF AllSettled, Relays
  <2>2. accepted' \ batch' = accepted
    BY <1>8
  <2> QED BY <1>3, <2>1, <2>2 DEF Batched
<1>11. Extended'
  <2>0. tried = 0 => need' = Target
    <3>1. SUFFICES ASSUME tried = 0 PROVE need' = Target
      OBVIOUS
    <3>2. accepted = {}
      BY <1>1, <1>7, <3>1 DEF Relays
    <3> QED BY <3>2, FS_EmptySet
  <2>1. tried' = N \/ tried' >= Target + 2
    <3>1. CASE tried = 0
      BY <1>2, <2>0, <3>1 DEF UpTo
    <3>2. CASE tried # 0
      BY <1>0, <1>1, <1>2, <3>2 DEF Extended
    <3> QED BY <3>1, <3>2
  <2>2. ASSUME tried' > Target + 2
        PROVE  \E q \in 1..(Target + 2) : Failed(q)'
    <3>1. tried # 0
      <4>1. SUFFICES ASSUME tried = 0 PROVE FALSE
        OBVIOUS
      <4> QED BY <2>0, <2>2, <4>1 DEF UpTo
    <3>2. tried >= Target + 2
      BY <1>0, <1>1, <1>2, <3>1 DEF Extended
    <3>3. PICK q \in 1..(Target + 2) : Failed(q)
      BY <1>0, <1>1, <1>5, <3>2, SomebodyFailed
    <3>4. q \in Relays /\ q \notin batch'
      BY <1>2, <1>3, <3>2 DEF Relays
    <3> QED BY <1>4, <3>3, <3>4 DEF Failed
  <2> QED BY <2>1, <2>2 DEF Extended
<1>12. Answered'
  BY DEF Answered
<1> QED BY <1>6, <1>9, <1>10, <1>11, <1>12 DEF Accounted

\* The common part of the two ways in which a relay's promise settles.
LEMMA AnswerAccounted ==
  ASSUME Accounted, NEW r \in Relays, NEW what \in Settled, Answer(r, what),
         accepted' = IF what = "acked" THEN accepted \cup {r} ELSE accepted,
         what = "acked" => r \in stored,
         UNCHANGED <<stored, tried, batch, need, result>>
  PROVE  Accounted'
<1> USE FailoverAssumption DEF Answer
<1>0. TypeOK /\ Told /\ Batched /\ Extended /\ Answered
  BY DEF Accounted
<1>1. /\ promise[r] = "pending" /\ promise[r] \notin Settled /\ promise'[r] = what
      /\ \A q \in Relays : q # r => promise'[q] = promise[q]
      /\ \A q \in Relays : promise[q] \in Settled => promise'[q] = promise[q]
      /\ \A q \in Relays : promise[q] \in Settled => promise'[q] \in Settled
  BY <1>0 DEF TypeOK, Settled
<1>2. TypeOK'
  BY <1>0 DEF TypeOK, Settled
<1>3. r \in 1..tried /\ tried \in 0..N /\ 1..tried \subseteq Relays
  BY <1>0, <1>1 DEF Told, TypeOK, Relays
<1>4. Told'
  BY <1>0, <1>1 DEF Told, Settled
<1>5. phase # "returned" \/ Cardinality(result) >= Target
  BY <1>0, <1>1 DEF Answered
<1>6. Answered'
  BY <1>5 DEF Answered
<1>7. Extended'
  BY <1>0, <1>1, <1>3 DEF Extended, Failed, Settled, TypeOK, Relays
<1>8. /\ accepted \in SUBSET Relays /\ accepted' \in SUBSET Relays /\ batch \in SUBSET Relays
      /\ Cardinality(accepted) \in Nat /\ Cardinality(accepted') \in Nat
  BY <1>0, <1>2, FiniteParts DEF TypeOK
<1>9. Batched'
  <2>1. CASE phase = "loop"
    <3>1. Enough
      BY <1>0, <1>1, <1>3, <2>1 DEF Batched, AllSettled
    <3>2. Cardinality(accepted) <= Cardinality(accepted')
      BY <1>8, FiniteParts, FS_Subset
    <3>3. Enough'
      BY <1>8, <3>1, <3>2 DEF Enough
    <3> QED BY <2>1, <3>3 DEF Batched
  <2>2. CASE phase = "batch"
    <3>1. /\ batch \subseteq 1..tried
          /\ \A q \in (1..tried) \ batch : promise[q] \in Settled
          /\ need = Target - Cardinality(accepted \ batch)
      BY <1>0, <2>2 DEF Batched
    <3>2. r \in batch
      BY <1>1, <1>3, <3>1
    <3>3. accepted' \ batch = accepted \ batch
      BY <3>2
    <3>4. \A q \in (1..tried) \ batch : promise'[q] \in Settled
      BY <1>1, <1>3, <3>1
    <3>5. CASE ~Finished(promise')
      <4>1. phase' = "batch"
        BY <2>2, <3>5
      <4> QED BY <3>1, <3>3, <3>4, <4>1 DEF Batched
    <3>6. CASE Finished(promise')
      <4>1. phase' = "loop"
        BY <2>2, <3>2, <3>6
      <4>2. CASE \A q \in batch : promise'[q] \in Settled
        <5>1. AllSettled(tried)'
          BY <3>4, <4>2 DEF AllSettled
        <5> QED BY <4>1, <5>1 DEF Batched
      <4>3. CASE Cardinality({q \in batch : promise'[q] = "acked"}) >= need
        <5>1. {q \in batch : promise'[q] = "acked"} = accepted' \cap batch
          BY <1>4, <1>8 DEF Told
        <5>2. Cardinality(accepted') = Cardinality(accepted' \ batch) + Cardinality(accepted' \cap batch)
          BY <1>8, Split
        <5>3. Cardinality(accepted' \ batch) \in Nat /\ Cardinality(accepted' \cap batch) \in Nat
          <6>1. accepted' \ batch \in SUBSET Relays /\ accepted' \cap batch \in SUBSET Relays
            BY <1>8
          <6> QED BY <6>1, FiniteParts
        <5>4. Cardinality(accepted' \cap batch) >= Target - Cardinality(accepted' \ batch)
          BY <3>1, <3>3, <4>3, <5>1
        <5>5. Cardinality(accepted') >= Target
          <6>1. \A n, i, j \in Nat : n = i + j /\ j >= Target - i => n >= Target
            OBVIOUS
          <6> QED BY ONLY <1>8, <5>2, <5>3, <5>4, <6>1
        <5> QED BY <4>1, <5>5 DEF Batched, Enough
      <4> QED BY <3>6, <4>2, <4>3 DEF Finished
    <3> QED BY <3>5, <3>6
  <2>3. CASE phase = "returned"
    BY <2>3 DEF Batched
  <2> QED BY <1>0, <2>1, <2>2, <2>3 DEF TypeOK
<1> QED BY <1>2, <1>4, <1>6, <1>7, <1>9 DEF Accounted

LEMMA NextAccounted ==
  ASSUME Accounted, [Next]_vars
  PROVE  Accounted'
<1>0. TypeOK /\ Told /\ Batched /\ Extended /\ Answered
  BY DEF Accounted
<1>1. CASE Launch
  BY <1>1, LaunchAccounted
<1>2. CASE Return
  <2>1. /\ accepted' = accepted /\ promise' = promise /\ tried' = tried /\ stored' = stored
        /\ result' = accepted /\ phase = "loop" /\ phase' = "returned" /\ batch' = batch /\ need' = need
    BY <1>2 DEF Return
  <2>2. accepted \in SUBSET Relays /\ Cardinality(accepted) \in Nat
    BY <1>0, FiniteParts DEF TypeOK
  <2>3. Enough \/ tried = N
    BY <1>0, <1>2, <2>2, FailoverAssumption DEF Return, More, Enough, TypeOK
  <2>4. Answered'
    <3>1. CASE Enough
      BY <2>1, <3>1 DEF Answered, Enough
    <3>2. CASE ~Enough
      <4>1. AllSettled(N)
        BY <1>0, <2>1, <2>3, <3>2 DEF Batched
      <4> QED BY <2>1, <4>1 DEF Answered, AllSettled, Relays
    <3> QED BY <3>1, <3>2
  <2>5. TypeOK' /\ Told' /\ Batched' /\ Extended'
    BY <1>0, <2>1, <2>2 DEF TypeOK, Told, Batched, Extended, Failed
  <2> QED BY <2>4, <2>5 DEF Accounted
<1>3. ASSUME NEW r \in Relays, Store(r) PROVE Accounted'
  <2>1. /\ stored' = stored \cup {r}
        /\ UNCHANGED <<promise, tried, batch, need, accepted, phase, result>>
    BY <1>3 DEF Store
  <2> QED BY <1>0, <2>1
          DEF Accounted, TypeOK, Told, Batched, Extended, Answered, Enough, AllSettled, Failed
<1>4. ASSUME NEW r \in Relays, Ack(r) PROVE Accounted'
  BY <1>4, AnswerAccounted DEF Ack, Settled
<1>5. ASSUME NEW r \in Relays, Fail(r) PROVE Accounted'
  <2>1. CASE Answer(r, "rejected")
    BY <1>5, <2>1, AnswerAccounted DEF Fail, Counted, Settled
  <2>2. CASE Answer(r, "timedout")
    BY <1>5, <2>2, AnswerAccounted DEF Fail, Counted, Settled
  <2> QED BY <1>5, <2>1, <2>2 DEF Fail
<1>6. CASE UNCHANGED vars
  BY <1>0, <1>6
     DEF vars, Accounted, TypeOK, Told, Batched, Extended, Answered, Enough, AllSettled, Failed
<1> QED BY <1>1, <1>2, <1>3, <1>4, <1>5, <1>6 DEF Next

-----------------------------------------------------------------------------
\* The counters of the loop of publishWithFailover account for every answer.
THEOREM AlwaysAccounted == Spec => []Accounted
<1> QED BY InitAccounted, NextAccounted, PTL DEF Spec

\* A short answer means that every candidate was tried and the others failed.
THEOREM ExhaustedIfShort == Spec => []ShortOnlyIfExhausted
<1>1. ASSUME Accounted PROVE ShortOnlyIfExhausted
  <2>1. TypeOK /\ Told /\ Answered
    BY <1>1 DEF Accounted
  <2>2. SUFFICES ASSUME phase = "returned", Cardinality(result) < Target,
                        NEW r \in Relays \ result
                 PROVE  promise[r] \in {"rejected", "timedout"}
    BY DEF ShortOnlyIfExhausted
  <2>3. Cardinality(result) \in Nat
    BY <2>1, FiniteParts DEF TypeOK
  <2>4. result = accepted /\ promise[r] \in Settled
    BY <2>1, <2>2, <2>3, FailoverAssumption DEF Answered
  <2> QED BY <2>1, <2>4 DEF Told, Settled
<1> QED BY <1>1, AlwaysAccounted, PTL

\* A relay behind the first batch is bothered only after one before it failed.
THEOREM ReserveOnlyOnFailure == Spec => []FailsOverOnFailure
<1>1. ASSUME Accounted PROVE FailsOverOnFailure
  <2>1. TypeOK /\ Told /\ Extended
    BY <1>1 DEF Accounted
  <2>2. SUFFICES ASSUME NEW r \in Relays, promise[r] # "unsent", r > Target + 2
                 PROVE  \E q \in Relays : q < r /\ promise[q] \in {"rejected", "timedout"}
    BY DEF FailsOverOnFailure
  <2>3. r <= tried /\ r \in Nat /\ r <= N
    BY <2>1, <2>2, FailoverAssumption DEF Told, Relays, TypeOK
  <2>4. PICK q \in 1..(Target + 2) : Failed(q)
    BY <2>1, <2>2, <2>3, FailoverAssumption DEF Extended, TypeOK
  <2>5. q \in Relays /\ q < r
    BY <2>2, <2>3, FailoverAssumption DEF Relays
  <2> QED BY <2>4, <2>5 DEF Failed
<1> QED BY <1>1, AlwaysAccounted, PTL

\* publishWithFailover implements the publish that its callers rely on: it reports
\* at most once, and only relays that hold the event.
THEOREM Implements == Spec => ImplementsPublish
<1>1. Init => Abstract!Init
  BY DEF Init, Abstract!Init
<1>2. ASSUME Accounted, [Next]_vars
      PROVE  [Abstract!Next]_<<stored, result, phase = "returned">>
  <2>0. TypeOK /\ Told
    BY <1>2 DEF Accounted
  <2>1. CASE Launch
    BY <2>1 DEF Launch
  <2>2. CASE Return
    <3>1. Abstract!Report
      BY <2>0, <2>2 DEF Return, Abstract!Report, Told
    <3> QED BY <3>1 DEF Abstract!Next
  <2>3. ASSUME NEW r \in Relays, Store(r)
        PROVE  Abstract!Store
    BY <2>3 DEF Store, Abstract!Store
  <2>4. ASSUME NEW r \in Relays, Ack(r) \/ Fail(r)
        PROVE  UNCHANGED <<stored, result, phase = "returned">>
    <3>1. UNCHANGED <<stored, result>>
      BY <2>4 DEF Ack, Fail
    <3>2. phase' = phase \/ (phase = "batch" /\ phase' = "loop")
      BY <2>4 DEF Ack, Fail, Answer
    <3> QED BY <3>1, <3>2
  <2>5. CASE UNCHANGED vars
    BY <2>5 DEF vars
  <2> QED BY <1>2, <2>1, <2>2, <2>3, <2>4, <2>5 DEF Next, Abstract!Next
<1> QED BY <1>1, <1>2, AlwaysAccounted, PTL DEF Spec, ImplementsPublish, Abstract!Spec

=============================================================================
