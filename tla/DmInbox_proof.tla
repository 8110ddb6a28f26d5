----------------------------- MODULE DmInbox_proof -----------------------------
(***************************************************************************)
(* The inbox loses nothing it has marked as processed: proof.              *)
(***************************************************************************)
EXTENDS DmInbox, TLAPS

(***************************************************************************)
(* Taking wraps into the conversation keeps what is there, takes all of    *)
(* them, and leaves no file waiting for a message that is shown.           *)
(***************************************************************************)
LEMMA Adding ==
    ASSUME TypeOK, FilesFound, NEW B \in SUBSET Wrap, Adds(B)
    PROVE  /\ shown' \in SUBSET Message /\ waiting' \in SUBSET File
           /\ attached' \in [Message -> File \cup {None}]
           /\ FilesFound'
           /\ \A w \in Wrap : Taken(w) \/ w \in B => Taken(w)'
<1> DEFINE new == New(B)
           files(m) == FilesOf(m, Takes(new)) \cup (IF m \in shown' THEN FilesOf(m, B) ELSE {})
<1>1. /\ shown' = shown \cup new
      /\ waiting' = (waiting \ Takes(new)) \cup {f \in B \cap File : Parent[f] \notin shown'}
      /\ attached' \in [Message -> File \cup {None}]
      /\ \A m \in Message : IF files(m) = {} THEN attached'[m] = attached[m]
                                             ELSE attached'[m] \in files(m)
  BY DEF Adds, Arrived
<1>2. new \subseteq Message
  BY DEF New
<1>3. shown' \in SUBSET Message /\ waiting' \in SUBSET File
  BY <1>1, <1>2 DEF TypeOK, Takes
<1>4. FilesFound'
  BY <1>1 DEF FilesFound, Takes
<1>5. \A m \in Message : files(m) # {} \/ attached[m] # None => attached'[m] # None
  <2>1. \A m \in Message : files(m) \subseteq File
    BY DEF FilesOf
  <2> QED BY <1>1, <2>1, InboxAssumption
<1>6. ASSUME NEW w \in Wrap, Taken(w) \/ w \in B PROVE Taken(w)'
  <2>1. CASE w \in shown \cup (B \cap Message)
    BY <1>1, <2>1 DEF Taken, New
  <2>2. CASE w \in waiting \ Takes(new)
    BY <1>1, <2>2 DEF Taken
  <2>3. CASE w \in Takes(new)
    <3>1. w \in File /\ w \in FilesOf(Parent[w], Takes(new)) /\ Parent[w] \in Message
      BY <2>3, InboxAssumption DEF Takes, FilesOf, TypeOK
    <3> QED BY <1>5, <3>1 DEF Taken
  <2>4. CASE w \in File /\ attached[Parent[w]] # None
    BY <1>5, <2>4, InboxAssumption DEF Taken
  <2>5. CASE w \in B \cap File
    <3>1. CASE Parent[w] \notin shown'
      BY <1>1, <2>5, <3>1 DEF Taken
    <3>2. CASE Parent[w] \in shown'
      <4>1. w \in FilesOf(Parent[w], B) /\ Parent[w] \in Message
        BY <2>5, InboxAssumption DEF FilesOf
      <4> QED BY <1>5, <2>5, <3>2, <4>1 DEF Taken
    <3> QED BY <3>1, <3>2
  <2> QED BY <1>6, <2>1, <2>2, <2>3, <2>4, <2>5 DEF Taken, Wrap
<1> QED BY <1>1, <1>3, <1>4, <1>6

\* A failed unwrap keeps the types of what it changes.
LEMMA Failing ==
    ASSUME TypeOK, NEW w \in Wrap, Failed(w), Transient(w)
    PROVE  /\ attempts' \in [Wrap -> 0..Retries] /\ timers' \in [Wrap -> Nat]
           /\ gaveUp' \in SUBSET Wrap /\ processed' \in SUBSET Wrap
           /\ failures' \in [Wrap -> Nat]
           /\ gaveUp \subseteq gaveUp' /\ processed' \subseteq processed \cup gaveUp'
<1>1. failures' \in [Wrap -> Nat]
  BY DEF Transient, TypeOK
<1>2. CASE attempts[w] >= Retries
  BY <1>1, <1>2, InboxAssumption DEF Failed, TypeOK
<1>3. CASE attempts[w] < Retries
  <2>1. attempts[w] + 1 \in 0..Retries
    BY <1>3, InboxAssumption DEF TypeOK
  <2>2. ~(attempts[w] >= Retries)
    BY <1>3, InboxAssumption DEF TypeOK
  <2> QED BY <1>1, <2>1, <2>2 DEF Failed, TypeOK
<1> QED BY <1>2, <1>3, InboxAssumption DEF TypeOK

LEMMA Initially == Init => IInv
<1> SUFFICES ASSUME Init PROVE IInv
  OBVIOUS
<1>1. TypeOK
  BY InboxAssumption DEF Init, TypeOK, Sub
<1> QED BY <1>1 DEF Init, IInv, NothingLost, FilesFound

\* What is processed stays accounted for by a step that loses nothing.
LEMMA Kept ==
    ASSUME NothingLost, TypeOK, processed' \subseteq processed \cup gaveUp', gaveUp \subseteq gaveUp',
           \A w \in Wrap : Taken(w) => Taken(w)',
           \A w \in Wrap : w \in Buffered => Taken(w)' \/ w \in Buffered'
    PROVE  NothingLost'
BY DEF NothingLost, TypeOK

LEMMA Step ==
    ASSUME IInv, [Next]_vars
    PROVE  IInv'
<1> USE DEF IInv
<1>1. CASE Start
  <2>1. sub' \in 0..MaxSub /\ sub' \in Sub
    BY <1>1, InboxAssumption DEF Start, TypeOK, Sub
  <2>2. TypeOK'
    BY <1>1, <2>1, InboxAssumption DEF Start, Replaces, TypeOK, chat
  <2>3. FilesFound' /\ \A w \in Wrap : Taken(w) => Taken(w)'
    BY <1>1 DEF Start, FilesFound, Taken, chat
  <2>4. Buffered \subseteq Buffered'
    BY <1>1 DEF Start, Replaces, Buffered
  <2>5. NothingLost'
    BY <1>1, <2>3, <2>4, Kept DEF Start
  <2> QED BY <2>2, <2>3, <2>5
<1>2. ASSUME NEW s \in Sub, Eose(s) PROVE IInv'
  <2>1. Adds(buffer[s]) /\ buffer[s] \in SUBSET Wrap
    BY <1>2 DEF Eose, TypeOK
  <2>2. FilesFound' /\ \A w \in Wrap : Taken(w) \/ w \in buffer[s] => Taken(w)'
    BY <2>1, Adding
  <2>3. TypeOK'
    <3>1. /\ shown' \in SUBSET Message /\ waiting' \in SUBSET File
          /\ attached' \in [Message -> File \cup {None}]
      BY <2>1, Adding
    <3> QED BY <1>2, <3>1 DEF Eose, TypeOK, retries
  <2>4. \A w \in Wrap : w \in Buffered => w \in buffer[s] \/ w \in Buffered'
    BY <1>2 DEF Eose, Buffered, TypeOK
  <2>5. NothingLost'
    BY <1>2, <2>2, <2>4, Kept DEF Eose, retries
  <2> QED BY <2>2, <2>3, <2>5
<1>3. ASSUME NEW s \in Sub, NEW w \in Wrap, Receive(s, w) PROVE IInv'
  <2>1. TypeOK'
    BY <1>3 DEF Receive, TypeOK, retries, chat
  <2>2. FilesFound' /\ \A v \in Wrap : Taken(v) => Taken(v)'
    BY <1>3 DEF Receive, FilesFound, Taken, chat
  <2>3. Buffered' = Buffered
    BY <1>3 DEF Receive, Buffered
  <2>4. NothingLost'
    BY <1>3, <2>2, <2>3, Kept DEF Receive, retries
  <2> QED BY <2>1, <2>2, <2>4
<1>4. ASSUME NEW s \in Sub, NEW w \in Wrap, Unwrapped(s, w) PROVE IInv'
  <2>1. /\ handling' \in SUBSET (Sub \X Wrap) /\ inflight' \in SUBSET Wrap
        /\ processed' = processed \cup {w} /\ processed' \in SUBSET Wrap
    BY <1>4 DEF Unwrapped, Ends, TypeOK
  <2>2. CASE s \in initial
    <3>1. buffer' = [buffer EXCEPT ![s] = @ \cup {w}] /\ UNCHANGED chat
      BY <1>4, <2>2 DEF Unwrapped
    <3>2. TypeOK'
      BY <1>4, <2>1, <3>1 DEF Unwrapped, TypeOK, subs, retries, chat
    <3>3. FilesFound' /\ \A v \in Wrap : Taken(v) => Taken(v)'
      BY <3>1 DEF FilesFound, Taken, chat
    <3>4. Buffered' = Buffered \cup {w}
      BY <1>4, <2>2, <3>1 DEF Unwrapped, Buffered, TypeOK, subs
    <3>5. NothingLost'
      BY <1>4, <2>1, <3>3, <3>4 DEF NothingLost, Unwrapped, retries, TypeOK
    <3> QED BY <3>2, <3>3, <3>5
  <2>3. CASE s \notin initial
    <3>1. Adds({w}) /\ UNCHANGED buffer
      BY <1>4, <2>3 DEF Unwrapped
    <3>2. /\ shown' \in SUBSET Message /\ waiting' \in SUBSET File
          /\ attached' \in [Message -> File \cup {None}]
          /\ FilesFound' /\ \A v \in Wrap : Taken(v) \/ v = w => Taken(v)'
      BY <3>1, Adding
    <3>3. TypeOK'
      BY <1>4, <2>1, <3>1, <3>2 DEF Unwrapped, TypeOK, subs, retries
    <3>4. Buffered' = Buffered
      BY <1>4, <3>1 DEF Unwrapped, Buffered, subs
    <3>5. NothingLost'
      BY <1>4, <2>1, <3>2, <3>4 DEF NothingLost, Unwrapped, retries, TypeOK
    <3> QED BY <3>2, <3>3, <3>5
  <2> QED BY <2>2, <2>3
<1>5. ASSUME NEW s \in Sub, NEW w \in Wrap, UnwrapFails(s, w) PROVE IInv'
  <2>1. handling' \in SUBSET (Sub \X Wrap) /\ inflight' \in SUBSET Wrap
    BY <1>5 DEF UnwrapFails, Ends, TypeOK
  <2>2. Failed(w) /\ Transient(w)
    BY <1>5 DEF UnwrapFails
  <2>3. TypeOK'
    BY <1>5, <2>1, <2>2, Failing DEF UnwrapFails, TypeOK, subs, chat
  <2>4. FilesFound' /\ \A v \in Wrap : Taken(v) => Taken(v)'
    BY <1>5 DEF UnwrapFails, FilesFound, Taken, chat
  <2>5. Buffered' = Buffered
    BY <1>5 DEF UnwrapFails, Buffered, subs
  <2>6. NothingLost'
    BY <2>2, <2>4, <2>5, Failing, Kept
  <2> QED BY <2>3, <2>4, <2>6
<1>6. ASSUME NEW w \in Wrap, Fire(w) PROVE IInv'
  <2>1. TypeOK'
    BY <1>6 DEF Fire, TypeOK, subs, unwraps, chat
  <2>2. FilesFound' /\ \A v \in Wrap : Taken(v) => Taken(v)'
    BY <1>6 DEF Fire, FilesFound, Taken, chat
  <2>3. Buffered' = Buffered
    BY <1>6 DEF Fire, Buffered, subs, unwraps
  <2>4. NothingLost'
    BY <1>6, <2>2, <2>3, Kept DEF Fire, unwraps
  <2> QED BY <2>1, <2>2, <2>4
<1>7. ASSUME NEW w \in Wrap, Retried(w) PROVE IInv'
  <2>1. /\ retrying' \in [Wrap -> Nat] /\ attempts' \in [Wrap -> 0..Retries]
        /\ processed' \in SUBSET Wrap /\ processed' = processed \cup {w}
    BY <1>7, InboxAssumption DEF Retried, TypeOK
  <2>2. Buffered' = Buffered
    BY <1>7 DEF Retried, Buffered, subs
  <2>3. CASE w \in processed
    <3>1. UNCHANGED chat
      BY <1>7, <2>3 DEF Retried
    <3>2. TypeOK'
      BY <1>7, <2>1, <3>1 DEF Retried, TypeOK, subs, chat
    <3>3. FilesFound' /\ \A v \in Wrap : Taken(v) => Taken(v)'
      BY <3>1 DEF FilesFound, Taken, chat
    <3>4. NothingLost'
      BY <1>7, <2>1, <2>2, <2>3, <3>3, Kept DEF Retried
    <3> QED BY <3>2, <3>3, <3>4
  <2>4. CASE w \notin processed
    <3>1. Adds({w})
      BY <1>7, <2>4 DEF Retried
    <3>2. /\ shown' \in SUBSET Message /\ waiting' \in SUBSET File
          /\ attached' \in [Message -> File \cup {None}]
          /\ FilesFound' /\ \A v \in Wrap : Taken(v) \/ v = w => Taken(v)'
      BY <3>1, Adding
    <3>3. TypeOK'
      BY <1>7, <2>1, <3>2 DEF Retried, TypeOK, subs
    <3>4. NothingLost'
      BY <1>7, <2>1, <2>2, <3>2 DEF NothingLost, Retried, TypeOK
    <3> QED BY <3>2, <3>3, <3>4
  <2> QED BY <2>3, <2>4
<1>8. ASSUME NEW w \in Wrap, RetryFails(w) PROVE IInv'
  <2>1. Failed(w) /\ Transient(w)
    BY <1>8 DEF RetryFails
  <2>2. retrying' \in [Wrap -> Nat]
    BY <1>8 DEF RetryFails, TypeOK
  <2>3. TypeOK'
    BY <1>8, <2>1, <2>2, Failing DEF RetryFails, TypeOK, subs, chat
  <2>4. FilesFound' /\ \A v \in Wrap : Taken(v) => Taken(v)'
    BY <1>8 DEF RetryFails, FilesFound, Taken, chat
  <2>5. Buffered' = Buffered
    BY <1>8 DEF RetryFails, Buffered, subs
  <2>6. NothingLost'
    BY <2>1, <2>4, <2>5, Failing, Kept
  <2> QED BY <2>3, <2>4, <2>6
<1>9. ASSUME NEW P \in SUBSET Wrap, LoadOlder(P) PROVE IInv'
  BY <1>9 DEF LoadOlder, TypeOK, NothingLost, FilesFound, Taken, Buffered, subs, unwraps, retries, chat
<1>10. ASSUME NEW w \in Wrap, OlderUnwrapped(w) PROVE IInv'
  <2>1. page' \in SUBSET Wrap /\ processed' = processed \cup {w} /\ processed' \in SUBSET Wrap
    BY <1>10 DEF OlderUnwrapped, FromPage, TypeOK
  <2>2. /\ shown' \in SUBSET Message /\ waiting' \in SUBSET File
        /\ attached' \in [Message -> File \cup {None}]
        /\ FilesFound' /\ \A v \in Wrap : Taken(v) \/ v = w => Taken(v)'
    BY <1>10, Adding DEF OlderUnwrapped
  <2>3. TypeOK'
    BY <1>10, <2>1, <2>2 DEF OlderUnwrapped, TypeOK, subs, retries
  <2>4. Buffered' = Buffered
    BY <1>10 DEF OlderUnwrapped, Buffered, subs
  <2>5. NothingLost'
    BY <1>10, <2>1, <2>2, <2>4 DEF NothingLost, OlderUnwrapped, TypeOK, retries
  <2> QED BY <2>2, <2>3, <2>5
<1>11. ASSUME NEW w \in Wrap, OlderFails(w) PROVE IInv'
  <2>1. Failed(w) /\ Transient(w)
    BY <1>11 DEF OlderFails
  <2>2. page' \in SUBSET Wrap
    BY <1>11 DEF OlderFails, FromPage, TypeOK
  <2>3. TypeOK'
    BY <1>11, <2>1, <2>2, Failing DEF OlderFails, TypeOK, subs, chat
  <2>4. FilesFound' /\ \A v \in Wrap : Taken(v) => Taken(v)'
    BY <1>11 DEF OlderFails, FilesFound, Taken, chat
  <2>5. Buffered' = Buffered
    BY <1>11 DEF OlderFails, Buffered, subs
  <2>6. NothingLost'
    BY <2>1, <2>4, <2>5, Failing, Kept
  <2> QED BY <2>3, <2>4, <2>6
<1>12. CASE Reissue
  <2>1. PICK w \in given[sub] : since' = [since EXCEPT ![sub] = Stamp[w] + 1]
    BY <1>12 DEF Reissue
  <2>2. sub \in Sub /\ w \in Wrap
    BY <1>12, InboxAssumption DEF Reissue, TypeOK, Sub
  <2>3. Stamp[w] + 1 \in Nat
    BY <2>2, InboxAssumption
  <2>4. since' \in [Sub -> Nat]
    BY <2>1, <2>2, <2>3 DEF TypeOK
  <2>5. TypeOK'
    BY <1>12, <2>4 DEF Reissue, TypeOK, unwraps, retries, chat
  <2>6. Buffered' = Buffered
    BY <1>12 DEF Reissue, Buffered, unwraps
  <2>7. NothingLost'
    BY <1>12, <2>6 DEF Reissue, NothingLost, Taken, unwraps, retries, chat
  <2>8. FilesFound'
    BY <1>12 DEF Reissue, FilesFound, chat
  <2> QED BY <2>5, <2>7, <2>8
<1>13. CASE UNCHANGED vars
  BY <1>13 DEF vars, TypeOK, NothingLost, FilesFound, Taken, Buffered, subs, unwraps, retries, chat
<1> QED
  BY <1>1, <1>2, <1>3, <1>4, <1>5, <1>6, <1>7, <1>8, <1>9, <1>10, <1>11, <1>12, <1>13 DEF Next

\* The inductive invariant of the inbox: types, and the two properties below.
THEOREM Invariance == Spec => []IInv
BY Initially, Step, PTL DEF Spec

\* A wrap that was marked as processed is shown, waits for its message, waits
\* for the flush of its subscription, or was given up: whatever subscriptions,
\* retries and pages of older messages do with it (processedWrapIds).
THEOREM NothingIsLost == Spec => []NothingLost
BY Invariance, PTL DEF IInv

\* No file waits for a message that is shown (pendingFileAttachments).
THEOREM FilesAreFound == Spec => []FilesFound
BY Invariance, PTL DEF IInv

=============================================================================
