---------------------------- MODULE PublishFailover ----------------------------
(***************************************************************************)
(* publishWithFailover of relay-pool.ts: an event is offered to a list of   *)
(* candidate relays, a batch at a time, until Target of them have accepted  *)
(* or the list is exhausted.  A batch ends as soon as enough of its relays  *)
(* have answered; the others keep publishing in the background.             *)
(* The candidates are numbered in the order in which they are tried: seed   *)
(* relays, then the pool, without duplicates, healthy ones first.           *)
(***************************************************************************)
EXTENDS Integers, FiniteSets

CONSTANTS N,        \* how many candidates there are
          Target    \* how many acceptances the caller wants

ASSUME FailoverAssumption == N \in Nat /\ Target \in Nat \ {0}

VARIABLES
    stored,     \* the relays that hold the event
    promise,    \* what the publisher knows of each relay
    tried,      \* i: how many candidates have been taken from the list
    batch,      \* the relays of the current batch
    need,       \* how many acceptances that batch is asked for
    accepted,   \* the relays counted as accepting
    phase,      \* between two batches, awaiting one, or returned
    result      \* the array handed to the caller

vars == <<stored, promise, tried, batch, need, accepted, phase, result>>

Relays == 1..N

Settled == {"acked", "rejected", "timedout"}

TypeOK ==
    /\ stored \subseteq Relays
    /\ promise \in [Relays -> {"unsent", "pending"} \cup Settled]
    /\ tried \in 0..N
    /\ batch \subseteq Relays
    /\ need \in 0..Target
    /\ accepted \subseteq Relays
    /\ phase \in {"loop", "batch", "returned"}
    /\ result \subseteq Relays

Init ==
    /\ stored = {} /\ accepted = {} /\ batch = {} /\ result = {}
    /\ promise = [r \in Relays |-> "unsent"]
    /\ tried = 0 /\ need = 0
    /\ phase = "loop"

\* The condition of the while loop.
More_LastLeftOut == Cardinality(accepted) < Target /\ tried < N - 1

More_Exhausted == Cardinality(accepted) < Target

More == Cardinality(accepted) < Target /\ tried < N

\* candidates.slice(i, i + need + 2) stops at the end of the list.
UpTo_Unbounded(wanted) == tried + wanted + 2

UpTo(wanted) == IF tried + wanted + 2 < N THEN tried + wanted + 2 ELSE N

\* The next batch: one for each missing acceptance and two to spare.
Launch ==
    /\ phase = "loop" /\ More
    /\ need' = Target - Cardinality(accepted)
    /\ tried' = UpTo(need')
    /\ batch' = (tried + 1)..tried'
    /\ promise' = [r \in Relays |-> IF r \in batch' THEN "pending" ELSE promise[r]]
    /\ phase' = "batch"
    /\ UNCHANGED <<stored, accepted, result>>

\* finish: enough of the batch have accepted, or all of it has settled.  The hard
\* cap, a second after the last timeout of the batch, only ever finds it settled.
Finished(answers) ==
    \/ Cardinality({r \in batch : answers[r] = "acked"}) >= need
    \/ \A r \in batch : answers[r] \in Settled

Answer(r, what) ==
    /\ promise[r] = "pending"
    /\ promise' = [promise EXCEPT ![r] = what]
    /\ phase' = IF phase = "batch" /\ r \in batch /\ Finished(promise') THEN "loop" ELSE phase

\* A relay stores the event, whether or not the publisher still waits.
Store(r) ==
    /\ promise[r] \in {"pending", "timedout"} /\ r \notin stored
    /\ stored' = stored \cup {r}
    /\ UNCHANGED <<promise, tried, batch, need, accepted, phase, result>>

\* Its OK reaches the publisher.
Ack(r) ==
    /\ r \in stored
    /\ Answer(r, "acked")
    /\ accepted' = accepted \cup {r}
    /\ UNCHANGED <<stored, tried, batch, need, result>>

\* The relay refuses, or says nothing for PUBLISH_TIMEOUT_MS.
Counted_Settled(r) == accepted \cup {r}

Counted(r) == accepted

Fail(r) ==
    /\ \/ r \notin stored /\ Answer(r, "rejected")
       \/ Answer(r, "timedout")
    /\ accepted' = Counted(r)
    /\ UNCHANGED <<stored, tried, batch, need, result>>

Return ==
    /\ phase = "loop" /\ ~More
    /\ phase' = "returned" /\ result' = accepted
    /\ UNCHANGED <<stored, promise, tried, batch, need, accepted>>

Next ==
    \/ Launch \/ Return
    \/ \E r \in Relays : Store(r) \/ Ack(r) \/ Fail(r)

Spec == Init /\ [][Next]_vars

\* Timers fire and the loop goes on; relays owe nothing.
Fairness ==
    /\ WF_vars(Launch) /\ WF_vars(Return)
    /\ \A r \in Relays : WF_vars(Fail(r))

FairSpec == Spec /\ Fairness

-----------------------------------------------------------------------------
\* What the caller is told is true, and a relay may still store the event later:
\* the abstraction that HubMutation makes of a publish.
Abstract == INSTANCE Publish WITH reported <- result, over <- phase = "returned"

ImplementsPublish == Abstract!Spec

\* A relay that is not among the first Target + 2 is bothered only after a
\* healthier one has failed.
FailsOverOnFailure ==
    \A r \in Relays :
       promise[r] # "unsent" /\ r > Target + 2
          => \E q \in Relays : q < r /\ promise[q] \in {"rejected", "timedout"}

\* A short answer means that every candidate was tried and all the others failed:
\* "as long as ANY reachable relay in the candidate list accepts writes, the
\* event lands".
ShortOnlyIfExhausted ==
    phase = "returned" /\ Cardinality(result) < Target
       => \A r \in Relays \ result : promise[r] \in {"rejected", "timedout"}

-----------------------------------------------------------------------------
(* Why it works: the inductive invariant.                                   *)

Failed(r) == promise[r] \in {"rejected", "timedout"}

Enough == Cardinality(accepted) >= Target

AllSettled(n) == \A r \in 1..n : promise[r] \in Settled

\* The loop counts exactly the relays that said OK, and those hold the event.
Told ==
    /\ accepted = {r \in Relays : promise[r] = "acked"}
    /\ accepted \subseteq stored
    /\ \A r \in Relays : promise[r] = "unsent" <=> r > tried

\* Between two batches nothing is pending, unless enough have accepted; a batch
\* asks for what the ones before it left open.
Batched ==
    /\ phase = "loop" => Enough \/ AllSettled(tried)
    /\ phase = "batch" =>
          /\ batch \subseteq 1..tried
          /\ \A r \in (1..tried) \ batch : promise[r] \in Settled
          /\ need = Target - Cardinality(accepted \ batch)

\* The first batch takes Target + 2; a second one means that one of those failed.
Extended ==
    /\ tried = 0 \/ tried = N \/ tried >= Target + 2
    /\ tried > Target + 2 => \E q \in 1..(Target + 2) : Failed(q)

\* What was returned is short only when the list was exhausted and all settled.
Answered ==
    phase = "returned" =>
       \/ Cardinality(result) >= Target
       \/ result = accepted /\ \A r \in Relays : promise[r] \in Settled

\* At every moment of the loop its counters account for the answers so far.
Accounted == TypeOK /\ Told /\ Batched /\ Extended /\ Answered

-----------------------------------------------------------------------------
\* One unresponsive relay never keeps the caller waiting.
Returns == <>(phase = "returned")

=============================================================================
